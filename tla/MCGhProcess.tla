------------------------------ MODULE MCGhProcess ------------------------------
(* GhProcess for TLC: output from nothing to one chunk over the cap.        *)
EXTENDS GhProcess

\* The exact cap, and a pipe smaller than what may be owed, are both reached.
ASSUME BoundsReachTheCap == MaxOwed > MaxOutput /\ MaxOwed > PipeCapacity
=============================================================================
