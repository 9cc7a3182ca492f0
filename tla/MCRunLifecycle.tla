--------------------------- MODULE MCRunLifecycle ---------------------------
(***************************************************************************)
(* TLC instance of the run lifecycle, and a claim of the documentation.     *)
(***************************************************************************)
EXTENDS RunLifecycle

\* SPEC.md:343-372 draws the states of a run, with the wait for approval apart:
\* a run in review stays there for "repair, re-review, or wait for checks", and
\* one that awaits approval returns to it when its binding changes.
Shown == INSTANCE LifecycleDiagram WITH
            stage  <- IF run.phase = "AwaitingApproval" THEN "AwaitingApproval" ELSE run.state,
            stored <- IF run.state # "NeedsHuman" THEN None
                      ELSE IF pausedAt.phase = "AwaitingApproval" THEN "AwaitingApproval"
                      ELSE pausedAt.state

StateFollowsDiagram == Shown!Spec
=============================================================================
