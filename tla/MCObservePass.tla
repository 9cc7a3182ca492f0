---------------------------- MODULE MCObservePass ----------------------------
(***************************************************************************)
(* TLC instances of the observe pass.  Issue numbers are 1, 2, ...; all    *)
(* issues belong to r1, so a name that moves to r2 lists none.             *)
(***************************************************************************)
EXTENDS ObservePass

CONSTANTS p1, p2, r1, r2, main, next, NumberOfIssues

MCRoutes == {}
MCRouteMode == <<>>
MCWorkspaceOf == [Attended |-> "Worktree", Unattended |-> "EphemeralClone"]
MCRepoOf == [i \in 1..NumberOfIssues |-> r1]
=============================================================================
