-------------------------- MODULE RepositoryMutex --------------------------
(***************************************************************************)
(* What RepositoryLock promises its callers: one holder per repository, no *)
(* waiting, and a lock that a dead or failing holder does not keep.        *)
(***************************************************************************)
CONSTANTS Process, NoProcess

VARIABLE holder

Init == holder = NoProcess

Acquire(p) == holder = NoProcess /\ holder' = p

\* Released, or lost with its process.
Release(p) == holder = p /\ holder' = NoProcess

Next == \E p \in Process : Acquire(p) \/ Release(p)

Spec == Init /\ [][Next]_holder
=============================================================================
