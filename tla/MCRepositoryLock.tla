-------------------------- MODULE MCRepositoryLock --------------------------
(* TLC instance of the repository lock: three processes.                    *)
EXTENDS RepositoryLock

CONSTANTS p1, p2, p3

MCProcess == {p1, p2, p3}
=============================================================================
