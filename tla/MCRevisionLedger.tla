-------------------------- MODULE MCRevisionLedger --------------------------
(* TLC instance of the revision ledger: two callers, two digests, two keys. *)
EXTENDS RevisionLedger, TLC

CONSTANTS p1, p2, d1, d2, k1, k2

Callers == {p1, p2}
Digests == {d1, d2}
Keys == {k1, k2}

Interchangeable == Permutations(Callers) \cup Permutations(Digests)
                     \cup Permutations(Keys)
=============================================================================
