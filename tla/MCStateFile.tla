------------------------------ MODULE MCStateFile ------------------------------
(* StateFile for TLC: two writers, one reader, two temporary names.         *)
EXTENDS StateFile, TLC

Interchangeable == Permutations(Writer) \cup Permutations(Temp)
=============================================================================
