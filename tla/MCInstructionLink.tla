--------------------------- MODULE MCInstructionLink ---------------------------
(* InstructionLink for TLC: interchangeable commands.                       *)
EXTENDS InstructionLink, TLC

Interchangeable == Permutations(Linker)
=============================================================================
