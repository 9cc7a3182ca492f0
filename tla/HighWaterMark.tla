---------------------------- MODULE HighWaterMark ----------------------------
(***************************************************************************)
(* What the revision ledger promises about one run: a mark that is only    *)
(* ever raised.  Under one revision there is one payload and one key, and  *)
(* no revision comes back.                                                 *)
(***************************************************************************)
EXTENDS Naturals

CONSTANTS Mark,     \* records with a field `revision`
          NoMark

VARIABLE mark

Init == mark = NoMark

Raise == /\ mark' \in Mark
         /\ mark = NoMark \/ mark'.revision > mark.revision

Spec == Init /\ [][Raise]_mark
=============================================================================
