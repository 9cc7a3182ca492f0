---------------------------- MODULE RevisionLedger ----------------------------
(***************************************************************************)
(* The local revision ledger of security.rs for one run: the anchor file,  *)
(* and the calls prepare and confirm, which read it, decide, and replace   *)
(* it.  The ledger takes no lock of its own: its callers hold the lock of  *)
(* the run's repository (SPEC.md:448), here RepositoryMutex.               *)
(*                                                                         *)
(* Replacing the anchor is one step, the promise of atomic_write_json.     *)
(* Digests and keys are opaque; a malformed anchor is not written by any   *)
(* call and so does not occur.                                             *)
(***************************************************************************)
EXTENDS Naturals

CONSTANTS Process, NoProcess,
          Digest, Key,
          MaxRevision,      \* bound on the revisions callers present
          NoAnchor          \* no file yet

Mark == [revision : 1..MaxRevision, payload_digest : Digest, key_id : Key]
Anchor == [revision : 1..MaxRevision, payload_digest : Digest, key_id : Key,
           confirmed : BOOLEAN]

ASSUME LedgerAssumption == /\ MaxRevision \in Nat
                           /\ NoProcess \notin Process
                           /\ NoAnchor \notin Mark \cup Anchor

VARIABLES anchor,   \* the file
          holder,   \* who has the repository lock
          call      \* the call each process is in

vars == <<anchor, holder, call>>

\* The arguments of a call.  confirm takes no key: its argument is unused.
Argument == [revision : 0..MaxRevision, payload_digest : Digest, key_id : Key]

Stage == {"none", "prepare", "check_key", "write", "confirm", "write_confirmed"}

\* `read` is the anchor a confirm has read, which it writes back.
NoCall == [stage |-> "none"]
Call == [stage : Stage \ {"none", "write_confirmed"}, args : Argument]
          \cup [stage : {"write_confirmed"}, args : Argument, read : Anchor]
          \cup {NoCall}

Init == /\ anchor = NoAnchor
        /\ holder = NoProcess
        /\ call = [p \in Process |-> NoCall]

MarkOf(a) == [revision |-> a.revision, payload_digest |-> a.payload_digest,
              key_id |-> a.key_id]

At(p, stage) == call[p].stage = stage

Return(p) == call' = [call EXCEPT ![p] = NoCall]

-----------------------------------------------------------------------------
(* Faulty variants.                                                         *)

MayCall_Unlocked(p) == At(p, "none")

Matches_RevisionOnly(a, args) == a # NoAnchor /\ a.revision = args.revision

KeyConflict_Ignored(a, args) == FALSE

\* What is recorded already is stale.
Fresh_RaisedOnly(a, args) == a # NoAnchor => args.revision > a.revision
-----------------------------------------------------------------------------
(* The checks.                                                              *)

\* validate_revision_input.
ValidRevision(n) == n # 0

\* assert_fresh: "metadata_rollback" and "metadata_fork".
Fresh(a, args) ==
    a # NoAnchor =>
       \/ args.revision > a.revision
       \/ args.revision = a.revision /\ args.payload_digest = a.payload_digest

\* prepare: the same revision under another key is a fork too.
KeyConflict(a, args) ==
    a # NoAnchor /\ a.revision = args.revision /\ a.key_id # args.key_id

\* confirm: "revision_confirmation_mismatch" otherwise.
Matches(a, args) == /\ a # NoAnchor
                    /\ a.revision = args.revision
                    /\ a.payload_digest = args.payload_digest

\* A process calls the ledger between two calls, holding the repository lock.
MayCall(p) == At(p, "none") /\ holder = p
-----------------------------------------------------------------------------
(* Calls.                                                                   *)

Prepare(p, args) ==
    /\ MayCall(p)
    /\ ValidRevision(args.revision)
    /\ call' = [call EXCEPT ![p] = [stage |-> "prepare", args |-> args]]
    /\ UNCHANGED <<anchor, holder>>

\* The first read of the anchor, by assert_fresh.
AssertFresh(p) ==
    /\ At(p, "prepare")
    /\ Fresh(anchor, call[p].args)
    /\ call' = [call EXCEPT ![p].stage = "check_key"]
    /\ UNCHANGED <<anchor, holder>>

\* The second read, for the key.
CheckKey(p) ==
    /\ At(p, "check_key")
    /\ ~KeyConflict(anchor, call[p].args)
    /\ call' = [call EXCEPT ![p].stage = "write"]
    /\ UNCHANGED <<anchor, holder>>

WriteAnchor(p) ==
    /\ At(p, "write")
    /\ LET args == call[p].args
       IN  anchor' = [revision |-> args.revision, payload_digest |-> args.payload_digest,
                      key_id |-> args.key_id, confirmed |-> FALSE]
    /\ Return(p)
    /\ UNCHANGED holder

Confirm(p, args) ==
    /\ MayCall(p)
    /\ ValidRevision(args.revision)
    /\ call' = [call EXCEPT ![p] = [stage |-> "confirm", args |-> args]]
    /\ UNCHANGED <<anchor, holder>>

ReadToConfirm(p) ==
    /\ At(p, "confirm")
    /\ Matches(anchor, call[p].args)
    /\ call' = [call EXCEPT ![p] = [stage |-> "write_confirmed",
                                    args  |-> call[p].args, read |-> anchor]]
    /\ UNCHANGED <<anchor, holder>>

WriteConfirmed(p) ==
    /\ At(p, "write_confirmed")
    /\ anchor' = [call[p].read EXCEPT !.confirmed = TRUE]
    /\ Return(p)
    /\ UNCHANGED holder

\* A check refuses, or reading or writing the file fails.
Refuse(p) == ~At(p, "none") /\ Return(p) /\ UNCHANGED <<anchor, holder>>

-----------------------------------------------------------------------------
(* Callers.                                                                 *)

Acquire(p) == /\ holder = NoProcess
              /\ holder' = p
              /\ UNCHANGED <<anchor, call>>

Release(p) == /\ holder = p /\ At(p, "none")
              /\ holder' = NoProcess
              /\ UNCHANGED <<anchor, call>>

\* The process dies in the middle of a call, between prepare and publication,
\* or between publication and confirm.
Crash(p) == /\ Return(p)
            /\ holder' = IF holder = p THEN NoProcess ELSE holder
            /\ UNCHANGED anchor

Step(p) == \/ AssertFresh(p) \/ CheckKey(p) \/ WriteAnchor(p)
           \/ ReadToConfirm(p) \/ WriteConfirmed(p) \/ Refuse(p)

Next == \E p \in Process :
           \/ Acquire(p) \/ Release(p) \/ Crash(p) \/ Step(p)
           \/ \E args \in Argument : Prepare(p, args) \/ Confirm(p, args)

Spec == Init /\ [][Next]_vars

HighWater == INSTANCE HighWaterMark WITH
                mark   <- IF anchor = NoAnchor THEN NoAnchor ELSE MarkOf(anchor),
                NoMark <- NoAnchor
-----------------------------------------------------------------------------
\* Type invariant: among the rest, revision 0 is never recorded.
TypeOK == /\ anchor \in Anchor \cup {NoAnchor}
          /\ holder \in Process \cup {NoProcess}
          /\ call \in [Process -> Call]

\* prepare and confirm only ever raise the mark, although each reads the file
\* once or twice and writes it later, and whatever is in flight when a caller
\* dies: no revision comes back, and one revision never gets a second payload
\* or key.
ImplementsHighWaterMark == HighWater!Spec

\* A confirmation is of the payload its caller names, and changes nothing else:
\* it neither undoes a later prepare nor confirms another payload.
ConfirmOnlyConfirms ==
    [][\A p \in Process : WriteConfirmed(p) =>
          /\ anchor # NoAnchor
          /\ MarkOf(anchor') = MarkOf(anchor)
          /\ anchor'.revision = call[p].args.revision
          /\ anchor'.payload_digest = call[p].args.payload_digest]_vars

\* A call that dies may be made again: what prepare recorded it accepts once
\* more, and confirm accepts it, so a crash before publication or before the
\* confirmation is repaired by a retry; and what it was about to record when it
\* died it still accepts.
RetryIsAccepted ==
    [][\A p \in Process :
         LET args     == call[p].args
             Accepted == Fresh(anchor', args) /\ ~KeyConflict(anchor', args)
         IN  /\ WriteAnchor(p) => Accepted /\ Matches(anchor', args)
             /\ At(p, "write") /\ Crash(p) => Accepted]_vars
-----------------------------------------------------------------------------
\* The inductive invariant: only the holder is inside a call, and what it has
\* checked is still true of the file when it writes.
IInv == /\ TypeOK
        /\ \A p \in Process : ~At(p, "none") => holder = p
        /\ \A p \in Process :
             /\ call[p].stage \in {"prepare", "check_key", "write", "confirm"} =>
                   call[p].args.revision # 0
             /\ call[p].stage \in {"check_key", "write"} => Fresh(anchor, call[p].args)
             /\ At(p, "write") => ~KeyConflict(anchor, call[p].args)
             /\ At(p, "write_confirmed") => /\ call[p].read = anchor
                                            /\ Matches(anchor, call[p].args)
=============================================================================
