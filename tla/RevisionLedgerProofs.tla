------------------------ MODULE RevisionLedgerProofs ------------------------
(***************************************************************************)
(* TLAPS proofs for RevisionLedger: for any callers, digests, keys and     *)
(* bound, the calls only raise the mark while the lock is respected, and   *)
(* a call that died may be made again.                                     *)
(***************************************************************************)
EXTENDS RevisionLedger, TLAPS

\* The stages of a call tell its fields.
LEMMA CallFields ==
    ASSUME NEW c \in Call
    PROVE  /\ c.stage \in Stage
           /\ c.stage \in {"prepare", "check_key", "write", "confirm"} =>
                 c.args \in Argument /\ c = [stage |-> c.stage, args |-> c.args]
           /\ c.stage = "write_confirmed" =>
                 /\ c.args \in Argument /\ c.read \in Anchor
                 /\ c = [stage |-> c.stage, args |-> c.args, read |-> c.read]
           /\ c.stage = "none" => c = NoCall
  BY DEF Call, Stage, NoCall

\* No anchor, no holder and no call.
LEMMA InitIInv == Init => IInv
  BY DEF Init, IInv, TypeOK, NoCall, Call, At

\* Every action keeps IInv: a call is made and finished under the lock.
LEMMA NextIInv == IInv /\ [Next]_vars => IInv'
  <1> SUFFICES ASSUME IInv, [Next]_vars PROVE IInv'
    OBVIOUS
  <1> USE LedgerAssumption, CallFields DEF IInv, TypeOK, At, Return
  <1>1. ASSUME NEW p \in Process, Acquire(p) PROVE IInv'
    BY <1>1 DEF Acquire
  <1>2. ASSUME NEW p \in Process, Release(p) PROVE IInv'
    BY <1>2 DEF Release
  <1>3. ASSUME NEW p \in Process, Crash(p) PROVE IInv'
    BY <1>3 DEF Crash, NoCall, Call
  <1>4. ASSUME NEW p \in Process, NEW args \in Argument, Prepare(p, args) PROVE IInv'
    BY <1>4 DEF Prepare, MayCall, ValidRevision, Call, Stage
  <1>5. ASSUME NEW p \in Process, NEW args \in Argument, Confirm(p, args) PROVE IInv'
    BY <1>5 DEF Confirm, MayCall, ValidRevision, Call, Stage
  <1>6. ASSUME NEW p \in Process, AssertFresh(p) PROVE IInv'
    BY <1>6 DEF AssertFresh, Call, Stage
  <1>7. ASSUME NEW p \in Process, CheckKey(p) PROVE IInv'
    BY <1>7 DEF CheckKey, Call, Stage
  <1>8. ASSUME NEW p \in Process, WriteAnchor(p) PROVE IInv'
    BY <1>8 DEF WriteAnchor, NoCall, Call, Anchor, Argument
  <1>9. ASSUME NEW p \in Process, ReadToConfirm(p) PROVE IInv'
    BY <1>9 DEF ReadToConfirm, Matches, Call, Stage
  <1>10. ASSUME NEW p \in Process, WriteConfirmed(p) PROVE IInv'
    <2>1. call[p].read = anchor /\ anchor \in Anchor /\ holder = p
      BY <1>10 DEF WriteConfirmed
    <2>2. anchor' = [anchor EXCEPT !.confirmed = TRUE] /\ anchor' \in Anchor
      BY <1>10, <2>1 DEF WriteConfirmed, Anchor
    <2>3. call' = [call EXCEPT ![p] = NoCall] /\ UNCHANGED holder
      BY <1>10 DEF WriteConfirmed
    <2>4. \A q \in Process : call'[q].stage # "none" => call'[q] = call[q] /\ q = p
      BY <2>1, <2>3 DEF NoCall
    <2> QED  BY <2>1, <2>2, <2>3, <2>4 DEF NoCall, Call
  <1>11. ASSUME NEW p \in Process, Refuse(p) PROVE IInv'
    BY <1>11 DEF Refuse, NoCall, Call
  <1>12. CASE UNCHANGED vars
    BY <1>12 DEF vars, Fresh, KeyConflict, Matches
  <1> QED
    BY <1>1, <1>2, <1>3, <1>4, <1>5, <1>6, <1>7, <1>8, <1>9, <1>10, <1>11, <1>12
    DEF Next, Step

\* The inductive invariant holds of every behaviour.
THEOREM Invariance == Spec => []IInv
  BY InitIInv, NextIInv, PTL DEF Spec

\* Type correctness: revision 0 is never recorded.
THEOREM TypeCorrect == Spec => []TypeOK
  <1>1. IInv => TypeOK  BY DEF IInv
  <1> QED  BY <1>1, Invariance, PTL

\* The calls implement the high-water mark: no rollback and no fork.
THEOREM RefinesHighWaterMark == Spec => ImplementsHighWaterMark
  <1> DEFINE Recorded(a) == IF a = NoAnchor THEN NoAnchor ELSE MarkOf(a)
  <1>1. Init => HighWater!Init
    BY DEF Init, HighWater!Init
  <1>2. IInv /\ [Next]_vars => [HighWater!Raise]_(Recorded(anchor))
    <2> SUFFICES ASSUME IInv, Next, Recorded(anchor)' # Recorded(anchor)
                 PROVE  HighWater!Raise
      BY DEF vars
    <2>1. PICK p \in Process : WriteAnchor(p) \/ WriteConfirmed(p)
      BY DEF Next, Step, Acquire, Release, Crash, Prepare, Confirm, AssertFresh,
             CheckKey, ReadToConfirm, Refuse
    <2>2. CASE WriteAnchor(p)
      <3> DEFINE args == call[p].args
      <3>1. /\ args \in Argument /\ args.revision # 0
            /\ Fresh(anchor, args) /\ ~KeyConflict(anchor, args)
        BY <2>2, CallFields DEF IInv, TypeOK, WriteAnchor, At
      <3>2. anchor' = [revision |-> args.revision,
                       payload_digest |-> args.payload_digest,
                       key_id |-> args.key_id, confirmed |-> FALSE]
        BY <2>2 DEF WriteAnchor
      <3>3. /\ MarkOf(anchor') \in Mark /\ anchor' # NoAnchor
            /\ MarkOf(anchor') = args
        <4>1. /\ args = [revision |-> args.revision,
                         payload_digest |-> args.payload_digest,
                         key_id |-> args.key_id]
              /\ args.revision \in 1..MaxRevision
              /\ args.payload_digest \in Digest /\ args.key_id \in Key
          BY <3>1, LedgerAssumption DEF Argument
        <4>2. anchor' \in Anchor
          BY <3>2, <4>1 DEF Anchor
        <4>3. MarkOf(anchor') = args
          BY <3>2, <4>1 DEF MarkOf
        <4>4. args \in Mark
          BY <4>1 DEF Mark
        <4> HIDE DEF args
        <4> QED  BY <4>2, <4>3, <4>4, LedgerAssumption
      <3>4. CASE anchor = NoAnchor
        BY <3>3, <3>4 DEF HighWater!Raise, Mark
      <3>5. CASE anchor \in Anchor /\ args.revision > anchor.revision
        BY <3>3, <3>5, LedgerAssumption DEF HighWater!Raise, Mark, MarkOf
      <3>6. CASE /\ anchor \in Anchor
                 /\ args.revision = anchor.revision
                 /\ args.payload_digest = anchor.payload_digest
        <4>1. args.key_id = anchor.key_id
          BY <3>1, <3>6, LedgerAssumption DEF KeyConflict
        <4>2. anchor # NoAnchor
          BY <3>6, LedgerAssumption
        <4>3. MarkOf(anchor') = MarkOf(anchor)
          BY <3>2, <3>6, <4>1 DEF MarkOf
        <4> QED  BY <3>3, <4>2, <4>3
      <3> QED  BY <3>1, <3>4, <3>5, <3>6 DEF Fresh, IInv, TypeOK
    <2>3. CASE WriteConfirmed(p)
      <3>1. anchor' = [anchor EXCEPT !.confirmed = TRUE] /\ anchor \in Anchor
        BY <2>3, CallFields DEF IInv, TypeOK, WriteConfirmed, At
      <3>2. MarkOf(anchor') = MarkOf(anchor) /\ anchor' \in Anchor
        BY <3>1 DEF MarkOf, Anchor
      <3> QED  BY <3>1, <3>2, LedgerAssumption
    <2> QED  BY <2>1, <2>2, <2>3
  <1> QED
    BY <1>1, <1>2, Invariance, PTL DEF Spec, ImplementsHighWaterMark, HighWater!Spec

\* A confirmation is of its caller's payload and changes nothing else.
THEOREM ConfirmationsAreExact == Spec => ConfirmOnlyConfirms
  <1> DEFINE Exact == \A p \in Process : WriteConfirmed(p) =>
                         /\ anchor # NoAnchor
                         /\ MarkOf(anchor') = MarkOf(anchor)
                         /\ anchor'.revision = call[p].args.revision
                         /\ anchor'.payload_digest = call[p].args.payload_digest
  <1>1. IInv /\ [Next]_vars => [Exact]_vars
    <2> SUFFICES ASSUME IInv, NEW p \in Process, WriteConfirmed(p)
                 PROVE  /\ anchor # NoAnchor
                        /\ MarkOf(anchor') = MarkOf(anchor)
                        /\ anchor'.revision = call[p].args.revision
                        /\ anchor'.payload_digest = call[p].args.payload_digest
      OBVIOUS
    <2>1. /\ anchor \in Anchor /\ Matches(anchor, call[p].args)
          /\ anchor' = [anchor EXCEPT !.confirmed = TRUE]
      BY CallFields DEF IInv, TypeOK, WriteConfirmed, At
    <2>2. /\ anchor' \in Anchor /\ MarkOf(anchor') = MarkOf(anchor)
          /\ anchor'.revision = anchor.revision
          /\ anchor'.payload_digest = anchor.payload_digest
      BY <2>1 DEF MarkOf, Anchor
    <2> QED  BY <2>1, <2>2, LedgerAssumption DEF Matches
  <1> QED  BY <1>1, Invariance, PTL DEF Spec, ConfirmOnlyConfirms

\* prepare accepts again what it recorded, or was about to record when it died,
\* and confirm accepts what prepare recorded.
THEOREM RetriesAreAccepted == Spec => RetryIsAccepted
  <1> DEFINE Accepted(args) == Fresh(anchor', args) /\ ~KeyConflict(anchor', args)
             Retry(p, args) == /\ WriteAnchor(p) => Accepted(args) /\ Matches(anchor', args)
                               /\ At(p, "write") /\ Crash(p) => Accepted(args)
             Retries == \A p \in Process : Retry(p, call[p].args)
  <1>1. IInv /\ [Next]_vars => [Retries]_vars
    <2> SUFFICES ASSUME IInv, NEW p \in Process PROVE Retry(p, call[p].args)
      OBVIOUS
    <2> DEFINE args == call[p].args
    <2>1. ASSUME WriteAnchor(p) PROVE Accepted(args) /\ Matches(anchor', args)
      <3>1. args \in Argument /\ args.revision # 0
        BY <2>1, CallFields DEF IInv, TypeOK, WriteAnchor, At
      <3>2. anchor' = [revision |-> args.revision, payload_digest |-> args.payload_digest,
                       key_id |-> args.key_id, confirmed |-> FALSE]
        BY <2>1 DEF WriteAnchor
      <3> HIDE DEF args
      <3>3. anchor' \in Anchor
        BY <3>1, <3>2, LedgerAssumption DEF Argument, Anchor
      <3> QED BY <3>2, <3>3, LedgerAssumption DEF Fresh, KeyConflict, Matches
    <2>2. ASSUME At(p, "write"), Crash(p) PROVE Accepted(args)
      BY <2>2 DEF IInv, At, Crash, Fresh, KeyConflict
    <2> QED BY <2>1, <2>2
  <1> QED  BY <1>1, Invariance, PTL DEF Spec, RetryIsAccepted
=============================================================================
