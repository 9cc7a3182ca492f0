---------------------------- MODULE GhProcessProofs ----------------------------
(***************************************************************************)
(* Proofs that a call of gh answers whole, that its cap is exact, that one *)
(* that gives up leaves nothing behind and that its pipes never block the  *)
(* child, for every cap, size of pipe and amount of output.  The invariant *)
(* accounts for each chunk: it is owed, in the pipe, with its reader, or   *)
(* the one that broke the cap.                                             *)
(***************************************************************************)
EXTENDS GhProcess, TLAPS

Places == {"polling", "expired", "abandon", "join_stdout", "join_stderr", "returned"}
Results == {"none", "timed_out", "wait_failed", "read_failed", "ok", "not_utf8",
            "exited_with_failure"}

\* The range of each variable.
TypeOK == /\ run \in Places /\ result \in Results /\ late \in BOOLEAN
          /\ child \in Alive \cup {"exited", "reaped"}
          /\ status \in {"none", "success", "failure"}
          /\ helper \in {"none", "in_group", "escaped", "gone"}
          /\ output \in [Stream -> Nat] /\ owed \in [Stream -> Nat]
          /\ pipe \in [Stream -> Nat] /\ got \in [Stream -> Nat]
          /\ reader \in [Stream -> {"reading", "done"} \cup Failed]

\* No chunk is lost or read twice.
Accounted == \A s \in Stream :
    /\ reader[s] # "over_cap" => output[s] = owed[s] + pipe[s] + got[s]
    /\ reader[s] = "over_cap" => output[s] = owed[s] + pipe[s] + got[s] + 1

\* A reader keeps no more than the cap, and refuses only beyond it.
Capped == \A s \in Stream : /\ got[s] <= MaxOutput
                            /\ reader[s] = "over_cap" => got[s] = MaxOutput

\* A reader that saw the end of its pipe saw it empty, with nobody to fill it.
Drained == \A s \in Stream : reader[s] = "done" => pipe[s] = 0 /\ ~WritersAlive

\* A child that succeeds has written everything, and is over.
SuccessIsComplete == status = "success" => /\ child \notin Alive
                                           /\ \A s \in Stream : owed[s] = 0

\* The second join comes after the first one succeeded.
Joined == run = "join_stderr" => reader["stdout"] = "done"

\* What was answered was taken from readers that saw the end.
Answered == result \in {"ok", "not_utf8"} =>
               \A s \in Stream : reader[s] = "done" /\ owed[s] = 0

IInv == /\ TypeOK /\ Accounted /\ Capped /\ Drained /\ SuccessIsComplete
        /\ Joined /\ Answered /\ TreeIsGone
-----------------------------------------------------------------------------
\* The parts of the invariant imply what the runs check.
LEMMA InvariantSuffices == IInv => OkIsWhole /\ CapIsExact /\ TreeIsGone /\ NoPipeDeadlock
<1> SUFFICES ASSUME IInv PROVE OkIsWhole /\ CapIsExact /\ NoPipeDeadlock
  BY DEF IInv
<1> USE GhAssumption DEF IInv, TypeOK, Accounted
<1>1. OkIsWhole
  BY DEF Answered, Drained, OkIsWhole
<1>2. ASSUME NEW s \in Stream
      PROVE  /\ reader[s] = "over_cap" => Written(s) > MaxOutput
             /\ reader[s] = "done" /\ owed[s] = 0 => output[s] <= MaxOutput
  <2>1. /\ output[s] \in Nat /\ owed[s] \in Nat /\ pipe[s] \in Nat /\ got[s] \in Nat
        /\ got[s] <= MaxOutput
        /\ reader[s] = "over_cap" => got[s] = MaxOutput
        /\ reader[s] = "done" => pipe[s] = 0
    BY <1>2 DEF Capped, Drained
  <2>2. /\ reader[s] # "over_cap" => output[s] = owed[s] + pipe[s] + got[s]
        /\ reader[s] = "over_cap" => output[s] = owed[s] + pipe[s] + got[s] + 1
    BY <1>2
  <2>. QED  BY <2>1, <2>2 DEF Written
\* A pipe that is full is one that can be read; a reader that is done means
\* that no child runs.
<1>3. ASSUME NEW s \in Stream, child = "running", owed[s] > 0
      PROVE  CanWrite(s) \/ CanRead(s) \/ reader[s] \in Failed
  <2>1. reader[s] \in {"reading", "done"} \cup Failed /\ pipe[s] \in Nat
    BY <1>3
  <2>2. reader[s] # "done"
    BY <1>3 DEF Drained, WritersAlive, Alive
  <2>3. CASE pipe[s] < PipeCapacity
    BY <1>3, <2>1, <2>2, <2>3 DEF CanWrite
  <2>4. CASE ~(pipe[s] < PipeCapacity)
    BY <2>1, <2>2, <2>4 DEF CanRead, MayRead
  <2>. QED  BY <2>3, <2>4
<1>. QED  BY <1>1, <1>2, <1>3 DEF CapIsExact, NoPipeDeadlock

LEMMA InitInvariant == Init => IInv
<1> SUFFICES ASSUME Init PROVE IInv
  OBVIOUS
<1> USE GhAssumption DEF Init
<1>1. output \in [Stream -> Nat]
  OBVIOUS
<1>2. TypeOK
  BY <1>1 DEF TypeOK, Places, Results, Alive
<1>3. Accounted /\ Capped
  BY <1>1 DEF Accounted, Capped
<1>4. Drained /\ SuccessIsComplete /\ Joined /\ Answered /\ TreeIsGone
  BY DEF Drained, SuccessIsComplete, Joined, Answered, TreeIsGone
<1>. QED  BY <1>2, <1>3, <1>4 DEF IInv

\* What gh and its helper do.
LEMMA ProcessesKeepInvariant ==
    ASSUME IInv, \/ ChildProgress \/ ChildCrash \/ ChildHang
                 \/ HelperStart \/ HelperEscape \/ HelperExit
    PROVE  IInv'
<1> USE DEF IInv, TypeOK, Accounted, Capped, Drained, WritersAlive, SuccessIsComplete,
            Joined, Answered, TreeIsGone, Stream, Alive, Failed, processes, streams
<1>1. ASSUME NEW s \in Stream, ChildWrite(s) PROVE IInv'
  BY <1>1 DEF ChildWrite, CanWrite
<1>2. CASE ChildExit
  BY <1>2 DEF ChildExit
<1>3. CASE ChildCrash
  BY <1>3 DEF ChildCrash
<1>4. CASE ChildHang
  BY <1>4 DEF ChildHang
<1>5. CASE HelperStart
  BY <1>5 DEF HelperStart
<1>6. CASE HelperEscape
  BY <1>6 DEF HelperEscape
<1>7. CASE HelperExit
  BY <1>7 DEF HelperExit
<1>. QED  BY <1>1, <1>2, <1>3, <1>4, <1>5, <1>6, <1>7 DEF ChildProgress

\* What the two readers do.
LEMMA ReadersKeepInvariant ==
    ASSUME IInv, NEW s \in Stream, ReadChunk(s) \/ ReadEnd(s) \/ ReadError(s)
    PROVE  IInv'
<1> USE GhAssumption
    DEF IInv, TypeOK, Stream, Failed, processes, Joined, Answered, TreeIsGone
<1>1. CASE ReadChunk(s)
  <2> USE <1>1 DEF ReadChunk, CanRead, OverCap
  <2>1. TypeOK'
    OBVIOUS
  <2>2. Accounted'
    <3>1. CASE OverCap(got[s] + 1)
      BY <3>1 DEF Accounted, Capped
    <3>2. CASE ~OverCap(got[s] + 1)
      BY <3>2 DEF Accounted
    <3>. QED  BY <3>1, <3>2
  <2>3. Capped'
    BY DEF Capped
  <2>4. Drained' /\ SuccessIsComplete'
    BY DEF Drained, WritersAlive, SuccessIsComplete
  <2>. QED  BY <2>1, <2>2, <2>3, <2>4
<1>2. CASE ReadEnd(s)
  BY <1>2 DEF ReadEnd, Accounted, Capped, Drained, WritersAlive, SuccessIsComplete
<1>3. CASE ReadError(s)
  BY <1>3 DEF ReadError, Accounted, Capped, Drained, WritersAlive, SuccessIsComplete
<1>. QED  BY <1>1, <1>2, <1>3

\* What `run` does, and the deadline.
LEMMA RunKeepsInvariant ==
    ASSUME IInv, Run \/ WaitFails \/ Deadline
    PROVE  IInv'
<1> USE DEF IInv, TypeOK, Stream, Places, Results, Alive, Failed, processes, streams
<1>1. CASE Exited
  BY <1>1 DEF Exited, Accounted, Capped, Drained, WritersAlive, SuccessIsComplete, Joined,
              Answered, TreeIsGone
<1>2. ASSUME NEW reason \in {"timed_out", "wait_failed"}, GiveUp(reason) PROVE IInv'
  <2>1. TypeOK' /\ TreeIsGone'
    BY <1>2 DEF GiveUp, Terminate, HelperAfterKill, TreeIsGone
  <2>2. Accounted' /\ Capped' /\ Drained' /\ SuccessIsComplete'
    BY <1>2 DEF GiveUp, Terminate, HelperAfterKill, Accounted, Capped, Drained, WritersAlive,
                SuccessIsComplete
  <2>3. Joined' /\ Answered'
    BY <1>2 DEF GiveUp, Joined, Answered
  <2>. QED  BY <2>1, <2>2, <2>3
<1>3. CASE Expire
  BY <1>3 DEF Expire, Accounted, Capped, Drained, WritersAlive, SuccessIsComplete, Joined,
              Answered, TreeIsGone
<1>4. CASE Abandon
  BY <1>4 DEF Abandon, Return, Accounted, Capped, Drained, WritersAlive, SuccessIsComplete,
              Joined, Answered, TreeIsGone
<1>5. CASE JoinStdout
  BY <1>5 DEF JoinStdout, Joinable, Return, Accounted, Capped, Drained, WritersAlive,
              SuccessIsComplete, Joined, Answered, TreeIsGone
<1>6. CASE JoinStderr
  BY <1>6 DEF JoinStderr, Joinable, Return, Accounted, Capped, Drained, WritersAlive,
              SuccessIsComplete, Joined, Answered, TreeIsGone
<1>7. CASE Deadline
  BY <1>7 DEF Deadline, Accounted, Capped, Drained, WritersAlive, SuccessIsComplete, Joined,
              Answered, TreeIsGone
<1>. QED  BY <1>1, <1>2, <1>3, <1>4, <1>5, <1>6, <1>7 DEF Run, TimeOut, WaitFails

\* Every step keeps the invariant.
THEOREM InvariantHolds == Spec => []IInv
<1>1. IInv /\ [Next]_vars => IInv'
  <2>1. ASSUME IInv, Next PROVE IInv'
    BY <2>1, ProcessesKeepInvariant, ReadersKeepInvariant, RunKeepsInvariant DEF Next
  <2>2. ASSUME IInv, UNCHANGED vars PROVE IInv'
    BY <2>2 DEF vars, processes, streams, IInv, TypeOK, Accounted, Capped, Drained,
                WritersAlive, SuccessIsComplete, Joined, Answered, TreeIsGone
  <2>. QED  BY <2>1, <2>2
<1>. QED  BY <1>1, InitInvariant, PTL DEF Spec

\* A call answers with everything its child wrote, however the child, the
\* readers and the deadline interleave.
THEOREM AnswersAreWhole == Spec => []OkIsWhole
  BY InvariantHolds, InvariantSuffices, PTL

\* The cap refuses exactly the output above it, whatever it is set to.
THEOREM TheCapIsExact == Spec => []CapIsExact
  BY InvariantHolds, InvariantSuffices, PTL

\* A call that gives up leaves neither its child nor anything of its group.
THEOREM NothingIsLeftBehind == Spec => []TreeIsGone
  BY InvariantHolds, InvariantSuffices, PTL

\* A child that owes output is never blocked on a pipe that no reader drains,
\* whatever the pipe holds and however much is owed on either stream.
THEOREM PipesNeverBlock == Spec => []NoPipeDeadlock
  BY InvariantHolds, InvariantSuffices, PTL
=============================================================================
