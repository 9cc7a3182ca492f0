------------------------------- MODULE GhProcess -------------------------------
(***************************************************************************)
(* One call of gh: github.rs run, the two threads that read its output     *)
(* (read_bounded) and the loop that waits for it until a deadline.         *)
(*                                                                         *)
(* The child owes some output on each stream, in chunks of one read, and   *)
(* exits once it has written it; it may also hang, crash, or start a       *)
(* helper process that inherits both pipes, outlives it and may leave its  *)
(* process group.  A call that cannot spawn gh returns at once and is left *)
(* out.                                                                    *)
(***************************************************************************)
EXTENDS Naturals

CONSTANTS MaxOwed,        \* bound on the chunks owed on one stream
          MaxOutput,      \* MAX_OUTPUT_BYTES, in chunks
          PipeCapacity    \* what a pipe holds, in chunks

ASSUME GhAssumption == /\ MaxOwed \in Nat /\ MaxOutput \in Nat
                       /\ PipeCapacity \in Nat \ {0}

VARIABLES run,      \* where `run` is
          result,   \* what it returned
          late,     \* the deadline has passed
          child, status, helper,
          output,   \* what the child is to write on each stream
          owed,     \* what of it is not yet written
          pipe,     \* what is written and not yet read
          got,      \* what each reader has
          reader    \* where each reader is

streams == <<output, owed, pipe, got, reader>>
processes == <<child, status, helper>>
vars == <<run, result, late, processes, streams>>

Stream == {"stdout", "stderr"}
Alive == {"running", "hung"}
Failed == {"over_cap", "read_error"}

Init == /\ run = "polling" /\ result = "none" /\ late = FALSE
        /\ child = "running" /\ status = "none" /\ helper = "none"
        /\ output \in [Stream -> 0..MaxOwed]
        /\ owed = output
        /\ pipe = [s \in Stream |-> 0]
        /\ got = [s \in Stream |-> 0]
        /\ reader = [s \in Stream |-> "reading"]

Written(s) == output[s] - owed[s]

\* Someone holds the write ends.
WritersAlive == child \in Alive \/ helper \in {"in_group", "escaped"}
-----------------------------------------------------------------------------
(* Faulty variants.                                                         *)

HelperAfterKill_LeaderOnly == helper

OverCap_OffByOne(n) == n >= MaxOutput

PastDeadline_Restarted == FALSE

MayRead_InTurn(s) == s = "stderr" => reader["stdout"] # "reading"

Joinable_AtExit(s) == TRUE
-----------------------------------------------------------------------------
(* gh and what it starts.                                                   *)

CanWrite(s) == /\ child = "running"
               /\ owed[s] > 0 /\ pipe[s] < PipeCapacity
               /\ reader[s] = "reading"

ChildWrite(s) == /\ CanWrite(s)
                 /\ owed' = [owed EXCEPT ![s] = @ - 1]
                 /\ pipe' = [pipe EXCEPT ![s] = @ + 1]
                 /\ UNCHANGED <<run, result, late, processes, output, got, reader>>

\* It exits when it has written everything, or on a broken pipe.
ChildExit == /\ child = "running"
             /\ \/ /\ \A s \in Stream : owed[s] = 0
                   /\ status' \in {"success", "failure"}
                \/ /\ \E s \in Stream : reader[s] \in Failed
                   /\ status' = "failure"
             /\ child' = "exited"
             /\ UNCHANGED <<run, result, late, helper, streams>>

ChildCrash == /\ child \in Alive
              /\ child' = "exited" /\ status' = "failure"
              /\ UNCHANGED <<run, result, late, helper, streams>>

ChildHang == /\ child = "running"
             /\ child' = "hung"
             /\ UNCHANGED <<run, result, late, status, helper, streams>>

HelperStart == /\ child = "running" /\ helper = "none"
               /\ helper' = "in_group"
               /\ UNCHANGED <<run, result, late, child, status, streams>>

HelperEscape == /\ helper = "in_group"
                /\ helper' = "escaped"
                /\ UNCHANGED <<run, result, late, child, status, streams>>

HelperExit == /\ helper \in {"in_group", "escaped"}
              /\ helper' = "gone"
              /\ UNCHANGED <<run, result, late, child, status, streams>>
-----------------------------------------------------------------------------
(* read_bounded.                                                            *)

OverCap(n) == n > MaxOutput

\* Each stream has a thread of its own.
MayRead(s) == TRUE

CanRead(s) == reader[s] = "reading" /\ MayRead(s) /\ pipe[s] > 0

ReadChunk(s) == /\ CanRead(s)
                /\ pipe' = [pipe EXCEPT ![s] = @ - 1]
                /\ LET n == got[s] + 1
                   IN  IF OverCap(n)
                       THEN reader' = [reader EXCEPT ![s] = "over_cap"] /\ UNCHANGED got
                       ELSE got' = [got EXCEPT ![s] = n] /\ UNCHANGED reader
                /\ UNCHANGED <<run, result, late, processes, output, owed>>

ReadEnd(s) == /\ reader[s] = "reading" /\ MayRead(s)
              /\ pipe[s] = 0 /\ ~WritersAlive
              /\ reader' = [reader EXCEPT ![s] = "done"]
              /\ UNCHANGED <<run, result, late, processes, output, owed, pipe, got>>

ReadError(s) == /\ reader[s] = "reading"
                /\ reader' = [reader EXCEPT ![s] = "read_error"]
                /\ UNCHANGED <<run, result, late, processes, output, owed, pipe, got>>
-----------------------------------------------------------------------------
(* run.                                                                     *)

\* kill_process_group: a helper that left the group is out of reach.
HelperAfterKill == IF helper = "in_group" THEN "gone" ELSE helper

Terminate == /\ child' = "reaped"
             /\ status' = IF child \in Alive THEN "failure" ELSE status
             /\ helper' = HelperAfterKill

\* try_wait finds the child exited, before it looks at the clock.
Exited == /\ run = "polling" /\ child = "exited"
          /\ child' = "reaped"
          /\ run' = "join_stdout"
          /\ UNCHANGED <<result, late, status, helper, streams>>

GiveUp(reason) == /\ Terminate
                  /\ run' = "abandon"
                  /\ result' = reason
                  /\ UNCHANGED <<late, streams>>

PastDeadline == late

\* try_wait found the child running and the clock is past the deadline; it may
\* still exit before it is killed.
Expire == /\ run = "polling" /\ child \in Alive /\ PastDeadline
          /\ run' = "expired"
          /\ UNCHANGED <<result, late, processes, streams>>

TimeOut == run = "expired" /\ GiveUp("timed_out")

WaitFails == run = "polling" /\ GiveUp("wait_failed")

Joinable(s) == reader[s] # "reading"

Return(r) == /\ run' = "returned"
             /\ result' = r
             /\ UNCHANGED <<late, processes, streams>>

\* Both joins of a call that has given up.
Abandon == /\ run = "abandon"
           /\ \A s \in Stream : Joinable(s)
           /\ Return(result)

\* A reader's error ends the call without the other join.
JoinStdout == /\ run = "join_stdout" /\ Joinable("stdout")
              /\ IF reader["stdout"] \in Failed
                 THEN Return("read_failed")
                 ELSE /\ run' = "join_stderr"
                      /\ UNCHANGED <<result, late, processes, streams>>

JoinStderr == /\ run = "join_stderr" /\ Joinable("stderr")
              /\ \E r \in IF reader["stderr"] \in Failed THEN {"read_failed"}
                         ELSE IF status = "success" THEN {"ok", "not_utf8"}
                         ELSE {"exited_with_failure"} : Return(r)

Run == Exited \/ Expire \/ TimeOut \/ Abandon \/ JoinStdout \/ JoinStderr

Deadline == ~late /\ late' = TRUE /\ UNCHANGED <<run, result, processes, streams>>
-----------------------------------------------------------------------------
ChildProgress == ChildExit \/ \E s \in Stream : ChildWrite(s)

Next == \/ ChildProgress \/ ChildCrash \/ ChildHang
        \/ HelperStart \/ HelperEscape \/ HelperExit
        \/ \E s \in Stream : ReadChunk(s) \/ ReadEnd(s) \/ ReadError(s)
        \/ Run \/ WaitFails \/ Deadline

\* The scheduler runs the three threads, a child that has not hung goes on, and
\* the deadline passes.
Fairness == /\ WF_vars(Run)
            /\ WF_vars(ChildProgress)
            /\ \A s \in Stream : WF_vars(ReadChunk(s)) /\ WF_vars(ReadEnd(s))
            /\ WF_vars(Deadline)

Spec == Init /\ [][Next]_vars /\ Fairness

SpecHelpersEnd == Spec /\ WF_vars(HelperExit)
-----------------------------------------------------------------------------
\* A call answers with everything its child wrote and nothing less, although
\* the child's exit, the readers and the deadline race.
OkIsWhole == result \in {"ok", "not_utf8"} => \A s \in Stream : owed[s] = 0 /\ got[s] = output[s]

\* The cap refuses output above it, and only that.
CapIsExact == \A s \in Stream :
    /\ reader[s] = "over_cap" => Written(s) > MaxOutput
    /\ reader[s] = "done" /\ owed[s] = 0 => output[s] <= MaxOutput

\* A call that gives up leaves no child behind, nor anything in its group.
TreeIsGone == result \in {"timed_out", "wait_failed"} =>
                 child = "reaped" /\ helper # "in_group"

\* Whatever gh does, the call returns, if the processes gh starts end.
RunReturns == <>(run = "returned")

\* No deadline is needed for a child that writes and exits: it is never left
\* blocked on one pipe while `run` waits for the end of the other, nor is its
\* reader gone without having failed, which breaks the pipe.
NoPipeDeadlock == \A s \in Stream :
    child = "running" /\ owed[s] > 0 => CanWrite(s) \/ CanRead(s) \/ reader[s] \in Failed

\* github.rs:6-7: "a fixed timeout plus output cap prevents a stuck or
\* unbounded helper": once the deadline has passed, the call returns.
TimeoutPreventsStuck == late ~> run = "returned"
=============================================================================
