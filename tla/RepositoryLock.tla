--------------------------- MODULE RepositoryLock ---------------------------
(***************************************************************************)
(* The per-repository OS lock of infra.rs: one lock file, an advisory lock *)
(* on it that the kernel drops when its process dies or closes the file,   *)
(* and a record of the owner that the holder writes into the same file.    *)
(* The processes are the `eupho once` passes of one host on one repository.*)
(*                                                                         *)
(* Nothing in the code removes the lock file, so there is one file; what   *)
(* an operator who deletes it would do is outside the model.               *)
(***************************************************************************)
CONSTANTS Process,      \* the processes that may want the lock
          NoProcess     \* nobody

ASSUME ProcessAssumption == {NoProcess, "Absent", "Empty"} \cap Process = {}

VARIABLES pc,       \* where each process is inside acquire or release
          holder,   \* whose advisory lock the kernel has granted
          record    \* what the lock file says of its owner

lockVars == <<pc, holder, record>>

\* "Empty" also stands for a record that is only partly written.
Record == Process \cup {"Absent", "Empty"}

Control == {"idle", "opened", "locked", "truncated", "recorded", "held", "taken"}

\* The process has the advisory lock.
Granted == {"locked", "truncated", "recorded", "held", "taken"}

Goto(p, there) == pc' = [pc EXCEPT ![p] = there]

LockInit == /\ pc = [p \in Process |-> "idle"]
            /\ holder = NoProcess
            /\ record = "Absent"

-----------------------------------------------------------------------------
(* Faulty variants.                                                         *)

\* Opening with truncation, as File::create would.
OpenLock_Truncates(p) == /\ pc[p] = "idle"
                         /\ Goto(p, "opened")
                         /\ record' = "Empty"
                         /\ UNCHANGED holder

\* A WouldBlock answer taken for a success.
TryLock_Unchecked(p) == /\ pc[p] = "opened"
                        /\ holder' = p
                        /\ Goto(p, "locked")
                        /\ UNCHANGED record

\* A failed owner record that leaves the descriptor open.
FailRecord_Leaks(p) == /\ pc[p] \in {"locked", "truncated", "recorded"}
                       /\ Goto(p, "idle")
                       /\ UNCHANGED <<holder, record>>
-----------------------------------------------------------------------------
\* open(O_CREAT | O_NOFOLLOW) of a regular file; it does not truncate.
OpenLock(p) == /\ pc[p] = "idle"
               /\ Goto(p, "opened")
               /\ record' = IF record = "Absent" THEN "Empty" ELSE record
               /\ UNCHANGED holder

TryLock(p) == /\ pc[p] = "opened"
              /\ holder = NoProcess
              /\ holder' = p
              /\ Goto(p, "locked")
              /\ UNCHANGED record

\* "repository_locked" (or "unsafe_state_path"): another process has the lock,
\* or the file could not be inspected or locked.
Refuse(p) == /\ pc[p] = "opened"
             /\ Goto(p, "idle")
             /\ UNCHANGED <<holder, record>>

Truncate(p) == /\ pc[p] = "locked"
               /\ record' = "Empty"
               /\ Goto(p, "truncated")
               /\ UNCHANGED holder

WriteRecord(p) == /\ pc[p] = "truncated"
                  /\ record' = p
                  /\ Goto(p, "recorded")
                  /\ UNCHANGED holder

\* Truncating, writing, syncing or restricting failed: unlock and close.
FailRecord(p) == /\ pc[p] \in {"locked", "truncated", "recorded"}
                 /\ holder' = NoProcess
                 /\ Goto(p, "idle")
                 /\ UNCHANGED record

\* The permissions are restricted and acquire returns.
Restrict(p) == /\ pc[p] = "recorded"
               /\ Goto(p, "held")
               /\ UNCHANGED <<holder, record>>

\* release() and drop() take the file out of the handle ...
Take(p) == /\ pc[p] = "held"
           /\ Goto(p, "taken")
           /\ UNCHANGED <<holder, record>>

\* ... and unlock it; when unlocking fails, closing the file unlocks it.
Unlock(p) == /\ pc[p] = "taken"
             /\ holder' = NoProcess
             /\ Goto(p, "idle")
             /\ UNCHANGED record

\* The process dies; the kernel closes its files, the record stays.
Crash(p) == /\ pc[p] # "idle"
            /\ Goto(p, "idle")
            /\ holder' = IF holder = p THEN NoProcess ELSE holder
            /\ UNCHANGED record

\* The steps a live process takes on its own once it has opened the file.
Proceed(p) == \/ TryLock(p) \/ Refuse(p) \/ Truncate(p) \/ WriteRecord(p)
              \/ FailRecord(p) \/ Restrict(p) \/ Take(p) \/ Unlock(p)

LockNext == \E p \in Process : OpenLock(p) \/ Proceed(p) \/ Crash(p)

\* A pass that has the lock goes on to release it: every read it makes under
\* the lock ends, and `observe_once_with` releases on every outcome.
Fairness == \A p \in Process : WF_lockVars(Proceed(p))

LockSpec == LockInit /\ [][LockNext]_lockVars /\ Fairness

Mutex == INSTANCE RepositoryMutex
-----------------------------------------------------------------------------
\* Type invariant.
LockTypeOK == /\ pc \in [Process -> Control]
              /\ holder \in Process \cup {NoProcess}
              /\ record \in Record

\* `assert_held` only asks whether the handle still has its file.  When it says
\* yes the kernel lock is really held, so at most one process gets a yes.
AssertHeldIsSound == \A p \in Process : pc[p] = "held" => holder = p

\* The lock file names the process that is inside, whatever was left there by a
\* crash or a failed attempt, and whoever opens the file meanwhile.
OwnerNamesHolder == \A p \in Process : pc[p] = "held" => record = p

\* The lock implements the abstract mutex.
ImplementsMutex == Mutex!Spec

\* No outcome of acquire or release, and no crash, leaves the lock taken.
NoLeak == \A p \in Process : holder = p ~> holder # p
-----------------------------------------------------------------------------
\* The inductive invariant: the kernel and the processes agree on the holder,
\* and from the write on the record is the holder's.
LockIInv == /\ LockTypeOK
            /\ \A p \in Process : pc[p] \in Granted <=> holder = p
            /\ \A p \in Process : pc[p] \in {"recorded", "held", "taken"} => record = p
=============================================================================
