--------------------------- MODULE ObservePassProofs ---------------------------
(***************************************************************************)
(* Proofs about the observe pass, for every number of processes,           *)
(* repositories, issues, branches and pushes: a write is made under its    *)
(* lock, and the base it names is the repository's own, governs itself and *)
(* never goes back.                                                        *)
(***************************************************************************)
EXTENDS ObservePass, PlannerProofs

\* Where a pass has its lock, and where it has compared what it read twice.
Locked == {"metadata2", "commit2", "ready", "active", "put", "release"}
Checked == {"ready", "active", "put"}

\* The range of the variables the proofs depend on.
TypeOK == /\ target \in Repo
          /\ head \in [Repo -> [Branch -> Commit]]
          /\ holder \in [Repo -> Process \cup {NoProcess}]
          /\ pass \in [Process -> Pass]
          /\ stored = [r \in Repo |-> stored[r]]

\* What a pass has resolved, once both readings agree.
Resolved(p) ==
    LET policy == pass[p].resolved
        moved  == pass[p].seen.moved
    IN  /\ policy.id = pass[p].identity.id
        /\ pass[p].local \/ policy.commit.selects = policy.branch
        /\ pass[p].seen.origin = policy.id \/ moved
        /\ moved \/ policy.commit.version <= head[policy.id][policy.branch].version

\* Nothing that is stored is newer than what the pass is about to store.
NotOvertaken(p) ==
    LET old == stored[pass[p].resolved.id]
    IN  \/ old = NoSnapshot \/ old.moved \/ pass[p].seen.moved
        \/ old.policy.branch # pass[p].resolved.branch
        \/ old.policy.commit.version <= pass[p].resolved.commit.version

\* What each pass may rely on where it is.
OfPass(p) ==
    /\ pass[p].pc \in Locked  => holder[pass[p].identity.id] = p
    /\ pass[p].pc = "commit2" => pass[p].resolved.id = target \/ pass[p].seen.moved
    /\ pass[p].pc \in Checked => Resolved(p) /\ NotOvertaken(p)

\* What each snapshot says of its base.
StoredIsSound == \A r \in Repo : stored[r] # NoSnapshot =>
    /\ stored[r].policy \in Policy
    /\ stored[r].trusted => stored[r].policy.commit.selects = stored[r].policy.branch
    /\ stored[r].origin = r \/ stored[r].moved
    /\ \/ stored[r].moved
       \/ stored[r].policy.commit.version <= head[r][stored[r].policy.branch].version

IInv == TypeOK /\ (\A p \in Process : OfPass(p)) /\ StoredIsSound
-----------------------------------------------------------------------------
\* The idle pass is a pass.
LEMMA IdleTyped == target \in Repo => IdlePass \in Pass
<1> SUFFICES ASSUME target \in Repo PROVE IdlePass \in Pass
  OBVIOUS
<1>1. (CHOOSE r \in Repo : TRUE) \in Repo
  OBVIOUS
<1>2. NoPolicy \in Policy
  BY <1>1, ObserveAssumption DEF NoPolicy, Policy, Commit
<1>3. NoHistory \in History
  BY <1>2 DEF NoHistory, History, Policy
<1>4. <<>> \in Seq(WorkflowLabels)
  OBVIOUS
<1>. QED  BY <1>2, <1>3, <1>4, ObserveAssumption DEF IdlePass, Pass, Control

LEMMA PassFields ==
    ASSUME TypeOK, NEW p \in Process
    PROVE  /\ pass[p] \in Pass
           /\ pass[p].local \in BOOLEAN /\ pass[p].asked \in Branch
           /\ pass[p].identity \in Policy /\ pass[p].resolved \in Policy
           /\ pass[p].queries \in Seq(WorkflowLabels)
           /\ pass[p].active \in SUBSET Issue /\ pass[p].seen \in History
  BY DEF TypeOK, Pass

\* A step of one pass leaves a pass there, and the others alone.
LEMMA TypeOKStep ==
    ASSUME TypeOK, NEW p \in Process, Start(p) \/ Proceed(p) \/ Crash(p)
    PROVE  /\ pass' \in [Process -> Pass]
           /\ \A q \in Process \ {p} : pass'[q] = pass[q]
<1> USE IdleTyped, PassFields, ObserveAssumption DEF At
<1>0. pass \in [Process -> Pass] /\ target \in Repo /\ head \in [Repo -> [Branch -> Commit]]
  BY DEF TypeOK
<1> SUFFICES \E to \in Pass : Becomes(p, to)
  BY <1>0 DEF Becomes
<1>1. CASE Start(p)
  BY <1>0, <1>1 DEF Start, Pass, Control
<1>2. CASE ReadMetadata(p)
  <2>1. PICK b \in Branch :
          Becomes(p, [pass[p] EXCEPT !.identity.id = target, !.asked = b, !.pc = "commit"])
    BY <1>2 DEF ReadMetadata, BranchToAsk
  <2>2. [pass[p].identity EXCEPT !.id = target] \in Policy
    BY <1>0 DEF Policy
  <2>3. [pass[p] EXCEPT !.identity.id = target, !.asked = b, !.pc = "commit"] \in Pass
    BY <2>2 DEF Pass, Control
  <2>. QED  BY <2>1, <2>3
<1>3. CASE ReadCommit(p)
  <2> DEFINE commit == head[target][pass[p].asked]
             read   == [id |-> pass[p].identity.id, branch |-> pass[p].asked,
                        commit |-> commit]
  <2>1. /\ commit \in Commit /\ commit.selects \in Branch
        /\ read \in Policy
    BY <1>0 DEF Commit, Policy
  <2>2. \/ Becomes(p, [pass[p] EXCEPT !.identity = read, !.asked = DefaultBranch,
                                     !.pc = "acquire"])
        \/ Becomes(p, [pass[p] EXCEPT !.asked = commit.selects, !.pc = "metadata"])
        \/ Becomes(p, IdlePass)
    BY <1>3 DEF ReadCommit
  <2> HIDE DEF commit, read
  <2>3. /\ [pass[p] EXCEPT !.identity = read, !.asked = DefaultBranch,
                           !.pc = "acquire"] \in Pass
        /\ [pass[p] EXCEPT !.asked = commit.selects, !.pc = "metadata"] \in Pass
    BY <2>1 DEF Pass, Control
  <2>. QED  BY <1>0, <2>2, <2>3
<1>4. CASE Acquire(p)
  BY <1>0, <1>4 DEF Acquire, Pass, Control
<1>5. CASE RereadMetadata(p)
  <2>1. PICK b \in Branch :
          Becomes(p, [pass[p] EXCEPT !.resolved.id = target, !.asked = b,
                                     !.pc = "commit2", !.seen.moved = FALSE])
    BY <1>5 DEF RereadMetadata, BranchToAsk
  <2>2. /\ [pass[p].resolved EXCEPT !.id = target] \in Policy
        /\ [pass[p].seen EXCEPT !.moved = FALSE] \in History
    BY <1>0 DEF Policy, History
  <2>3. [pass[p] EXCEPT !.resolved.id = target, !.asked = b,
                        !.pc = "commit2", !.seen.moved = FALSE] \in Pass
    BY <2>2 DEF Pass, Control
  <2>. QED  BY <2>1, <2>3
<1>6. CASE RereadCommit(p)
  <2> DEFINE commit == head[target][pass[p].asked]
             read   == [id |-> pass[p].resolved.id, branch |-> pass[p].asked,
                        commit |-> commit]
             pc     == IF SameIdentity(p) THEN "ready" ELSE "release"
  <2>1. /\ commit \in Commit /\ commit.selects \in Branch
        /\ read \in Policy
    BY <1>0 DEF Commit, Policy
  <2>2. /\ pc \in Control
        /\ [pass[p].seen EXCEPT !.origin = target] \in History
    BY <1>0 DEF Control, History
  <2>3. \/ Becomes(p, [pass[p] EXCEPT !.resolved = read, !.seen.origin = target, !.pc = pc])
        \/ Becomes(p, [pass[p] EXCEPT !.asked = commit.selects, !.pc = "metadata2"])
        \/ Becomes(p, [pass[p] EXCEPT !.pc = "release"])
    BY <1>6 DEF RereadCommit
  <2> HIDE DEF commit, read, pc
  <2>4. /\ [pass[p] EXCEPT !.resolved = read, !.seen.origin = target, !.pc = pc] \in Pass
        /\ [pass[p] EXCEPT !.asked = commit.selects, !.pc = "metadata2"] \in Pass
        /\ [pass[p] EXCEPT !.pc = "release"] \in Pass
    BY <2>1, <2>2 DEF Pass, Control
  <2>. QED  BY <2>3, <2>4
<1>7. CASE ReadReady(p)
  <2> DEFINE ready   == Listed(Ready)
             queries == ActiveLabels
             none    == {}
             pc      == "active"
  <2>1. Becomes(p, [pass[p] EXCEPT !.ready = ready, !.queries = queries,
                                   !.seen.wentBack = none, !.pc = pc])
    BY <1>7 DEF ReadReady
  <2>2. ready \in SUBSET Issue /\ queries \in Seq(WorkflowLabels) /\ pc \in Control
    BY DEF ActiveLabels, WorkflowLabels, Listed, Control
  <2>3. [pass[p].seen EXCEPT !.wentBack = none] \in History
    BY DEF History
  <2> HIDE DEF ready, queries, none, pc
  <2>4. [pass[p] EXCEPT !.ready = ready, !.queries = queries,
                        !.seen.wentBack = none, !.pc = pc] \in Pass
    BY <2>2, <2>3 DEF Pass
  <2>. QED  BY <2>1, <2>4
<1>8. CASE ReadActive(p)
  <2> DEFINE queries   == Tail(pass[p].queries)
             active    == pass[p].active \cup Listed(Head(pass[p].queries))
             unclaimed == IF pass[p].queries = ActiveLabels
                          THEN {i \in Issue : label[i] = Ready} ELSE pass[p].seen.unclaimed
             pc        == IF Tail(pass[p].queries) = <<>> THEN "put" ELSE "active"
  <2>1. Becomes(p, [pass[p] EXCEPT !.active = active, !.queries = queries,
                                   !.seen.unclaimed = unclaimed, !.pc = pc])
    BY <1>8 DEF ReadActive
  <2>2. /\ queries \in Seq(WorkflowLabels)
        /\ active \in SUBSET Issue
        /\ pc \in Control
    BY <1>8 DEF ReadActive, Listed, Control
  <2>3. [pass[p].seen EXCEPT !.unclaimed = unclaimed] \in History
    BY DEF History
  <2> HIDE DEF queries, active, unclaimed, pc
  <2>4. [pass[p] EXCEPT !.active = active, !.queries = queries,
                        !.seen.unclaimed = unclaimed, !.pc = pc] \in Pass
    BY <2>2, <2>3 DEF Pass
  <2>. QED  BY <2>1, <2>4
<1>9. CASE Put(p)
  BY <1>0, <1>9 DEF Put, Pass, Control
<1>10. CASE Release(p)
  BY <1>0, <1>10 DEF Release
<1>11. CASE Fail(p)
  BY <1>0, <1>11 DEF Fail, Pass, Control
<1>12. CASE Crash(p)
  BY <1>0, <1>12 DEF Crash
<1>. QED  BY <1>1, <1>2, <1>3, <1>4, <1>5, <1>6, <1>7, <1>8, <1>9, <1>10, <1>11, <1>12 DEF Proceed

LEMMA PassKeepsTypes ==
    ASSUME TypeOK, NEW p \in Process, Start(p) \/ Proceed(p) \/ Crash(p)
    PROVE  TypeOK'
<1>1. UNCHANGED <<target, head>>
  BY DEF Start, Proceed, ReadMetadata, ReadCommit, Acquire, RereadMetadata, RereadCommit,
         ReadReady, ReadActive, Put, Release, Fail, Crash, github
<1>2. holder' \in [Repo -> Process \cup {NoProcess}]
  BY PassFields DEF TypeOK, Policy, Start, Proceed, ReadMetadata, ReadCommit, Acquire,
         RereadMetadata, RereadCommit, ReadReady, ReadActive, Put, Release, Fail, Crash
<1>3. stored' = [r \in Repo |-> stored'[r]]
  <2>1. CASE Put(p)
    BY <2>1 DEF Put, TypeOK
  <2>2. CASE ~Put(p)
    BY <2>2 DEF TypeOK, Start, Proceed, ReadMetadata, ReadCommit, Acquire,
         RereadMetadata, RereadCommit, ReadReady, ReadActive, Release, Fail, Crash
  <2>. QED  BY <2>1, <2>2
<1>. QED  BY <1>1, <1>2, <1>3, TypeOKStep DEF TypeOK

\* A pass is not disturbed by another one that touches neither its lock nor what
\* is stored under it.
LEMMA OthersKept ==
    ASSUME IInv, NEW q \in Process,
           pass'[q] = pass[q], UNCHANGED <<target, head>>,
           \A r \in Repo : holder[r] = q => holder'[r] = q /\ stored'[r] = stored[r]
    PROVE  OfPass(q)'
<1>1. pass[q].identity.id \in Repo
  BY PassFields DEF IInv, Policy
<1>2. CASE pass[q].pc \in Locked
  <2>1. /\ holder'[pass[q].identity.id] = q
        /\ stored'[pass[q].identity.id] = stored[pass[q].identity.id]
    BY <1>1, <1>2 DEF IInv, OfPass
  <2>2. pass[q].pc \in Checked => Resolved(q)' /\ NotOvertaken(q)'
    BY <2>1 DEF IInv, OfPass, Resolved, NotOvertaken
  <2>. QED  BY <2>1, <2>2 DEF IInv, OfPass
<1>3. CASE pass[q].pc \notin Locked
  BY <1>3 DEF OfPass, Locked, Checked
<1>. QED  BY <1>2, <1>3

\* The steps that end without the lock, or take it.
LEMMA StepOutsideLock ==
    ASSUME IInv, NEW p \in Process,
           \/ Start(p) \/ ReadMetadata(p) \/ ReadCommit(p) \/ Acquire(p)
           \/ Release(p) \/ Crash(p)
    PROVE  OfPass(p)'
<1>0. pass \in [Process -> Pass]
  BY DEF IInv, TypeOK
<1>1. CASE Acquire(p)
  BY <1>1, PassFields DEF IInv, TypeOK, OfPass, Becomes, Locked, Checked, Acquire, Pass, Policy
<1>2. CASE Start(p) \/ ReadMetadata(p) \/ ReadCommit(p) \/ Release(p) \/ Crash(p)
  <2> SUFFICES pass'[p].pc \notin Locked
    BY DEF OfPass, Locked, Checked
  <2>1. IdlePass.pc = "idle" /\ IdlePass \in Pass
    BY IdleTyped DEF IInv, TypeOK, IdlePass
  <2>2. CASE Release(p) \/ Crash(p)
    BY <1>0, <2>1, <2>2 DEF Release, Crash, Becomes, Locked
  <2>3. CASE Start(p)
    <3>1. PICK local \in LocalPolicy :
            pass'[p] = [IdlePass EXCEPT !.pc = "metadata", !.local = local]
      BY <1>0, <2>3 DEF Start, Becomes
    <3>. QED  BY <2>1, <3>1 DEF Pass, Locked
  <2>4. CASE ReadMetadata(p)
    <3>1. PICK b \in BranchToAsk(p) : pass'[p] =
            [pass[p] EXCEPT !.identity.id = target, !.asked = b, !.pc = "commit"]
      BY <1>0, <2>4 DEF ReadMetadata, Becomes
    <3>. QED  BY <1>0, <3>1 DEF Pass, Locked
  <2>5. CASE ReadCommit(p)
    <3>1. \/ pass'[p] = IdlePass
          \/ pass'[p].pc \in {"acquire", "metadata"}
      BY <1>0, <2>5 DEF ReadCommit, Becomes, Pass
    <3>. QED  BY <2>1, <3>1 DEF Locked
  <2>. QED  BY <1>2, <2>2, <2>3, <2>4, <2>5
<1>. QED  BY <1>1, <1>2

\* The second resolution.
LEMMA StepRereads ==
    ASSUME IInv, NEW p \in Process, RereadMetadata(p) \/ RereadCommit(p)
    PROVE  OfPass(p)'
<1>1. CASE RereadMetadata(p)
  <2>1. PICK b \in BranchToAsk(p) :
          Becomes(p, [pass[p] EXCEPT !.resolved.id = target, !.asked = b,
                                     !.pc = "commit2", !.seen.moved = FALSE])
    BY <1>1 DEF RereadMetadata
  <2>2. /\ pass'[p].pc = "commit2" /\ pass'[p].resolved.id = target
        /\ pass'[p].identity = pass[p].identity
    BY <2>1, PassFields DEF IInv, TypeOK, Becomes, Pass, Policy
  <2>3. pass[p].pc = "metadata2" /\ UNCHANGED <<target, holder>>
    BY <1>1 DEF RereadMetadata, At, github
  <2>. QED  BY <2>2, <2>3 DEF IInv, OfPass, Locked, Checked
<1>2. CASE RereadCommit(p)
  <2> DEFINE commit == head[target][pass[p].asked]
             read   == [id |-> pass[p].resolved.id, branch |-> pass[p].asked,
                        commit |-> commit]
             pc     == IF SameIdentity(p) THEN "ready" ELSE "release"
  <2>1. /\ holder'[pass[p].identity.id] = p /\ UNCHANGED <<target, head, stored>>
        /\ pass[p].resolved.id = target \/ pass[p].seen.moved
        /\ pass[p].identity.id \in Repo /\ pass[p].resolved.id \in Repo
    BY <1>2, PassFields DEF IInv, OfPass, Locked, RereadCommit, At, github, Policy
  <2>2. \/ Becomes(p, [pass[p] EXCEPT !.asked = commit.selects, !.pc = "metadata2"])
        \/ Becomes(p, [pass[p] EXCEPT !.pc = "release"])
        \/ /\ Settled(p, commit)
           /\ Becomes(p, [pass[p] EXCEPT !.resolved = read, !.seen.origin = target, !.pc = pc])
    BY <1>2, Zenon DEF RereadCommit
  <2>3. CASE \/ Becomes(p, [pass[p] EXCEPT !.asked = commit.selects, !.pc = "metadata2"])
             \/ Becomes(p, [pass[p] EXCEPT !.pc = "release"])
    <3> HIDE DEF commit
    <3>1. /\ pass'[p].pc \in {"metadata2", "release"}
          /\ pass'[p].identity = pass[p].identity
      BY <2>3, PassFields DEF IInv, TypeOK, Becomes, Pass
    <3>. QED  BY <2>1, <3>1 DEF OfPass, Locked, Checked
  <2>4. CASE /\ Settled(p, commit)
             /\ Becomes(p, [pass[p] EXCEPT !.resolved = read, !.seen.origin = target, !.pc = pc])
    <3>1. /\ pass'[p].pc = pc /\ pass'[p].local = pass[p].local
          /\ pass'[p].identity = pass[p].identity /\ pass'[p].resolved = read
          /\ pass'[p].seen.origin = target /\ pass'[p].seen.moved = pass[p].seen.moved
      BY <2>4, PassFields DEF IInv, TypeOK, Becomes, Pass, History
    <3>2. CASE pc = "release"
      BY <2>1, <3>1, <3>2 DEF OfPass, Locked, Checked
    <3>3. CASE pc = "ready"
      <4>1. pass[p].resolved.id = pass[p].identity.id
        BY <3>3 DEF SameIdentity
      <4>2. commit \in Commit /\ commit.version \in Nat /\ pass[p].asked \in Branch
        BY PassFields, ObserveAssumption DEF IInv, TypeOK, Commit
      <4>3. Resolved(p)'
        BY <2>1, <2>4, <3>1, <4>1, <4>2 DEF Resolved, Settled
      <4>4. NotOvertaken(p)'
        BY <2>1, <3>1, <4>1, <4>2 DEF IInv, StoredIsSound, NotOvertaken
      <4>. QED  BY <2>1, <3>1, <3>3, <4>3, <4>4 DEF OfPass, Locked, Checked
    <3>. QED  BY <3>2, <3>3
  <2>. QED  BY <2>2, <2>3, <2>4
<1>. QED  BY <1>1, <1>2

\* The listings, the write and a failure, all under the lock.
LEMMA StepInsideLock ==
    ASSUME IInv, NEW p \in Process, ReadReady(p) \/ ReadActive(p) \/ Put(p) \/ Fail(p)
    PROVE  OfPass(p)'
<1>0. /\ UNCHANGED <<target, head, holder>>
      /\ ~Put(p) => stored' = stored
  BY DEF ReadReady, ReadActive, Put, Fail, github
<1>1. CASE ReadReady(p) \/ ReadActive(p)
  <2>1. /\ pass[p].pc \in Checked /\ pass'[p].pc \in Checked /\ stored' = stored
        /\ pass'[p].local = pass[p].local /\ pass'[p].identity = pass[p].identity
        /\ pass'[p].resolved = pass[p].resolved
        /\ pass'[p].seen.origin = pass[p].seen.origin
        /\ pass'[p].seen.moved = pass[p].seen.moved
    <3>1. CASE ReadReady(p)
      BY <3>1, PassFields DEF IInv, TypeOK, ReadReady, At, Becomes, Checked, Pass, History
    <3>2. CASE ReadActive(p)
      <4> DEFINE queries   == Tail(pass[p].queries)
                 active    == pass[p].active \cup Listed(Head(pass[p].queries))
                 unclaimed == IF pass[p].queries = ActiveLabels
                              THEN {i \in Issue : label[i] = Ready} ELSE pass[p].seen.unclaimed
                 pc        == IF Tail(pass[p].queries) = <<>> THEN "put" ELSE "active"
      <4>1. /\ Becomes(p, [pass[p] EXCEPT !.active = active, !.queries = queries,
                                          !.seen.unclaimed = unclaimed, !.pc = pc])
            /\ pass[p].pc = "active" /\ pc \in Checked /\ stored' = stored
        BY <3>2 DEF ReadActive, At, Checked
      <4> HIDE DEF queries, active, unclaimed, pc
      <4>. QED  BY <4>1, PassFields DEF IInv, TypeOK, Becomes, Checked, Pass, History
    <3>. QED  BY <1>1, <3>1, <3>2
  <2>. QED  BY <1>0, <2>1 DEF IInv, OfPass, Resolved, NotOvertaken, Checked, Locked
<1>2. CASE Put(p) \/ Fail(p)
  <2>1. \/ pass'[p].pc \notin Locked
        \/ /\ pass[p].pc \in Locked /\ pass'[p].pc = "release"
           /\ pass'[p].identity = pass[p].identity
    BY <1>2, PassFields DEF IInv, TypeOK, Put, Fail, At, Becomes, Locked, Pass, IdlePass
  <2>. QED  BY <1>0, <2>1 DEF IInv, OfPass, Locked, Checked
<1>. QED  BY <1>1, <1>2

\* What is stored stays sound: only Put writes, and what it writes is checked.
LEMMA StoredStaysSound ==
    ASSUME IInv, NEW p \in Process, Start(p) \/ Proceed(p) \/ Crash(p)
    PROVE  StoredIsSound'
<1>1. UNCHANGED head
  BY DEF Start, Proceed, ReadMetadata, ReadCommit, Acquire, RereadMetadata, RereadCommit,
         ReadReady, ReadActive, Put, Release, Fail, Crash, github
<1>2. CASE stored' = stored
  BY <1>1, <1>2 DEF IInv, StoredIsSound
<1>3. CASE Put(p)
  <2>1. /\ Resolved(p) /\ pass[p].resolved \in Policy
    BY <1>3, PassFields DEF IInv, OfPass, Put, At, Checked
  <2>2. PICK candidates : stored' = [stored EXCEPT ![pass[p].resolved.id] =
          [policy |-> pass[p].resolved, trusted |-> ~pass[p].local,
           candidates |-> candidates, origin |-> pass[p].seen.origin,
           moved |-> pass[p].seen.moved]]
    BY <1>3 DEF Put, PolicyToStore
  <2>. QED  BY <1>1, <2>1, <2>2 DEF IInv, TypeOK, StoredIsSound, Resolved
<1>. QED
  BY <1>2, <1>3 DEF Start, Proceed, ReadMetadata, ReadCommit, Acquire, RereadMetadata,
     RereadCommit, ReadReady, ReadActive, Release, Fail, Crash

\* A step of a pass keeps the invariant.
LEMMA PassKeepsInvariant ==
    ASSUME IInv, NEW p \in Process, Start(p) \/ Proceed(p) \/ Crash(p)
    PROVE  IInv'
<1>1. OfPass(p)'
  BY StepOutsideLock, StepRereads, StepInsideLock DEF Proceed
<1>2. ASSUME NEW q \in Process \ {p} PROVE OfPass(q)'
  <2>1. pass'[q] = pass[q] /\ UNCHANGED <<target, head>>
    BY TypeOKStep DEF IInv, Start, Proceed, ReadMetadata, ReadCommit, Acquire, RereadMetadata,
       RereadCommit, ReadReady, ReadActive, Put, Release, Fail, Crash, github
  <2>2. ASSUME NEW r \in Repo, holder[r] = q
        PROVE  holder'[r] = q /\ stored'[r] = stored[r]
    <3>1. /\ q # NoProcess
          /\ pass[p].pc \in Locked => r # pass[p].identity.id
          /\ pass[p].pc = "put" => pass[p].resolved.id = pass[p].identity.id
      BY <1>2, <2>2, ObserveAssumption DEF IInv, OfPass, Resolved, Checked
    <3>2. holder'[r] = q
      BY <1>2, <2>2, <3>1 DEF IInv, TypeOK, Locked, At, Start, Proceed, ReadMetadata,
         ReadCommit, Acquire, RereadMetadata, RereadCommit, ReadReady, ReadActive, Put,
         Release, Fail, Crash
    <3>3. stored'[r] = stored[r]
      BY <3>1 DEF IInv, TypeOK, Locked, At, Start, Proceed, ReadMetadata, ReadCommit,
         Acquire, RereadMetadata, RereadCommit, ReadReady, ReadActive, Put, Release, Fail, Crash
    <3>. QED  BY <3>2, <3>3
  <2>. QED  BY <2>1, <2>2, OthersKept
<1>. QED  BY <1>1, <1>2, PassKeepsTypes, StoredStaysSound DEF IInv

\* What GitHub does: it may move under every pass at once.
LEMMA GitHubKeepsInvariant ==
    ASSUME IInv, GitHub
    PROVE  IInv'
<1>1. ASSUME NEW i \in Issue, Relabel(i) PROVE IInv'
  <2>1. UNCHANGED <<target, head, holder, stored>>
    BY <1>1 DEF Relabel
  <2>2. ASSUME NEW q \in Process
        PROVE  /\ pass'[q] \in Pass /\ pass'[q].pc = pass[q].pc
               /\ pass'[q].local = pass[q].local /\ pass'[q].identity = pass[q].identity
               /\ pass'[q].resolved = pass[q].resolved
               /\ pass'[q].seen.origin = pass[q].seen.origin
               /\ pass'[q].seen.moved = pass[q].seen.moved
    <3> DEFINE wentBack == pass[q].seen.wentBack \cup {i}
    <3>1. [pass[q].seen EXCEPT !.wentBack = wentBack] \in History
      BY <1>1, PassFields DEF IInv, History
    <3>2. pass'[q] \in {pass[q], [pass[q] EXCEPT !.seen.wentBack = wentBack]}
      BY <1>1 DEF Relabel, IInv, TypeOK
    <3> HIDE DEF wentBack
    <3>. QED  BY <3>1, <3>2, PassFields DEF IInv, Pass, History
  <2>3. pass' \in [Process -> Pass]
    BY <1>1, <2>2 DEF Relabel, IInv, TypeOK
  <2>4. \A q \in Process : OfPass(q)'
    BY <2>1, <2>2 DEF IInv, OfPass, Resolved, NotOvertaken
  <2>. QED  BY <2>1, <2>3, <2>4 DEF IInv, TypeOK, StoredIsSound
<1>2. ASSUME NEW r \in Repo, Transfer(r) PROVE IInv'
  <2>1. UNCHANGED <<head, holder, stored>> /\ target' \in Repo
    BY <1>2 DEF Transfer
  <2>2. ASSUME NEW q \in Process
        PROVE  /\ pass'[q] \in Pass /\ pass'[q].pc = pass[q].pc
               /\ pass'[q].local = pass[q].local /\ pass'[q].identity = pass[q].identity
               /\ pass'[q].resolved = pass[q].resolved
               /\ pass'[q].seen.origin = pass[q].seen.origin
               /\ pass'[q].seen.moved \/ pass'[q] = pass[q]
               /\ pass[q].pc = "commit2" => pass'[q].seen.moved
    <3>1. [pass[q].seen EXCEPT !.moved = TRUE] \in History
      BY PassFields DEF IInv, History
    <3>2. IF pass[q].pc \in {"commit2", "ready", "active"}
          THEN pass'[q] = [pass[q] EXCEPT !.seen.moved = TRUE]
          ELSE pass'[q] = pass[q]
      BY <1>2 DEF Transfer
    <3>3. CASE pass[q].pc \in {"commit2", "ready", "active"}
      <4> DEFINE seen == [pass[q].seen EXCEPT !.moved = TRUE]
      <4>1. pass'[q] = [pass[q] EXCEPT !.seen = seen]
        BY <3>2, <3>3
      <4>2. seen \in History /\ seen.origin = pass[q].seen.origin /\ seen.moved
        BY <3>1, PassFields DEF IInv, History
      <4> HIDE DEF seen
      <4>. QED  BY <4>1, <4>2, PassFields DEF IInv, Pass
    <3>4. CASE pass[q].pc \notin {"commit2", "ready", "active"}
      BY <3>2, <3>4, PassFields DEF IInv
    <3>. QED  BY <3>3, <3>4
  <2>3. pass' \in [Process -> Pass]
    BY <1>2, <2>2 DEF Transfer
  <2>4. \A q \in Process : OfPass(q)'
    BY <2>1, <2>2 DEF IInv, OfPass, Resolved, NotOvertaken
  <2>. QED  BY <2>1, <2>3, <2>4 DEF IInv, TypeOK, StoredIsSound
<1>3. ASSUME NEW r \in Repo, NEW b \in Branch, Push(r, b) PROVE IInv'
  <2>1. UNCHANGED <<target, holder, pass, stored>>
    BY <1>3 DEF Push
  <2>2. head' \in [Repo -> [Branch -> Commit]]
    BY <1>3, ObserveAssumption DEF Push, IInv, TypeOK, Commit
  <2>3. \A x \in Repo, y \in Branch :
          /\ head[x][y].version \in Nat /\ head'[x][y].version \in Nat
          /\ head[x][y].version <= head'[x][y].version
    BY <1>3, ObserveAssumption DEF Push, IInv, TypeOK, Commit
  <2>4. StoredIsSound'
    BY <2>1, <2>3, ObserveAssumption DEF IInv, StoredIsSound, Policy, Commit
  <2>5. ASSUME NEW q \in Process PROVE OfPass(q)'
    <3>1. pass[q].resolved.id \in Repo /\ pass[q].resolved.branch \in Branch
          /\ pass[q].resolved.commit.version \in Nat
      BY PassFields, ObserveAssumption DEF IInv, Policy, Commit
    <3>2. Resolved(q) => Resolved(q)'
      BY <2>1, <2>3, <3>1 DEF Resolved
    <3>. QED  BY <2>1, <3>2 DEF IInv, OfPass, NotOvertaken
  <2>. QED  BY <2>1, <2>2, <2>4, <2>5 DEF IInv, TypeOK
<1>. QED  BY <1>1, <1>2, <1>3 DEF GitHub

LEMMA InitInvariant == Init => IInv
<1> SUFFICES ASSUME Init PROVE IInv
  OBVIOUS
<1>1. IdlePass \in Pass /\ IdlePass.pc = "idle"
  BY IdleTyped DEF Init, IdlePass
<1>2. TypeOK
  BY <1>1 DEF Init, TypeOK
<1>3. \A p \in Process : OfPass(p)
  BY <1>1 DEF Init, OfPass, Locked, Checked
<1>. QED  BY <1>2, <1>3 DEF Init, IInv, StoredIsSound

\* Every step keeps the invariant.
THEOREM InvariantHolds == Spec => []IInv
<1>1. IInv /\ [Next]_vars => IInv'
  <2>1. ASSUME IInv, Next PROVE IInv'
    BY <2>1, PassKeepsInvariant, GitHubKeepsInvariant DEF Next
  <2>2. ASSUME IInv, UNCHANGED vars PROVE IInv'
    BY <2>2 DEF vars, github, IInv, TypeOK, OfPass, Resolved, NotOvertaken, StoredIsSound
  <2>. QED  BY <2>1, <2>2
<1>. QED  BY <1>1, InitInvariant, PTL DEF Spec

\* The base a snapshot names is its repository's, unless the name moved after
\* the last metadata request.
THEOREM SnapshotsAreStoredWhereTheyBelong == Spec => []StoredForItsRepository
<1>1. IInv => StoredForItsRepository
  BY DEF IInv, StoredIsSound, StoredForItsRepository
<1>. QED  BY <1>1, InvariantHolds, PTL

\* A base that is called trusted is governed by its own policy.
THEOREM TrustedBasesGovernThemselves == Spec => []TrustedBaseGovernsItself
<1>1. IInv => TrustedBaseGovernsItself
  BY DEF IInv, StoredIsSound, TrustedBaseGovernsItself
<1>. QED  BY <1>1, InvariantHolds, PTL

\* A step that changes a snapshot is the Put of a pass that has its lock.
LEMMA OnlyPutStores ==
    ASSUME IInv, [Next]_vars, NEW r \in Repo, stored'[r] # stored[r]
    PROVE  \E p \in Process : /\ Put(p) /\ holder[r] = p
                              /\ r = pass[p].resolved.id /\ NotOvertaken(p)
                              /\ stored'[r].policy = pass[p].resolved
                              /\ stored'[r].moved = pass[p].seen.moved
<1>1. PICK p \in Process : Put(p)
  BY DEF vars, github, Next, GitHub, Relabel, Transfer, Push, Start, Proceed, ReadMetadata,
         ReadCommit, Acquire, RereadMetadata, RereadCommit, ReadReady, ReadActive, Release,
         Fail, Crash
<1>2. r = pass[p].resolved.id
  BY <1>1 DEF Put, IInv, TypeOK
<1>3. pass[p].pc = "put"
  BY <1>1 DEF Put, At
<1>4. /\ stored'[r].policy = pass[p].resolved
      /\ stored'[r].moved = pass[p].seen.moved
  <2>1. PICK candidates : stored' = [stored EXCEPT ![pass[p].resolved.id] =
          [policy |-> pass[p].resolved, trusted |-> ~pass[p].local,
           candidates |-> candidates, origin |-> pass[p].seen.origin,
           moved |-> pass[p].seen.moved]]
    BY <1>1 DEF Put, PolicyToStore
  <2>. QED  BY <1>2, <2>1 DEF IInv, TypeOK
<1>. QED  BY <1>1, <1>2, <1>3, <1>4 DEF IInv, OfPass, Locked, Checked, Resolved

\* Every write is made under the lock of the repository it is about.
THEOREM WritesAreLocked == Spec => WritesUnderItsLock
<1>1. IInv /\ [Next]_vars =>
        [\A r \in Repo : stored'[r] # stored[r] =>
            \E p \in Process : holder[r] = p /\ At(p, "put")]_vars
  BY OnlyPutStores DEF Put
<1>. QED  BY <1>1, InvariantHolds, PTL DEF Spec, WritesUnderItsLock

\* The stored base of a branch never goes back.
THEOREM BasesNeverRegress == Spec => BaseNeverRegresses
<1>1. ASSUME IInv, [Next]_vars, NEW r \in Repo,
             stored[r] # NoSnapshot, stored'[r] # stored[r],
             ~stored[r].moved, ~stored'[r].moved,
             stored[r].policy.branch = stored'[r].policy.branch
      PROVE  stored[r].policy.commit.version <= stored'[r].policy.commit.version
  <2>1. PICK p \in Process : /\ r = pass[p].resolved.id /\ NotOvertaken(p)
                             /\ stored'[r].policy = pass[p].resolved
                             /\ stored'[r].moved = pass[p].seen.moved
    BY <1>1, OnlyPutStores
  <2>. QED  BY <1>1, <2>1 DEF NotOvertaken
<1>2. IInv /\ [Next]_vars =>
        [\A r \in Repo :
            /\ stored[r] # NoSnapshot /\ stored'[r] # stored[r]
            /\ ~stored[r].moved /\ ~stored'[r].moved
            /\ stored[r].policy.branch = stored'[r].policy.branch
            => stored[r].policy.commit.version <= stored'[r].policy.commit.version]_vars
  BY <1>1
<1>. QED  BY <1>2, InvariantHolds, PTL DEF Spec, BaseNeverRegresses
-----------------------------------------------------------------------------
(* The listings: what a pass may miss of the labels that move meanwhile.      *)

\* Where an issue that was ready may be, after some of the active listings, if
\* it did not move back: the labels already listed are behind it only if the
\* pass saw it wear one.
Accounted(p, i) ==
    \/ i \in pass[p].active \cup pass[p].seen.wentBack
    \/ Len(pass[p].queries) < 3 /\ i \in pass[p].seen.unclaimed
    \/ Len(pass[p].queries) = 3 /\ label[i] # NoLabel
    \/ Len(pass[p].queries) = 2 /\ label[i] \in {Review, Human}
    \/ Len(pass[p].queries) = 1 /\ label[i] = Human

ListingsOf(p) ==
    /\ pass[p].pc = "active" =>
          /\ pass[p].queries \in {ActiveLabels, <<Review, Human>>, <<Human>>}
          /\ \/ pass[p].seen.moved
             \/ \A i \in pass[p].ready : RepoOf[i] = target /\ Accounted(p, i)
    /\ pass[p].pc = "put" =>
          \/ pass[p].seen.moved
          \/ pass[p].ready \subseteq
                pass[p].active \cup pass[p].seen.unclaimed \cup pass[p].seen.wentBack

LabelIInv == /\ label \in [Issue -> Label]
             /\ \A p \in Process : ListingsOf(p)

\* The queries that are left, and what one more of them leaves.
LEMMA Queries ==
  /\ Len(ActiveLabels) = 3 /\ Head(ActiveLabels) = Working
  /\ Tail(ActiveLabels) = <<Review, Human>> /\ Tail(ActiveLabels) # <<>>
  /\ Len(<<Review, Human>>) = 2 /\ Head(<<Review, Human>>) = Review
  /\ Tail(<<Review, Human>>) = <<Human>> /\ Tail(<<Review, Human>>) # <<>>
  /\ Len(<<Human>>) = 1 /\ Head(<<Human>>) = Human /\ Tail(<<Human>>) = <<>>
  /\ ActiveLabels # <<Review, Human>> /\ ActiveLabels # <<Human>>
  BY DEF ActiveLabels

\* The ready listing, with which the history starts anew.
LEMMA ReadyListed ==
  ASSUME IInv, LabelIInv, NEW p \in Process, ReadReady(p)
  PROVE  ListingsOf(p)'
<1> DEFINE ready   == Listed(Ready)
           queries == ActiveLabels
           none    == {}
           pc      == "active"
<1>1. Becomes(p, [pass[p] EXCEPT !.ready = ready, !.queries = queries,
                                 !.seen.wentBack = none, !.pc = pc])
  BY DEF ReadReady
<1> HIDE DEF ready, queries, none, pc
<1>2. /\ pass'[p].pc = pc /\ pass'[p].queries = queries /\ pass'[p].ready = ready
  BY <1>1, PassFields DEF IInv, TypeOK, Becomes, Pass
<1>3. target' = target /\ label' = label
  BY DEF ReadReady, github
<1>4. ASSUME NEW i \in ready PROVE RepoOf[i] = target /\ label[i] = Ready
  BY <1>4 DEF ready, Listed
<1>5. Ready # NoLabel
  BY ObserveAssumption DEF WorkflowLabels
<1> QED BY <1>2, <1>3, <1>4, <1>5, Queries DEF ListingsOf, Accounted, queries, pc

\* One active listing: an issue that was ready then is unclaimed, or wears the
\* label that is listed and is seen, or is past it.
LEMMA ActiveListed ==
  ASSUME IInv, LabelIInv, NEW p \in Process, ReadActive(p)
  PROVE  ListingsOf(p)'
<1> DEFINE before    == pass[p].queries
           queries   == Tail(before)
           listed    == Listed(Head(before))
           active    == pass[p].active \cup listed
           unclaimed == IF before = ActiveLabels
                        THEN {i \in Issue : label[i] = Ready} ELSE pass[p].seen.unclaimed
           pc        == IF Tail(before) = <<>> THEN "put" ELSE "active"
<1>1. /\ Becomes(p, [pass[p] EXCEPT !.active = active, !.queries = queries,
                                    !.seen.unclaimed = unclaimed, !.pc = pc])
      /\ pass[p].pc = "active" /\ target' = target /\ label' = label
  BY DEF ReadActive, At, github
<1>2. /\ before \in {ActiveLabels, <<Review, Human>>, <<Human>>}
      /\ \/ pass[p].seen.moved
         \/ \A i \in pass[p].ready : RepoOf[i] = target /\ Accounted(p, i)
  BY <1>1 DEF LabelIInv, ListingsOf
<1>3. \A i \in Issue : RepoOf[i] = target /\ label[i] = Head(before) => i \in listed
  BY DEF Listed
<1>4. pass[p].ready \subseteq Issue
  BY PassFields DEF IInv, Pass
<1>5. pc = IF before = <<Human>> THEN "put" ELSE "active"
  BY <1>2, Queries
<1> HIDE DEF before, queries, listed, unclaimed, pc
<1>6. /\ pass'[p].pc = pc /\ pass'[p].queries = queries
      /\ pass'[p].ready = pass[p].ready /\ pass'[p].active = active
      /\ pass'[p].seen.unclaimed = unclaimed
      /\ pass'[p].seen.wentBack = pass[p].seen.wentBack
      /\ pass'[p].seen.moved = pass[p].seen.moved
  <2> HIDE DEF active
  <2> QED BY <1>1, PassFields DEF IInv, TypeOK, Becomes, Pass, History
<1>7. \A i \in pass[p].ready :
         Accounted(p, i) <=>
            \/ i \in pass[p].active \/ i \in pass[p].seen.wentBack
            \/ Len(before) < 3 /\ i \in pass[p].seen.unclaimed
            \/ Len(before) = 3 /\ label[i] # NoLabel
            \/ Len(before) = 2 /\ label[i] \in {Review, Human}
            \/ Len(before) = 1 /\ label[i] = Human
  BY DEF Accounted, before
<1>8. \A i \in pass[p].ready :
         Accounted(p, i)' <=>
            \/ i \in active \/ i \in pass[p].seen.wentBack
            \/ Len(queries) < 3 /\ i \in unclaimed
            \/ Len(queries) = 3 /\ label[i] # NoLabel
            \/ Len(queries) = 2 /\ label[i] \in {Review, Human}
            \/ Len(queries) = 1 /\ label[i] = Human
  BY <1>1, <1>6 DEF Accounted
<1>9. label \in [Issue -> {Ready, Working, Review, Human, NoLabel}]
  BY DEF LabelIInv, Label, WorkflowLabels
<1>10. CASE before = ActiveLabels
  <2>1. /\ pc = "active" /\ queries = <<Review, Human>> /\ Len(queries) = 2
        /\ Len(before) = 3 /\ Head(before) = Working
        /\ unclaimed = {i \in Issue : label[i] = Ready}
    BY <1>5, <1>10, Queries DEF queries, unclaimed
  <2>2. ASSUME NEW i \in pass[p].ready, RepoOf[i] = target, Accounted(p, i)
        PROVE  Accounted(p, i)'
    BY <1>3, <1>4, <1>7, <1>8, <1>9, <2>1, <2>2
  <2> QED BY <1>1, <1>2, <1>6, <2>1, <2>2 DEF ListingsOf
<1>11. CASE before = <<Review, Human>>
  <2>1. /\ pc = "active" /\ queries = <<Human>> /\ Len(queries) = 1
        /\ Len(before) = 2 /\ Head(before) = Review
        /\ unclaimed = pass[p].seen.unclaimed
    BY <1>5, <1>11, Queries DEF queries, unclaimed
  <2>2. ASSUME NEW i \in pass[p].ready, RepoOf[i] = target, Accounted(p, i)
        PROVE  Accounted(p, i)'
    BY <1>3, <1>4, <1>7, <1>8, <2>1, <2>2
  <2> QED BY <1>1, <1>2, <1>6, <2>1, <2>2 DEF ListingsOf
<1>12. CASE before = <<Human>>
  <2>1. /\ pc = "put" /\ Len(before) = 1 /\ Head(before) = Human
        /\ unclaimed = pass[p].seen.unclaimed
    BY <1>5, <1>12, Queries DEF unclaimed
  <2>2. ASSUME NEW i \in pass[p].ready, RepoOf[i] = target, Accounted(p, i)
        PROVE  i \in active \cup unclaimed \cup pass[p].seen.wentBack
    BY <1>3, <1>4, <1>7, <2>1, <2>2
  <2> QED BY <1>2, <1>6, <2>1, <2>2 DEF ListingsOf
<1> QED BY <1>2, <1>10, <1>11, <1>12

\* The other steps of a pass lead to no listing.
LEMMA OtherStepsList ==
  ASSUME IInv, LabelIInv, NEW p \in Process, Start(p) \/ Proceed(p) \/ Crash(p),
         ~ReadReady(p), ~ReadActive(p)
  PROVE  ListingsOf(p)'
<1> SUFFICES pass'[p].pc \notin {"active", "put"}
  BY DEF ListingsOf
<1>0. pass \in [Process -> Pass]
  BY DEF IInv, TypeOK
<1>1. IdlePass.pc = "idle" /\ IdlePass \in Pass
  BY IdleTyped DEF IInv, TypeOK, IdlePass
<1>2. CASE Release(p) \/ Crash(p) \/ Fail(p) \/ Put(p) \/ Acquire(p)
  BY <1>0, <1>1, <1>2 DEF Release, Crash, Fail, Put, Acquire, Becomes, Pass
<1>3. CASE Start(p)
  <2>1. PICK local \in LocalPolicy :
          pass'[p] = [IdlePass EXCEPT !.pc = "metadata", !.local = local]
    BY <1>0, <1>3 DEF Start, Becomes
  <2> QED BY <1>1, <2>1 DEF Pass
<1>4. CASE ReadMetadata(p)
  <2>1. PICK b \in BranchToAsk(p) : pass'[p] =
          [pass[p] EXCEPT !.identity.id = target, !.asked = b, !.pc = "commit"]
    BY <1>0, <1>4 DEF ReadMetadata, Becomes
  <2> QED BY <1>0, <2>1 DEF Pass
<1>5. CASE ReadCommit(p)
  <2>1. pass'[p] = IdlePass \/ pass'[p].pc \in {"acquire", "metadata"}
    BY <1>0, <1>5 DEF ReadCommit, Becomes, Pass
  <2> QED BY <1>1, <2>1
<1>6. CASE RereadMetadata(p)
  <2>1. PICK b \in BranchToAsk(p) : pass'[p] =
          [pass[p] EXCEPT !.resolved.id = target, !.asked = b,
                          !.pc = "commit2", !.seen.moved = FALSE]
    BY <1>0, <1>6 DEF RereadMetadata, Becomes
  <2> QED BY <1>0, <2>1 DEF Pass
<1>7. CASE RereadCommit(p)
  <2> DEFINE pc == IF SameIdentity(p) THEN "ready" ELSE "release"
  <2>1. pass'[p].pc \in {pc, "metadata2", "release"}
    BY <1>0, <1>7 DEF RereadCommit, Becomes, Pass
  <2> QED BY <2>1
<1> QED BY <1>2, <1>3, <1>4, <1>5, <1>6, <1>7 DEF Proceed

\* Every step keeps the accounts.
LEMMA LabelsStep ==
  ASSUME IInv, LabelIInv, Next
  PROVE  LabelIInv'
<1>1. ASSUME NEW p \in Process, Start(p) \/ Proceed(p) \/ Crash(p) PROVE LabelIInv'
  <2>1. target' = target /\ label' = label
    BY <1>1 DEF Start, Proceed, ReadMetadata, ReadCommit, Acquire, RereadMetadata,
       RereadCommit, ReadReady, ReadActive, Put, Release, Fail, Crash, github
  <2>2. ListingsOf(p)'
    BY <1>1, ReadyListed, ActiveListed, OtherStepsList
  <2>3. ASSUME NEW q \in Process \ {p} PROVE ListingsOf(q)'
    <3>1. pass'[q] = pass[q]
      BY <1>1, TypeOKStep DEF IInv
    <3> QED BY <2>1, <3>1 DEF LabelIInv, ListingsOf, Accounted
  <2> QED BY <2>1, <2>2, <2>3 DEF LabelIInv
<1>2. ASSUME NEW i \in Issue, Relabel(i) PROVE LabelIInv'
  <2>1. PICK l \in Label :
          /\ <<label[i], l>> \in Forward \cup Backward
          /\ label' = [label EXCEPT ![i] = l]
          /\ pass' = IF <<label[i], l>> \in Forward THEN pass
                     ELSE [p \in Process |->
                             IF At(p, "active")
                             THEN [pass[p] EXCEPT !.seen.wentBack = @ \cup {i}]
                             ELSE pass[p]]
          /\ UNCHANGED <<target, transfers, head, holder, stored>>
    BY <1>2 DEF Relabel
  <2>2. label' \in [Issue -> Label] /\ target' = target
    BY <2>1 DEF LabelIInv
  <2>3. ASSUME NEW q \in Process PROVE ListingsOf(q)'
    <3>1. CASE <<label[i], l>> \in Forward
      <4>1. pass' = pass
        BY <2>1, <3>1
      <4>2. label'[i] = l /\ \A j \in Issue \ {i} : label'[j] = label[j]
        BY <2>1 DEF LabelIInv
      <4>3. /\ label[i] # NoLabel => l # NoLabel
            /\ label[i] \in {Review, Human} => l \in {Review, Human}
            /\ label[i] # Human
        BY <3>1, ObserveAssumption, ConfigAssumption
           DEF Forward, WorkflowLabels, IsPlannable
      <4>4. pass[q].ready \subseteq Issue
        BY PassFields DEF IInv, Pass
      <4>5. \A j \in pass[q].ready : Accounted(q, j) => Accounted(q, j)'
        <5>1. ASSUME NEW j \in pass[q].ready, Accounted(q, j) PROVE Accounted(q, j)'
          <6>1. /\ label[j] # NoLabel => label'[j] # NoLabel
                /\ label[j] \in {Review, Human} => label'[j] \in {Review, Human}
                /\ label[j] = Human => label'[j] = Human
            BY <4>2, <4>3, <4>4
          <6> QED BY <4>1, <5>1, <6>1 DEF Accounted
        <5> QED BY <5>1
      <4> QED BY <2>2, <4>1, <4>5 DEF LabelIInv, ListingsOf
    <3>2. CASE <<label[i], l>> \notin Forward
      <4>1. CASE pass[q].pc = "active"
        <5> DEFINE wentBack == pass[q].seen.wentBack \cup {i}
        <5>1. pass'[q] = [pass[q] EXCEPT !.seen.wentBack = wentBack]
          BY <2>1, <3>2, <4>1 DEF At
        <5>2. \A j \in Issue \ {i} : label'[j] = label[j]
          BY <2>1 DEF LabelIInv
        <5> HIDE DEF wentBack
        <5>3. /\ pass'[q].pc = "active" /\ pass'[q].queries = pass[q].queries
              /\ pass'[q].ready = pass[q].ready /\ pass'[q].active = pass[q].active
              /\ pass'[q].seen.unclaimed = pass[q].seen.unclaimed
              /\ pass'[q].seen.wentBack = wentBack
              /\ pass'[q].seen.moved = pass[q].seen.moved
          BY <4>1, <5>1, PassFields DEF Pass, History, IInv
        <5>4. pass[q].ready \subseteq Issue
          BY PassFields DEF IInv, Pass
        <5>5. ASSUME NEW j \in pass[q].ready, Accounted(q, j) PROVE Accounted(q, j)'
          BY <5>2, <5>3, <5>4, <5>5 DEF Accounted, wentBack
        <5> QED BY <2>2, <4>1, <5>3, <5>5 DEF LabelIInv, ListingsOf
      <4>2. CASE pass[q].pc # "active"
        <5>1. pass'[q] = pass[q]
          BY <2>1, <3>2, <4>2 DEF At
        <5> QED BY <4>2, <5>1 DEF LabelIInv, ListingsOf
      <4> QED BY <4>1, <4>2
    <3> QED BY <3>1, <3>2
  <2> QED BY <2>2, <2>3 DEF LabelIInv
<1>3. ASSUME NEW r \in Repo, Transfer(r) PROVE LabelIInv'
  <2>1. label' = label
    BY <1>3 DEF Transfer
  <2>2. ASSUME NEW q \in Process PROVE ListingsOf(q)'
    <3>1. CASE pass[q].pc \in {"commit2", "ready", "active"}
      <4> DEFINE seen == [pass[q].seen EXCEPT !.moved = TRUE]
      <4>1. pass'[q] = [pass[q] EXCEPT !.seen = seen]
        BY <1>3, <3>1 DEF Transfer
      <4>2. seen.moved
        BY PassFields DEF IInv, History
      <4> HIDE DEF seen
      <4>3. /\ pass'[q].pc = pass[q].pc /\ pass'[q].queries = pass[q].queries
            /\ pass'[q].seen.moved
        BY <4>1, <4>2, PassFields DEF IInv, Pass
      <4> QED BY <3>1, <4>3 DEF LabelIInv, ListingsOf
    <3>2. CASE pass[q].pc \notin {"commit2", "ready", "active"}
      <4>1. pass'[q] = pass[q]
        BY <1>3, <3>2 DEF Transfer
      <4> QED BY <3>2, <4>1 DEF LabelIInv, ListingsOf
    <3> QED BY <3>1, <3>2
  <2> QED BY <2>1, <2>2 DEF LabelIInv
<1>4. ASSUME NEW r \in Repo, NEW b \in Branch, Push(r, b) PROVE LabelIInv'
  BY <1>4 DEF Push, LabelIInv, ListingsOf, Accounted
<1> QED BY <1>1, <1>2, <1>3, <1>4 DEF Next, GitHub

LEMMA LabelInvariance == Spec => []LabelIInv
<1>1. Init => LabelIInv
  BY DEF Init, LabelIInv, ListingsOf, IdlePass, Label, WorkflowLabels
<1>2. IInv /\ LabelIInv /\ [Next]_vars => LabelIInv'
  <2>1. ASSUME LabelIInv, UNCHANGED vars PROVE LabelIInv'
    BY <2>1 DEF vars, github, LabelIInv, ListingsOf, Accounted
  <2> QED BY <2>1, LabelsStep
<1> QED BY <1>1, <1>2, InvariantHolds, PTL DEF Spec

\* A set of issues, as the listing that plan_candidates is given.
LEMMA ListingOfSet ==
  ASSUME NEW R \in SUBSET Issue
  PROVE  LET listing == SetToSeq({[number |-> i, labels |-> <<Ready>>] : i \in R})
         IN  IsListing(listing) /\ NumbersOf(listing) \subseteq R
<1> DEFINE S == {[number |-> i, labels |-> <<Ready>>] : i \in R}
           n == Cardinality(S)
           listing == SetToSeq(S)
<1>1. IsFiniteSet(S)
  <2>1. IsFiniteSet(R)
    BY ObserveAssumption, FS_Subset
  <2> DEFINE f == [i \in R |-> [number |-> i, labels |-> <<Ready>>]]
  <2>2. f \in Surjection(R, S)
    BY DEF Surjection
  <2> HIDE DEF S, f
  <2> QED BY <2>1, <2>2, FS_Surjection
<1>2. /\ \A s \in S : s.number \in R /\ s.number \in Nat
      /\ \A s, t \in S : s.number = t.number => s = t
  BY ObserveAssumption
<1> HIDE DEF S
<1>3. n \in Nat /\ ExistsBijection(1..n, S)
  BY <1>1, FS_CardinalityType, FS_NatBijection
<1>4. \E g \in [1..n -> S] : IsInjective(g)
  BY <1>3 DEF ExistsBijection, Bijection, Injection, IsInjective
<1>5. listing \in [1..n -> S] /\ IsInjective(listing)
  BY <1>4 DEF SetToSeq
<1> HIDE DEF n, listing
<1>6. DOMAIN listing = 1..n /\ Len(listing) = n
  BY <1>3, <1>5
<1>7. \A k \in 1..n : listing[k] \in S
  BY <1>5
<1>8. \A j, k \in 1..n : listing[j].number = listing[k].number => j = k
  BY <1>2, <1>5, <1>6, <1>7 DEF IsInjective
<1>9. IsListing(listing)
  BY <1>2, <1>3, <1>6, <1>7, <1>8 DEF IsListing
<1>10. NumbersOf(listing) \subseteq R
  BY <1>2, <1>6, <1>7 DEF NumbersOf
<1> QED BY <1>9, <1>10 DEF listing, S

\* What a pass stores was ready, and active in none of its listings.
LEMMA StoredCandidates ==
  ASSUME IInv, NEW p \in Process, Put(p)
  PROVE  stored'[pass[p].resolved.id].candidates \subseteq pass[p].ready \ pass[p].active
<1> DEFINE listing == SetToSeq({[number |-> i, labels |-> <<Ready>>] : i \in pass[p].ready})
           active  == pass[p].active
           plan    == PlanCandidates(listing, active)
           made    == {c.number : c \in ToSet(plan.candidates)}
           r       == pass[p].resolved.id
<1>1. /\ pass[p].ready \subseteq Issue /\ active \subseteq Issue /\ r \in Repo
  BY PassFields DEF IInv, Pass, Policy
<1>2. stored'[r].candidates = made
  <2> HIDE DEF plan
  <2>1. stored' = [stored EXCEPT ![r] =
                     [policy     |-> PolicyToStore(p),
                      trusted    |-> ~pass[p].local,
                      candidates |-> made,
                      origin     |-> pass[p].seen.origin,
                      moved      |-> pass[p].seen.moved]]
    BY Zenon DEF Put, plan
  <2> HIDE DEF made, r
  <2> QED BY <1>1, <2>1 DEF IInv, TypeOK
<1>3. IsListing(listing) /\ NumbersOf(listing) \subseteq pass[p].ready
  BY <1>1, ListingOfSet
<1>4. IsFiniteSet(active)
  BY <1>1, ObserveAssumption, FS_Subset
<1> HIDE DEF listing, active
<1>5. \A k \in DOMAIN plan.candidates : \E j \in EligibleAt(listing, active) :
         plan.candidates[k] = PlanOf(listing[j])
  BY <1>3, <1>4, PlannedAreEligible
<1>6. ASSUME NEW j \in EligibleAt(listing, active)
      PROVE  PlanOf(listing[j]).number \in pass[p].ready \ active
  <2>1. listing[j].number \notin active
    BY DEF EligibleAt, Refusal
  <2>2. listing[j].number \in pass[p].ready
    BY <1>3 DEF EligibleAt, NumbersOf
  <2>3. PlanOf(listing[j]).number = listing[j].number
    BY DEF PlanOf
  <2> QED BY <2>1, <2>2, <2>3
<1> HIDE DEF plan
<1>7. made \subseteq pass[p].ready \ active
  BY <1>5, <1>6 DEF ToSet
<1> QED BY <1>2, <1>7 DEF active, r

\* Every candidate that a pass stores was ready when it made its first active
\* listing, unless its label moved back or the name moved: a claim made before
\* that listing is seen, one made after it is not spoken of.
THEOREM CandidatesWereUnclaimed == Spec => UnclaimedWhenListed
<1>1. ASSUME IInv, LabelIInv, NEW p \in Process, Put(p), ~pass[p].seen.moved
      PROVE  stored'[pass[p].resolved.id].candidates
               \subseteq pass[p].seen.unclaimed \cup pass[p].seen.wentBack
  <2>1. pass[p].ready \subseteq
           pass[p].active \cup pass[p].seen.unclaimed \cup pass[p].seen.wentBack
    BY <1>1 DEF Put, At, LabelIInv, ListingsOf
  <2> QED BY <1>1, <2>1, StoredCandidates
<1>2. IInv /\ LabelIInv /\ [Next]_vars =>
        [\A p \in Process : Put(p) =>
           LET seen == pass[p].seen
           IN  \/ seen.moved
               \/ stored'[pass[p].resolved.id].candidates
                    \subseteq seen.unclaimed \cup seen.wentBack]_vars
  BY <1>1
<1> QED BY <1>2, InvariantHolds, LabelInvariance, PTL DEF Spec, UnclaimedWhenListed
=============================================================================
