----------------------------- MODULE ObservePass -----------------------------
(***************************************************************************)
(* The observe-only pass of application.rs (`eupho once`): several         *)
(* processes of one host read one repository, by name, from a GitHub that  *)
(* moves between any two requests, plan under the repository lock and      *)
(* store one snapshot per repository ID.                                   *)
(*                                                                         *)
(* The lock is its promise, RepositoryMutex; the store is that of          *)
(* atomic_write_json, one step; the plan is CandidatePlanner's.            *)
(*                                                                         *)
(* A commit is its version on its branch and the base branch its policy    *)
(* selects.  Metadata and commit are requests by name; the policy is read  *)
(* at the commit's digest, so it is the commit's own or the pass fails.    *)
(***************************************************************************)
EXTENDS CandidatePlanner

CONSTANTS
    Process, NoProcess,
    NoSnapshot,      \* nothing stored yet
    Repo,            \* repository IDs the name may come to denote
    RepoOf,          \* the repository of each issue number
    Branch,
    DefaultBranch,   \* of every repository
    LocalPolicy,     \* may a pass be told to use a local policy, or not to
    MaxVersion,      \* bound on the pushes to each branch
    MaxTransfers     \* bound on how often the name changes repository

Issue == DOMAIN RepoOf
NoLabel == "NoLabel"
Label == WorkflowLabels \cup {NoLabel}

ASSUME ObserveAssumption == /\ NoProcess \notin Process
                            /\ NoLabel \notin WorkflowLabels
                            /\ Issue \subseteq Nat /\ IsFiniteSet(Issue)
                            /\ RepoOf \in [Issue -> Repo]
                            /\ DefaultBranch \in Branch
                            /\ LocalPolicy \subseteq BOOLEAN
                            /\ MaxVersion \in Nat /\ MaxTransfers \in Nat

VARIABLES
    target,      \* GitHub: the repository the name denotes
    transfers,   \* how often that changed
    head,        \* GitHub: the commit at the head of each branch
    label,       \* GitHub: workflow label of each issue
    holder,      \* who has the lock of each repository
    pass,        \* each process's pass
    stored       \* the snapshot in each repository's state directory

github == <<target, transfers, head, label>>
vars == <<github, holder, pass, stored>>

Commit == [version : 0..MaxVersion, selects : Branch]

\* What resolve_policy yields: an identity, a commit and the branch it heads.
Policy == [id : Repo, branch : Branch, commit : Commit]
NoPolicy == [id |-> CHOOSE r \in Repo : TRUE, branch |-> DefaultBranch,
             commit |-> [version |-> 0, selects |-> DefaultBranch]]

\* What the pass cannot see: the repository it read the commit of, the issues
\* still ready at its first active query, those relabelled other than forward
\* since its ready query, and whether the name moved after the request whose ID
\* it checked.
History == [origin : Repo, unclaimed : SUBSET Issue, wentBack : SUBSET Issue,
            moved : BOOLEAN]
NoHistory == [origin |-> NoPolicy.id, unclaimed |-> {}, wentBack |-> {},
              moved |-> FALSE]

Control == {"idle", "metadata", "commit", "acquire", "metadata2", "commit2",
            "ready", "active", "put", "release"}

\* `local`: an explicit configuration was named.  `asked`: the branch the next
\* commit is asked of.
Pass == [pc : Control, local : BOOLEAN, asked : Branch, identity : Policy,
         resolved : Policy, ready : SUBSET Issue, queries : Seq(WorkflowLabels),
         active : SUBSET Issue, seen : History]
IdlePass == [pc |-> "idle", local |-> FALSE, asked |-> DefaultBranch,
             identity |-> NoPolicy, resolved |-> NoPolicy, ready |-> {},
             queries |-> <<>>, active |-> {}, seen |-> NoHistory]

\* What is stored, with the part of its history that says where it came from.
Snapshot == [policy : Policy, trusted : BOOLEAN, candidates : SUBSET Issue,
             origin : Repo, moved : BOOLEAN]

Init == /\ target \in Repo
        /\ transfers = 0
        /\ head \in [Repo -> [Branch -> {c \in Commit : c.version = 0}]]
        /\ label \in [Issue -> {Ready, NoLabel}]
        /\ holder = [r \in Repo |-> NoProcess]
        /\ pass = [p \in Process |-> IdlePass]
        /\ stored = [r \in Repo |-> NoSnapshot]

At(p, pc) == pass[p].pc = pc
Becomes(p, to) == pass' = [pass EXCEPT ![p] = to]

\* A local file is read anew each time, and may have been edited; otherwise the
\* default branch is asked first.
BranchToAsk(p) == IF pass[p].local THEN Branch ELSE {pass[p].asked}

\* The issues the name lists under a label.
Listed(l) == {i \in Issue : RepoOf[i] = target /\ label[i] = l}

-----------------------------------------------------------------------------
(* Faulty variants.                                                         *)

SameIdentity_Unchecked(p) == TRUE

ActiveLabels_Reversed == <<Human, Review, Working>>

PolicyToStore_FirstRead(p) == pass[p].identity

\* The second policy is taken for what the first one selected.
Settled_SecondTime(p, commit) == \/ pass[p].local
                                 \/ commit.selects = pass[p].asked
                                 \/ pass[p].asked # DefaultBranch

Release_Leaks(p) == /\ At(p, "release")
                    /\ Becomes(p, IdlePass)
                    /\ UNCHANGED <<github, holder, stored>>

\* The ID found before the lock was taken, in place of a second request.
RereadMetadata_Skipped(p) ==
    /\ At(p, "metadata2")
    /\ \E b \in BranchToAsk(p) :
          Becomes(p, [pass[p] EXCEPT !.resolved.id = pass[p].identity.id, !.asked = b,
                                     !.pc = "commit2", !.seen.moved = FALSE])
    /\ UNCHANGED <<github, holder, stored>>
-----------------------------------------------------------------------------
(* The pass.                                                                *)

\* The order in which observe_once_with lists the active labels.
ActiveLabels == <<Working, Review, Human>>

\* The check on what was resolved before and after the lock was taken.  It also
\* compares full names, which refuses more passes, as Fail may refuse any.
SameIdentity(p) == pass[p].resolved.id = pass[p].identity.id

\* The snapshot is about what was read under the lock.
PolicyToStore(p) == pass[p].resolved

Start(p) ==
    /\ At(p, "idle")
    /\ \E local \in LocalPolicy :
          Becomes(p, [IdlePass EXCEPT !.pc = "metadata", !.local = local])
    /\ UNCHANGED <<github, holder, stored>>

\* resolve_policy.  One request fixes the ID, a later one the commit.

\* What the commit's policy says next.  The default branch may hand over to
\* another one, once; that one must then select itself.
Settled(p, commit) == pass[p].local \/ commit.selects = pass[p].asked
HandsOver(p, commit) == ~Settled(p, commit) /\ pass[p].asked = DefaultBranch

ReadMetadata(p) ==
    /\ At(p, "metadata")
    /\ \E b \in BranchToAsk(p) :
          Becomes(p, [pass[p] EXCEPT !.identity.id = target, !.asked = b, !.pc = "commit"])
    /\ UNCHANGED <<github, holder, stored>>

\* After a hand-over metadata is asked for again; `unstable_policy_base` ends it.
ReadCommit(p) ==
    /\ At(p, "commit")
    /\ LET commit == head[target][pass[p].asked]
           read   == [id |-> pass[p].identity.id, branch |-> pass[p].asked,
                      commit |-> commit]
       IN  \/ /\ Settled(p, commit)
              /\ Becomes(p, [pass[p] EXCEPT !.identity = read, !.asked = DefaultBranch,
                                         !.pc = "acquire"])
           \/ /\ HandsOver(p, commit)
              /\ Becomes(p, [pass[p] EXCEPT !.asked = commit.selects, !.pc = "metadata"])
           \/ /\ ~Settled(p, commit) /\ ~HandsOver(p, commit)
              /\ Becomes(p, IdlePass)
    /\ UNCHANGED <<github, holder, stored>>

\* The lock of each repository is a RepositoryMutex.
Acquire(p) ==
    /\ At(p, "acquire")
    /\ holder[pass[p].identity.id] = NoProcess
    /\ holder' = [holder EXCEPT ![pass[p].identity.id] = p]
    /\ Becomes(p, [pass[p] EXCEPT !.pc = "metadata2"])
    /\ UNCHANGED <<github, stored>>

\* resolve_policy again, now under the lock.
RereadMetadata(p) ==
    /\ At(p, "metadata2")
    /\ \E b \in BranchToAsk(p) :
          Becomes(p, [pass[p] EXCEPT !.resolved.id = target, !.asked = b,
                                     !.pc = "commit2", !.seen.moved = FALSE])
    /\ UNCHANGED <<github, holder, stored>>

RereadCommit(p) ==
    /\ At(p, "commit2")
    /\ LET commit == head[target][pass[p].asked]
           read   == [id |-> pass[p].resolved.id, branch |-> pass[p].asked,
                      commit |-> commit]
       IN  \/ /\ Settled(p, commit)
              /\ Becomes(p, [pass[p] EXCEPT !.resolved = read, !.seen.origin = target,
                                         !.pc = IF SameIdentity(p) THEN "ready" ELSE "release"])
           \/ /\ HandsOver(p, commit)
              /\ Becomes(p, [pass[p] EXCEPT !.asked = commit.selects, !.pc = "metadata2"])
           \/ /\ ~Settled(p, commit) /\ ~HandsOver(p, commit)
              /\ Becomes(p, [pass[p] EXCEPT !.pc = "release"])
    /\ UNCHANGED <<github, holder, stored>>

ReadReady(p) ==
    /\ At(p, "ready")
    /\ Becomes(p, [pass[p] EXCEPT !.ready = Listed(Ready), !.queries = ActiveLabels,
                               !.seen.wentBack = {}, !.pc = "active"])
    /\ UNCHANGED <<github, holder, stored>>

\* One listing per active label.
ReadActive(p) ==
    /\ At(p, "active")
    /\ pass[p].queries # <<>>
    /\ Becomes(p, [pass[p] EXCEPT
                  !.active  = @ \cup Listed(Head(pass[p].queries)),
                  !.queries = Tail(@),
                  !.seen.unclaimed =
                      IF pass[p].queries = ActiveLabels
                      THEN {i \in Issue : label[i] = Ready} ELSE @,
                  !.pc = IF Tail(pass[p].queries) = <<>> THEN "put" ELSE "active"])
    /\ UNCHANGED <<github, holder, stored>>

\* plan_candidates over the two listings, and CandidateStore::put under the ID.
Put(p) ==
    /\ At(p, "put")
    /\ LET listing == SetToSeq({[number |-> i, labels |-> <<Ready>>] : i \in pass[p].ready})
           plan    == PlanCandidates(listing, pass[p].active)
       IN  stored' = [stored EXCEPT ![pass[p].resolved.id] =
                        [policy     |-> PolicyToStore(p),
                         trusted    |-> ~pass[p].local,
                         candidates |-> {c.number : c \in ToSet(plan.candidates)},
                         origin     |-> pass[p].seen.origin,
                         moved      |-> pass[p].seen.moved]]
    /\ Becomes(p, [pass[p] EXCEPT !.pc = "release"])
    /\ UNCHANGED <<github, holder>>

\* The lock is released on every outcome of the operation.
Release(p) ==
    /\ At(p, "release")
    /\ holder' = [holder EXCEPT ![pass[p].identity.id] = NoProcess]
    /\ Becomes(p, IdlePass)
    /\ UNCHANGED <<github, stored>>

\* A request, the lock or the store fails.
Fail(p) ==
    /\ \/ /\ pass[p].pc \in {"metadata", "commit", "acquire"}
          /\ Becomes(p, IdlePass)
       \/ /\ pass[p].pc \in {"metadata2", "commit2", "ready", "active", "put"}
          /\ Becomes(p, [pass[p] EXCEPT !.pc = "release"])
    /\ UNCHANGED <<github, holder, stored>>

\* The process dies; the kernel drops its lock.
Crash(p) ==
    /\ ~At(p, "idle")
    /\ holder' = [r \in Repo |-> IF holder[r] = p THEN NoProcess ELSE holder[r]]
    /\ Becomes(p, IdlePass)
    /\ UNCHANGED <<github, stored>>

Proceed(p) == \/ ReadMetadata(p) \/ ReadCommit(p) \/ Acquire(p)
              \/ RereadMetadata(p) \/ RereadCommit(p) \/ ReadReady(p)
              \/ ReadActive(p) \/ Put(p) \/ Release(p) \/ Fail(p)

-----------------------------------------------------------------------------
(* GitHub and time.                                                         *)

\* Forward: the direction of a run that is not sent back.
Forward == {<<NoLabel, Ready>>, <<Ready, Working>>, <<Working, Review>>,
            <<Working, Human>>, <<Review, Human>>}
Backward == {<<Review, Working>>, <<Human, Working>>, <<Human, Review>>}
              \cup {<<l, NoLabel>> : l \in WorkflowLabels}

Relabel(i) ==
    \E l \in Label :
       /\ <<label[i], l>> \in Forward \cup Backward
       /\ label' = [label EXCEPT ![i] = l]
       /\ pass' = IF <<label[i], l>> \in Forward THEN pass
                  ELSE [p \in Process |->
                          IF At(p, "active") THEN [pass[p] EXCEPT !.seen.wentBack = @ \cup {i}]
                          ELSE pass[p]]
       /\ UNCHANGED <<target, transfers, head, holder, stored>>

\* A new commit may carry another policy.
Push(r, b) ==
    /\ head[r][b].version < MaxVersion
    /\ \E selects \in Branch :
          head' = [head EXCEPT ![r][b] = [version |-> @.version + 1, selects |-> selects]]
    /\ UNCHANGED <<target, transfers, label, holder, pass, stored>>

\* The name is renamed away, or the repository behind it is replaced.
Transfer(r) ==
    /\ r # target
    /\ transfers < MaxTransfers
    /\ target' = r
    /\ transfers' = transfers + 1
    /\ pass' = [p \in Process |-> IF pass[p].pc \in {"commit2", "ready", "active"}
                                  THEN [pass[p] EXCEPT !.seen.moved = TRUE]
                                  ELSE pass[p]]
    /\ UNCHANGED <<head, label, holder, stored>>

GitHub == \/ \E i \in Issue : Relabel(i)
          \/ \E r \in Repo : Transfer(r) \/ \E b \in Branch : Push(r, b)

Next == \/ \E p \in Process : Start(p) \/ Proceed(p) \/ Crash(p)
        \/ GitHub

\* A pass that has begun goes on: each request and each file operation ends.
Fairness == \A p \in Process : WF_vars(Proceed(p))

Spec == Init /\ [][Next]_vars /\ Fairness

-----------------------------------------------------------------------------
\* A snapshot is written only into the state of a repository whose lock the
\* writer has, even when the name came to denote another one on the way.
WritesUnderItsLock ==
    [][\A r \in Repo : stored'[r] # stored[r] =>
          \E p \in Process : holder[r] = p /\ At(p, "put")]_vars

\* The re-read under the lock keeps the stored base from going back on its
\* branch: a pass that read early and was overtaken never stores what it read
\* early.
BaseNeverRegresses ==
    [][\A r \in Repo :
          /\ stored[r] # NoSnapshot /\ stored'[r] # stored[r]
          /\ ~stored[r].moved /\ ~stored'[r].moved
          /\ stored[r].policy.branch = stored'[r].policy.branch
          => stored[r].policy.commit.version <= stored'[r].policy.commit.version]_vars

\* A base that is called trusted is governed by its own policy: the commit that
\* is stored carries a policy that selects the branch the commit heads, even
\* when every branch changed its mind between the requests.
TrustedBaseGovernsItself ==
    \A r \in Repo : stored[r] # NoSnapshot /\ stored[r].trusted =>
        stored[r].policy.commit.selects = stored[r].policy.branch

\* The base a snapshot names belongs to the repository it is stored for, unless
\* the name moved after the second metadata request: nothing later is checked.
StoredForItsRepository ==
    \A r \in Repo : stored[r] # NoSnapshot =>
        stored[r].origin = r \/ stored[r].moved

\* The four listings are separate requests, and yet every candidate was still
\* ready at one moment, that of the first active listing: an issue claimed
\* earlier is found under one of its labels, because they are listed in the
\* order a run wears them.  Only a label that moved back, or a name that moved,
\* escapes.  An issue claimed after that moment is still offered; nothing is
\* read again before put.
UnclaimedWhenListed ==
    [][\A p \in Process : Put(p) =>
         LET seen == pass[p].seen
         IN  \/ seen.moved
             \/ stored'[pass[p].resolved.id].candidates
                  \subseteq seen.unclaimed \cup seen.wentBack]_vars

\* Every pass that took a lock gives it up, whatever failed: each lock is free
\* again and again, although two passes compete for it.
LocksAreReleased == \A r \in Repo : []<>(holder[r] = NoProcess)
=============================================================================
