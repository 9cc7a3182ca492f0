# Formal models of Eupho

TLA+ models of Eupho, the TLC configurations that check them, and TLAPS proofs
about them. Source lines cited without a directory are those of `src/` in the
repository; `SPEC.md` is the product specification beside it.

## 1. The system

Eupho dispatches coding agents on GitHub issues. Phase 1 only observes: `once`
takes the repository's lock, reads policy, ready issues and active issues
through `gh`, plans candidates, and stores a snapshot that `status` shows. The
run life cycle, the revision ledger and the ports for runners and workspaces are
in place for the dispatcher that will claim and run issues; nothing in `src/`
calls them yet.

| Component | State | Operations | Hard behaviour | What makes it correct |
|---|---|---|---|---|
| Run life cycle (`domain.rs` 300-730) | one `RunRecord`: state, phase, policy, attention, resume phase, revision | `can_transition`, `transition` for 16 events | long legal sequences; pause and resume; binding changes | merge only what was reviewed under its policy; no change only if claimed; a pause can be left and goes back exactly |
| Candidate planner (`domain.rs` 160-298) | none | `plan_candidates` | truncated, unordered, inconsistent listings; limits | one answer per issue; concurrency; order independence; fail closed on ambiguity |
| Observe-once pass (`application.rs` 811-900) | local to the pass; the stored snapshot | resolve, lock, resolve again, list ready, list active three times, plan, put, release | the world moves between requests; two passes; death | stored under the right repository and lock; never regresses; what is offered was unclaimed when the first active listing was made; lock released |
| Repository lock (`infra.rs` 699-846) | advisory lock and owner record in one file | `acquire`, `assert_held`, `release`, drop | race on one file, failure after locking, death | mutual exclusion; record names the holder; no leak |
| State file (`infra.rs` 73-495) | one document and its temporary files | `atomic_write_json`, `put`, `get`, reads | death, power loss, errors at each call, readers without a lock | readers see whole documents; acknowledged writes last |
| Revision ledger (`security.rs` 146-350) | an anchor per run | `assert_fresh`, `prepare`, `confirm`, `read` | read-check-write in several steps; crash before publication | high-water mark; one payload per revision; confirmation is exact; a retry is accepted |
| `gh` process (`github.rs` 580-734) | child, two pipes, two reader threads, deadline | `run` and its readers | full pipes, the cap, the deadline racing the exit, helpers that outlive the child | whole answers; exact cap; nothing left behind; the call returns |
| Instruction links (`instructions.rs` 223-469) | two names in a repository | `resolve_repository_root`, `link_instructions` | commands and editors between two system calls; two searches for the repository | nothing replaced; success means the link is there; one repository per place |
| Branch policy (`github.rs` 297-555, `application.rs` 444-558) | none | gather and judge protection rules | several sources, hidden bypass actors, one page of rules | passes exactly the branches that hold the App |
| Policy resolution (`application.rs` 171-235) | none | policy of the base branch, or a local one if asked for | the policy names a base that names another, while both move | a trusted base is governed by its own policy |
| Repository configuration (`config.rs` 469-730) | none | accept or refuse | requirements that other files rely on | what it accepts can be planned and stored; autonomy is opted into |
| State root (`infra.rs` 848-1058) | none | find the repository, resolve the root | links, `..`, directories not yet made | outside the repository; one place has one root |
| Clock (`infra.rs` 639-697, 1061-1093) | none | date of a day, check of a date | leap years, centuries, eras | the calendar's dates, accepted by the store |
| Rest of the doctor (`application.rs` 283-790), host configuration, signed envelopes (`security.rs` 62-140), runner and workspace ports, command line and terminal | none | probes, parsing, signing, rendering | | see section 8 |

Interactions. `main.rs` calls `once`, `status`, `doctor` and the link command.
`once` calls the GitHub reader (one `gh` process per request), the lock, the
planner and the candidate store; `status` reads the store with no lock. Processes
on one host meet only through the state root: the lock file and the documents.
They meet GitHub, which changes by itself between any two requests.

The hazards these raise, each at its line, are in `PROJECT.json`.

## 2. Modules

| Module | Models | Builds on |
|---|---|---|
| `RunLifecycle` | `transition` and its helpers | |
| `LifecycleDiagram` | abstract: the state diagram of SPEC.md section 9, edge by edge | |
| `RepositoryLock` | the lock, call by call | |
| `RepositoryMutex` | abstract: a mutex | |
| `CandidatePlanner` | `plan_candidates` as an operator, and what it relies on | |
| `RepositoryPolicy` | `validate_repository_config` | instantiates `CandidatePlanner` with the configuration |
| `CandidateStore` | what `validate_candidate_snapshot` accepts of a plan | |
| `StateRoot` | the state root and the two searches for the repository, over a file system with links | |
| `Calendar` | days to dates, and the check of dates | |
| `BranchPolicy` | `branch_policy` and `evaluate_branch_policy` as one decision, and the reference: what GitHub imposes on an App | |
| `ObservePass` | the pass and its policy resolution, request by request, with GitHub | `CandidatePlanner`, `RepositoryMutex` |
| `RevisionLedger` | the anchor of one run and its callers | `RepositoryMutex` |
| `HighWaterMark` | abstract: a mark that only rises | |
| `StateFile` | one document, its writers, readers and disk | |
| `GhProcess` | one call of `gh` | |
| `InstructionLink` | the link commands and an editor | |

`MC...` modules hold the model values and symmetry of the TLC instances, and
`...Proofs` modules the theorems, each of the module it is named after;
`DecisionProofs` those of the decisions that `MCDecisions` combines but the state
root, and `FileProofs` those of `StateFile`, `RepositoryLock` and
`InstructionLink`. Abstract specifications are used in two ways:
as a PROPERTY that the detailed module is shown to implement, and in place of
the detailed module where another module uses the component. So `RepositoryLock`
implements `RepositoryMutex`, and the lock that `ObservePass` and
`RevisionLedger` take is that mutex: one step to take it when it is free, one to
give it back, and a death gives it back too.

In each module a section "Faulty variants" holds operators that change one
definition as a plausible bug would (`TryLock_Unchecked`, `OpenLock_Truncates`).
They are not part of the specification. `PROJECT.json` pairs each with the
property that refutes it, which shows that the property can fail.

### How state and actions correspond to the code

**RunLifecycle.** `run` is the `RunRecord` without identity, counters of attempts
and usage, the review binding and timestamps, which `transition` copies.
`ResolveTransition` is the match of `resolve_transition`, its arms grouped into
`AuthorRow`, `ReviewRow`, `MergeRow` and `AttentionRow`. `Deliver(e)` is one
accepted call of `transition`; a refused call returns an error and changes
nothing. The history variables `verdict`, `pausedAt`, `pauseCause` and `published`
remember what the record does not: the last clean verdict on the present content,
where the present pause interrupted the run, and why, and whether the run has
been in review, so that its pull request exists. `LifecycleDiagram` is the diagram
of SPEC.md:346-372 with the stored resume state of SPEC.md:391. The code moves a
run out of review for repair or a new binding, which the diagram does not, so
`Stage` reads its "in review" as SPEC.md:272 describes it: the pull request exists.

**RepositoryLock.** `pc` is where a process is in `acquire` or `release`,
`holder` the kernel's lock, `record` the file's content. Opening, locking,
truncating, writing and restricting are separate actions because another process
may open the file between any two and each may fail. `assert_held` asks whether
the handle has its file, which is `pc = "held"`.

**CandidatePlanner.** Labels, routes and modes are constants; an issue is a
number and a list of labels. `PlanCandidates` is `plan_candidates`: sort, refuse
or plan each issue, then give the free slots to the lowest numbers. `IsPlannable`
is all it assumes of its configuration.

**BranchPolicy.** A branch is what GitHub holds: classic protection, active
rules, the bypass actors of their rulesets, and what of it the doctor gets to
see. One operator per setting says what `branch_policy` collects, `Accepts` that
no check of `evaluate_branch_policy` fails. `IsStrong` is the reference, written
from the side of the App: only sources it cannot bypass count.

**RepositoryPolicy, CandidateStore.** A configuration is a record of the fields
that planning, policy resolution or branch protection read; `ValidConfig` is
`validate_repository_config`, with the requirements on all other fields as one
Boolean. `Planner` is `CandidatePlanner` under that configuration. `ValidPlan`
is what `put` and `get` accept of a plan: the three files that pair modes with
workspaces are three definitions here too.

**StateRoot.** A path is a sequence of names. `Walk` is the kernel's: name by
name, from where it is and what is left of the path to the next such position, it
follows links, physically. `FindGitWorktreeRoot` serves `once` and `status`,
`ResolveRepositoryRoot` the link command, which refuses a marker that is a link.
`AbsoluteNormalized` is lexical, as the code's is, and `ResolveSafeStateRoot`
combines both in the code's order. `Place` is the reference, written from the side
of the kernel: where a path leads whose missing directories are then made. It is
asked about the normalized request, so that a `..` behind a link may lead the
kernel elsewhere is not covered (see the hazard at `infra.rs` 935).

**Calendar.** `CivilFromDays` is the code's arithmetic; the reference `NextDate`
knows only the months.

**ObservePass.** `target` is the repository that the name now denotes, `head` the
commit of each branch, `label` the workflow label of each issue; `pass` is the
local state of each process, `stored` the snapshot in each repository's
directory. Each request is an action and GitHub moves between any two. A commit
is its number on its branch and the branch its policy selects: the policy is
fetched at the commit's digest, so it is that commit's or the pass fails. `local`
says that the pass was told to use a local file, which may be edited between two
reads, `asked` is the branch the next commit is asked of. `resolve_policy` is
`ReadMetadata` and `ReadCommit`, once or twice round; under the lock it is
`RereadMetadata` and `RereadCommit`. History fields record what a pass cannot
see, such as the repository the commit really came from.

**RevisionLedger.** `anchor` is the file; a call is a stage and its arguments.
`prepare` reads for `assert_fresh`, reads again for the key check, then
replaces; `confirm` reads, then replaces. The write is one step, as `StateFile`
justifies.

**StateFile.** Files are numbered by the put that creates them. `document` and
`temporary` are the directory, `content` the bytes of each file, `kept` the files
which a power loss may leave under the document's name. `fsync` of a file makes
its bytes durable, `fsync` of the directory its entry; a power loss may keep or
lose anything else. `place` ranks the files by the order of their renames.

**GhProcess.** Output is counted in chunks. `child`, `helper` and the two pipes
are the outside; `reader` holds the two threads and `run` the loop that polls,
gives up or joins. `late` says that the deadline has passed.

**InstructionLink.** `entry` is what each of the two names is; each command is
at one of its system calls. Any call may fail, and an editor may change a name
between any two.

## 3. Runs

| Run | Bounds | Shows |
|---|---|---|
| `RunLifecycle` | 12 revisions | no merge without a verdict, no completed no-change without a claim, pauses that end where they began, and that it walks the documented diagram if in review means that a pull request exists |
| `RepositoryLock` | 3 processes | mutex, owner record, no leak |
| `Decisions` | planner: 3 issues, 7 label lists, every order, 2 further active numbers, concurrency 3; configuration: 0 to 2 classes, 4 choices of workflow labels, every mode, workspace and merge policy, listings of up to 2 issues; branches with classic protection and up to 2 rules of 2 rulesets; file systems of 2 names and 2 levels with up to 2 links, nested repositories and bad markers, counted together; the days from 1970 to 2134 | the properties of each decision on every such input |
| `ObserveTwo` | 2 passes, 2 repositories, 1 branch, 1 transfer, 1 push each | what is stored where, and under which lock; the locks are given back |
| `ObserveLabels` | 1 pass, 1 issue, 2 branches with 1 push each, local policy or not, unlimited relabelling | a trusted base is governed by its own policy; each candidate was still ready at the first active listing |
| `RevisionLedger` | 2 callers, 2 digests, 2 keys, 3 revisions | the anchor is a high-water mark; a call that died may be made again |
| `StateFile` | 2 writers, 1 reader, 2 temporary names, 3 puts | reads are whole, acknowledged puts last |
| `GhProcess` | cap 2 chunks, output 0-3, pipe 1 | answers, cap, pipes, clean-up, return |
| `InstructionLink` | 3 commands, 2 edits | links are usable, nothing is replaced |
| `RunLifecycleDiagram`, `StateFileNewDirectory`, `GhEscapes` | as above | a sentence of the documentation that the code does not keep (section 7) |

Why the bounds are enough. A run can be authored, reviewed, paused, resumed,
rebound, reviewed again and merged well within 12 revisions, and every reachable
combination of the other fields appears before that; the proofs remove the
bound. With three processes one holds the lock while two race for it. Three
issues against concurrency 3 and up to five active numbers make the capacity
full, partly used, exceeded and duplicated; the listing limit is scaled down
(`LimitFloor`, `LimitFactor`) so that truncation happens. One transfer is enough
to separate the repository locked from the one read. Three revisions allow a
mark to be raised, repeated and undercut. Two branches may select each other,
and one push each lets the second change its mind after the first was read. Each
property of a plan's labels is about one issue, and each issue is relabelled by
itself, so one issue is enough for `UnclaimedWhenListed`. Two links allow a link to
a link, a loop, and a link above the repository beside one above the state root;
two levels allow the root above, in, beside and below the repository. A badly
marked repository in a good one needs two of the things counted. The days
hold a leap century, a common one and the end of an era. Three puts over two temporary names
make a name used twice. Output runs from nothing to one chunk over the cap and
exceeds what a pipe holds; `MCGhProcess` asserts that.

Deadlock is checked except where the modelled program ends: `RunLifecycle` (a
finished run), `Decisions` (one decision), the `Gh` runs (one call) and
`InstructionLink` (each command ends).

The inductive invariants `IInv` were checked on the same instances before they
were proved; the runs list only the properties they serve.

## 4. Fairness

- `RepositoryLock`, `ObservePass` (run `ObserveTwo`): weak fairness of each process's next step
  once it is inside a call. The code has no loop and no wait in there but local
  file operations, `try_lock`, which does not block, and `gh` calls, which end
  as far as `GhProcess` shows. Starting a pass is not fair.
- `GhProcess`: weak fairness of the three threads and of a child that has not
  hung; the deadline passes. `SpecHelpersEnd` adds that a process gh started ends;
  without it the call may not return, which is the run `GhEscapes`.
- The other modules state safety only and assume none.

## 5. Proofs

Proved with TLAPS for every value of the constants allowed by the named
assumptions:

- **`RunLifecycleProofs`** (`MaxRevisionAssumption`): all invariants of the run,
  the exactness of resumption, and the implementation of the diagram, under the
  reading of "in review" above. Merging
  after review is not inductive: a paused run carries no verdict of its own, and
  `resume_target` rebuilds the state from the phase alone. `IInv` therefore says
  which phases each state has, that waiting in a merge phase implies the verdict
  that led there, and that the same holds of the phase a paused run will resume.
  For the diagram it also says that a run in review, or paused there, is published,
  and one that has not begun is not.
- **`RevisionLedgerProofs`** (`LedgerAssumption`): types, refinement of the
  high-water mark, exact confirmation, accepted retries. `IInv` says that only the
  holder of the repository lock is inside a call, so that what was checked of the
  file still holds when it is written; without the lock it fails (the variant
  `MayCall_Unlocked`).
- **`FileProofs`**, the state file (`StateFileAssumption`): whole reads, durability of what
  was acknowledged, ownership of temporary files. `IInv` ranks the files that a
  power loss may leave, says that calls in progress share neither file nor name,
  and ties a file's bytes to the stage of the call that writes it.
  The repository lock (`ProcessAssumption`): soundness of `assert_held`, the
  owner record, and refinement of the mutex. `LockIInv` ties the kernel's holder
  to the control state of each process, which the record alone does not.
  The instruction links (`InstructionLinkAssumption`): usable links, a
  single creator, no replacement. `LinkIInv` keeps, in a repository
  nobody edits, what each command has found of it.
- **`PlannerProofs`** (`ConfigAssumption`): what `PlanCandidates` returns for any
  listing, of any length, that names no issue twice, and any finite set of active
  numbers. That sorting is possible, and in one way only, is an induction over the
  listing: by the least number for which it fails (`LeastNumber`). `PlanSays`
  then describes a plan without the sort, and every result about listings, there,
  in `DecisionProofs` and in `ObservePassProofs`, cites it.
- **`DecisionProofs`**: every property of the run `Decisions` but those of the
  state root. Each invariant there says that a decision, once made, is the one the
  operators define on its input; the work is in lemmas about the operators.
  - *Planning* (`ConfigAssumption`, `ListingAssumption`): one answer each,
    concurrency, deferral for lower numbers only, independence of the order.
    Concurrency needs that the listing limit is never below it.
  - *The doctor* (`AppAssumption`): acceptance is sound and, on a branch seen
    whole, complete. The lemma behind both is that a listed rule of a visible
    ruleset whose Apps do not include ours is imposed on it.
  - *Configuration* (`PolicyAssumption`): validation implies `IsPlannable`,
    everything the planner assumes, so that assumption is a theorem about the
    code and not a restriction of the model; what is planned under an accepted
    configuration, a listing at a time, passes the store's validation, and is
    autonomous only through a class the issue wears. `"NoRoute"`, which stands
    for no label, must not be a text, and issue numbers are not 0, as GitHub's are not.
  - *The date* (`CalendarAssumption`, which ends the days with the year 9999, as
    the store does): the arithmetic of `civil_from_days` is the calendar. A date
    `Stands` for a day if the day is that of its year, month and day of month; each
    day has one such date, the code computes it, and the next day's is the
    calendar's next date. From the epoch the run's reference goes on day by day.
- **`StateRootProofs`** (`StateRootAssumption`): the state root is outside the
  repository and one per place, and both searches find one repository. The run has
  two names, levels and links; `StateRootsAreOutside` and `StateRootsAreOne` speak of
  every well-formed file system, however deep, every path and every limit on the
  links the kernel follows, and the theorems on the run's specification cite
  them. `RootIInv` says that a disk is well formed (each entry lies in a directory),
  a request is a path, and what was decided is what the operators define. The rest
  is about `Walk`:
  - `TailRecursion`: a function that only hands on to another argument exists
    whatever the order, so `WalkEquation` and `LexicalEquation` give `Walk` and
    `AbsoluteNormalized` the values of their bodies. `WalkInduction` then reasons on
    the links left and, within these, the names left, by `LeastNumber`.
  - What a walk finds holds no link (`FoundIsReal`) and is found again
    (`RealLeadsToItself`); a longer path is walked to where a shorter one leads and
    on from there (`WalkOn`). Hence `PlaceOfPath`: the longest part that exists,
    resolved, and the rest as it is written.
  - `RootIsResolved`: a root that is accepted is such a place, and so is outside
    (`RootIsPlaced`); `RootMade` and `RootAgain`: it is accepted again once its
    directories exist.
  - Both searches ask for the nearest directory with an entry `.git` above one
    place, and there is one nearest (`NearestIsOne`).
- **`GhProcessProofs`** (`GhAssumption`): whole answers, the exact cap, clean-up,
  and pipes that never block the child.
  `IInv` is an account of the chunks: each is owed by the child, in the pipe, with
  the reader, or the one that broke the cap; and a reader that saw the end of its
  pipe left it empty with nobody to fill it.
- **`ObservePassProofs`** (`ObserveAssumption`): the stored
  base belongs to the repository, is governed by its own policy, is written under
  the lock and never goes back. The second and the last are not inductive on the
  stored snapshot alone. `IInv` follows each pass through its two resolutions: inside
  the locked section it is the lock's holder and has resolved the identity it
  locked, what it has resolved was settled, and nothing stored since it took the
  lock is newer, because only it could have stored. That candidates
  were unclaimed at the first active listing is about the four listings:
  `LabelIInv` says, after each of them, where an issue that was ready may be, namely among the active already, still
  unclaimed when the first active listing was made, gone back, or under a label
  that is still to be listed. It holds for any number of passes and issues, where
  the run has one of each, and uses what `PlannerProofs` says of a plan.
  An issue claimed after that listing may still be stored: nothing is read again
  before the put.

Each invariance proof shows `Init => IInv`, then one lemma or step per action,
then the temporal conclusion. The action properties and refinements cite the
invariance.

Only model-checked: liveness (`NoLeak`, `LocksAreReleased`, `RunReturns`), which
is out of this prover's reach.

## 6. Assumptions about the outside

- Nobody deletes the lock file while a process has it open.
- Ledger callers hold the repository lock (SPEC.md:448).
- In `ObservePass` an issue wears at most one workflow label at a time, and
  relabelling is one step. A pass may still see it under two.
- POSIX durability: without fsync of a directory its entries may be lost.
- SIGKILL takes effect before the following wait returns; a process that left
  the group is not reached.
- Nobody changes links or directories between the resolution of the state root
  and its use, and the working directory a command reports is physical. That
  commands which name one place find the same root is then `StateRootIsOne`.
- The default branch of a repository stays the same.
- A branch does not change while the doctor reads it, and a source that is
  strict makes the branch strict even if it requires no check itself.

## 7. Where documentation and code differ

- **The state leaves review.** SPEC.md:352 and 382 keep a run in review through
  repair and review again, and SPEC.md:389 returns one that awaits approval there
  when its binding changes; `domain.rs` 510 and 558-562 send all of them to work in
  progress, an edge that the diagram of SPEC.md:346-372 does not have, and the
  label to wip although the pull request is open. With "in review" read as "its
  pull request exists" the diagram holds, and is proved. `RunLifecycleDiagram`.
- **Append-only ledger.** SPEC.md:307 calls the ledger append-only; `prepare`
  replaces the one anchor. What the sentence is for, the high-water mark, does
  hold and is proved, so no run is spent on the word.
- **Durability in a new directory.** `ensure_private_subdirectory` creates the
  directory and no fsync of its parent follows, so the first put, or the first
  anchor that SPEC.md:307 says is fsynced, can vanish with it.
  `StateFileNewDirectory`.
- **A fixed timeout prevents a stuck helper** (`github.rs` 6-7): the readers are
  joined without a deadline, so a process that holds a pipe holds the call.
  `GhEscapes`.

## 8. Not modelled

- Parsing of configurations and GitHub's responses, rendering, escaping: no state,
  no order. The host configuration: ranges of its own fields, which nothing
  modelled reads.
- Canonical JSON and HMAC: a state model would assume what it checks.
- Runner and workspace ports: traits without an implementation.
- `CandidateStore::list`, which reads the documents of all repositories one by one:
  each read is a reader of `StateFile`, and the listing promises no consistency
  between repositories. One malformed document fails it, by design.
- The doctor's checks of the host, each one fact and one line of its report; its
  `run_version_probe` is the loop of `GhProcess` with other limits.
- `paths_overlap` and the choice between flag, host configuration and environment
  for the state root.
- The dispatcher of SPEC.md (prepare, publish, confirm): it has no source yet;
  `RevisionLedger` models its callers only as far as the ledger needs.

## 9. Plan

Done: the modules of section 2, their runs and proofs. What is left, in this order:

1. `CandidateStore::list` over two repositories, against puts and removed
   directories, with `status` as its reader.
2. The host configuration in front of `StateRoot`.
3. When the dispatcher is written: run life cycle, ledger and lock composed, with
   crashes between prepare, publish and confirm.
