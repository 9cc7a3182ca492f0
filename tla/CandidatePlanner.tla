-------------------------- MODULE CandidatePlanner --------------------------
(***************************************************************************)
(* plan_candidates of domain.rs: from the issues GitHub listed under the   *)
(* ready label and the numbers it listed under the active labels, which    *)
(* issues a pass would claim, and why not the others.                      *)
(*                                                                         *)
(* An issue is [number, labels], labels the sequence GitHub lists.  Titles,*)
(* URLs, digests and preconditions, copied into a plan, are left out.      *)
(***************************************************************************)
EXTENDS Integers, Sequences, FiniteSets, TLC, SequencesExt

CONSTANTS
    Ready, Working, Review, Human,  \* the four workflow labels
    Routes,          \* labels of the autonomous classes
    RouteMode,       \* execution mode of each autonomous class
    DefaultMode,     \* execution mode of every other issue
    WorkspaceOf,     \* workspace type of each execution mode
    GlobalPolicy,    \* merge policy of every other issue
    Concurrency,     \* most active runs of the repository
    LimitFloor, LimitFactor  \* size of a GitHub listing: 100 and 4 in the code

WorkflowLabels == {Ready, Working, Review, Human}
NoRoute == "NoRoute"

\* What planning needs of its configuration.
IsPlannable ==
    /\ Ready \notin {Working, Review, Human}
    /\ Working \notin {Review, Human} /\ Review # Human
    /\ Routes \cap WorkflowLabels = {} /\ NoRoute \notin Routes
    /\ \A r \in Routes : RouteMode[r] = "Unattended"
    /\ DefaultMode \in {"Attended", "Unattended"}
    /\ WorkspaceOf = [Attended |-> "Worktree", Unattended |-> "EphemeralClone"]
    /\ GlobalPolicy \in {"HumanFinalApproval", "SuggestOnly"}
    /\ Concurrency \in 1..32
    /\ LimitFloor \in Nat /\ LimitFactor \in Nat \ {0}

ASSUME ConfigAssumption == IsPlannable

-----------------------------------------------------------------------------
(* Faulty variants.                                                         *)

Before_AsListed(issues, j, k) == j < k

AvailableCapacity_OneLess(active) ==
    LET free == Concurrency - Cardinality(active) - 1
    IN  IF free > 0 THEN free ELSE 0

Deferred_OffByOne(eligible, taken) == SubSeq(eligible, taken + 2, Len(eligible))

IssueLimit_BelowConcurrency == Concurrency - 1
-----------------------------------------------------------------------------
\* sort_by_key: ascending by number, as listed where numbers are equal.
Before(issues, j, k) == \/ issues[j].number < issues[k].number
                        \/ issues[j].number = issues[k].number /\ j < k

\* The issues at some positions of a listing, sorted.  To sort what was selected
\* is to select from what was sorted, as the code does.
SortedIssues(issues, positions) ==
    LET order == CHOOSE f \in [1..Cardinality(positions) -> positions] :
                    \A i, j \in DOMAIN f : i < j => Before(issues, f[i], f[j])
    IN  [k \in DOMAIN order |-> issues[order[k]]]

\* Where an issue wears labels of the workflow: all it may wear is one, Ready.
WorkflowLabelsAt(issue) ==
    {k \in DOMAIN issue.labels : issue.labels[k] \in WorkflowLabels}

OnlyReady(issue) == \E k \in DOMAIN issue.labels :
    issue.labels[k] = Ready /\ WorkflowLabelsAt(issue) = {k}

MatchingRoutes(issue) == ToSet(issue.labels) \cap Routes

\* Why an issue is not planned, "none" if it is eligible.
Refusal(issue, active) ==
    IF ~OnlyReady(issue) THEN "ineligible_state_labels"
    ELSE IF issue.number \in active THEN "already_active"
    ELSE IF Cardinality(MatchingRoutes(issue)) > 1 THEN "ambiguous_autonomous_route"
    ELSE "none"

\* The plan of an eligible issue: its route, if any, decides.
PlanOf(issue) ==
    LET route == IF MatchingRoutes(issue) = {} THEN NoRoute
                 ELSE CHOOSE r \in MatchingRoutes(issue) : TRUE
        mode  == IF route = NoRoute THEN DefaultMode ELSE RouteMode[route]
    IN  [number |-> issue.number, route |-> route, execution_mode |-> mode,
         workspace_type |-> WorkspaceOf[mode],
         merge_policy |-> IF route = NoRoute THEN GlobalPolicy ELSE "AutonomousLowRisk"]

\* Concurrency.saturating_sub(distinct active issues).
AvailableCapacity(active) == LET free == Concurrency - Cardinality(active)
                             IN  IF free > 0 THEN free ELSE 0

\* The tail that `split_off` leaves for later passes.
Deferred(eligible, taken) == SubSeq(eligible, taken + 1, Len(eligible))

Diagnostic(code, number) == [code |-> code, number |-> number]

EligibleAt(issues, active) ==
    {k \in DOMAIN issues : Refusal(issues[k], active) = "none"}

Eligible(issues, active) == SortedIssues(issues, EligibleAt(issues, active))
Ineligible(issues, active) ==
    SortedIssues(issues, DOMAIN issues \ EligibleAt(issues, active))

\* How many eligible issues are planned, the first ones.
Taken(issues, active) ==
    IF Len(Eligible(issues, active)) < AvailableCapacity(active)
    THEN Len(Eligible(issues, active)) ELSE AvailableCapacity(active)

\* The refusals in issue order, then the eligible issues capacity defers.
PlanCandidates(issues, active) ==
    LET eligible == Eligible(issues, active)
        refused  == Ineligible(issues, active)
        taken    == Taken(issues, active)
        deferred == Deferred(eligible, taken)
    IN  [candidates  |-> [k \in 1..taken |-> PlanOf(eligible[k])],
         diagnostics |->
            [k \in 1..Len(refused) |->
                Diagnostic(Refusal(refused[k], active), refused[k].number)]
            \o [k \in 1..Len(deferred) |->
                Diagnostic("capacity_deferred", deferred[k].number)]]

\* How many issues a pass asks GitHub for, in each listing.
IssueLimit == LET scaled == LimitFactor * Concurrency
              IN  IF scaled > LimitFloor THEN scaled ELSE LimitFloor
=============================================================================
