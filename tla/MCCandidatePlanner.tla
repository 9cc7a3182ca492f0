------------------------- MODULE MCCandidatePlanner -------------------------
(***************************************************************************)
(* plan_candidates over all small inputs: three issues, every choice of    *)
(* their labels, every order of the list and every set of active numbers.  *)
(* A listing is planned in one step, so every input is a state.            *)
(***************************************************************************)
EXTENDS CandidatePlanner

CONSTANTS Numbers, LabelLists

ASSUME ListingAssumption == Numbers \in SUBSET Nat /\ IsFiniteSet(Numbers)

\* Label lists: one workflow label, none, two, and zero, one or two routes.
MCLabelLists == {<<>>, <<Ready>>, <<Human>>, <<Ready, Working>>, <<Ready, Human>>,
                 <<"docs", Ready>>, <<Ready, "docs", "deps">>}

MCRoutes == {"docs", "deps"}
MCRouteMode == [r \in MCRoutes |-> "Unattended"]
MCWorkspaceOf == [Attended |-> "Worktree", Unattended |-> "EphemeralClone"]

Issue == [number : Numbers, labels : LabelLists]

\* Listings of distinct issues, in any order.
Listings == {s \in UNION {[1..n -> Issue] : n \in 0..Cardinality(Numbers)} :
                \A j, k \in DOMAIN s : s[j].number = s[k].number => j = k}

VARIABLES issues, active, listed, plan

planVars == <<issues, active, listed, plan>>

NoPlan == [candidates |-> <<>>, diagnostics |-> <<>>]

\* `listed` is what the listings of the active issues show together: all of
\* them, or, when one listing is cut, at least as many as the limit.
PlanInit == /\ issues \in Listings
            /\ active \in SUBSET (Numbers \cup {101, 102})
            /\ listed \in {s \in SUBSET active :
                              \/ s = active
                              \/ Cardinality(s) >= IssueLimit}
            /\ plan = NoPlan

PlanIdle == issues = <<>> /\ active = {} /\ listed = {} /\ plan = NoPlan

Plan == /\ plan = NoPlan
        /\ plan' = PlanCandidates(issues, listed)
        /\ UNCHANGED <<issues, active, listed>>
-----------------------------------------------------------------------------
Candidates == {plan.candidates[k].number : k \in DOMAIN plan.candidates}
DiagnosedAs(code) == {plan.diagnostics[k].number :
                        k \in {j \in DOMAIN plan.diagnostics :
                                 plan.diagnostics[j].code = code}}
Planned == plan # NoPlan

\* Every listed issue gets exactly one answer: a plan or one diagnostic.
OneAnswerEach ==
    Planned =>
       /\ Len(plan.candidates) + Len(plan.diagnostics) = Len(issues)
       /\ {i.number : i \in ToSet(issues)} =
            Candidates \cup {d.number : d \in ToSet(plan.diagnostics)}

\* A plan never takes the repository over its concurrency, even when GitHub
\* truncated the list of active issues: a truncated list is already full.
WithinConcurrency ==
    Candidates # {} => Cardinality(Candidates) + Cardinality(active) <= Concurrency

\* Capacity is not wasted: an issue is deferred only when no slot is left, and
\* never in favour of one with a higher number.
DeferredForLowerOnly ==
    \A n \in DiagnosedAs("capacity_deferred") :
       /\ Cardinality(Candidates) + Cardinality(listed) >= Concurrency
       /\ \A c \in Candidates : c < n

\* The order in which GitHub lists the issues does not matter: to exchange two
\* neighbours, any two, leaves the plan as it is.
Exchanged(k) == [issues EXCEPT ![k] = issues[k + 1], ![k + 1] = issues[k]]
OrderIndependent ==
    Planned => \A k \in 1..(Len(issues) - 1) : plan = PlanCandidates(Exchanged(k), listed)
=============================================================================
