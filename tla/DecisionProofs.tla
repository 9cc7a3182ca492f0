---------------------------- MODULE DecisionProofs ----------------------------
(***************************************************************************)
(* The decisions are right on every input, not only on small ones: what is *)
(* planned for a listing, the doctor's verdict on a branch, what an        *)
(* accepted configuration plans, and the date.  Each part has an           *)
(* invariant, that a decision, once made, is what the operators define on  *)
(* its input, and then speaks of the operators.                            *)
(***************************************************************************)
EXTENDS MCDecisions, PlannerProofs

allVars == <<planVars, judgeVars, configVars, rootVars, calendarVars>>

-----------------------------------------------------------------------------
(* plan_candidates.                                                           *)

\* The input is a listing and the active issues, whole or cut at the limit, and
\* a plan, once made, is the plan of that input.
PlanIInv == /\ issues \in Listings
            /\ active \subseteq Numbers \cup {101, 102} /\ listed \subseteq active
            /\ listed = active \/ Cardinality(listed) >= IssueLimit
            /\ plan \in {NoPlan, PlanCandidates(issues, listed)}

LEMMA ListingsAreListings ==
  ASSUME NEW s \in Listings
  PROVE  IsListing(s) /\ Len(s) \in 0..Cardinality(Numbers)
<1>1. PICK n \in 0..Cardinality(Numbers) : s \in [1..n -> Issue]
  BY DEF Listings
<1>2. n \in Nat
  BY ListingAssumption, FS_CardinalityType
<1>3. Len(s) = n /\ DOMAIN s = 1..n
  BY <1>1, <1>2, SeqDef
<1>4. \A k \in 1..n : s[k].number \in Nat
  BY <1>1, ListingAssumption DEF Issue
<1>5. \A j, k \in 1..n : s[j].number = s[k].number => j = k
  BY <1>3 DEF Listings
<1> QED BY <1>2, <1>3, <1>4, <1>5 DEF IsListing

LEMMA PlanInvariance == Spec => []PlanIInv
<1>1. Init => PlanIInv
  <2>1. <<>> \in Listings
    <3>1. <<>> \in [1..0 -> Issue]
      BY EmptySeq, SeqDef
    <3>2. 0 \in 0..Cardinality(Numbers)
      BY ListingAssumption, FS_CardinalityType
    <3> QED BY <3>1, <3>2 DEF Listings
  <2> QED BY <2>1 DEF Init, PlanInit, PlanIdle, PlanIInv
<1>2. PlanIInv /\ [Next]_allVars => PlanIInv'
  <2> SUFFICES ASSUME PlanIInv, [Next]_allVars PROVE PlanIInv'
    OBVIOUS
  <2>1. CASE Plan
    BY <2>1 DEF Plan, PlanIInv
  <2>2. CASE UNCHANGED planVars
    BY <2>2 DEF planVars, PlanIInv
  <2> QED BY <2>1, <2>2 DEF Next, allVars
<1> QED BY <1>1, <1>2, PTL DEF Spec, allVars

\* What the theorems of PlannerProofs say of a plan that was made.
LEMMA PlanFacts ==
  ASSUME PlanIInv
  PROVE  /\ IsListing(issues) /\ IsFiniteSet(listed) /\ IsFiniteSet(active)
         /\ Candidates = NumbersOf(plan.candidates)
         /\ plan = NoPlan \/ plan = PlanCandidates(issues, listed)
         /\ plan = NoPlan => Candidates = {} /\ DOMAIN plan.diagnostics = {}
<1>1. IsFiniteSet(Numbers \cup {101, 102})
  <2>1. IsFiniteSet(Numbers \cup {101})
    BY ListingAssumption, FS_AddElement
  <2>2. (Numbers \cup {101}) \cup {102} = Numbers \cup {101, 102}
    OBVIOUS
  <2> QED BY <2>1, <2>2, FS_AddElement
<1>2. IsFiniteSet(active)
  BY <1>1, FS_Subset DEF PlanIInv
<1>3. IsFiniteSet(listed)
  BY <1>2, FS_Subset DEF PlanIInv
<1> QED BY <1>2, <1>3, ListingsAreListings DEF PlanIInv, Candidates, NumbersOf, NoPlan

\* Every listed issue is answered.
THEOREM OneAnswerEachHolds == Spec => []OneAnswerEach
<1>1. ASSUME PlanIInv PROVE OneAnswerEach
  <2> SUFFICES ASSUME plan # NoPlan PROVE OneAnswerEach
    BY DEF OneAnswerEach, Planned
  <2>1. /\ Len(plan.candidates) + Len(plan.diagnostics) = Len(issues)
        /\ Candidates \cup NumbersOf(plan.diagnostics) = NumbersOf(issues)
    BY <1>1, PlanFacts, EveryIssueAnswered
  <2>2. /\ {i.number : i \in ToSet(issues)} = NumbersOf(issues)
        /\ {d.number : d \in ToSet(plan.diagnostics)} = NumbersOf(plan.diagnostics)
    BY DEF ToSet, NumbersOf
  <2> QED BY <2>1, <2>2 DEF OneAnswerEach
<1> QED BY <1>1, PlanInvariance, PTL

\* A cut list of active issues is longer than the concurrency, and then nothing
\* is planned.
THEOREM WithinConcurrencyHolds == Spec => []WithinConcurrency
<1>1. ASSUME PlanIInv PROVE WithinConcurrency
  <2> SUFFICES ASSUME Candidates # {}
               PROVE  Cardinality(Candidates) + Cardinality(active) <= Concurrency
    BY DEF WithinConcurrency
  <2>1. /\ IsFiniteSet(Candidates)
        /\ Cardinality(Candidates) <= AvailableCapacity(listed)
    BY <1>1, PlanFacts, CapacityIsKept
  <2>2. Cardinality(Candidates) \in Nat /\ Cardinality(Candidates) # 0
    BY <2>1, FS_CardinalityType, FS_EmptySet
  <2>3. Cardinality(listed) \in Nat /\ Concurrency \in 1..32
    BY <1>1, PlanFacts, FS_CardinalityType, ConfigAssumption DEF IsPlannable
  <2>4. /\ Cardinality(listed) < Concurrency
        /\ Cardinality(Candidates) + Cardinality(listed) <= Concurrency
    BY <2>1, <2>2, <2>3 DEF AvailableCapacity
  <2>5. IssueLimit >= Concurrency
    <3>1. LimitFactor \in Nat \ {0} /\ LimitFloor \in Nat
      BY ConfigAssumption DEF IsPlannable
    <3>2. LimitFactor * Concurrency >= Concurrency
      BY <2>3, <3>1
    <3>3. LimitFactor * Concurrency \in Nat
      BY <2>3, <3>1
    <3> QED BY <2>3, <3>1, <3>2, <3>3 DEF IssueLimit
  <2>6. IssueLimit \in Nat
    <3>1. LimitFactor \in Nat \ {0} /\ LimitFloor \in Nat
      BY ConfigAssumption DEF IsPlannable
    <3> QED BY <2>3, <3>1 DEF IssueLimit
  <2>7. listed = active
    BY <1>1, <2>3, <2>4, <2>5, <2>6 DEF PlanIInv
  <2> QED BY <2>4, <2>7
<1> QED BY <1>1, PlanInvariance, PTL

\* What is deferred waits for lower numbers, with no slot left.
THEOREM DeferredForLowerOnlyHolds == Spec => []DeferredForLowerOnly
<1>1. ASSUME PlanIInv PROVE DeferredForLowerOnly
  <2> SUFFICES ASSUME NEW i \in DOMAIN plan.diagnostics,
                      plan.diagnostics[i].code = "capacity_deferred"
               PROVE  /\ Cardinality(Candidates) + Cardinality(listed) >= Concurrency
                      /\ \A c \in Candidates : c < plan.diagnostics[i].number
    BY DEF DeferredForLowerOnly, DiagnosedAs
  <2>1. plan = PlanCandidates(issues, listed)
    BY <1>1, PlanFacts
  <2> QED BY <1>1, <2>1, PlanFacts, DeferredAreLast
<1> QED BY <1>1, PlanInvariance, PTL

\* The order of the listing does not matter.
THEOREM OrderIndependentHolds == Spec => []OrderIndependent
<1>1. ASSUME PlanIInv PROVE OrderIndependent
  <2> SUFFICES ASSUME plan # NoPlan, NEW k \in 1..(Len(issues) - 1)
               PROVE  plan = PlanCandidates(Exchanged(k), listed)
    BY DEF OrderIndependent, Planned
  <2> DEFINE other == Exchanged(k)
             n == Len(issues)
  <2>1. IsListing(issues) /\ plan = PlanCandidates(issues, listed)
    BY <1>1, PlanFacts
  <2>2. DOMAIN issues = 1..n /\ n \in Nat /\ k \in 1..n /\ k + 1 \in 1..n /\ k # k + 1
    BY <2>1 DEF IsListing
  <2>3. /\ DOMAIN other = 1..n
        /\ other[k] = issues[k + 1] /\ other[k + 1] = issues[k]
        /\ \A j \in 1..n : j \notin {k, k + 1} => other[j] = issues[j]
    BY <2>2 DEF Exchanged
  <2>4. Len(other) = n
    BY <2>2, <2>3
  <2> HIDE DEF other, n
  <2>5. IsListing(other)
    <3>1. \A i, j \in 1..n : issues[i].number = issues[j].number => i = j
      BY <2>1, <2>2 DEF IsListing
    <3>2. ASSUME NEW i \in 1..n, NEW j \in 1..n, other[i].number = other[j].number
          PROVE  i = j
      <4> DEFINE from(x) == IF x = k THEN k + 1 ELSE IF x = k + 1 THEN k ELSE x
      <4>1. \A x \in 1..n : from(x) \in 1..n /\ other[x] = issues[from(x)]
        BY <2>2, <2>3
      <4>2. from(i) = from(j)
        <5> HIDE DEF from
        <5> QED BY <3>1, <3>2, <4>1
      <4> QED BY <2>2, <4>2
    <3>3. \A j \in 1..n : other[j].number \in Nat
      BY <2>1, <2>2, <2>3 DEF IsListing
    <3> QED BY <2>2, <2>3, <2>4, <3>2, <3>3 DEF IsListing
  <2>6. {issues[j] : j \in DOMAIN issues} = {other[j] : j \in DOMAIN other}
    <3>1. ASSUME NEW j \in 1..n PROVE \E i \in 1..n : other[i] = issues[j]
      BY <2>2, <2>3
    <3>2. ASSUME NEW j \in 1..n PROVE \E i \in 1..n : issues[i] = other[j]
      BY <2>2, <2>3
    <3>3. \A x \in {issues[j] : j \in 1..n} : x \in {other[i] : i \in 1..n}
      BY <3>1
    <3>4. \A x \in {other[j] : j \in 1..n} : x \in {issues[i] : i \in 1..n}
      BY <3>2
    <3>5. {issues[j] : j \in 1..n} = {other[j] : j \in 1..n}
      BY <3>3, <3>4
    <3> QED BY <2>2, <2>3, <3>5
  <2>7. PlanCandidates(issues, listed) = PlanCandidates(other, listed)
    BY <2>1, <2>5, <2>6, ListingOrderIsIrrelevant
  <2> QED BY <2>1, <2>7 DEF other
<1> QED BY <1>1, PlanInvariance, PTL
-----------------------------------------------------------------------------
(* The doctor's verdict.                                                      *)

\* In a branch whose listed rulesets are all visible, an App that was not found
\* among the bypass actors bypasses no rule that was listed.
LEMMA ListedIsImposed ==
  ASSUME NEW b, NEW app, b.listed \subseteq b.rules,
         BypassVerified(b), app \notin BypassAppIds(b),
         NEW r \in ChecksIn(b.listed) \cup ReviewsIn(b.listed)
  PROVE  r \in Imposed(b, app)
<1>1. r \in b.listed /\ r.ruleset_id \in BypassRulesets(b)
  BY DEF BypassRulesets, RulesetsOf, ChecksIn, ReviewsIn, RulesOf
<1>2. r.ruleset_id \in b.visible
  BY <1>1 DEF BypassVerified
<1>3. SUFFICES ASSUME Bypasses(b, app, r.ruleset_id) PROVE FALSE
  BY <1>1 DEF Imposed
<1>4. PICK a \in b.actors[r.ruleset_id] : a.actor_type = "Integration" /\ a.actor_id = app
  BY <1>3 DEF Bypasses
<1>5. app \in Integrations(b, BypassRulesets(b))
  <2> DEFINE S(i) == {x.actor_id : x \in {y \in b.actors[i] : y.actor_type = "Integration"}}
  <2>1. app \in S(r.ruleset_id)
    BY <1>4
  <2>2. r.ruleset_id \in BypassRulesets(b) \cap b.visible
    BY <1>1, <1>2
  <2> HIDE DEF S
  <2>3. app \in UNION {S(i) : i \in BypassRulesets(b) \cap b.visible}
    BY <2>1, <2>2
  <2> QED BY <2>3 DEF Integrations, S
<1> QED BY <1>5 DEF BypassAppIds

\* Whatever the doctor approves is imposed on the App, whatever the pages, the
\* rulesets and the bypass actors.
THEOREM AcceptanceIsSound ==
  ASSUME NEW b, NEW merge_policy, NEW app, app # AnySource,
         b.listed \subseteq b.rules, Accepts(b, merge_policy, app)
  PROVE  IsStrong(b, merge_policy, app)
<1>1. /\ StrictChecks(b) /\ BypassVerified(b) /\ app \notin BypassAppIds(b)
      /\ [context |-> RequiredCheck, app_id |-> app] \in RequiredChecks(b)
      /\ merge_policy = "HumanFinalApproval" => ReviewChecksPass(b)
  BY DEF Accepts
<1>2. /\ \A r \in ChecksIn(b.listed) : r \in ChecksIn(Imposed(b, app))
      /\ \A r \in ReviewsIn(b.listed) : r \in ReviewsIn(Imposed(b, app))
  BY <1>1, ListedIsImposed DEF ChecksIn, ReviewsIn, RulesOf
<1>3. MustBeUpToDate(b, app)
  BY <1>1, <1>2 DEF StrictChecks, MustBeUpToDate
<1>4. OwnCheckRequired(b, app)
  <2> DEFINE own == [context |-> RequiredCheck, app_id |-> app]
  <2>1. CASE \E r \in ChecksIn(b.listed) : own \in r.checks
    BY <2>1, <1>2 DEF OwnCheckRequired
  <2>2. CASE HasClassic(b) /\ own \in ClassicChecks(b.classic)
    <3>1. own.app_id # AnySource OBVIOUS
    <3>2. own \in b.classic.checks BY <2>2, <3>1 DEF ClassicChecks
    <3> QED BY <2>2, <3>2 DEF OwnCheckRequired
  <2> QED BY <1>1, <2>1, <2>2 DEF RequiredChecks
<1>5. ASSUME merge_policy = "HumanFinalApproval" PROVE MustBeApproved(b, app)
  <2>1. HasClassic(b) => ReviewedAsClassic(b, app)
    BY <1>1 DEF BypassAppIds, ReviewedAsClassic
  <2> QED
    BY <1>1, <1>2, <1>5, <2>1
    DEF ReviewChecksPass, DismissStale, ApprovalRequired, MustBeApproved
<1> QED BY <1>3, <1>4, <1>5 DEF IsStrong

\* A strong branch that the operator sees whole and that exempts the App from
\* nothing is approved, however many weaker sources it also has.
THEOREM AcceptanceIsComplete ==
  ASSUME NEW b, NEW merge_policy, NEW app,
         Undisputed(b, app), IsStrong(b, merge_policy, app)
  PROVE  Accepts(b, merge_policy, app)
<1>1. /\ b.listed = b.rules /\ ValidResponse(b) /\ BypassVerified(b)
      /\ \A r \in Imposed(b, app) : r \in b.listed
  BY DEF Undisputed, BypassVerified, Imposed
<1>2. /\ \A r \in ChecksIn(Imposed(b, app)) : r \in ChecksIn(b.listed)
      /\ \A r \in ReviewsIn(Imposed(b, app)) : r \in ReviewsIn(b.listed)
  BY <1>1 DEF ChecksIn, ReviewsIn, RulesOf
<1>3. StrictChecks(b) /\ HasSource(b)
  <2>1. CASE HasClassic(b) /\ b.classic.strict
    BY <2>1 DEF StrictChecks, HasSource
  <2>2. ASSUME NEW r \in ChecksIn(b.listed), r.strict PROVE StrictChecks(b) /\ HasSource(b)
    BY <2>2 DEF StrictChecks, HasSource, BypassRulesets, RulesetsOf
  <2> QED BY <1>2, <2>1, <2>2 DEF IsStrong, MustBeUpToDate
<1>4. [context |-> RequiredCheck, app_id |-> app] \in RequiredChecks(b)
  BY <1>2 DEF IsStrong, OwnCheckRequired, RequiredChecks, ClassicChecks
<1>5. app \notin BypassAppIds(b)
  <2>1. app \notin (IF HasClassic(b) THEN b.classic.bypass ELSE {})
    BY DEF Undisputed
  <2>2. ASSUME app \in Integrations(b, BypassRulesets(b)) PROVE FALSE
    <3>1. PICK i \in BypassRulesets(b) :
             app \in {a.actor_id : a \in {x \in b.actors[i] : x.actor_type = "Integration"}}
      BY <2>2 DEF Integrations
    <3>2. PICK r \in b.rules : r.ruleset_id = i
      BY <1>1, <3>1 DEF BypassRulesets, RulesetsOf, ChecksIn, ReviewsIn, RulesOf
    <3> QED BY <3>1, <3>2 DEF Undisputed, Bypasses
  <2> QED BY <2>1, <2>2 DEF BypassAppIds
<1>6. merge_policy = "HumanFinalApproval" => ReviewChecksPass(b)
  BY <1>2
  DEF IsStrong, MustBeApproved, ReviewedAsClassic, ReviewChecksPass, DismissStale,
      ApprovalRequired
<1> QED BY <1>1, <1>3, <1>4, <1>5, <1>6 DEF Accepts

\* Only what was listed is known of a branch, and the verdict is on that.
JudgeIInv == /\ branch # NoProtection => branch.listed \subseteq branch.rules
             /\ verdict # "none" => branch # NoProtection
             /\ verdict = "pass" => Accepts(branch, policy, EuphoApp)
             /\ verdict = "fail" => ~Accepts(branch, policy, EuphoApp)

LEMMA JudgeInvariance == Spec => []JudgeIInv
<1>1. Init => JudgeIInv
  <2>1. JudgeInit => JudgeIInv
    <3> SUFFICES ASSUME JudgeInit PROVE JudgeIInv
      OBVIOUS
    <3>1. branch.listed \subseteq branch.rules /\ verdict = "none"
      BY DEF JudgeInit
    <3> QED BY <3>1 DEF JudgeIInv
  <2>2. JudgeIdle => JudgeIInv
    BY DEF JudgeIdle, JudgeIInv
  <2> QED BY <2>1, <2>2 DEF Init
<1>2. JudgeIInv /\ [Next]_allVars => JudgeIInv'
  <2> SUFFICES ASSUME JudgeIInv, [Next]_allVars PROVE JudgeIInv'
    OBVIOUS
  <2>1. CASE Judge
    BY <2>1 DEF Judge, JudgeIInv
  <2>2. CASE UNCHANGED judgeVars
    BY <2>2 DEF judgeVars, JudgeIInv
  <2> QED BY <2>1, <2>2 DEF Next, allVars
<1> QED BY <1>1, <1>2, PTL DEF Spec, allVars

\* What passes is imposed on the App.
THEOREM PassMeansStrongHolds == Spec => []PassMeansStrong
<1>1. JudgeIInv => PassMeansStrong
  BY AcceptanceIsSound, AppAssumption DEF JudgeIInv, PassMeansStrong
<1> QED BY <1>1, JudgeInvariance, PTL

\* What is imposed, and seen, passes.
THEOREM StrongPassesHolds == Spec => []StrongPasses
<1>1. JudgeIInv => StrongPasses
  BY AcceptanceIsComplete DEF JudgeIInv, StrongPasses
<1> QED BY <1>1, JudgeInvariance, PTL
-----------------------------------------------------------------------------
(* Configuration, planner and store.                                          *)

\* What RepositoryPolicy and its planner take from the libraries is the same.
LEMMA SameCardinality ==
  ASSUME NEW S
  PROVE  /\ Policy!Cardinality(S) = Cardinality(S)
         /\ Policy!Planner!Cardinality(S) = Cardinality(S)
<1>1. Policy!Cardinality(S) = Cardinality(S)
  BY Zenon DEF Policy!Cardinality, Cardinality
<1>2. Policy!Planner!Cardinality(S) = Cardinality(S)
  BY Zenon DEF Policy!Planner!Cardinality, Cardinality
<1> QED BY <1>1, <1>2

\* The classes of an accepted configuration, by label.
LEMMA ClassesByLabel ==
  ASSUME config \in Policy!Config, Policy!ValidConfig, NEW l \in Policy!RouteLabels
  PROVE  /\ Policy!ClassOf(l).execution_mode = "Unattended"
         /\ l \notin Policy!StateLabels
<1>1. PICK route \in ToSet(config.routes) : route.label = l
  BY DEF Policy!RouteLabels, Policy!ToSet, ToSet
<1>2. Policy!ClassOf(l) \in ToSet(config.routes) /\ Policy!ClassOf(l).label = l
  BY <1>1 DEF Policy!ClassOf, Policy!ToSet, ToSet
<1>3. PICK k \in DOMAIN config.routes : Policy!ClassOf(l) = config.routes[k]
  BY <1>2 DEF ToSet
<1>4. Policy!ValidRoute(config.routes[k])
  BY <1>3 DEF Policy!ValidConfig, Policy!ValidRoutes
<1> QED BY <1>2, <1>3, <1>4 DEF Policy!ValidRoute, Policy!RouteIsApart

\* The size of a set of four tells that they differ.
LEMMA FourLabelsDiffer ==
  ASSUME NEW a, NEW b, NEW c, NEW d, Cardinality({a, b, c, d}) = 4
  PROVE  a \notin {b, c, d} /\ b \notin {c, d} /\ c # d
<1>1. IsFiniteSet({d}) /\ Cardinality({d}) = 1
  BY FS_Singleton
<1>2. IsFiniteSet({c, d}) /\ Cardinality({c, d}) = IF c = d THEN 1 ELSE 2
  <2>1. {d} \cup {c} = {c, d} OBVIOUS
  <2> QED BY <1>1, <2>1, FS_AddElement
<1>3. /\ IsFiniteSet({b, c, d})
      /\ Cardinality({b, c, d}) =
           IF b \in {c, d} THEN Cardinality({c, d}) ELSE Cardinality({c, d}) + 1
  <2>1. {c, d} \cup {b} = {b, c, d} OBVIOUS
  <2> QED BY <1>2, <2>1, FS_AddElement
<1>4. Cardinality({a, b, c, d}) =
        IF a \in {b, c, d} THEN Cardinality({b, c, d}) ELSE Cardinality({b, c, d}) + 1
  <2>1. {b, c, d} \cup {a} = {a, b, c, d} OBVIOUS
  <2> QED BY <1>3, <2>1, FS_AddElement
<1> QED BY <1>2, <1>3, <1>4

\* What validate_repository_config accepts is all that plan_candidates relies on.
THEOREM ValidatedIsPlannable ==
  ASSUME config \in Policy!Config, Policy!ValidConfig
  PROVE  Policy!Planner!IsPlannable
<1>1. Policy!Planner!WorkflowLabels = Policy!StateLabels
  BY DEF Policy!Planner!WorkflowLabels, Policy!StateLabels
<1>2. /\ config.labels.ready \notin {config.labels.working, config.labels.review,
                                     config.labels.human}
      /\ config.labels.working \notin {config.labels.review, config.labels.human}
      /\ config.labels.review # config.labels.human
  <2>1. Cardinality(Policy!StateLabels) = 4
    BY SameCardinality DEF Policy!ValidConfig, Policy!DistinctLabels
  <2> QED BY <2>1, FourLabelsDiffer DEF Policy!StateLabels
<1>3. Policy!RouteLabels \cap Policy!Planner!WorkflowLabels = {}
  BY <1>1, ClassesByLabel
<1>4. "NoRoute" \notin Policy!RouteLabels
  <2>1. config.routes \in Seq(Policy!AutonomousClass)
    BY DEF Policy!Config
  <2>2. ToSet(config.routes) \subseteq Policy!AutonomousClass
    BY <2>1 DEF ToSet
  <2>3. \A route \in ToSet(config.routes) : route.label \in Text
    BY <2>2 DEF Policy!AutonomousClass
  <2> QED BY <2>3, PolicyAssumption DEF Policy!RouteLabels, Policy!ToSet, ToSet
<1>5. \A l \in Policy!RouteLabels :
         [m \in Policy!RouteLabels |-> Policy!ClassOf(m).execution_mode][l] = "Unattended"
  BY ClassesByLabel
<1>6. config.workspace = [Attended |-> "Worktree", Unattended |-> "EphemeralClone"]
  BY DEF Policy!ValidConfig, Policy!SafeProfiles, Policy!Config, Policy!Modes
<1>7. config.merge_policy \in {"HumanFinalApproval", "SuggestOnly"}
  BY DEF Policy!ValidConfig, Policy!WaitsAsItMerges
<1>8. config.default_mode \in {"Attended", "Unattended"} /\ config.concurrency \in 1..32
  BY DEF Policy!ValidConfig, Policy!Config, Policy!Modes
<1> QED BY <1>2, <1>3, <1>4, <1>5, <1>6, <1>7, <1>8
        DEF Policy!Planner!IsPlannable, Policy!Planner!NoRoute

\* Under an accepted configuration the store accepts every plan of an issue, and
\* a plan is autonomous exactly if the issue wears a class of the policy, which
\* is never a label of the workflow: PlansAreStorable and AutonomyIsOptedIn for
\* each issue by itself.
THEOREM PlansAreAccepted ==
  ASSUME config \in Policy!Config, Policy!ValidConfig,
         NEW issue, issue.number \in Nat \ {0}
  PROVE  LET made == Policy!Planner!PlanOf(issue)
         IN  /\ ValidCandidate(made)
             /\ made.merge_policy = "AutonomousLowRisk" =>
                   /\ made.route \in
                         Policy!Planner!MatchingRoutes(issue) \ Policy!StateLabels
                   /\ made.execution_mode = "Unattended"
             /\ made.merge_policy # "AutonomousLowRisk" =>
                   /\ Policy!Planner!MatchingRoutes(issue) = {}
                   /\ made.merge_policy = config.merge_policy
<1> DEFINE routes == Policy!Planner!MatchingRoutes(issue)
           route  == IF routes = {} THEN "NoRoute" ELSE CHOOSE r \in routes : TRUE
           mode   == IF route = "NoRoute" THEN config.default_mode
                     ELSE Policy!ClassOf(route).execution_mode
<1>1. "NoRoute" \notin Policy!RouteLabels /\ config.merge_policy # "AutonomousLowRisk"
  BY ValidatedIsPlannable DEF Policy!Planner!IsPlannable, Policy!Planner!NoRoute
<1>2. routes \subseteq Policy!RouteLabels
  BY DEF Policy!Planner!MatchingRoutes
<1>3. routes # {} => route \in routes /\ route # "NoRoute"
  BY <1>1, <1>2
<1>4. route # "NoRoute" => mode = "Unattended" /\ route \notin Policy!StateLabels
  BY <1>2, <1>3, ClassesByLabel
<1>5. mode \in Modes
  BY <1>4 DEF Policy!Config, Policy!Modes, Modes
<1>6. /\ config.workspace["Attended"] = "Worktree"
      /\ config.workspace["Unattended"] = "EphemeralClone"
  BY DEF Policy!ValidConfig, Policy!SafeProfiles
<1>7. Policy!Planner!PlanOf(issue) =
        [number |-> issue.number, route |-> route, execution_mode |-> mode,
         workspace_type |-> config.workspace[mode],
         merge_policy |-> IF route = "NoRoute" THEN config.merge_policy
                          ELSE "AutonomousLowRisk"]
  BY <1>2, <1>3 DEF Policy!Planner!PlanOf, Policy!Planner!NoRoute
<1>8. config.merge_policy \in {"AutonomousLowRisk", "HumanFinalApproval", "SuggestOnly"}
  BY DEF Policy!Config, Policy!MergePolicy
<1> HIDE DEF routes, route, mode
<1>9. ValidCandidate(Policy!Planner!PlanOf(issue))
  BY <1>5, <1>6, <1>7, <1>8 DEF ValidCandidate, Modes
<1> QED BY <1>1, <1>3, <1>4, <1>7, <1>9 DEF routes, route

\* The planner, as an accepted configuration sets it up.
Configured == INSTANCE PlannerProofs
    WITH Ready <- config.labels.ready, Working <- config.labels.working,
         Review <- config.labels.review, Human <- config.labels.human,
         Routes <- Policy!RouteLabels,
         RouteMode <- [l \in Policy!RouteLabels |-> Policy!ClassOf(l).execution_mode],
         DefaultMode <- config.default_mode, WorkspaceOf <- config.workspace,
         GlobalPolicy <- config.merge_policy, Concurrency <- config.concurrency,
         LimitFloor <- 100, LimitFactor <- 4

LEMMA SamePlanner ==
  ASSUME NEW s, NEW busy
  PROVE  Policy!Planner!PlanCandidates(s, busy) = Configured!PlanCandidates(s, busy)
  BY Zenon
  DEF Policy!Planner!PlanCandidates, Configured!PlanCandidates,
      Policy!Planner!Eligible, Configured!Eligible, Policy!Planner!Ineligible, Configured!Ineligible,
      Policy!Planner!Taken, Configured!Taken, Policy!Planner!Deferred, Configured!Deferred,
      Policy!Planner!EligibleAt, Configured!EligibleAt,
      Policy!Planner!SortedIssues, Configured!SortedIssues,
      Policy!Planner!Before, Configured!Before,
      Policy!Planner!Refusal, Configured!Refusal,
      Policy!Planner!OnlyReady, Configured!OnlyReady,
      Policy!Planner!WorkflowLabelsAt, Configured!WorkflowLabelsAt,
      Policy!Planner!WorkflowLabels, Configured!WorkflowLabels,
      Policy!Planner!MatchingRoutes, Configured!MatchingRoutes,
      Policy!Planner!PlanOf, Configured!PlanOf, Policy!Planner!NoRoute, Configured!NoRoute,
      Policy!Planner!AvailableCapacity, Configured!AvailableCapacity,
      Policy!Planner!Diagnostic, Configured!Diagnostic,
      Policy!Planner!ToSet, Configured!ToSet,
      Policy!Planner!Cardinality, Configured!Cardinality

\* The plan of that planner for a listing: who is planned, and who is answered.
LEMMA ConfiguredPlan ==
  ASSUME config \in Policy!Config, Policy!ValidConfig,
         NEW s, IsListing(s), NEW busy, IsFiniteSet(busy)
  PROVE  LET made == Policy!Planner!PlanCandidates(s, busy)
         IN  /\ \A k \in DOMAIN made.candidates : \E j \in DOMAIN s :
                   /\ made.candidates[k] = Policy!Planner!PlanOf(s[j])
                   /\ ~(Cardinality(Policy!Planner!MatchingRoutes(s[j])) > 1)
             /\ \A k \in DOMAIN made.diagnostics :
                   made.diagnostics[k].number \in NumbersOf(s)
<1>1. Configured!IsPlannable
  BY ValidatedIsPlannable
  DEF Policy!Planner!IsPlannable, Configured!IsPlannable,
      Policy!Planner!WorkflowLabels, Configured!WorkflowLabels,
      Policy!Planner!NoRoute, Configured!NoRoute
<1>2. Configured!IsListing(s) /\ Configured!IsFiniteSet(busy)
  BY DEF Configured!IsListing, IsListing, Configured!IsFiniteSet, IsFiniteSet
<1>3. /\ \A k \in DOMAIN Configured!PlanCandidates(s, busy).candidates :
            \E j \in Configured!EligibleAt(s, busy) :
               Configured!PlanCandidates(s, busy).candidates[k] = Configured!PlanOf(s[j])
      /\ \A k \in DOMAIN Configured!PlanCandidates(s, busy).diagnostics :
            Configured!PlanCandidates(s, busy).diagnostics[k].number
               \in Configured!NumbersOf(s)
  BY <1>1, <1>2, Configured!PlannedAreEligible
<1>4. \A issue : Configured!PlanOf(issue) = Policy!Planner!PlanOf(issue)
  BY Zenon
  DEF Configured!PlanOf, Policy!Planner!PlanOf, Configured!NoRoute, Policy!Planner!NoRoute,
      Configured!MatchingRoutes, Policy!Planner!MatchingRoutes,
      Configured!ToSet, Policy!Planner!ToSet
<1>5. \A issue : Configured!Refusal(issue, busy) = "none" =>
                    ~(Cardinality(Policy!Planner!MatchingRoutes(issue)) > 1)
  <2>1. \A S : Configured!Cardinality(S) = Cardinality(S)
    BY Zenon DEF Configured!Cardinality, Cardinality
  <2>2. \A issue : Configured!MatchingRoutes(issue) = Policy!Planner!MatchingRoutes(issue)
    BY Zenon DEF Configured!MatchingRoutes, Policy!Planner!MatchingRoutes,
                 Configured!ToSet, Policy!Planner!ToSet
  <2> QED BY <2>1, <2>2 DEF Configured!Refusal
<1>6. Configured!NumbersOf(s) = NumbersOf(s)
  BY DEF Configured!NumbersOf, NumbersOf
<1>7. \A j \in Configured!EligibleAt(s, busy) :
          j \in DOMAIN s /\ Configured!Refusal(s[j], busy) = "none"
  BY DEF Configured!EligibleAt
<1> QED BY <1>3, <1>4, <1>5, <1>6, <1>7, SamePlanner

\* The numbers of what is offered tell the issues apart.
IsOffer(s) == /\ s \subseteq ConfiguredIssue
              /\ \A i, j \in s : i.number = j.number => i = j

LEMMA OfferIsListed ==
  ASSUME NEW s, IsOffer(s)
  PROVE  LET listing == SetToSeq(s)
         IN  IsListing(listing) /\ \A k \in DOMAIN listing : listing[k] \in s
<1> DEFINE n == Cardinality(s)
           listing == SetToSeq(s)
<1>1. IsFiniteSet(s)
  BY PolicyAssumption, FS_Subset DEF IsOffer
<1>2. n \in Nat /\ \E f \in [1..n -> s] : IsInjective(f)
  <2>1. n \in Nat /\ \E f : f \in Bijection(1..n, s)
    BY <1>1, FS_CardinalityType DEF ExistsBijection
  <2> QED BY <2>1 DEF Bijection, Injection, IsInjective
<1>3. listing \in [1..n -> s] /\ IsInjective(listing)
  BY <1>2 DEF SetToSeq
<1> HIDE DEF n, listing
<1>4. Len(listing) = n /\ DOMAIN listing = 1..n
  BY <1>2, <1>3, SeqDef
<1>5. \A k \in 1..n : listing[k] \in s /\ listing[k].number \in Nat
  BY <1>3, PolicyAssumption DEF IsOffer
<1>6. \A j, k \in 1..n : listing[j].number = listing[k].number => j = k
  BY <1>3, <1>4, <1>5 DEF IsOffer, IsInjective
<1> QED BY <1>2, <1>4, <1>5, <1>6 DEF IsListing, listing

\* A set that has no two elements is the set of each of its elements.
LEMMA AtMostOne ==
  ASSUME NEW S, IsFiniteSet(S), ~(Cardinality(S) > 1), NEW x \in S
  PROVE  S = {x}
<1> SUFFICES ASSUME NEW y \in S, y # x PROVE FALSE
  OBVIOUS
<1>1. IsFiniteSet({y}) /\ Cardinality({y}) = 1
  BY FS_Singleton
<1>2. IsFiniteSet({x, y}) /\ Cardinality({x, y}) = 2
  <2>1. {y} \cup {x} = {x, y} OBVIOUS
  <2> QED BY <1>1, <2>1, FS_AddElement
<1>3. Cardinality({x, y}) <= Cardinality(S) /\ Cardinality(S) \in Nat
  BY FS_Subset, FS_CardinalityType
<1> QED BY <1>2, <1>3

\* What a plan of an offer is: accepted by the store, and autonomous for those
\* issues only that wear one class.
LEMMA PlanOfOffer ==
  ASSUME config \in Configs, Policy!ValidConfig, NEW s, IsOffer(s), NEW busy \in SUBSET {1}
  PROVE  LET made == Policy!Planner!PlanCandidates(SetToSeq(s), busy)
         IN  /\ ValidPlan(made)
             /\ \A c \in ToSet(made.candidates) : \E issue \in s :
                   LET classes == ToSet(issue.labels) \cap Policy!RouteLabels
                   IN  /\ issue.number = c.number
                       /\ classes \cap Policy!StateLabels = {}
                       /\ IF c.merge_policy = "AutonomousLowRisk"
                          THEN /\ classes = {c.route}
                               /\ c.execution_mode = "Unattended"
                               /\ c.workspace_type = "EphemeralClone"
                          ELSE classes = {} /\ c.merge_policy = config.merge_policy
<1> DEFINE listing == SetToSeq(s)
           made == Policy!Planner!PlanCandidates(listing, busy)
<1>1. config \in Policy!Config /\ IsFiniteSet(busy)
  <2>1. IsFiniteSet({1}) BY FS_Singleton
  <2> QED BY <2>1, PolicyAssumption, FS_Subset
<1>2. IsListing(listing) /\ \A k \in DOMAIN listing : listing[k] \in s
  BY OfferIsListed
<1>3. /\ \A k \in DOMAIN made.candidates : \E j \in DOMAIN listing :
            /\ made.candidates[k] = Policy!Planner!PlanOf(listing[j])
            /\ ~(Cardinality(Policy!Planner!MatchingRoutes(listing[j])) > 1)
      /\ \A k \in DOMAIN made.diagnostics : made.diagnostics[k].number \in NumbersOf(listing)
  BY <1>1, <1>2, ConfiguredPlan
<1>4. \A issue \in s : issue.number \in Nat \ {0}
  BY PolicyAssumption DEF IsOffer
<1> HIDE DEF listing, made
<1>5. ASSUME NEW d \in ToSet(made.diagnostics) PROVE ValidDiagnostic(d)
  <2>1. PICK k \in DOMAIN made.diagnostics : d = made.diagnostics[k]
    BY DEF ToSet
  <2>2. d.number \in NumbersOf(listing)
    BY <1>3, <2>1
  <2> QED BY <1>2, <1>4, <2>2 DEF NumbersOf, ValidDiagnostic
<1>6. ASSUME NEW c \in ToSet(made.candidates)
      PROVE  \E issue \in s : /\ c = Policy!Planner!PlanOf(issue)
                              /\ ~(Cardinality(Policy!Planner!MatchingRoutes(issue)) > 1)
  BY <1>2, <1>3 DEF ToSet
<1>7. IsFiniteSet(Policy!RouteLabels)
  <2>1. config.routes \in Seq(Policy!AutonomousClass)
    BY <1>1 DEF Policy!Config
  <2>2. IsFiniteSet(DOMAIN config.routes)
    BY <2>1, FS_Interval
  <2>3. Policy!RouteLabels = {config.routes[k].label : k \in DOMAIN config.routes}
    BY DEF Policy!RouteLabels, Policy!ToSet
  <2> DEFINE f == [k \in DOMAIN config.routes |-> config.routes[k].label]
  <2>4. f \in Surjection(DOMAIN config.routes, Policy!RouteLabels)
    BY <2>3 DEF Surjection
  <2> HIDE DEF f
  <2> QED BY <2>2, <2>4, FS_Surjection
<1>8. ASSUME NEW c \in ToSet(made.candidates), NEW issue \in s,
             c = Policy!Planner!PlanOf(issue),
             ~(Cardinality(Policy!Planner!MatchingRoutes(issue)) > 1)
      PROVE  LET classes == ToSet(issue.labels) \cap Policy!RouteLabels
             IN  /\ ValidCandidate(c)
                 /\ issue.number = c.number
                 /\ classes \cap Policy!StateLabels = {}
                 /\ IF c.merge_policy = "AutonomousLowRisk"
                    THEN /\ classes = {c.route}
                         /\ c.execution_mode = "Unattended"
                         /\ c.workspace_type = "EphemeralClone"
                    ELSE classes = {} /\ c.merge_policy = config.merge_policy
  <2> DEFINE classes == ToSet(issue.labels) \cap Policy!RouteLabels
  <2>1. Policy!Planner!MatchingRoutes(issue) = classes
    BY DEF Policy!Planner!MatchingRoutes, Policy!Planner!ToSet, ToSet
  <2>2. issue.number = c.number
    BY <1>8 DEF Policy!Planner!PlanOf
  <2>3. /\ ValidCandidate(c)
        /\ c.merge_policy = "AutonomousLowRisk" =>
              c.route \in classes \ Policy!StateLabels /\ c.execution_mode = "Unattended"
        /\ c.merge_policy # "AutonomousLowRisk" =>
              classes = {} /\ c.merge_policy = config.merge_policy
    BY <1>1, <1>4, <1>8, <2>1, PlansAreAccepted
  <2>4. classes \cap Policy!StateLabels = {}
    BY <1>1, ClassesByLabel
  <2>5. IsFiniteSet(classes)
    BY <1>7, FS_Subset
  <2> HIDE DEF classes
  <2>6. ASSUME c.route \in classes PROVE classes = {c.route}
    BY <1>8, <2>1, <2>5, <2>6, AtMostOne
  <2>7. c.execution_mode = "Unattended" => c.workspace_type = "EphemeralClone"
    BY <2>3 DEF ValidCandidate
  <2> QED BY <2>2, <2>3, <2>4, <2>6, <2>7 DEF classes
<1>9. ValidPlan(made)
  BY <1>5, <1>6, <1>8 DEF ValidPlan
<1> QED BY <1>6, <1>8, <1>9 DEF made, listing

\* The two properties, and where configurations come from.
ConfigIInv == /\ config \in Configs \cup {NoConfig}
              /\ PlansAreStorable
              /\ AutonomyIsOptedIn

LEMMA ConfigInvariance == Spec => []ConfigIInv
<1>1. Init => ConfigIInv
  <2> SUFFICES ASSUME config \in Configs \cup {NoConfig}, answer = NoAnswer
               PROVE  ConfigIInv
    BY DEF Init, ConfigInit, ConfigIdle
  <2>1. ToSet(answer.candidates) = {} /\ ToSet(answer.diagnostics) = {}
    BY DEF NoAnswer, ToSet
  <2> QED BY <2>1 DEF ConfigIInv, PlansAreStorable, ValidPlan, AutonomyIsOptedIn, PlannedUnder
<1>2. ConfigIInv /\ [Next]_allVars => ConfigIInv'
  <2> SUFFICES ASSUME ConfigIInv, [Next]_allVars PROVE ConfigIInv'
    OBVIOUS
  <2>1. CASE Configure
    <3>1. PICK s \in SUBSET ConfiguredIssue, busy \in SUBSET {1} :
             /\ IsOffer(s) /\ offered' = s
             /\ answer' = Policy!Planner!PlanCandidates(SetToSeq(s), busy)
      BY <2>1 DEF Configure, IsOffer
    <3>2. config' = config /\ config \in Configs /\ Policy!ValidConfig
      BY <2>1 DEF Configure, ConfigIInv
    <3>3. /\ ValidPlan(answer')
          /\ \A c \in ToSet(answer'.candidates) : \E issue \in s :
                LET classes == ToSet(issue.labels) \cap Policy!RouteLabels
                IN  /\ issue.number = c.number
                    /\ classes \cap Policy!StateLabels = {}
                    /\ IF c.merge_policy = "AutonomousLowRisk"
                       THEN /\ classes = {c.route}
                            /\ c.execution_mode = "Unattended"
                            /\ c.workspace_type = "EphemeralClone"
                       ELSE classes = {} /\ c.merge_policy = config.merge_policy
      BY <3>1, <3>2, PlanOfOffer
    <3>4. PlansAreStorable'
      BY <3>3 DEF PlansAreStorable
    <3>5. ASSUME NEW c \in ToSet(answer'.candidates), NEW issue \in s,
                 issue.number = c.number
          PROVE  UNION {ToSet(i.labels) : i \in {j \in s : j.number = c.number}}
                    = ToSet(issue.labels)
      <4>1. {j \in s : j.number = c.number} = {issue}
        BY <3>1, <3>5 DEF IsOffer
      <4> QED BY <4>1
    <3>6. Policy!StateLabels' = Policy!StateLabels /\ Policy!RouteLabels' = Policy!RouteLabels
      BY <3>2 DEF Policy!StateLabels, Policy!RouteLabels, Policy!ToSet
    <3>7. AutonomyIsOptedIn'
      <4> SUFFICES ASSUME NEW c \in ToSet(answer'.candidates)
                   PROVE
            LET labels == UNION {ToSet(i.labels) : i \in {j \in s : j.number = c.number}}
                wears == labels \ Policy!StateLabels
                classes == wears \cap Policy!RouteLabels
            IN  IF c.merge_policy = "AutonomousLowRisk"
                THEN /\ classes = {c.route}
                     /\ c.execution_mode = "Unattended"
                     /\ c.workspace_type = "EphemeralClone"
                ELSE classes = {} /\ c.merge_policy = config.merge_policy
        BY <3>1, <3>2, <3>6 DEF AutonomyIsOptedIn, PlannedUnder
      <4>1. PICK issue \in s :
               LET classes == ToSet(issue.labels) \cap Policy!RouteLabels
               IN  /\ issue.number = c.number
                   /\ classes \cap Policy!StateLabels = {}
                   /\ IF c.merge_policy = "AutonomousLowRisk"
                      THEN /\ classes = {c.route}
                           /\ c.execution_mode = "Unattended"
                           /\ c.workspace_type = "EphemeralClone"
                      ELSE classes = {} /\ c.merge_policy = config.merge_policy
        BY <3>3
      <4>2. (ToSet(issue.labels) \ Policy!StateLabels) \cap Policy!RouteLabels
               = ToSet(issue.labels) \cap Policy!RouteLabels
        BY <4>1
      <4> QED BY <3>5, <4>1, <4>2
    <3> QED BY <3>2, <3>4, <3>7 DEF ConfigIInv
  <2>2. CASE UNCHANGED configVars
    BY <2>2
    DEF configVars, ConfigIInv, PlansAreStorable, AutonomyIsOptedIn, PlannedUnder,
        Policy!StateLabels, Policy!RouteLabels, Policy!ToSet
  <2> QED BY <2>1, <2>2 DEF Next, allVars
<1> QED BY <1>1, <1>2, PTL DEF Spec, allVars

\* The store takes what is planned under any accepted configuration.
THEOREM PlansAreStorableHolds == Spec => []PlansAreStorable
<1>1. ConfigIInv => PlansAreStorable BY DEF ConfigIInv
<1> QED BY <1>1, ConfigInvariance, PTL

\* No accepted configuration plans autonomy for an issue without a class.
THEOREM AutonomyIsOptedInHolds == Spec => []AutonomyIsOptedIn
<1>1. ConfigIInv => AutonomyIsOptedIn BY DEF ConfigIInv
<1> QED BY <1>1, ConfigInvariance, PTL
-----------------------------------------------------------------------------
(* The calendar.                                                              *)

\* The first day of a year in an era of 400 years.
YearStart(y) == 365 * y + y \div 4 - y \div 100

\* The year that civil_from_days computes for a day of an era holds the day.
LEMMA YearHoldsDay ==
  ASSUME NEW doe \in Int, 0 <= doe, doe <= 146096
  PROVE  LET y == YearOfEra(doe)
         IN  /\ y \in Int /\ 0 <= y /\ y <= 399
             /\ YearStart(y) <= doe
             /\ y < 399 => doe < YearStart(y + 1)
<1>1. CASE doe = 146096
  BY <1>1, SMT DEF YearOfEra, YearStart
<1>2. CASE doe < 146096
  <2> DEFINE c == doe \div 36524
             d == doe \div 1460
             n == doe - d + c
             y == n \div 365
  <2>1. c \in Int /\ 36524 * c <= doe /\ doe < 36524 * c + 36524
    BY SMT
  <2>2. d \in Int /\ 1460 * d <= doe /\ doe < 1460 * d + 1460
    BY SMT
  <2>3. doe \div 146096 = 0
    BY <1>2, SMT
  <2> HIDE DEF c, d
  <2>4. y \in Int /\ 365 * y <= n /\ n < 365 * y + 365
    BY <2>1, <2>2, SMT
  <2>5. YearOfEra(doe) = y
    BY <2>1, <2>2, <2>3, SMT DEF YearOfEra, c, d
  <2> DEFINE f == y \div 4
             g == (y + 1) \div 4
             h == y \div 100
             i == (y + 1) \div 100
  <2> HIDE DEF y
  <2>6. /\ f \in Int /\ 4 * f <= y /\ y < 4 * f + 4
        /\ g \in Int /\ 4 * g <= y + 1 /\ y + 1 < 4 * g + 4
        /\ h \in Int /\ 100 * h <= y /\ y < 100 * h + 100
        /\ i \in Int /\ 100 * i <= y + 1 /\ y + 1 < 100 * i + 100
    BY <2>4, SMT
  <2> HIDE DEF f, g, h, i
  <2>7. 0 <= c /\ c <= 3 /\ 0 <= d
    BY <1>2, <2>1, <2>2, SMT
  <2>8. 100 * c <= y /\ y <= 100 * c + 99
    <3> DEFINE r == doe - 36524 * c
               e == d - 25 * c
    <3>1. r \in Int /\ 0 <= r /\ r <= 36523 /\ doe = 36524 * c + r
      BY <2>1, SMT
    <3>2. e \in Int /\ 1460 * e <= r + 24 * c /\ r + 24 * c < 1460 * e + 1460 /\ d = 25 * c + e
      BY <2>1, <2>2, SMT
    <3> HIDE DEF r, e
    <3>3. 0 <= e /\ e <= 25
      BY <2>1, <2>7, <3>1, <3>2, SMT
    <3>4. 0 <= r - e /\ r - e < 36500
      BY <2>1, <2>7, <3>1, <3>2, <3>3, SMT
    <3>5. n = 36500 * c + (r - e)
      BY <2>1, <2>2, <3>1, <3>2, SMT
    <3> QED BY <2>1, <2>2, <2>4, <3>1, <3>2, <3>4, <3>5, SMT
  <2>9. h = c
    BY <2>1, <2>4, <2>6, <2>8, SMT
  <2>10. 365 * y + f - h <= doe
    BY <2>1, <2>2, <2>4, <2>6, <2>7, <2>8, <2>9, SMT
  <2>11. y < 399 => doe < 365 * (y + 1) + g - i
    BY <2>1, <2>2, <2>4, <2>6, <2>7, <2>8, <2>9, SMT
  <2>12. 0 <= y /\ y <= 399
    BY <2>1, <2>4, <2>7, <2>8, SMT
  <2> QED BY <2>4, <2>5, <2>10, <2>11, <2>12, SMT DEF YearStart, f, g, h, i
<1> QED BY <1>1, <1>2

\* The years follow each other without a gap,
LEMMA StartIncreases ==
  ASSUME NEW x \in Int, NEW y \in Int, 0 <= x, x < y, y <= 399
  PROVE  YearStart(x + 1) <= YearStart(y) /\ YearStart(x) < YearStart(x + 1)
<1> DEFINE p == x \div 4
           q == x \div 100
           r == (x + 1) \div 4
           s == (x + 1) \div 100
           t == y \div 4
           u == y \div 100
<1>1. /\ p \in Int /\ 4 * p <= x /\ x < 4 * p + 4
      /\ q \in Int /\ 100 * q <= x /\ x < 100 * q + 100
      /\ r \in Int /\ 4 * r <= x + 1 /\ x + 1 < 4 * r + 4
      /\ s \in Int /\ 100 * s <= x + 1 /\ x + 1 < 100 * s + 100
      /\ t \in Int /\ 4 * t <= y /\ y < 4 * t + 4
      /\ u \in Int /\ 100 * u <= y /\ y < 100 * u + 100
  BY SMT
<1> HIDE DEF p, q, r, s, t, u
<1>2. 365 * (x + 1) + r - s <= 365 * y + t - u
  BY <1>1, SMT
<1>3. 365 * x + p - q < 365 * (x + 1) + r - s
  BY <1>1, SMT
<1> QED BY <1>2, <1>3, SMT DEF YearStart, p, q, r, s, t, u

\* and so one year alone holds a day.
LEMMA YearIsOne ==
  ASSUME NEW doe \in Int, NEW x \in Int, NEW y \in Int,
         0 <= x, x <= 399, 0 <= y, y <= 399,
         YearStart(x) <= doe, x < 399 => doe < YearStart(x + 1),
         YearStart(y) <= doe, y < 399 => doe < YearStart(y + 1)
  PROVE  x = y
<1>1. \A i \in Int : YearStart(i) \in Int
  BY SMT DEF YearStart
<1>2. ~(x < y)
  BY <1>1, StartIncreases, SMT
<1>3. ~(y < x)
  BY <1>1, StartIncreases, SMT
<1> QED BY <1>2, <1>3, SMT

\* The months of the date check, without the cases.
LEMMA LengthOfMonth ==
  ASSUME NEW year, NEW month
  PROVE  DaysInMonth(year, month) =
            IF month \in {4, 6, 9, 11} THEN 30
            ELSE IF month = 2 THEN IF IsLeap(year) THEN 29 ELSE 28
            ELSE 31
  BY DEF DaysInMonth

\* The months of a year that starts in March: which holds a day, and where each
\* begins.
MonthAt(doy) == (5 * doy + 2) \div 153
MonthStart(m) == (153 * m + 2) \div 5
CivilMonth(m) == m + (IF m < 10 THEN 3 ELSE -9)

DateAt(year, doy) ==
    LET m == MonthAt(doy)
    IN  Date(IF CivilMonth(m) <= 2 THEN year + 1 ELSE year, CivilMonth(m), doy - MonthStart(m) + 1)

\* The month computed for a day of the year holds the day.
LEMMA MonthHoldsDay ==
  ASSUME NEW doy \in Int, 0 <= doy, doy <= 366
  PROVE  LET m == MonthAt(doy)
         IN  /\ m \in Int /\ 0 <= m /\ m <= 11
             /\ MonthStart(m) \in Int /\ MonthStart(m) <= doy /\ doy < MonthStart(m + 1)
             /\ doy + 1 < MonthStart(m + 1) => MonthAt(doy + 1) = m
             /\ doy + 1 = MonthStart(m + 1) => MonthAt(doy + 1) = m + 1
<1> DEFINE m == MonthAt(doy)
           n == MonthAt(doy + 1)
           a == MonthStart(m)
           b == MonthStart(m + 1)
<1>1. /\ m \in Int /\ 153 * m <= 5 * doy + 2 /\ 5 * doy + 2 < 153 * m + 153
      /\ n \in Int /\ 153 * n <= 5 * doy + 7 /\ 5 * doy + 7 < 153 * n + 153
  BY SMT DEF MonthAt
<1> HIDE DEF m, n
<1>2. /\ a \in Int /\ 5 * a <= 153 * m + 2 /\ 153 * m + 2 < 5 * a + 5
      /\ b \in Int /\ 5 * b <= 153 * m + 155 /\ 153 * m + 155 < 5 * b + 5
  BY <1>1, SMT DEF MonthStart
<1> HIDE DEF a, b
<1>3. 0 <= m /\ m <= 11
  BY <1>1, SMT
<1>4. a <= doy /\ doy < b
  BY <1>1, <1>2, SMT
<1>5. doy + 1 < b => n = m
  BY <1>1, <1>2, SMT
<1>6. doy + 1 = b => n = m + 1
  BY <1>1, <1>2, SMT
<1> QED BY <1>1, <1>2, <1>3, <1>4, <1>5, <1>6 DEF m, n, a, b

\* The months are as long as DaysInMonth says, all but the last.
LEMMA MonthsAreLong ==
  ASSUME NEW m \in Int, 0 <= m, m <= 10, NEW year
  PROVE  /\ MonthStart(m + 1) - MonthStart(m) = DaysInMonth(year, CivilMonth(m))
         /\ MonthStart(m) \in Int /\ MonthStart(m + 1) \in Int
         /\ CivilMonth(m) \in 1..12 /\ CivilMonth(m) # 2
         /\ IF m = 9 THEN CivilMonth(m) = 12 /\ CivilMonth(m + 1) = 1
            ELSE CivilMonth(m) < 12 /\ CivilMonth(m + 1) = CivilMonth(m) + 1
         /\ MonthStart(m + 1) <= 337
<1>1. \/ m = 0 \/ m = 1 \/ m = 2 \/ m = 3 \/ m = 4 \/ m = 5
      \/ m = 6 \/ m = 7 \/ m = 8 \/ m = 9 \/ m = 10
  BY SMT
<1>2. MonthStart(m) \in Int /\ MonthStart(m + 1) \in Int
  BY SMT DEF MonthStart
<1>3. /\ CivilMonth(m) \in 1..12 /\ CivilMonth(m) # 2
      /\ IF m = 9 THEN CivilMonth(m) = 12 /\ CivilMonth(m + 1) = 1
         ELSE CivilMonth(m) < 12 /\ CivilMonth(m + 1) = CivilMonth(m) + 1
  BY SMT DEF CivilMonth
<1>4. MonthStart(m + 1) - MonthStart(m) = IF CivilMonth(m) \in {4, 6, 9, 11} THEN 30 ELSE 31
  BY <1>1, SMT DEF MonthStart, CivilMonth
<1>5. MonthStart(m + 1) <= 337
  BY SMT DEF MonthStart
<1> QED BY <1>2, <1>3, <1>4, <1>5, LengthOfMonth

\* The day after, except in February, where the length of the year decides.
IsDated(year, doy, d) ==
    /\ d.month \in 1..12 /\ d.day >= 1 /\ d.day \in Int
    /\ d.year = IF d.month <= 2 THEN year + 1 ELSE year
    /\ doy < 306 => d.month > 2
    /\ doy >= 337 => d = Date(year + 1, 2, doy - 336)
    /\ doy < 337 => /\ d.day <= DaysInMonth(d.year, d.month)
                    /\ DateAt(year, doy + 1) = NextDate(d)

LEMMA MonthsInOrder ==
  ASSUME NEW year \in Int, NEW doy \in Int, 0 <= doy, doy <= 365
  PROVE  IsDated(year, doy, DateAt(year, doy))
<1> DEFINE m == MonthAt(doy)
           d == DateAt(year, doy)
           next == DateAt(year, doy + 1)
<1>1. /\ m \in Int /\ 0 <= m /\ m <= 11
      /\ MonthStart(m) \in Int /\ MonthStart(m) <= doy /\ doy < MonthStart(m + 1)
      /\ doy + 1 < MonthStart(m + 1) => MonthAt(doy + 1) = m
      /\ doy + 1 = MonthStart(m + 1) => MonthAt(doy + 1) = m + 1
  BY MonthHoldsDay
<1>2. d = Date(IF CivilMonth(m) <= 2 THEN year + 1 ELSE year, CivilMonth(m), doy - MonthStart(m) + 1)
  BY DEF DateAt
<1>3. next = LET n == MonthAt(doy + 1)
             IN  Date(IF CivilMonth(n) <= 2 THEN year + 1 ELSE year, CivilMonth(n),
                      (doy + 1) - MonthStart(n) + 1)
  BY Zenon DEF DateAt
<1>4. /\ \A y, i, j : /\ Date(y, i, j).year = y /\ Date(y, i, j).month = i
                      /\ Date(y, i, j).day = j
                      /\ [Date(y, i, j) EXCEPT !.day = @ + 1] = Date(y, i, j + 1)
  BY DEF Date
<1> HIDE DEF m, d, next
<1>5. CASE m = 11
  <2>1. CivilMonth(11) = 2 /\ MonthStart(11) = 337 /\ MonthStart(12) = 367
    BY SMT DEF CivilMonth, MonthStart
  <2>2. doy >= 337 /\ doy - 337 + 1 = doy - 336
    BY <1>1, <1>5, <2>1
  <2>3. d = Date(year + 1, 2, doy - 336)
    BY <1>2, <1>5, <2>1, <2>2
  <2>4. d.month = 2 /\ d.year = year + 1 /\ d.day = doy - 336
    BY <2>3 DEF Date
  <2> QED BY <2>2, <2>3, <2>4 DEF IsDated, d
<1>6. CASE m <= 10
  <2> DEFINE len == DaysInMonth(d.year, CivilMonth(m))
             c == CivilMonth(m)
             dom == doy - MonthStart(m) + 1
             first == MonthStart(m)
             after == MonthStart(m + 1)
  <2>1. /\ after - first = len /\ first \in Int /\ after \in Int
        /\ c \in 1..12 /\ c # 2
        /\ IF m = 9 THEN c = 12 /\ CivilMonth(m + 1) = 1
           ELSE c < 12 /\ CivilMonth(m + 1) = c + 1
        /\ after <= 337
    BY <1>1, <1>6, MonthsAreLong
  <2>2. /\ d.month = c /\ d.day = dom
        /\ d.year = IF c <= 2 THEN year + 1 ELSE year
        /\ d = Date(d.year, c, dom)
        /\ [d EXCEPT !.day = @ + 1] = Date(d.year, c, dom + 1)
    <3> DEFINE y == IF c <= 2 THEN year + 1 ELSE year
    <3>1. d = Date(y, c, dom)
      BY <1>2
    <3> HIDE DEF y, c, dom
    <3>2. d.month = c /\ d.day = dom /\ d.year = y
      BY <3>1 DEF Date
    <3>3. [d EXCEPT !.day = @ + 1] = Date(y, c, dom + 1)
      BY <1>4, <3>1, Zenon
    <3> QED BY <3>1, <3>2, <3>3 DEF y
  <2>3. doy < 306 => c > 2
    <3>1. m = 10 => first = 306
      BY SMT DEF MonthStart
    <3>2. m = 9 \/ (m = 10 /\ c = 1) \/ (m < 9 /\ c > 2)
      BY <1>1, <1>6, SMT DEF CivilMonth
    <3> QED BY <1>1, <1>6, <2>1, <3>1, <3>2
  <2> HIDE DEF c, len, dom, first, after
  <2>4. /\ first <= doy /\ doy < after /\ dom = doy - first + 1
    BY <1>1 DEF first, after, dom
  <2>5. CASE doy + 1 < after
    <3>1. next = Date(d.year, c, dom + 1)
      <4> DEFINE e == (doy + 1) - MonthStart(m) + 1
                 y == IF c <= 2 THEN year + 1 ELSE year
      <4>1. MonthAt(doy + 1) = m
        BY <1>1, <2>5 DEF after
      <4>2. e = dom + 1 /\ d.year = y
        BY <2>1, <2>2, <2>4 DEF first
      <4>3. next = Date(y, c, e)
        BY <1>3, <4>1, Zenon DEF c
      <4> HIDE DEF e, y
      <4> QED BY <4>2, <4>3
    <3>2. dom < len /\ len \in Int /\ dom \in Int
      BY <2>1, <2>4, <2>5
    <3>3. NextDate(d) = [d EXCEPT !.day = @ + 1]
      BY <2>2, <3>2 DEF NextDate, len, c
    <3> QED BY <2>1, <2>2, <2>3, <2>4, <3>1, <3>2, <3>3 DEF IsDated, d, next, len, c
  <2>6. CASE doy + 1 >= after
    <3>1. doy + 1 = after /\ dom = len /\ dom \in Int
      BY <2>1, <2>4, <2>6
    <3> DEFINE x == CivilMonth(m + 1)
               e == (doy + 1) - MonthStart(m + 1) + 1
    <3>2. MonthAt(doy + 1) = m + 1 /\ e = 1
      BY <1>1, <2>1, <3>1 DEF after
    <3>5. next = Date(IF x <= 2 THEN year + 1 ELSE year, x, e)
      BY <1>3, <3>2, Zenon
    <3> HIDE DEF x, e
    <3>3. CASE m = 9
      <4>1. next = Date(year + 1, 1, 1)
        <5>1. x = 1
          BY <2>1, <3>3 DEF x
        <5> QED BY <3>2, <3>5, <5>1
      <4>2. NextDate(d) = Date(d.year + 1, 1, 1)
        BY <2>1, <2>2, <3>1, <3>3 DEF NextDate, len, c
      <4> QED BY <2>1, <2>2, <2>3, <2>4, <3>1, <3>3, <4>1, <4>2 DEF IsDated, d, next, len, c
    <3>4. CASE m # 9
      <4>1. next = Date(d.year, c + 1, 1)
        <5>1. x <= 2 <=> c <= 2
          BY <1>1, <1>6, <3>4, SMT DEF CivilMonth, c, x
        <5>2. x = c + 1
          BY <2>1, <3>4 DEF x
        <5>3. (IF x <= 2 THEN year + 1 ELSE year) = d.year
          BY <2>2, <5>1
        <5> QED BY <3>2, <3>5, <5>2, <5>3
      <4>2. NextDate(d) = Date(d.year, c + 1, 1)
        BY <2>1, <2>2, <3>1, <3>4 DEF NextDate, len, c
      <4> QED BY <2>1, <2>2, <2>3, <2>4, <3>1, <4>1, <4>2 DEF IsDated, d, next, len, c
    <3> QED BY <3>3, <3>4
  <2> QED BY <2>1, <2>4, <2>5, <2>6
<1> QED BY <1>1, <1>5, <1>6
\* Four hundred years; where a day stands: in its era of 400 years, and in a year of that era.
EraDays == 146097

Stands(n, era, doe, y, year, doy) ==
    /\ n + 719468 = era * 146097 + doe
    /\ 0 <= doe /\ doe <= 146096 /\ 4 <= era
    /\ 0 <= y /\ y <= 399
    /\ YearStart(y) \in Int /\ YearStart(y) <= doe
    /\ y < 399 => doe < YearStart(y + 1)
    /\ year = y + era * 400 /\ doy = doe - YearStart(y)

\* civil_from_days finds where a day stands, and there is one such place.
LEMMA DayStands ==
  ASSUME NEW n \in Int, 0 <= n
  PROVE  \E era, doe, y, year, doy \in Int :
            /\ Stands(n, era, doe, y, year, doy)
            /\ CivilFromDays(n) = DateAt(year, doy)
<1> DEFINE z == n + 719468
           era == z \div 146097
           doe == z - era * 146097
           y == YearOfEra(doe)
           year == y + era * 400
           doy == doe - YearStart(y)
<1>1. era \in Int /\ 146097 * era <= z /\ z < 146097 * era + 146097
  BY SMT
<1>2. CivilFromDays(n) = DateAt(year, doy)
  BY SMT DEF CivilFromDays, DateAt, YearStart, MonthAt, MonthStart, CivilMonth
<1> HIDE DEF era
<1>3. era \in Int /\ doe \in Int /\ 0 <= doe /\ doe <= 146096 /\ 4 <= era
  BY <1>1, SMT
<1>4. z = era * 146097 + doe
  BY <1>1, SMT
<1> HIDE DEF doe
<1>5. /\ y \in Int /\ 0 <= y /\ y <= 399
      /\ YearStart(y) <= doe
      /\ y < 399 => doe < YearStart(y + 1)
  BY <1>3, YearHoldsDay
<1> HIDE DEF y
<1>6. YearStart(y) \in Int
  BY <1>5, SMT DEF YearStart
<1>7. Stands(n, era, doe, y, year, doy)
  BY <1>3, <1>4, <1>5, <1>6, SMT DEF Stands
<1>8. /\ era \in Int /\ doe \in Int /\ y \in Int
      /\ year \in Int /\ doy \in Int
  BY <1>3, <1>5, <1>6, SMT
<1> HIDE DEF z, year, doy
<1> QED BY <1>2, <1>7, <1>8, Zenon

LEMMA StandsOnce ==
  ASSUME NEW n \in Int, 0 <= n,
         NEW era \in Int, NEW doe \in Int, NEW y \in Int, NEW year, NEW doy,
         Stands(n, era, doe, y, year, doy)
  PROVE  CivilFromDays(n) = DateAt(year, doy)
<1>1. PICK f, e, x, u, v \in Int :
            Stands(n, f, e, x, u, v) /\ CivilFromDays(n) = DateAt(u, v)
  BY DayStands, Zenon
<1>2. f = era /\ e = doe
  BY <1>1, SMT DEF Stands
<1>3. x = y
  <2>1. x \in Int /\ 0 <= x /\ x <= 399 /\ YearStart(x) <= doe /\ (x < 399 => doe < YearStart(x + 1))
    BY <1>1, <1>2, SMT DEF Stands
  <2>2. 0 <= y /\ y <= 399 /\ YearStart(y) <= doe /\ (y < 399 => doe < YearStart(y + 1))
    BY SMT DEF Stands
  <2> QED BY <2>1, <2>2, YearIsOne
<1>4. u = year /\ v = doy
  BY <1>1, <1>2, <1>3, SMT DEF Stands
<1> QED BY <1>1, <1>4

\* A year that starts in March is as long as the February at its end says.
LEMMA YearsAreLong ==
  ASSUME NEW n, NEW era \in Int, NEW doe, NEW y \in Int, NEW year, NEW doy,
         Stands(n, era, doe, y, year, doy)
  PROVE  (IF y < 399 THEN YearStart(y + 1) ELSE EraDays) - YearStart(y)
            = IF IsLeap(year + 1) THEN 366 ELSE 365
<1>0. 0 <= y /\ y <= 399 /\ year = y + era * 400
  BY SMT DEF Stands
<1> DEFINE Y == year + 1
           p == y \div 4
           q == y \div 100
           r == (y + 1) \div 4
           s == (y + 1) \div 100
<1>1. /\ p \in Int /\ 4 * p <= y /\ y < 4 * p + 4
      /\ q \in Int /\ 100 * q <= y /\ y < 100 * q + 100
      /\ r \in Int /\ 4 * r <= y + 1 /\ y + 1 < 4 * r + 4
      /\ s \in Int /\ 100 * s <= y + 1 /\ y + 1 < 100 * s + 100
  BY SMT
<1>2. /\ Y % 400 = 0 <=> y = 399
      /\ Y % 4 = 0 <=> y + 1 = 4 * r
      /\ Y % 100 = 0 <=> y + 1 = 100 * s
  BY <1>0, SMT
<1> HIDE DEF Y, p, q, r, s
<1>3. IsLeap(Y) <=> (y = 399 \/ (y + 1 = 4 * r /\ y + 1 # 100 * s))
  BY <1>2 DEF IsLeap
<1>4. CASE y < 399
  <2>1. 365 * (y + 1) + r - s - (365 * y + p - q) = IF IsLeap(Y) THEN 366 ELSE 365
    BY <1>0, <1>1, <1>3, <1>4, SMT
  <2> QED BY <1>4, <2>1 DEF YearStart, Y, p, q, r, s
<1>5. CASE y = 399
  <2>1. YearStart(399) = 145731
    BY SMT DEF YearStart
  <2> QED BY <1>3, <1>5, <2>1, SMT DEF Y, EraDays
<1> QED BY <1>0, <1>4, <1>5

LEMMA DayByDay ==
  ASSUME NEW n \in Int, 0 <= n
  PROVE  LET d == CivilFromDays(n)
         IN  /\ CivilFromDays(n + 1) = NextDate(d)
             /\ d.month \in 1..12
             /\ d.day \in 1..DaysInMonth(d.year, d.month)
             /\ d.year \in Int /\ 1 <= d.year
             /\ n <= 2932896 => d.year <= 9999
<1>0. PICK era, doe, y, Y, doy \in Int :
            Stands(n, era, doe, y, Y, doy) /\ CivilFromDays(n) = DateAt(Y, doy)
  BY DayStands, Zenon
<1> DEFINE s == YearStart(y)
           len == IF IsLeap(Y + 1) THEN 366 ELSE 365
           d == CivilFromDays(n)
           next == CivilFromDays(n + 1)
<1>1. /\ n + 719468 = era * 146097 + doe
      /\ 0 <= doe /\ doe <= 146096 /\ 4 <= era
      /\ 0 <= y /\ y <= 399
      /\ s \in Int /\ s <= doe
      /\ y < 399 => doe < YearStart(y + 1)
      /\ Y = y + era * 400 /\ doy = doe - s
  BY <1>0, SMT DEF Stands
<1>2. (IF y < 399 THEN YearStart(y + 1) ELSE EraDays) - s = len
  BY <1>0, YearsAreLong, SMT
<1>3. Y \in Int /\ doy \in Int /\ 0 <= doy /\ len \in Int /\ len <= 366
  BY <1>0, <1>1, SMT
<1>4. y < 399 => YearStart(y + 1) \in Int /\ YearStart(y + 1) <= 146096
  BY <1>1, SMT DEF YearStart
<1>5. d = DateAt(Y, doy)
  BY <1>0
<1>6. doy < len
  BY <1>1, <1>2, <1>4, SMT DEF EraDays
<1>7. 1600 <= Y
  BY <1>1, SMT
<1>8. n <= 2932896 => Y <= 9998 \/ (Y = 9999 /\ doy < 306)
  <2>1. YearStart(399) = 145731
    BY SMT DEF YearStart
  <2>2. y = 399 => s = 145731
    BY <2>1, SMT
  <2> HIDE DEF s
  <2> QED BY <1>1, <2>2, SMT DEF s
<1>9. doy + 1 < len => next = DateAt(Y, doy + 1)
  <2> SUFFICES ASSUME doy + 1 < len PROVE next = DateAt(Y, doy + 1)
    OBVIOUS
  <2>1. /\ doe + 1 <= 146096 /\ s <= doe + 1
        /\ y < 399 => doe + 1 < YearStart(y + 1)
    BY <1>1, <1>2, <1>4, SMT DEF EraDays
  <2>2. (n + 1) + 719468 = era * 146097 + (doe + 1)
    BY <1>1, SMT
  <2>3. Stands(n + 1, era, doe + 1, y, Y, doy + 1)
    BY <1>1, <2>1, <2>2, SMT DEF Stands
  <2>4. n + 1 \in Int /\ 0 <= n + 1 /\ doe + 1 \in Int
    BY SMT
  <2> QED BY <1>0, <2>3, <2>4, StandsOnce, SMT
<1>10. doy + 1 = len => next = DateAt(Y + 1, 0)
  <2> SUFFICES ASSUME doy + 1 = len PROVE next = DateAt(Y + 1, 0)
    OBVIOUS
  <2>1. CASE y < 399
    <3>1. doe + 1 = YearStart(y + 1) /\ doe + 1 <= 146096
      <4>1. doe + 1 = YearStart(y + 1)
        BY <1>1, <1>2, <1>4, <2>1, SMT DEF EraDays
      <4> QED BY <1>4, <2>1, <4>1, SMT
    <3>2. y + 1 < 399 => doe + 1 < YearStart((y + 1) + 1)
      BY <1>1, <3>1, <2>1, StartIncreases, SMT
    <3>3. (n + 1) + 719468 = era * 146097 + (doe + 1)
      BY <1>1, SMT
    <3>4. Stands(n + 1, era, doe + 1, y + 1, Y + 1, 0)
      BY <1>1, <1>4, <2>1, <3>1, <3>2, <3>3, SMT DEF Stands
    <3>5. n + 1 \in Int /\ 0 <= n + 1 /\ doe + 1 \in Int /\ y + 1 \in Int
      BY SMT
    <3> QED BY <1>0, <3>4, <3>5, StandsOnce, SMT
  <2>2. CASE y = 399
    <3>1. (n + 1) + 719468 = (era + 1) * 146097 + 0
      BY <1>1, <1>2, <2>2, SMT DEF EraDays
    <3>2. YearStart(0) = 0 /\ YearStart(0 + 1) = 365
      BY SMT DEF YearStart
    <3>3. Stands(n + 1, era + 1, 0, 0, Y + 1, 0)
      BY <1>1, <2>2, <3>1, <3>2, SMT DEF Stands
    <3>4. n + 1 \in Int /\ 0 <= n + 1 /\ era + 1 \in Int /\ 0 \in Int
      BY SMT
    <3> QED BY <1>0, <3>3, <3>4, StandsOnce, SMT
  <2> QED BY <1>1, <2>1, <2>2, SMT
<1> HIDE DEF s, len, d, next
<1>11. IsDated(Y, doy, d)
  <2>1. doy <= 365
    BY <1>3, <1>6, SMT
  <2> QED BY <1>3, <1>5, <2>1, MonthsInOrder, SMT
<1>12. d.year \in Int /\ 1 <= d.year /\ (n <= 2932896 => d.year <= 9999)
  BY <1>3, <1>7, <1>8, <1>11, SMT DEF IsDated
<1>13. DaysInMonth(Y + 1, 2) = len - 337
  BY LengthOfMonth, SMT DEF len
<1>14. CASE doy < 337
  <2>1. next = NextDate(d)
    BY <1>3, <1>9, <1>11, <1>14, SMT DEF len, IsDated
  <2>2. d.day <= DaysInMonth(d.year, d.month) /\ DaysInMonth(d.year, d.month) \in Int
    BY <1>11, <1>14, LengthOfMonth, SMT DEF IsDated
  <2> QED BY <1>11, <1>12, <2>1, <2>2, SMT DEF d, next, IsDated
<1>15. CASE doy >= 337
  <2>1. /\ d.year = Y + 1 /\ d.month = 2 /\ d.day = doy - 336
        /\ \A i : [d EXCEPT !.day = i] = Date(Y + 1, 2, i)
    BY <1>11, <1>15, SMT DEF Date, IsDated
  <2>2. d.day \in 1..DaysInMonth(d.year, d.month)
    BY <1>3, <1>6, <1>13, <1>15, <2>1, SMT
  <2>3. next = NextDate(d)
    <3>1. CASE doy + 1 < len
      <4>1. next = Date(Y + 1, 2, doy + 1 - 336)
        BY <1>3, <1>9, <1>15, <3>1, MonthsInOrder, SMT DEF IsDated
      <4>2. NextDate(d) = [d EXCEPT !.day = @ + 1]
        BY <1>3, <1>13, <2>1, <3>1, SMT DEF NextDate
      <4>3. d.day + 1 = doy + 1 - 336
        BY <1>3, <2>1, SMT
      <4> QED BY <2>1, <4>1, <4>2, <4>3, SMT
    <3>2. CASE doy + 1 = len
      <4>1. NextDate(d) = Date(Y + 1, 3, 1)
        BY <1>3, <1>13, <2>1, <3>2, SMT DEF NextDate
      <4>2. DateAt(Y + 1, 0) = Date(Y + 1, 3, 1)
        <5>1. MonthAt(0) = 0 /\ CivilMonth(0) = 3 /\ MonthStart(0) = 0 /\ 0 - 0 + 1 = 1
          BY SMT DEF MonthAt, CivilMonth, MonthStart
        <5> QED BY <5>1, SMT DEF DateAt
      <4> QED BY <1>10, <3>2, <4>1, <4>2, SMT
    <3> QED BY <1>3, <1>6, <3>1, <3>2, SMT
  <2> QED BY <1>11, <1>12, <2>2, <2>3, SMT DEF d, next, IsDated
<1> QED BY <1>3, <1>14, <1>15, SMT

\* Day 0.
LEMMA TheEpoch == CivilFromDays(0) = Date(1970, 1, 1)
<1>1. YearStart(369) = 134774 /\ YearStart(370) = 135139
  BY SMT DEF YearStart
<1>2. Stands(0, 4, 135080, 369, 1969, 306)
  BY <1>1, SMT DEF Stands
<1>3. CivilFromDays(0) = DateAt(1969, 306)
  BY <1>2, StandsOnce, SMT
<1>4. MonthAt(306) = 10 /\ CivilMonth(10) = 1 /\ MonthStart(10) = 306
  BY SMT DEF MonthAt, CivilMonth, MonthStart
<1>5. DateAt(1969, 306) = Date(1970, 1, 1)
  BY <1>4, SMT DEF DateAt
<1> QED BY <1>3, <1>5, SMT

\* The day is one of those the run tells of, and a date, once it is made, is the
\* date of the day.
CalendarIInv == /\ day = NoDay \/ day \in 0..LastDay
                /\ date = NoDate \/ (day # NoDay /\ date = CivilFromDays(day))

LEMMA CalendarInvariance == Spec => []CalendarIInv
<1>1. Init => CalendarIInv
  BY DEF Init, CalendarInit, CalendarIdle, CalendarIInv
<1>2. CalendarIInv /\ [Next]_allVars => CalendarIInv'
  <2> SUFFICES ASSUME CalendarIInv, [Next]_allVars PROVE CalendarIInv'
    OBVIOUS
  <2>1. CASE Convert
    BY <2>1 DEF Convert, CalendarIInv
  <2>2. CASE UNCHANGED calendarVars
    BY <2>2 DEF calendarVars, CalendarIInv
  <2> QED BY <2>1, <2>2 DEF Next, allVars
<1> QED BY <1>1, <1>2, PTL DEF Spec, allVars

\* observed_at: the dates are those of the calendar, and the store accepts them,
\* to the end of the year 9999.
THEOREM CalendarIsExactHolds == Spec => []CalendarIsExact
<1>1. ASSUME CalendarIInv PROVE CalendarIsExact
  <2> SUFFICES ASSUME date # NoDate PROVE CalendarIsExact
    BY DEF CalendarIsExact
  <2>1. date = CivilFromDays(day) /\ day \in 0..LastDay
    BY <1>1 DEF CalendarIInv
  <2>2. day \in Int /\ 0 <= day /\ day <= 2932896
    BY <2>1, CalendarAssumption, SMT
  <2> DEFINE d == CivilFromDays(day)
  <2>3. /\ CivilFromDays(day + 1) = NextDate(d)
        /\ d.month \in 1..12
        /\ d.day \in 1..DaysInMonth(d.year, d.month)
        /\ d.year \in Int /\ 1 <= d.year
        /\ day <= 2932896 => d.year <= 9999
    BY <2>2, DayByDay, SMT
  <2>4. ValidDate(d)
    BY <2>2, <2>3, SMT DEF ValidDate
  <2>5. CivilFromDays(day + 1) = NextDate(d)
    BY <2>3, SMT
  <2>6. day = 0 => date = Date(1970, 1, 1)
    BY <2>1, TheEpoch
  <2> HIDE DEF d
  <2> QED BY <2>1, <2>4, <2>5, <2>6 DEF CalendarIsExact, d
<1> QED BY <1>1, CalendarInvariance, PTL
=============================================================================
