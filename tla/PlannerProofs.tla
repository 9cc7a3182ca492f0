---------------------------- MODULE PlannerProofs ----------------------------
(* plan_candidates on every listing and every set of active issues: sorting   *)
(* and selecting, then what a plan makes of them.                             *)
EXTENDS CandidatePlanner, FiniteSetTheorems, SequenceTheorems,
        WellFoundedInduction, TLAPS

\* Every non-empty set of naturals has a least element: what the inductions
\* below start from, each on the least number that breaks its claim.
LEMMA LeastNumber ==
  ASSUME NEW T \in SUBSET Nat, T # {}
  PROVE  \E x \in T : \A y \in T : x <= y
<1>1. IsWellFoundedOn(OpToRel(<,Nat), Nat)
  BY NatLessThanWellFounded
<1>2. PICK x \in T : \A y \in T : ~ (<<y, x>> \in OpToRel(<,Nat))
  BY <1>1, WFMin
<1>3. \A y \in T : ~(y < x)
  BY <1>2 DEF OpToRel
<1> QED BY <1>3
-----------------------------------------------------------------------------
(* Sorting.                                                                   *)

\* What GitHub may list: issues with numbers, none of them twice.
IsListing(issues) ==
    /\ DOMAIN issues = 1..Len(issues) /\ Len(issues) \in Nat
    /\ \A k \in DOMAIN issues : issues[k].number \in Nat
    /\ \A j, k \in DOMAIN issues : issues[j].number = issues[k].number => j = k

\* Positions, every one of which comes before the next.
InOrder(issues, f) ==
    \A i, j \in DOMAIN f : i < j => Before(issues, f[i], f[j])

\* Among some issues one comes first.
LEMMA FirstExists ==
  ASSUME NEW issues, IsListing(issues), NEW K \in SUBSET DOMAIN issues, K # {}
  PROVE  \E m \in K : \A k \in K \ {m} : Before(issues, m, k)
<1> DEFINE T == {issues[k].number : k \in K}
<1>1. T \in SUBSET Nat /\ T # {}
  BY DEF IsListing
<1>2. PICK x \in T : \A y \in T : x <= y
  <2> HIDE DEF T
  <2> QED BY <1>1, LeastNumber
<1>3. PICK m \in K : issues[m].number = x
  BY <1>2
<1>4. ASSUME NEW k \in K \ {m} PROVE issues[m].number < issues[k].number
  <2>1. issues[m].number # issues[k].number
    BY DEF IsListing
  <2>2. issues[k].number \in Nat /\ issues[m].number \in Nat
    BY DEF IsListing
  <2> QED BY <1>2, <1>3, <2>1, <2>2
<1> QED BY <1>4 DEF Before

\* Any positions can be put in order: the first, then the others in order.
LEMMA OrderExists ==
  ASSUME NEW issues, IsListing(issues), NEW K \in SUBSET DOMAIN issues
  PROVE  \E f \in [1..Cardinality(K) -> K] : InOrder(issues, f)
<1> DEFINE Sortable(S) == \E f \in [1..Cardinality(S) -> S] : InOrder(issues, f)
           Bad == {n \in Nat : \E S \in SUBSET DOMAIN issues :
                                  Cardinality(S) = n /\ ~Sortable(S)}
<1>1. \A S \in SUBSET DOMAIN issues : IsFiniteSet(S) /\ Cardinality(S) \in Nat
  <2>1. IsFiniteSet(DOMAIN issues)
    BY FS_Interval DEF IsListing
  <2> QED BY <2>1, FS_Subset, FS_CardinalityType
<1>2. SUFFICES ASSUME Bad # {} PROVE FALSE
  BY <1>1
<1>3. PICK n \in Bad : \A m \in Bad : n <= m
  <2>1. Bad \in SUBSET Nat OBVIOUS
  <2> HIDE DEF Bad
  <2> QED BY <1>2, <2>1, LeastNumber
<1>4. PICK S \in SUBSET DOMAIN issues : Cardinality(S) = n /\ ~Sortable(S)
  BY <1>3
<1>5. S # {}
  <2>1. SUFFICES ASSUME S = {} PROVE Sortable(S)
    BY <1>4
  <2>2. Cardinality(S) = 0 BY <2>1, FS_EmptySet
  <2>3. 1..0 = {} OBVIOUS
  <2>4. [x \in {} |-> x] \in [1..Cardinality(S) -> S]
    BY <2>2, <2>3
  <2>5. InOrder(issues, [x \in {} |-> x])
    BY DEF InOrder
  <2> QED BY <2>4, <2>5
<1>6. PICK m \in S : \A k \in S \ {m} : Before(issues, m, k)
  BY <1>5, FirstExists
<1>7. n \in Nat /\ n > 0 /\ Cardinality(S \ {m}) = n - 1
  BY <1>1, <1>4, <1>5, FS_RemoveElement, FS_EmptySet
<1>8. PICK g \in [1..(n-1) -> S \ {m}] : InOrder(issues, g)
  <2>1. n - 1 \notin Bad /\ n - 1 \in Nat
    BY <1>3, <1>7
  <2>2. Sortable(S \ {m})
    BY <1>7, <2>1
  <2> QED BY <1>7, <2>2
<1> DEFINE f == [k \in 1..n |-> IF k = 1 THEN m ELSE g[k - 1]]
<1>9. f \in [1..n -> S]
  <2>1. \A k \in 1..n : k # 1 => k - 1 \in 1..(n-1)
    BY <1>7
  <2> QED BY <2>1
<1>10. InOrder(issues, f)
  <2> SUFFICES ASSUME NEW i \in 1..n, NEW j \in 1..n, i < j
               PROVE  Before(issues, f[i], f[j])
    BY DEF InOrder
  <2>1. j - 1 \in 1..(n-1) /\ f[j] = g[j - 1]
    BY <1>7
  <2>2. CASE i = 1
    BY <1>6, <2>1, <2>2
  <2>3. CASE i # 1
    <3>1. i - 1 \in 1..(n-1) /\ f[i] = g[i - 1] /\ i - 1 < j - 1
      BY <1>7, <2>3
    <3> HIDE DEF f
    <3> QED BY <1>8, <2>1, <3>1 DEF InOrder
  <2> QED BY <2>2, <2>3
<1> HIDE DEF f
<1> QED BY <1>4, <1>9, <1>10

\* Two sequences that list the same issues in ascending order are the same: take
\* the first position where they differ.
LEMMA OrderIsUnique ==
  ASSUME NEW n \in Nat, NEW S, NEW s \in [1..n -> S], NEW t \in [1..n -> S],
         \A x \in S : x.number \in Nat,
         \A i, j \in 1..n : i < j => s[i].number < s[j].number,
         \A i, j \in 1..n : i < j => t[i].number < t[j].number,
         \A i \in 1..n : (\E j \in 1..n : t[j] = s[i]) /\ (\E j \in 1..n : s[j] = t[i])
  PROVE  s = t
<1> DEFINE Differ == {k \in 1..n : s[k] # t[k]}
<1>1. SUFFICES ASSUME Differ # {} PROVE FALSE
  <2>1. SUFFICES ASSUME \A k \in 1..n : s[k] = t[k] PROVE s = t
    OBVIOUS
  <2> QED BY <2>1
<1>2. PICK k \in Differ : \A j \in Differ : k <= j
  <2>1. Differ \in SUBSET Nat OBVIOUS
  <2> HIDE DEF Differ
  <2> QED BY <1>1, <2>1, LeastNumber
<1>3. k \in 1..n /\ s[k] # t[k] /\ \A j \in 1..n : j < k => s[j] = t[j]
  BY <1>2
<1>4. \A j \in 1..n : s[j].number \in Nat /\ t[j].number \in Nat
  OBVIOUS
<1> DEFINE a == s[k].number
           b == t[k].number
<1>5. a \in Nat /\ b \in Nat
  BY <1>3, <1>4
<1>6. b < a
  <2>1. PICK i \in 1..n : t[i] = s[k]
    BY <1>3
  <2>2. i # k
    BY <1>3, <2>1
  <2>3. ASSUME i < k PROVE FALSE
    <3>1. a < a
      BY <1>3, <2>1, <2>3
    <3> HIDE DEF a, b
    <3> QED BY <1>5, <3>1
  <2>4. b < t[i].number
    BY <1>3, <2>2, <2>3
  <2> QED BY <2>1, <2>4
<1>7. a < b
  <2>1. PICK i \in 1..n : s[i] = t[k]
    BY <1>3
  <2>2. i # k
    BY <1>3, <2>1
  <2>3. ASSUME i < k PROVE FALSE
    <3>1. b < b
      BY <1>3, <2>1, <2>3
    <3> HIDE DEF a, b
    <3> QED BY <1>5, <3>1
  <2>4. a < s[i].number
    BY <1>3, <2>2, <2>3
  <2> QED BY <2>1, <2>4
<1> HIDE DEF a, b
<1> QED BY <1>5, <1>6, <1>7

\* What sorting yields: each selected issue, once, in ascending order.
LEMMA SortedLists ==
  ASSUME NEW issues, IsListing(issues), NEW K \in SUBSET DOMAIN issues
  PROVE  LET s == SortedIssues(issues, K)
             n == Cardinality(K)
         IN  /\ n \in Nat /\ s \in [1..n -> {issues[k] : k \in K}]
             /\ \A k \in K : \E j \in 1..n : s[j] = issues[k]
             /\ \A i, j \in 1..n : i < j => s[i].number < s[j].number
<1> DEFINE n == Cardinality(K)
           order == CHOOSE f \in [1..n -> K] : InOrder(issues, f)
           s == SortedIssues(issues, K)
<1>1. IsFiniteSet(K) /\ n \in Nat
  <2>1. IsFiniteSet(DOMAIN issues)
    BY FS_Interval DEF IsListing
  <2> QED BY <2>1, FS_Subset, FS_CardinalityType
<1>2. order \in [1..n -> K] /\ InOrder(issues, order)
  BY OrderExists
<1>3. s = [k \in 1..n |-> issues[order[k]]]
  BY <1>2 DEF SortedIssues, InOrder
<1> HIDE DEF n, order, s
<1>4. ASSUME NEW i \in 1..n, NEW j \in 1..n, i < j
      PROVE  order[i] # order[j] /\ issues[order[i]].number < issues[order[j]].number
  <2>1. Before(issues, order[i], order[j])
    BY <1>2, <1>4 DEF InOrder
  <2>2. order[i] \in DOMAIN issues /\ order[j] \in DOMAIN issues
    BY <1>2
  <2> QED BY <2>1, <2>2 DEF Before, IsListing
<1>5. order \in Injection(1..n, K)
  <2>1. \A i, j \in 1..n : order[i] = order[j] => i = j
    BY <1>1, <1>4
  <2> QED BY <1>2, <2>1 DEF Injection, IsInjective
<1>6. order \in Surjection(1..n, K)
  <2>1. Cardinality(1..n) = n
    BY <1>1, FS_Interval
  <2> QED BY <1>1, <1>5, <2>1, FS_Injection DEF n
<1>7. \A k \in K : \E j \in 1..n : order[j] = k
  BY <1>6 DEF Surjection
<1>8. s \in [1..n -> {issues[k] : k \in K}]
  BY <1>2, <1>3
<1>9. \A k \in K : \E j \in 1..n : s[j] = issues[k]
  BY <1>3, <1>7
<1>10. \A i, j \in 1..n : i < j => s[i].number < s[j].number
  BY <1>3, <1>4
<1> QED BY <1>1, <1>8, <1>9, <1>10 DEF n, s
-----------------------------------------------------------------------------
(* Plans.                                                                     *)

NumbersOf(s) == {s[k].number : k \in DOMAIN s}

\* How a listing is divided: the eligible issues and the refused ones, in order.
LEMMA Division ==
  ASSUME NEW issues, IsListing(issues), NEW active, IsFiniteSet(active)
  PROVE  LET eligible == Eligible(issues, active)
             refused == Ineligible(issues, active)
             taken == Taken(issues, active)
         IN  /\ eligible \in Seq({issues[k] : k \in EligibleAt(issues, active)})
             /\ refused \in Seq({issues[k] : k \in DOMAIN issues})
             /\ Len(eligible) + Len(refused) = Len(issues)
             /\ NumbersOf(eligible) \cup NumbersOf(refused) = NumbersOf(issues)
             /\ \A i, j \in 1..Len(eligible) : i < j => eligible[i].number < eligible[j].number
             /\ AvailableCapacity(active) \in Nat
             /\ taken \in 0..Len(eligible) /\ taken <= AvailableCapacity(active)
             /\ taken < Len(eligible) => taken = AvailableCapacity(active)
<1> DEFINE D == DOMAIN issues
           E == EligibleAt(issues, active)
           eligible == Eligible(issues, active)
           refused == Ineligible(issues, active)
           n == Cardinality(E)
           m == Cardinality(D \ E)
<1>1. E \subseteq D
  BY DEF EligibleAt
<1>2. IsFiniteSet(D) /\ Cardinality(D) = Len(issues) /\ Len(issues) \in Nat
  BY FS_Interval DEF IsListing
<1>3. n \in Nat /\ m \in Nat /\ n + m = Len(issues)
  <2>1. IsFiniteSet(E) /\ IsFiniteSet(D \ E)
    BY <1>1, <1>2, FS_Subset
  <2>2. E \cup (D \ E) = D /\ E \cap (D \ E) = {}
    BY <1>1
  <2>3. Cardinality(D) = n + m - Cardinality(E \cap (D \ E))
    BY <2>1, <2>2, FS_Union
  <2>4. n \in Nat /\ m \in Nat /\ Cardinality(E \cap (D \ E)) = 0
    BY <2>1, <2>2, FS_CardinalityType, FS_EmptySet
  <2> QED BY <1>2, <2>3, <2>4
<1>4. /\ eligible \in [1..n -> {issues[k] : k \in E}]
      /\ \A k \in E : \E j \in 1..n : eligible[j] = issues[k]
      /\ \A i, j \in 1..n : i < j => eligible[i].number < eligible[j].number
  BY <1>1, SortedLists DEF Eligible
<1>5. /\ refused \in [1..m -> {issues[k] : k \in D \ E}]
      /\ \A k \in D \ E : \E j \in 1..m : refused[j] = issues[k]
  BY SortedLists DEF Ineligible
<1> HIDE DEF E, n, m, eligible, refused
<1>6. /\ eligible \in Seq({issues[k] : k \in E}) /\ Len(eligible) = n
      /\ refused \in Seq({issues[k] : k \in D \ E}) /\ Len(refused) = m
  BY <1>3, <1>4, <1>5, SeqDef
<1>7. refused \in Seq({issues[k] : k \in D})
  BY <1>6
<1>8. NumbersOf(eligible) \cup NumbersOf(refused) = NumbersOf(issues)
  <2>1. NumbersOf(eligible) = {issues[k].number : k \in E}
    BY <1>4 DEF NumbersOf
  <2>2. NumbersOf(refused) = {issues[k].number : k \in D \ E}
    BY <1>5 DEF NumbersOf
  <2> QED BY <1>1, <2>1, <2>2 DEF NumbersOf
<1>9. AvailableCapacity(active) \in Nat
  BY ConfigAssumption, FS_CardinalityType DEF AvailableCapacity, IsPlannable
<1>10. /\ Taken(issues, active) \in 0..n /\ Taken(issues, active) <= AvailableCapacity(active)
       /\ Taken(issues, active) < n => Taken(issues, active) = AvailableCapacity(active)
  BY <1>3, <1>6, <1>9 DEF Taken, eligible
<1> QED BY <1>3, <1>4, <1>6, <1>7, <1>8, <1>9, <1>10 DEF E, eligible, refused

\* What a plan says, position by position.
LEMMA PlanSays ==
  ASSUME NEW issues, IsListing(issues), NEW active, IsFiniteSet(active)
  PROVE  LET plan == PlanCandidates(issues, active)
             eligible == Eligible(issues, active)
             refused == Ineligible(issues, active)
             taken == Taken(issues, active)
             r == Len(refused)
             d == Len(eligible) - taken
         IN  /\ r \in Nat /\ d \in Nat /\ taken \in Nat
             /\ Len(plan.candidates) = taken /\ DOMAIN plan.candidates = 1..taken
             /\ \A k \in 1..taken : plan.candidates[k] = PlanOf(eligible[k])
             /\ Len(plan.diagnostics) = r + d /\ DOMAIN plan.diagnostics = 1..(r + d)
             /\ \A k \in 1..r : plan.diagnostics[k] =
                    Diagnostic(Refusal(refused[k], active), refused[k].number)
             /\ \A k \in 1..d : plan.diagnostics[r + k] =
                    Diagnostic("capacity_deferred", eligible[taken + k].number)
<1> DEFINE plan == PlanCandidates(issues, active)
           eligible == Eligible(issues, active)
           refused == Ineligible(issues, active)
           taken == Taken(issues, active)
           r == Len(refused)
           d == Len(eligible) - taken
           deferred == Deferred(eligible, taken)
           refusals == [k \in 1..r |->
                          Diagnostic(Refusal(refused[k], active), refused[k].number)]
           deferrals == [k \in 1..Len(deferred) |->
                           Diagnostic("capacity_deferred", deferred[k].number)]
<1>1. plan = [candidates |-> [k \in 1..taken |-> PlanOf(eligible[k])],
              diagnostics |-> refusals \o deferrals]
  BY DEF PlanCandidates
<1>2. PICK S, T : eligible \in Seq(S) /\ refused \in Seq(T)
  BY Division
<1>3. taken \in 0..Len(eligible)
  BY Division
<1> HIDE DEF plan, eligible, refused, taken
<1>4. r \in Nat /\ d \in Nat /\ taken \in Nat /\ Len(eligible) \in Nat
  BY <1>2, <1>3
<1>5. /\ Len(deferred) = d
      /\ \A k \in 1..d : deferred[k] = eligible[taken + k]
  BY <1>2, <1>3, <1>4 DEF Deferred
<1> HIDE DEF r, d, deferred
<1> DEFINE any == {refusals[k] : k \in 1..r} \cup {deferrals[k] : k \in 1..d}
<1>6. /\ refusals \in Seq(any) /\ Len(refusals) = r
      /\ deferrals \in Seq(any) /\ Len(deferrals) = d
  <2>1. refusals \in [1..r -> any] /\ deferrals \in [1..d -> any]
    BY <1>5
  <2> HIDE DEF any, refusals, deferrals
  <2> QED BY <1>4, <2>1, SeqDef
<1>7. /\ Len(refusals \o deferrals) = r + d
      /\ DOMAIN (refusals \o deferrals) = 1..(r + d)
      /\ \A k \in 1..r : (refusals \o deferrals)[k] = refusals[k]
      /\ \A k \in 1..d : (refusals \o deferrals)[r + k] = deferrals[k]
  <2> HIDE DEF any, refusals, deferrals
  <2> DEFINE both == refusals \o deferrals
  <2>1. /\ both \in Seq(any) /\ Len(both) = r + d
        /\ \A i \in 1..(r + d) : both[i] = IF i <= r THEN refusals[i] ELSE deferrals[i - r]
    BY <1>6, ConcatProperties
  <2> HIDE DEF both
  <2>2. DOMAIN both = 1..(r + d)
    BY <2>1
  <2>3. \A k \in 1..r : both[k] = refusals[k]
    BY <1>4, <2>1
  <2>4. ASSUME NEW k \in 1..d PROVE both[r + k] = deferrals[k]
    <3>1. r + k \in 1..(r + d) /\ ~(r + k <= r) /\ (r + k) - r = k
      BY <1>4
    <3> QED BY <2>1, <3>1
  <2> QED BY <2>1, <2>2, <2>3, <2>4 DEF both
<1>8. \A k \in 1..d : deferrals[k] =
          Diagnostic("capacity_deferred", eligible[taken + k].number)
  BY <1>5
<1>9. /\ Len(plan.candidates) = taken /\ DOMAIN plan.candidates = 1..taken
      /\ \A k \in 1..taken : plan.candidates[k] = PlanOf(eligible[k])
  <2> DEFINE some == {PlanOf(eligible[k]) : k \in 1..taken}
  <2>1. plan.candidates \in [1..taken -> some]
    BY <1>1
  <2>2. \A k \in 1..taken : plan.candidates[k] = PlanOf(eligible[k])
    BY <1>1
  <2> HIDE DEF some
  <2> QED BY <1>4, <2>1, <2>2, SeqDef
<1>10. \A k \in 1..r : refusals[k] =
          Diagnostic(Refusal(refused[k], active), refused[k].number)
  OBVIOUS
<1>11. plan.diagnostics = refusals \o deferrals
  BY <1>1
<1> HIDE DEF refusals, deferrals
<1> QED BY <1>4, <1>7, <1>8, <1>9, <1>10, <1>11 DEF plan, eligible, refused, taken, r, d
-----------------------------------------------------------------------------
\* Every listed issue gets an answer, and there are as many answers as issues.
THEOREM EveryIssueAnswered ==
  ASSUME NEW issues, IsListing(issues), NEW active, IsFiniteSet(active)
  PROVE  LET plan == PlanCandidates(issues, active)
         IN  /\ Len(plan.candidates) + Len(plan.diagnostics) = Len(issues)
             /\ NumbersOf(plan.candidates) \cup NumbersOf(plan.diagnostics) = NumbersOf(issues)
<1> DEFINE plan == PlanCandidates(issues, active)
           eligible == Eligible(issues, active)
           refused == Ineligible(issues, active)
           taken == Taken(issues, active)
           r == Len(refused)
           n == Len(eligible)
<1>1. /\ n + r = Len(issues) /\ NumbersOf(eligible) \cup NumbersOf(refused) = NumbersOf(issues)
      /\ taken \in 0..n
  BY Division
<1>2. /\ DOMAIN eligible = 1..n /\ DOMAIN refused = 1..r
      /\ n \in Nat /\ r \in Nat
  BY Division
<1>3. /\ Len(plan.candidates) = taken /\ DOMAIN plan.candidates = 1..taken
      /\ \A k \in 1..taken : plan.candidates[k] = PlanOf(eligible[k])
      /\ Len(plan.diagnostics) = r + (n - taken)
      /\ DOMAIN plan.diagnostics = 1..(r + (n - taken))
      /\ \A k \in 1..r : plan.diagnostics[k] =
             Diagnostic(Refusal(refused[k], active), refused[k].number)
      /\ \A k \in 1..(n - taken) : plan.diagnostics[r + k] =
             Diagnostic("capacity_deferred", eligible[taken + k].number)
  BY PlanSays
<1> HIDE DEF plan, eligible, refused, taken, r, n
<1>4. Len(plan.candidates) + Len(plan.diagnostics) = Len(issues)
  BY <1>1, <1>2, <1>3
<1>5. /\ \A k \in 1..taken : plan.candidates[k].number = eligible[k].number
      /\ \A k \in 1..r : plan.diagnostics[k].number = refused[k].number
      /\ \A k \in 1..(n - taken) :
            plan.diagnostics[r + k].number = eligible[taken + k].number
  <2>1. \A issue : PlanOf(issue).number = issue.number
    BY DEF PlanOf
  <2>2. \A code, number : Diagnostic(code, number).number = number
    BY DEF Diagnostic
  <2> QED BY <1>3, <2>1, <2>2
<1>6. \A x \in NumbersOf(plan.candidates) : x \in NumbersOf(eligible)
  <2>1. \A k \in 1..taken : k \in 1..n
    BY <1>1, <1>2
  <2> QED BY <1>2, <1>3, <1>5, <2>1 DEF NumbersOf
<1>7. ASSUME NEW i \in 1..(r + (n - taken))
      PROVE  plan.diagnostics[i].number \in NumbersOf(refused) \cup NumbersOf(eligible)
  <2>1. CASE i <= r
    BY <1>2, <1>5, <2>1 DEF NumbersOf
  <2>2. CASE i > r
    <3>1. i - r \in 1..(n - taken) /\ r + (i - r) = i /\ taken + (i - r) \in 1..n
      BY <1>1, <1>2, <2>2
    <3>2. plan.diagnostics[i].number = eligible[taken + (i - r)].number
      BY <1>5, <3>1
    <3> QED BY <1>2, <3>1, <3>2 DEF NumbersOf
  <2> QED BY <1>1, <1>2, <2>1, <2>2
<1>8. ASSUME NEW k \in 1..r PROVE refused[k].number \in NumbersOf(plan.diagnostics)
  <2>1. k \in 1..(r + (n - taken))
    BY <1>1, <1>2
  <2> QED BY <1>3, <1>5, <2>1 DEF NumbersOf
<1>9. ASSUME NEW k \in 1..n
      PROVE  eligible[k].number \in NumbersOf(plan.candidates) \cup NumbersOf(plan.diagnostics)
  <2>1. CASE k <= taken
    BY <1>1, <1>3, <1>5, <2>1 DEF NumbersOf
  <2>2. CASE k > taken
    <3>1. k - taken \in 1..(n - taken) /\ taken + (k - taken) = k
          /\ r + (k - taken) \in 1..(r + (n - taken))
      BY <1>1, <1>2, <2>2
    <3>2. plan.diagnostics[r + (k - taken)].number = eligible[k].number
      BY <1>5, <3>1
    <3> QED BY <1>3, <3>1, <3>2 DEF NumbersOf
  <2> QED BY <1>1, <1>2, <2>1, <2>2
<1>10. NumbersOf(plan.candidates) \cup NumbersOf(plan.diagnostics) = NumbersOf(issues)
  <2>1. \A x \in NumbersOf(plan.diagnostics) : x \in NumbersOf(refused) \cup NumbersOf(eligible)
    BY <1>3, <1>7 DEF NumbersOf
  <2>2. \A x \in NumbersOf(refused) : x \in NumbersOf(plan.diagnostics)
    BY <1>2, <1>8 DEF NumbersOf
  <2>3. \A x \in NumbersOf(eligible) :
            x \in NumbersOf(plan.candidates) \cup NumbersOf(plan.diagnostics)
    BY <1>2, <1>9 DEF NumbersOf
  <2> QED BY <1>1, <1>6, <2>1, <2>2, <2>3
<1> QED BY <1>4, <1>10 DEF plan

\* What is planned is an eligible issue, and what is diagnosed was listed.
THEOREM PlannedAreEligible ==
  ASSUME NEW issues, IsListing(issues), NEW active, IsFiniteSet(active)
  PROVE  LET plan == PlanCandidates(issues, active)
         IN  /\ \A k \in DOMAIN plan.candidates : \E j \in EligibleAt(issues, active) :
                   plan.candidates[k] = PlanOf(issues[j])
             /\ \A k \in DOMAIN plan.diagnostics :
                   plan.diagnostics[k].number \in NumbersOf(issues)
<1> DEFINE plan == PlanCandidates(issues, active)
           eligible == Eligible(issues, active)
           taken == Taken(issues, active)
<1>1. /\ eligible \in Seq({issues[k] : k \in EligibleAt(issues, active)})
      /\ taken \in 0..Len(eligible)
  BY Division
<1>2. /\ DOMAIN plan.candidates = 1..taken
      /\ \A k \in 1..taken : plan.candidates[k] = PlanOf(eligible[k])
  BY PlanSays
<1> HIDE DEF plan, eligible, taken
<1>3. \A k \in 1..taken : eligible[k] \in {issues[j] : j \in EligibleAt(issues, active)}
  BY <1>1
<1>4. \A k \in DOMAIN plan.candidates : \E j \in EligibleAt(issues, active) :
          plan.candidates[k] = PlanOf(issues[j])
  BY <1>2, <1>3
<1>5. \A k \in DOMAIN plan.diagnostics : plan.diagnostics[k].number \in NumbersOf(issues)
  <2>1. NumbersOf(plan.candidates) \cup NumbersOf(plan.diagnostics) = NumbersOf(issues)
    BY EveryIssueAnswered DEF plan
  <2>2. \A k \in DOMAIN plan.diagnostics :
            plan.diagnostics[k].number \in NumbersOf(plan.diagnostics)
    BY DEF NumbersOf
  <2> QED BY <2>1, <2>2
<1> QED BY <1>4, <1>5 DEF plan

\* A plan takes exactly the first eligible issues, as many as are free.
THEOREM CapacityIsKept ==
  ASSUME NEW issues, IsListing(issues), NEW active, IsFiniteSet(active)
  PROVE  LET plan == PlanCandidates(issues, active)
         IN  /\ IsFiniteSet(NumbersOf(plan.candidates))
             /\ Cardinality(NumbersOf(plan.candidates)) = Taken(issues, active)
             /\ Taken(issues, active) <= AvailableCapacity(active)
<1> DEFINE plan == PlanCandidates(issues, active)
           eligible == Eligible(issues, active)
           taken == Taken(issues, active)
           N == NumbersOf(plan.candidates)
           f == [k \in 1..taken |-> eligible[k].number]
<1>1. /\ taken \in 0..Len(eligible) /\ taken <= AvailableCapacity(active)
      /\ \A i, j \in 1..Len(eligible) : i < j => eligible[i].number < eligible[j].number
      /\ eligible \in Seq({issues[k] : k \in EligibleAt(issues, active)})
  BY Division
<1>2. /\ DOMAIN plan.candidates = 1..taken
      /\ \A k \in 1..taken : plan.candidates[k] = PlanOf(eligible[k])
  BY PlanSays
<1>3. \A k \in 1..Len(eligible) : eligible[k].number \in Nat
  <2>1. \A k \in 1..Len(eligible) : eligible[k] \in {issues[j] : j \in EligibleAt(issues, active)}
    BY <1>1
  <2> QED BY <2>1 DEF EligibleAt, IsListing
<1> HIDE DEF plan, eligible, taken
<1>4. N = {eligible[k].number : k \in 1..taken}
  <2>1. \A issue : PlanOf(issue).number = issue.number
    BY DEF PlanOf
  <2> QED BY <1>2, <2>1 DEF NumbersOf
<1>5. f \in [1..taken -> N] /\ \A x \in N : \E k \in 1..taken : f[k] = x
  BY <1>4
<1>6. ASSUME NEW i \in 1..taken, NEW j \in 1..taken, f[i] = f[j] PROVE i = j
  <2>1. i \in 1..Len(eligible) /\ j \in 1..Len(eligible) /\ i \in Int /\ j \in Int
    BY <1>1
  <2>2. eligible[i].number = eligible[j].number
    BY <1>6
  <2>3. ~(i < j) /\ ~(j < i)
    BY <1>1, <1>3, <2>1, <2>2
  <2> QED BY <2>1, <2>3
<1>7. f \in Bijection(1..taken, N)
  <2> HIDE DEF f, N
  <2> QED BY <1>5, <1>6 DEF Bijection, Injection, Surjection, IsInjective
<1>8. IsFiniteSet(N) /\ Cardinality(N) = taken
  <2>1. ExistsBijection(1..taken, N)
    BY <1>7 DEF ExistsBijection
  <2>2. IsFiniteSet(1..taken) /\ taken \in Nat
    BY <1>1, FS_Interval
  <2> QED BY <2>1, <2>2, FS_Bijection, FS_CountingElements
<1> QED BY <1>1, <1>8 DEF plan, taken

\* An issue is deferred only when no slot is left, and every issue that was
\* planned instead has a lower number.
THEOREM DeferredAreLast ==
  ASSUME NEW issues, IsListing(issues), NEW active, IsFiniteSet(active)
  PROVE  LET plan == PlanCandidates(issues, active)
         IN  \A i \in DOMAIN plan.diagnostics :
                plan.diagnostics[i].code = "capacity_deferred" =>
                   /\ Cardinality(NumbersOf(plan.candidates)) + Cardinality(active)
                         >= Concurrency
                   /\ \A c \in NumbersOf(plan.candidates) : c < plan.diagnostics[i].number
<1> DEFINE plan == PlanCandidates(issues, active)
           eligible == Eligible(issues, active)
           refused == Ineligible(issues, active)
           taken == Taken(issues, active)
           r == Len(refused)
           n == Len(eligible)
<1>1. /\ \A i, j \in 1..n : i < j => eligible[i].number < eligible[j].number
      /\ taken \in 0..n /\ n \in Nat /\ r \in Nat
      /\ taken < n => taken = AvailableCapacity(active)
  <2>1. /\ \A i, j \in 1..n : i < j => eligible[i].number < eligible[j].number
        /\ taken \in 0..n
        /\ taken < n => taken = AvailableCapacity(active)
    BY Division
  <2>2. n \in Nat /\ r \in Nat
    BY Division
  <2> QED BY <2>1, <2>2
<1>2. /\ DOMAIN plan.candidates = 1..taken
      /\ \A k \in 1..taken : plan.candidates[k] = PlanOf(eligible[k])
      /\ DOMAIN plan.diagnostics = 1..(r + (n - taken))
      /\ \A k \in 1..r : plan.diagnostics[k] =
             Diagnostic(Refusal(refused[k], active), refused[k].number)
      /\ \A k \in 1..(n - taken) : plan.diagnostics[r + k] =
             Diagnostic("capacity_deferred", eligible[taken + k].number)
  BY PlanSays
<1>3. Cardinality(NumbersOf(plan.candidates)) = taken
  BY CapacityIsKept
<1>4. \A code, number : /\ Diagnostic(code, number).code = code
                        /\ Diagnostic(code, number).number = number
  BY DEF Diagnostic
<1> HIDE DEF plan, eligible, refused, taken, r, n
<1>5. SUFFICES ASSUME NEW i \in 1..(r + (n - taken)),
                      plan.diagnostics[i].code = "capacity_deferred"
               PROVE  /\ Cardinality(NumbersOf(plan.candidates)) + Cardinality(active)
                            >= Concurrency
                      /\ \A c \in NumbersOf(plan.candidates) :
                            c < plan.diagnostics[i].number
  BY <1>2 DEF plan
<1>6. i > r
  <2>1. SUFFICES ASSUME i <= r PROVE FALSE
    BY <1>1
  <2>2. i \in 1..r
    BY <1>1, <2>1
  <2>3. plan.diagnostics[i].code = Refusal(refused[i], active)
    BY <1>4, <1>2, <2>2
  <2>4. Refusal(refused[i], active) # "capacity_deferred"
    BY DEF Refusal
  <2> QED BY <1>5, <2>3, <2>4
<1>7. /\ i - r \in 1..(n - taken) /\ r + (i - r) = i
      /\ taken + (i - r) \in 1..n /\ taken + (i - r) > taken /\ taken < n
  BY <1>1, <1>6
<1>8. Cardinality(NumbersOf(plan.candidates)) + Cardinality(active) >= Concurrency
  <2>1. taken = AvailableCapacity(active) /\ taken \in Nat
    BY <1>1, <1>7
  <2>2. Cardinality(active) \in Nat
    BY FS_CardinalityType
  <2>3. Concurrency \in Nat
    BY ConfigAssumption DEF IsPlannable
  <2> QED BY <1>3, <2>1, <2>2, <2>3 DEF AvailableCapacity
<1>9. ASSUME NEW c \in NumbersOf(plan.candidates)
      PROVE  c < plan.diagnostics[i].number
  <2>1. PICK k \in 1..taken : c = PlanOf(eligible[k]).number
    BY <1>2 DEF NumbersOf
  <2>2. c = eligible[k].number
    BY <2>1 DEF PlanOf
  <2>3. plan.diagnostics[i].number = eligible[taken + (i - r)].number
    <3>1. plan.diagnostics[i] =
            Diagnostic("capacity_deferred", eligible[taken + (i - r)].number)
      BY <1>2, <1>7
    <3> QED BY <1>4, <3>1
  <2>4. k \in 1..n /\ k < taken + (i - r)
    BY <1>1, <1>7
  <2> QED BY <1>1, <1>7, <2>2, <2>3, <2>4
<1> QED BY <1>8, <1>9

\* The plan depends on what is listed, not on the order it is listed in.
THEOREM ListingOrderIsIrrelevant ==
  ASSUME NEW issues, IsListing(issues), NEW other, IsListing(other),
         {issues[k] : k \in DOMAIN issues} = {other[k] : k \in DOMAIN other},
         NEW active
  PROVE  PlanCandidates(issues, active) = PlanCandidates(other, active)
<1>1. ASSUME NEW K \in SUBSET DOMAIN issues, NEW L \in SUBSET DOMAIN other,
             {issues[k] : k \in K} = {other[l] : l \in L}
      PROVE  SortedIssues(issues, K) = SortedIssues(other, L)
  <2> DEFINE n == Cardinality(K)
             m == Cardinality(L)
             S == {issues[k] : k \in K}
             s == SortedIssues(issues, K)
             t == SortedIssues(other, L)
  <2>1. /\ n \in Nat /\ s \in [1..n -> S]
        /\ \A x \in S : \E j \in 1..n : s[j] = x
        /\ \A i, j \in 1..n : i < j => s[i].number < s[j].number
    BY SortedLists
  <2>2. /\ m \in Nat /\ t \in [1..m -> S]
        /\ \A x \in S : \E j \in 1..m : t[j] = x
        /\ \A i, j \in 1..m : i < j => t[i].number < t[j].number
    <3>1. S = {other[l] : l \in L}
      BY <1>1
    <3>2. /\ m \in Nat /\ t \in [1..m -> {other[l] : l \in L}]
          /\ \A l \in L : \E j \in 1..m : t[j] = other[l]
          /\ \A i, j \in 1..m : i < j => t[i].number < t[j].number
      BY SortedLists
    <3> HIDE DEF m, t, S
    <3> QED BY <3>1, <3>2
  <2>3. \A x \in S : x.number \in Nat
    BY DEF IsListing
  <2>4. n = m
    <3> HIDE DEF n, m, s, t, S
    <3>1. ASSUME NEW c \in Nat, NEW f \in [1..c -> S],
                 \A x \in S : \E j \in 1..c : f[j] = x,
                 \A i, j \in 1..c : i < j => f[i].number < f[j].number
          PROVE  Cardinality(S) = c
      <4>1. \A i, j \in 1..c : f[i] = f[j] => i = j
        <5> SUFFICES ASSUME NEW i \in 1..c, NEW j \in 1..c, f[i] = f[j], i < j
                     PROVE  FALSE
          OBVIOUS
        <5>1. f[i].number < f[i].number /\ f[i].number \in Nat
          BY <2>3, <3>1
        <5> QED BY <5>1
      <4>2. f \in Bijection(1..c, S)
        BY <3>1, <4>1 DEF Bijection, Injection, Surjection, IsInjective
      <4> QED BY <4>2, FS_CountingElements DEF ExistsBijection
    <3> QED BY <2>1, <2>2, <3>1
  <2> HIDE DEF n, m, s, t, S
  <2>5. s = t
    <3>1. \A i \in 1..n : (\E j \in 1..n : t[j] = s[i]) /\ (\E j \in 1..n : s[j] = t[i])
      BY <2>1, <2>2, <2>4
    <3>2. n \in Nat /\ s \in [1..n -> S] /\ t \in [1..n -> S]
      BY <2>1, <2>2, <2>4
    <3>3. /\ \A i, j \in 1..n : i < j => s[i].number < s[j].number
          /\ \A i, j \in 1..n : i < j => t[i].number < t[j].number
      BY <2>1, <2>2, <2>4
    <3> QED BY ONLY <2>3, <3>1, <3>2, <3>3, OrderIsUnique
  <2> QED BY <2>5 DEF s, t
<1> DEFINE E == EligibleAt(issues, active)
           F == EligibleAt(other, active)
<1>2. {issues[k] : k \in E} = {other[k] : k \in F}
  BY DEF EligibleAt
<1>3. {issues[k] : k \in DOMAIN issues \ E} = {other[k] : k \in DOMAIN other \ F}
  BY DEF EligibleAt
<1>4. E \in SUBSET DOMAIN issues /\ F \in SUBSET DOMAIN other
  BY DEF EligibleAt
<1> HIDE DEF E, F
<1>5. Eligible(issues, active) = Eligible(other, active)
  BY <1>1, <1>2, <1>4 DEF Eligible, E, F
<1>6. Ineligible(issues, active) = Ineligible(other, active)
  BY <1>1, <1>3, <1>4 DEF Ineligible, E, F
<1>7. Taken(issues, active) = Taken(other, active)
  BY <1>5 DEF Taken
<1> QED BY <1>5, <1>6, <1>7 DEF PlanCandidates
=============================================================================
