---------------------------- MODULE MCBranchPolicy ----------------------------
(***************************************************************************)
(* The doctor's verdict over small branches: classic protection or none,   *)
(* up to two rules of two rulesets, every page, bypass and visibility.     *)
(***************************************************************************)
EXTENDS BranchPolicy, FiniteSets

CONSTANTS EuphoApp, OtherApp

ASSUME AppAssumption == EuphoApp # AnySource

Own == [context |-> RequiredCheck, app_id |-> EuphoApp]
Foreign == [context |-> RequiredCheck, app_id |-> OtherApp]

StatusChecks == {[strict |-> s, checks |-> k[1], contexts |-> k[2]] :
                   s \in BOOLEAN,
                   k \in {<<{}, {}>>, <<{}, {RequiredCheck}>>,
                          <<{Own}, {RequiredCheck}>>, <<{Foreign}, {RequiredCheck}>>}}

Reviews == [dismiss : BOOLEAN, count : {0, 1}]

Classic == {NoProtection} \cup
    {[strict |-> k.strict, checks |-> k.checks, contexts |-> k.contexts,
      dismiss |-> v.dismiss, count |-> v.count, bypass |-> a] :
        k \in StatusChecks, v \in Reviews, a \in {{}, {EuphoApp}}}

Ruleset == {1, 2}

Rule(type, id, s, k, d, n) == [type |-> type, ruleset_id |-> id, strict |-> s,
                               checks |-> k, dismiss |-> d, count |-> n]
Rules == {Rule("required_status_checks", i, s, {Own}, FALSE, 0) :
             i \in Ruleset, s \in BOOLEAN}
         \cup {Rule("pull_request", i, FALSE, {}, d, 1) : i \in Ruleset, d \in BOOLEAN}
         \cup {Rule("deletion", 1, FALSE, {}, FALSE, 0),
               Rule("pull_request", NoRuleset, FALSE, {}, TRUE, 1)}

Exempt == {[actor_type |-> "Integration", actor_id |-> EuphoApp]}
Others == {[actor_type |-> "Team", actor_id |-> EuphoApp],
           [actor_type |-> "Integration", actor_id |-> OtherApp]}

VARIABLES branch, policy, verdict

judgeVars == <<branch, policy, verdict>>

\* Nobody bypasses the ruleset of a rule that names none.
JudgeInit ==
    \E c \in Classic, rules \in {s \in SUBSET Rules : Cardinality(s) <= 2},
       exempt \in SUBSET Ruleset, visible \in {{}, {1}, Ruleset}, unlisted \in 0..1 :
       \E listed \in {s \in SUBSET rules : Cardinality(rules) - Cardinality(s) = unlisted} :
          /\ branch = [classic |-> c, rules |-> rules, listed |-> listed,
                       visible |-> visible,
                       actors |-> [i \in Ruleset \cup {NoRuleset} |->
                                     IF i \in exempt THEN Exempt ELSE Others]]
          /\ policy \in {"HumanFinalApproval", "SuggestOnly"}
          /\ verdict = "none"

JudgeIdle == branch = NoProtection /\ policy = "none" /\ verdict = "none"

Judge == /\ branch # NoProtection /\ verdict = "none"
         /\ verdict' = IF Accepts(branch, policy, EuphoApp) THEN "pass" ELSE "fail"
         /\ UNCHANGED <<branch, policy>>
-----------------------------------------------------------------------------
\* The doctor never approves a branch that leaves the App free: what it found
\* in any source is imposed on the App by one, although it reads a single page
\* of rules, each list of bypass actors may be hidden, and the settings come
\* from different sources.
PassMeansStrong == verdict = "pass" => IsStrong(branch, policy, EuphoApp)

\* Nor does it refuse a strong one that it can see and that exempts nobody: a
\* weak source beside a strong one does not hide it.
StrongPasses == verdict = "fail" /\ Undisputed(branch, EuphoApp)
                    => ~IsStrong(branch, policy, EuphoApp)
=============================================================================
