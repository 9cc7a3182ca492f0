----------------------------- MODULE BranchPolicy -----------------------------
(***************************************************************************)
(* The branch-protection part of `doctor --repo`: github.rs branch_policy  *)
(* folds classic protection, the active rules of a branch and the details  *)
(* of their rulesets into one snapshot; application.rs                     *)
(* evaluate_branch_policy judges it for one App.                           *)
(*                                                                         *)
(* What GitHub holds about a branch b:                                     *)
(*   classic   NoProtection or [strict, checks, contexts, dismiss, count,  *)
(*             bypass], a check being [context, app_id];                   *)
(*   rules     the active rules, [type, ruleset_id, strict, checks,        *)
(*             dismiss, count];                                            *)
(*   actors    the bypass actors of each ruleset, [actor_type, actor_id];  *)
(*   listed    the rules on the first page, which is all that is read;     *)
(*   visible   the rulesets whose actors the credential may see.           *)
(* An optional object that is absent counts as one with the defaults, as   *)
(* in the code.  Order is left out: the code takes any, the maximum or the *)
(* set of what it meets.                                                   *)
(***************************************************************************)
EXTENDS Integers

CONSTANTS AnySource,       \* no App: any may report the check
          NoProtection,    \* no classic protection
          NoRuleset,       \* a rule that names no ruleset
          RequiredCheck    \* the context the configuration requires

HasClassic(b) == b.classic # NoProtection

RulesOf(rules, type) == {r \in rules : r.type = type}
ChecksIn(rules) == RulesOf(rules, "required_status_checks")
ReviewsIn(rules) == RulesOf(rules, "pull_request")

RulesetsOf(rules) == {r.ruleset_id : r \in rules}

\* The Apps among the bypass actors of these rulesets that can be seen.
Integrations(b, rulesets) ==
    UNION {{a.actor_id : a \in {x \in b.actors[i] : x.actor_type = "Integration"}} :
             i \in rulesets \cap b.visible}
-----------------------------------------------------------------------------
(* Faulty variants.                                                         *)

BypassRulesets_OfReviews(b) == RulesetsOf(ReviewsIn(b.listed))

ClassicChecks_NamesFirst(c) ==
    {[context |-> x, app_id |-> AnySource] : x \in c.contexts}
        \cup {k \in c.checks : k.context \notin c.contexts}
-----------------------------------------------------------------------------
(* branch_policy.                                                           *)

\* `contexts` repeats the names of `checks`: only a new name adds a check.
ClassicChecks(c) ==
    c.checks \cup {[context |-> x, app_id |-> AnySource] :
                     x \in {n \in c.contexts : \A k \in c.checks : k.context # n}}

\* The rulesets whose details are read.
BypassRulesets(b) == RulesetsOf(ChecksIn(b.listed) \cup ReviewsIn(b.listed))

\* A rule that matters must name its ruleset; otherwise there is no snapshot.
ValidResponse(b) == NoRuleset \notin BypassRulesets(b)

\* What is collected of each setting.  A count matters only from one on.
StrictChecks(b) == \/ HasClassic(b) /\ b.classic.strict
                   \/ \E r \in ChecksIn(b.listed) : r.strict

DismissStale(b) == \/ HasClassic(b) /\ b.classic.dismiss
                   \/ \E r \in ReviewsIn(b.listed) : r.dismiss

ApprovalRequired(b) == \/ HasClassic(b) /\ b.classic.count >= 1
                       \/ \E r \in ReviewsIn(b.listed) : r.count >= 1

RequiredChecks(b) == (IF HasClassic(b) THEN ClassicChecks(b.classic) ELSE {})
                        \cup UNION {r.checks : r \in ChecksIn(b.listed)}

BypassAppIds(b) == (IF HasClassic(b) THEN b.classic.bypass ELSE {})
                      \cup Integrations(b, BypassRulesets(b))

BypassVerified(b) == BypassRulesets(b) \subseteq b.visible

HasSource(b) == HasClassic(b) \/ BypassRulesets(b) # {}
-----------------------------------------------------------------------------
(* evaluate_branch_policy, and the doctor's verdict: no check failed.       *)

ReviewChecksPass(b) == DismissStale(b) /\ ApprovalRequired(b)

Accepts(b, merge_policy, app) ==
    /\ ValidResponse(b)
    /\ HasSource(b)
    /\ StrictChecks(b)
    /\ [context |-> RequiredCheck, app_id |-> app] \in RequiredChecks(b)
    /\ BypassVerified(b)
    /\ app \notin BypassAppIds(b)
    /\ merge_policy = "HumanFinalApproval" => ReviewChecksPass(b)
-----------------------------------------------------------------------------
(* Reference: what GitHub imposes on an App.  It is free of the rules of a  *)
(* ruleset it bypasses, and of the classic review rules if they exempt it.  *)

Bypasses(b, app, i) ==
    \E a \in b.actors[i] : a.actor_type = "Integration" /\ a.actor_id = app

Imposed(b, app) == {r \in b.rules : ~Bypasses(b, app, r.ruleset_id)}

MustBeUpToDate(b, app) == \/ HasClassic(b) /\ b.classic.strict
                          \/ \E r \in ChecksIn(Imposed(b, app)) : r.strict

OwnCheckRequired(b, app) ==
    LET own == [context |-> RequiredCheck, app_id |-> app]
    IN  \/ HasClassic(b) /\ own \in b.classic.checks
        \/ \E r \in ChecksIn(Imposed(b, app)) : own \in r.checks

ReviewedAsClassic(b, app) == HasClassic(b) /\ app \notin b.classic.bypass

MustBeApproved(b, app) ==
    /\ \/ ReviewedAsClassic(b, app) /\ b.classic.count >= 1
       \/ \E r \in ReviewsIn(Imposed(b, app)) : r.count >= 1
    /\ \/ ReviewedAsClassic(b, app) /\ b.classic.dismiss
       \/ \E r \in ReviewsIn(Imposed(b, app)) : r.dismiss

IsStrong(b, merge_policy, app) ==
    /\ MustBeUpToDate(b, app)
    /\ OwnCheckRequired(b, app)
    /\ merge_policy = "HumanFinalApproval" => MustBeApproved(b, app)

\* The App bypasses nothing, and the operator sees everything.
Undisputed(b, app) ==
    /\ b.listed = b.rules
    /\ ValidResponse(b)
    /\ BypassRulesets(b) \subseteq b.visible
    /\ HasClassic(b) => app \notin b.classic.bypass
    /\ \A r \in b.rules : ~Bypasses(b, app, r.ruleset_id)
=============================================================================
