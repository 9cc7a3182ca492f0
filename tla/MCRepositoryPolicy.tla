------------------------- MODULE MCRepositoryPolicy -------------------------
(***************************************************************************)
(* Configurations, valid and not, and the plans that small listings get    *)
(* under those that are accepted.                                          *)
(***************************************************************************)
EXTENDS CandidateStore, FiniteSets

CONSTANTS Text, Blank,
          Configs,           \* configurations, valid and not
          ConfiguredIssue    \* issues that may be listed

VARIABLES config, offered, answer

Policy == INSTANCE RepositoryPolicy

\* A plan of no class is told by "NoRoute", which stands for no label.
ASSUME PolicyAssumption ==
    /\ Configs \subseteq Policy!Config
    /\ "NoRoute" \notin Text
    /\ IsFiniteSet(ConfiguredIssue)
    /\ \A i \in ConfiguredIssue : i.number \in Nat \ {0}

Modes == {"Attended", "Unattended"}
MergePolicies == {"AutonomousLowRisk", "HumanFinalApproval", "SuggestOnly"}

WorkflowChoices == {[ready |-> "ready", working |-> w, review |-> "in-review", human |-> h] :
                      w \in {"wip", "ready"}, h \in {"needs-human", Blank}}
Classes == {[label |-> l, execution_mode |-> m, allowed_paths |-> {"docs/"}] :
              l \in {"docs", "deps", "ready"}, m \in Modes}

MCConfigs == {[base_branch |-> "main", concurrency |-> n, merge_policy |-> m,
               labels |-> l, default_mode |-> d, workspace |-> w,
               prompts |-> [Attended |-> TRUE, Unattended |-> FALSE], routes |-> s,
               dismiss_stale_approvals |-> m = "HumanFinalApproval",
               enable_auto_merge |-> e, remaining |-> TRUE] :
                 n \in {0, 2, 33}, m \in MergePolicies, l \in WorkflowChoices,
                 d \in Modes, w \in [Modes -> {"Worktree", "EphemeralClone"}],
                 e \in BOOLEAN, s \in UNION {[1..k -> Classes] : k \in 0..2}}

MCConfiguredIssue == [number : 1..2, labels : {<<"docs">>, <<"ready">>, <<"ready", "docs">>,
                                               <<"deps", "ready", "docs">>}]
-----------------------------------------------------------------------------
configVars == <<config, offered, answer>>

NoConfig == [remaining |-> FALSE]
NoAnswer == [candidates |-> <<>>, diagnostics |-> <<>>]

ConfigInit == config \in Configs /\ offered = {} /\ answer = NoAnswer
ConfigIdle == config = NoConfig /\ offered = {} /\ answer = NoAnswer

\* What a pass plans under a configuration that load or resolve accepted.
Configure == /\ config # NoConfig /\ offered = {} /\ Policy!ValidConfig
             /\ \E issues \in {s \in SUBSET ConfiguredIssue :
                                 s # {} /\ \A i, j \in s : i.number = j.number => i = j},
                   active \in SUBSET {1} :
                  /\ offered' = issues
                  /\ answer' = Policy!Planner!PlanCandidates(SetToSeq(issues), active)
             /\ UNCHANGED config

PlannedUnder == ToSet(answer.candidates)
-----------------------------------------------------------------------------
\* What is planned under an accepted configuration can be stored: three files
\* state the pairing of modes and workspaces, and a pass whose plan the store
\* refused would fail for ever.
PlansAreStorable == ValidPlan(answer)

\* Autonomy is opted into, issue by issue: no accepted configuration makes a run
\* merge on its own unless its issue wears, besides the workflow label, the label
\* of exactly one class, and then it runs unattended in a clone of its own.
AutonomyIsOptedIn ==
    \A c \in PlannedUnder :
       LET labels == UNION {ToSet(i.labels) : i \in {j \in offered : j.number = c.number}}
           wears == labels \ Policy!StateLabels
           classes == wears \cap Policy!RouteLabels
       IN  IF c.merge_policy = "AutonomousLowRisk"
           THEN /\ classes = {c.route}
                /\ c.execution_mode = "Unattended"
                /\ c.workspace_type = "EphemeralClone"
           ELSE classes = {} /\ c.merge_policy = config.merge_policy
=============================================================================
