-------------------------- MODULE RepositoryPolicy --------------------------
(***************************************************************************)
(* validate_repository_config of config.rs, and the planner it configures. *)
(*                                                                         *)
(* A configuration is what parsing yields, with the fields that planning,  *)
(* policy resolution or branch protection read.  `remaining` says that the *)
(* requirements on all other fields hold, each a range or a non-empty text *)
(* of its own: limits, runners, review lists, commands, notifications.     *)
(***************************************************************************)
EXTENDS Integers, Sequences, FiniteSets, SequencesExt

CONSTANTS Text,    \* labels, branch names, paths
          Blank,   \* a text that is empty or only white space
          config   \* the configuration

Modes == {"Attended", "Unattended"}
WorkspaceType == {"Worktree", "EphemeralClone"}
MergePolicy == {"AutonomousLowRisk", "HumanFinalApproval", "SuggestOnly"}

AutonomousClass == [label : Text, execution_mode : Modes, allowed_paths : SUBSET Text]

Config == [base_branch : Text, concurrency : Nat, merge_policy : MergePolicy,
           labels : [{"ready", "working", "review", "human"} -> Text],
           default_mode : Modes, workspace : [Modes -> WorkspaceType],
           prompts : [Modes -> BOOLEAN], routes : Seq(AutonomousClass),
           dismiss_stale_approvals : BOOLEAN, enable_auto_merge : BOOLEAN,
           remaining : BOOLEAN]

StateLabels == {config.labels.ready, config.labels.working, config.labels.review,
                config.labels.human}
RouteLabels == {route.label : route \in ToSet(config.routes)}
ClassOf(label) == CHOOSE route \in ToSet(config.routes) : route.label = label

\* plan_candidates under the configuration.
Planner == INSTANCE CandidatePlanner
    WITH Ready <- config.labels.ready, Working <- config.labels.working,
         Review <- config.labels.review, Human <- config.labels.human,
         Routes <- RouteLabels,
         RouteMode <- [l \in RouteLabels |-> ClassOf(l).execution_mode],
         DefaultMode <- config.default_mode, WorkspaceOf <- config.workspace,
         GlobalPolicy <- config.merge_policy, Concurrency <- config.concurrency,
         LimitFloor <- 100, LimitFactor <- 4
-----------------------------------------------------------------------------
(* Faulty variants.                                                         *)

RouteIsApart_FromReadyOnly(route) ==
    route.label \notin {config.labels.working, config.labels.review, config.labels.human}

SafeProfiles_AttendedAnywhere == /\ config.prompts.Attended
                                 /\ config.workspace.Unattended = "EphemeralClone"
                                 /\ ~config.prompts.Unattended
-----------------------------------------------------------------------------
SafeProfiles == /\ config.workspace.Attended = "Worktree" /\ config.prompts.Attended
                /\ config.workspace.Unattended = "EphemeralClone" /\ ~config.prompts.Unattended

DistinctLabels == Blank \notin StateLabels /\ Cardinality(StateLabels) = 4

RouteIsApart(route) == route.label \notin StateLabels

ValidRoute(route) == /\ route.label # Blank
                     /\ route.execution_mode = "Unattended"
                     /\ route.allowed_paths # {} /\ Blank \notin route.allowed_paths
                     /\ RouteIsApart(route)

ValidRoutes ==
    /\ \A k \in DOMAIN config.routes : ValidRoute(config.routes[k])
    /\ \A j, k \in DOMAIN config.routes :
          j # k => config.routes[j].label # config.routes[k].label

\* A human's approval is final, or nothing is merged; neither is autonomy.
WaitsAsItMerges ==
    CASE config.merge_policy = "HumanFinalApproval" ->
            config.dismiss_stale_approvals /\ config.enable_auto_merge
      [] config.merge_policy = "SuggestOnly" -> ~config.enable_auto_merge
      [] OTHER -> FALSE

ValidConfig == /\ config.base_branch # Blank
               /\ config.concurrency \in 1..32
               /\ SafeProfiles
               /\ DistinctLabels
               /\ ValidRoutes
               /\ WaitsAsItMerges
               /\ config.remaining
=============================================================================
