--------------------------- MODULE CandidateStore ---------------------------
(***************************************************************************)
(* validate_candidate_snapshot of infra.rs: what CandidateStore::put and   *)
(* get accept of a plan.  Each candidate's repository, base and digest are *)
(* copied from the snapshot's own, so that they agree is left out; so are  *)
(* the shapes of names, digests and texts.                                 *)
(***************************************************************************)
EXTENDS Integers, Sequences, SequencesExt

ValidCandidate(c) ==
    /\ c.number > 0
    /\ c.execution_mode \in {"Attended", "Unattended"}
    /\ c.workspace_type \in {"Worktree", "EphemeralClone"}
    /\ c.execution_mode = "Attended" => c.workspace_type = "Worktree"
    /\ c.execution_mode = "Unattended" => c.workspace_type = "EphemeralClone"
    /\ c.merge_policy \in {"AutonomousLowRisk", "HumanFinalApproval", "SuggestOnly"}

ValidDiagnostic(d) == d.number > 0

ValidPlan(plan) == /\ \A c \in ToSet(plan.candidates) : ValidCandidate(c)
                   /\ \A d \in ToSet(plan.diagnostics) : ValidDiagnostic(d)
=============================================================================
