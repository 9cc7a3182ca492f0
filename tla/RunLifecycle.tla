---------------------------- MODULE RunLifecycle ----------------------------
(***************************************************************************)
(* The life of one run record: the pure state machine of domain.rs.        *)
(* `transition` takes a record and an event and returns the next record or *)
(* an error; here an error is the empty set of successors.  The machine is *)
(* closed by an environment that may deliver any event at any time.        *)
(*                                                                         *)
(* Left out of the record: identifiers, timestamps, usage and attempts,    *)
(* which `transition` copies unchanged, and attention_reason, which is     *)
(* written and cleared together with attention_code.                       *)
(***************************************************************************)
EXTENDS Naturals

CONSTANT MaxRevision        \* the largest revision the counter holds (u64::MAX)

ASSUME MaxRevisionAssumption == MaxRevision \in Nat

None == "None"

RunState == {"Ready", "WorkInProgress", "InReview", "NeedsHuman",
             "Merged", "CompletedNoChange", "Cancelled"}

RunPhase == {"Intake", "Author", "Validation", "Review", "Repair",
             "AwaitingApproval", "MergeWait", "Paused", "Complete"}

MergePolicy == {"AutonomousLowRisk", "HumanFinalApproval", "SuggestOnly"}

AttentionCode == {"NoChange", "Escalation", "ExternalChange"}

RunEventType == {"Claim", "AuthorCompleted", "NoChange", "ValidationCompleted",
                 "ReviewHasFindings", "ReviewCleanAutonomous",
                 "ReviewCleanRequiresApproval", "ReviewCleanSuggestOnly",
                 "ApprovalRecorded", "BindingChanged", "Merged", "Escalate",
                 "Resume", "AcceptNoChange", "Cancel", "ExternalChange"}

WorkPhases == {"Author", "Validation"}
ReviewPhases == {"Review", "Repair", "AwaitingApproval", "MergeWait"}
FinalStates == {"Merged", "CompletedNoChange", "Cancelled"}

RunRecord == [revision       : 0..MaxRevision,
              state          : RunState,
              phase          : RunPhase,
              merge_policy   : MergePolicy,
              attention_code : AttentionCode \cup {None},
              resume_phase   : RunPhase \cup {None}]

TransitionTarget == [state : RunState, phase : RunPhase]

To(s, p) == [state |-> s, phase |-> p]

In(r, s, phases) == r.state = s /\ r.phase \in phases

-----------------------------------------------------------------------------
(* Faulty variants, each the change of one helper that a slip would make.   *)

RequirePolicy_Unchecked(r, allowed) == TRUE

ResumeTarget_ReviewAgain(r) ==
    {To("WorkInProgress", p) : p \in {r.resume_phase} \cap WorkPhases}
      \cup {To("InReview", "Review") : p \in {r.resume_phase} \cap ReviewPhases}

ResumeTarget_NoRepair(r) ==
    {To("WorkInProgress", p) : p \in {r.resume_phase} \cap WorkPhases}
      \cup {To("InReview", p) :
              p \in {r.resume_phase} \cap (ReviewPhases \ {"Repair"})}

AttentionCodeFor_Defaulted(e) == IF e = "ExternalChange" THEN "ExternalChange"
                                 ELSE "NoChange"

MergeRow_AnyPhase(r, e, t) == /\ e = "Merged"
                              /\ t = To("Merged", "Complete")
                              /\ r.state \notin FinalStates
-----------------------------------------------------------------------------
(* The transition table.                                                    *)

Revalidate == To("WorkInProgress", "Validation")

\* `require_policy` and `require_one_of_policies`.
RequirePolicy(r, allowed) == r.merge_policy \in allowed

\* `resume_target`: only a working or reviewing phase is safe to resume; the
\* state is recomputed from the phase.
ResumeTarget(r) ==
    {To("WorkInProgress", p) : p \in {r.resume_phase} \cap WorkPhases}
      \cup {To("InReview", p) : p \in {r.resume_phase} \cap ReviewPhases}

\* The rows that move a run forward from authoring to review.
AuthorRow(r, e, t) ==
    \/ /\ In(r, "Ready", {"Intake"}) /\ e = "Claim"
       /\ t = To("WorkInProgress", "Author")
    \/ /\ \/ In(r, "WorkInProgress", {"Author"})
          \/ In(r, "InReview", {"Repair"})
       /\ e = "AuthorCompleted" /\ t = Revalidate
    \/ /\ In(r, "WorkInProgress", {"Validation"}) /\ e = "ValidationCompleted"
       /\ t = To("InReview", "Review")

\* The rows of the review gate: a verdict must match the merge policy.
ReviewRow(r, e, t) ==
    \/ /\ In(r, "InReview", {"Review"}) /\ e = "ReviewHasFindings"
       /\ t = To("InReview", "Repair")
    \/ /\ In(r, "InReview", {"Review"}) /\ e = "ReviewCleanAutonomous"
       /\ RequirePolicy(r, {"AutonomousLowRisk"})
       /\ t = To("InReview", "MergeWait")
    \/ /\ In(r, "InReview", {"Review"}) /\ e = "ReviewCleanRequiresApproval"
       /\ RequirePolicy(r, {"HumanFinalApproval"})
       /\ t = To("InReview", "AwaitingApproval")
    \/ /\ In(r, "InReview", {"Review"}) /\ e = "ReviewCleanSuggestOnly"
       /\ RequirePolicy(r, {"SuggestOnly"})
       /\ t = To("InReview", "MergeWait")
    \/ /\ In(r, "InReview", {"AwaitingApproval"}) /\ e = "ApprovalRecorded"
       /\ RequirePolicy(r, {"HumanFinalApproval"})
       /\ t = To("InReview", "AwaitingApproval")
    \/ /\ In(r, "InReview", ReviewPhases) /\ e = "BindingChanged"
       /\ t = Revalidate

MergeRow(r, e, t) ==
    /\ e = "Merged"
    /\ t = To("Merged", "Complete")
    /\ \/ /\ In(r, "InReview", {"AwaitingApproval"})
          /\ RequirePolicy(r, {"HumanFinalApproval"})
       \/ /\ In(r, "InReview", {"MergeWait"})
          /\ RequirePolicy(r, {"AutonomousLowRisk", "SuggestOnly"})

\* The rows that pause a run, leave the pause, or give the run up.
AttentionRow(r, e, t) ==
    \/ /\ \/ /\ In(r, "WorkInProgress", WorkPhases)
             /\ e \in {"NoChange", "Escalate", "ExternalChange"}
          \/ /\ In(r, "InReview", ReviewPhases)
             /\ e \in {"Escalate", "ExternalChange"}
       /\ t = To("NeedsHuman", "Paused")
    \/ /\ In(r, "NeedsHuman", {"Paused"}) /\ e = "Resume"
       /\ t \in ResumeTarget(r)
    \/ /\ In(r, "NeedsHuman", {"Paused"}) /\ e = "AcceptNoChange"
       /\ r.attention_code = "NoChange"
       /\ t = To("CompletedNoChange", "Complete")
    \/ /\ \/ In(r, "Ready", {"Intake"})
          \/ In(r, "WorkInProgress", WorkPhases)
          \/ In(r, "InReview", ReviewPhases)
          \/ In(r, "NeedsHuman", {"Paused"})
       /\ e = "Cancel" /\ t = To("Cancelled", "Complete")

\* `resolve_transition`: the target of event e, or no target.
ResolveTransition(r, e) ==
    {t \in TransitionTarget : \/ AuthorRow(r, e, t)
                              \/ ReviewRow(r, e, t)
                              \/ MergeRow(r, e, t)
                              \/ AttentionRow(r, e, t)}

\* `can_transition` asks for a target and nothing else.
CanTransition(r, e) == ResolveTransition(r, e) # {}

\* `attention_code_for`: the other events fail there, but none of them leads
\* to NeedsHuman.
AttentionCodeFor(e) == IF e = "NoChange" THEN "NoChange"
                       ELSE IF e = "Escalate" THEN "Escalation"
                       ELSE "ExternalChange"

\* The attention fields are written on a pause and cleared on Resume only.
AttentionAfter(r, e, t) ==
    IF t.state = "NeedsHuman" THEN AttentionCodeFor(e)
    ELSE IF e = "Resume" THEN None
    ELSE r.attention_code

ResumePhaseAfter(r, e, t) ==
    IF t.state = "NeedsHuman" THEN r.phase
    ELSE IF e = "Resume" THEN None
    ELSE r.resume_phase

\* `transition`: the successors of r (none when the table or the revision
\* counter refuses).
Transition(r, e) ==
    {[revision       |-> r.revision + 1,
      state          |-> t.state,
      phase          |-> t.phase,
      merge_policy   |-> r.merge_policy,
      attention_code |-> AttentionAfter(r, e, t),
      resume_phase   |-> ResumePhaseAfter(r, e, t)] :
        t \in {u \in ResolveTransition(r, e) : r.revision + 1 <= MaxRevision}}

\* `issue_label_projection`: the one workflow label a run shows on its issue.
IssueLabelProjection(s) == CASE s = "Ready"          -> "ready"
                             [] s = "WorkInProgress" -> "working"
                             [] s = "InReview"       -> "review"
                             [] s = "NeedsHuman"     -> "human"
                             [] OTHER                -> None
-----------------------------------------------------------------------------
(* The machine.                                                             *)

VARIABLES run,        \* the run record
          verdict,    \* history: the clean verdict on the present content
          pausedAt,   \* history: where the last pause interrupted the run
          pauseCause, \* history: the event of the last pause
          published   \* history: has the run been in review, with a pull request

vars == <<run, verdict, pausedAt, pauseCause, published>>

CleanVerdicts == {"ReviewCleanAutonomous", "ReviewCleanRequiresApproval",
                  "ReviewCleanSuggestOnly"}

\* The verdict each policy asks for before a merge.
VerdictOf(policy) ==
    IF policy = "AutonomousLowRisk" THEN "ReviewCleanAutonomous"
    ELSE IF policy = "HumanFinalApproval" THEN "ReviewCleanRequiresApproval"
    ELSE "ReviewCleanSuggestOnly"

Init == /\ run \in [revision : {0}, state : {"Ready"}, phase : {"Intake"},
                    merge_policy : MergePolicy, attention_code : {None},
                    resume_phase : {None}]
        /\ verdict = None
        /\ pausedAt = To("Ready", "Intake")
        /\ pauseCause = None
        /\ published = FALSE

\* One delivered event.  An author that completes, or a head or base that
\* moves, leaves new content that no verdict covers.
Deliver(e) ==
    /\ run' \in Transition(run, e)
    /\ verdict' = IF e \in CleanVerdicts THEN e
                  ELSE IF e \in {"AuthorCompleted", "BindingChanged"} THEN None
                  ELSE verdict
    /\ IF run'.state = "NeedsHuman"
       THEN pausedAt' = To(run.state, run.phase) /\ pauseCause' = e
       ELSE UNCHANGED <<pausedAt, pauseCause>>
    /\ published' = (published \/ run'.state = "InReview")

Next == \E e \in RunEventType : Deliver(e)

Spec == Init /\ [][Next]_vars
-----------------------------------------------------------------------------
(* Properties.                                                              *)

\* Type invariant.
TypeOK == /\ run \in RunRecord
          /\ verdict \in CleanVerdicts \cup {None}
          /\ pausedAt \in TransitionTarget
          /\ pauseCause \in RunEventType \cup {None}
          /\ published \in BOOLEAN

\* A run is merged only when its present content, the one left by the last
\* authoring or binding change, has the clean verdict its own merge policy
\* asks for, however many pauses and resumptions came in between.
MergeNeedsVerdict == run.state = "Merged" => verdict = VerdictOf(run.merge_policy)

\* `transition` stores only the phase of a paused run and `resume_target`
\* recomputes the state: a resumed run is nevertheless exactly where the pause
\* interrupted it.
ResumeRestores ==
    [][run.state = "NeedsHuman" /\ run'.state \notin FinalStates
         => To(run'.state, run'.phase) = pausedAt]_vars

\* No run is paused without a way on: `resume_target` never answers "no safe
\* resume phase", so a maintainer is never left with cancellation only.
PausedCanResume == run.state = "NeedsHuman" => CanTransition(run, "Resume")

\* A run ends without a change only on the confirmation of the no-change claim
\* that caused the present pause; the code of an earlier pause is never reused.
NoChangeWasClaimed == run.state = "CompletedNoChange" => pauseCause = "NoChange"

\* What the attention fields say is about the present pause, and a run that is
\* back at work carries no attention left over from an earlier one.
AttentionIsCurrent ==
    /\ run.state = "NeedsHuman" =>
          /\ run.attention_code = AttentionCodeFor(pauseCause)
          /\ run.resume_phase = pausedAt.phase
    /\ run.state \in {"Ready", "WorkInProgress", "InReview"} =>
          run.attention_code = None /\ run.resume_phase = None

\* SPEC.md sets the wait for approval apart (343) and calls a run in review
\* while its pull request exists (272, 349).  The code sends such a run back to
\* WorkInProgress to validate a repair or a moved binding.
Stage(t) == IF t.phase = "AwaitingApproval" THEN "AwaitingApproval"
            ELSE IF t.state = "WorkInProgress" /\ published THEN "InReview"
            ELSE t.state

Diagram == INSTANCE LifecycleDiagram WITH
              stage  <- Stage(run),
              stored <- IF run.state = "NeedsHuman" THEN Stage(pausedAt) ELSE None

\* Every behaviour of the record walks the documented diagram, where in review
\* means that the pull request exists: no run is merged or awaits approval that
\* was never in review, a resume leads to the stage the pause left, and a final
\* stage is never left.  That the state itself walks it is refuted.
ImplementsDiagram == Diagram!Spec
-----------------------------------------------------------------------------
(* The inductive invariant: each state has its phases, and a phase that may *)
(* merge, now or after a resumption, has its verdict.                       *)

PhaseOfState(r) ==
    /\ r.state = "Ready"          => r.phase = "Intake"
    /\ r.state = "WorkInProgress" => r.phase \in WorkPhases
    /\ r.state = "InReview"       => r.phase \in ReviewPhases
    /\ r.state = "NeedsHuman"     => r.phase = "Paused"
    /\ r.state \in FinalStates    => r.phase = "Complete"

\* Waiting for a merge in phase p is what the verdict allowed.
GateOf(r, p, v) ==
    /\ p = "AwaitingApproval" =>
          v = "ReviewCleanRequiresApproval" /\ r.merge_policy = "HumanFinalApproval"
    /\ p = "MergeWait" =>
          v = VerdictOf(r.merge_policy) /\ r.merge_policy # "HumanFinalApproval"

\* A run in review, or paused there, has its pull request; one not begun has none.
PublishedForReview ==
    /\ run.state = "InReview" \/ (run.state = "NeedsHuman" /\ pausedAt.state = "InReview")
          => published
    /\ run.state = "Ready" => ~published

PausedSafely == run.state = "NeedsHuman" =>
    /\ pausedAt = To(IF run.resume_phase \in WorkPhases THEN "WorkInProgress"
                     ELSE "InReview", run.resume_phase)
    /\ run.resume_phase \in WorkPhases \cup ReviewPhases
    /\ pauseCause \in {"NoChange", "Escalate", "ExternalChange"}

IInv == /\ TypeOK
        /\ PhaseOfState(run)
        /\ GateOf(run, run.phase, verdict)
        /\ run.state = "NeedsHuman" => GateOf(run, run.resume_phase, verdict)
        /\ PausedSafely
        /\ PublishedForReview
        /\ MergeNeedsVerdict
        /\ NoChangeWasClaimed
        /\ AttentionIsCurrent
=============================================================================
