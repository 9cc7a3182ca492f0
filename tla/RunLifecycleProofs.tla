------------------------- MODULE RunLifecycleProofs -------------------------
(***************************************************************************)
(* TLAPS proofs for RunLifecycle, for every MaxRevision.                   *)
(*                                                                         *)
(* The inductive invariant IInv adds to the checked properties what they   *)
(* lean on: each state has its phases, a phase that may merge carries the  *)
(* verdict of its policy, the same holds of the phase a paused run will    *)
(* resume, and a run in review, or paused there, has its pull request.     *)
(***************************************************************************)
EXTENDS RunLifecycle, TLAPS

\* The record one accepted event makes, with its target named.
LEMMA TransitionShape ==
    ASSUME NEW r \in RunRecord, NEW e \in RunEventType,
           NEW n \in Transition(r, e)
    PROVE  /\ n \in RunRecord
           /\ \E t \in ResolveTransition(r, e) :
                /\ n.state = t.state
                /\ n.phase = t.phase
                /\ n.merge_policy = r.merge_policy
                /\ n.attention_code = AttentionAfter(r, e, t)
                /\ n.resume_phase = ResumePhaseAfter(r, e, t)
  <1>1. PICK t \in ResolveTransition(r, e) :
          /\ r.revision + 1 <= MaxRevision
          /\ n = [revision       |-> r.revision + 1,
                  state          |-> t.state,
                  phase          |-> t.phase,
                  merge_policy   |-> r.merge_policy,
                  attention_code |-> AttentionAfter(r, e, t),
                  resume_phase   |-> ResumePhaseAfter(r, e, t)]
    BY DEF Transition
  <1>2. t \in TransitionTarget
    BY DEF ResolveTransition
  <1>3. AttentionAfter(r, e, t) \in AttentionCode \cup {None}
    BY DEF AttentionAfter, AttentionCodeFor, AttentionCode, RunRecord
  <1>4. ResumePhaseAfter(r, e, t) \in RunPhase \cup {None}
    BY DEF ResumePhaseAfter, RunRecord
  <1>5. r.revision + 1 \in 0..MaxRevision
    BY <1>1, MaxRevisionAssumption DEF RunRecord
  <1> QED
    BY <1>1, <1>2, <1>3, <1>4, <1>5 DEF RunRecord, TransitionTarget

\* A target is paused only for an event that names a cause, the table keeps
\* states and phases together, and only Resume leads back from a pause.
LEMMA TargetShape ==
    ASSUME NEW r \in RunRecord, PhaseOfState(r), NEW e \in RunEventType,
           NEW t \in ResolveTransition(r, e)
    PROVE  /\ PhaseOfState(t)
           /\ t.state = "NeedsHuman" =>
                 /\ e \in {"NoChange", "Escalate", "ExternalChange"}
                 /\ r.phase \in WorkPhases \cup ReviewPhases
                 /\ r.state = IF r.phase \in WorkPhases THEN "WorkInProgress"
                              ELSE "InReview"
           /\ r.state = "NeedsHuman" /\ t.state \notin FinalStates =>
                 e = "Resume" /\ t \in ResumeTarget(r)
  <1> USE DEF To, In, WorkPhases, ReviewPhases, FinalStates, Revalidate,
              PhaseOfState
  <1>1. CASE AuthorRow(r, e, t)  BY <1>1 DEF AuthorRow
  <1>2. CASE ReviewRow(r, e, t)  BY <1>2 DEF ReviewRow
  <1>3. CASE MergeRow(r, e, t)   BY <1>3 DEF MergeRow
  <1>4. CASE AttentionRow(r, e, t)
    BY <1>4 DEF AttentionRow, ResumeTarget
  <1> QED  BY <1>1, <1>2, <1>3, <1>4 DEF ResolveTransition

-----------------------------------------------------------------------------
\* The initial record satisfies the invariant.
LEMMA InitIInv == Init => IInv
  <1> SUFFICES ASSUME Init PROVE IInv
    OBVIOUS
  <1>1. published \in BOOLEAN /\ ~published
    BY DEF Init
  <1>2. run.state = "Ready" /\ pausedAt.state = "Ready"
    BY DEF Init, To
  <1>3. PublishedForReview
    BY <1>1, <1>2 DEF PublishedForReview
  <1> QED
    BY <1>1, <1>3, MaxRevisionAssumption
    DEF Init, IInv, TypeOK, RunRecord, RunState, RunPhase, MergePolicy, AttentionCode,
        TransitionTarget, To, CleanVerdicts, RunEventType, PhaseOfState, GateOf,
        PausedSafely, MergeNeedsVerdict, NoChangeWasClaimed, AttentionIsCurrent, None,
        WorkPhases, ReviewPhases, FinalStates

\* Every accepted event keeps the gate: a phase that may merge, now or after a
\* resumption, has the verdict of the run's policy.
LEMMA GateKept ==
    ASSUME IInv, NEW e \in RunEventType, Deliver(e),
           NEW t \in ResolveTransition(run, e),
           run'.state = t.state, run'.phase = t.phase,
           run'.merge_policy = run.merge_policy,
           run'.resume_phase = ResumePhaseAfter(run, e, t)
    PROVE  /\ GateOf(run, run.phase, verdict)'
           /\ (run.state = "NeedsHuman" => GateOf(run, run.resume_phase, verdict))'
           /\ MergeNeedsVerdict'
  <1> USE DEF To, In, WorkPhases, ReviewPhases, FinalStates, Revalidate, PhaseOfState,
              GateOf, MergeNeedsVerdict, ResumePhaseAfter, VerdictOf, RequirePolicy,
              CleanVerdicts
  <1>0. /\ run.merge_policy \in MergePolicy
        /\ PhaseOfState(run)
        /\ GateOf(run, run.phase, verdict)
        /\ run.state = "NeedsHuman" => GateOf(run, run.resume_phase, verdict)
        /\ verdict' = IF e \in CleanVerdicts THEN e
                      ELSE IF e \in {"AuthorCompleted", "BindingChanged"} THEN None
                      ELSE verdict
    BY DEF IInv, TypeOK, RunRecord, Deliver
  <1>1. CASE AuthorRow(run, e, t)  BY <1>0, <1>1 DEF AuthorRow
  <1>2. CASE ReviewRow(run, e, t)  BY <1>0, <1>2 DEF ReviewRow, MergePolicy
  <1>3. CASE MergeRow(run, e, t)   BY <1>0, <1>3 DEF MergeRow, MergePolicy
  <1>4. CASE AttentionRow(run, e, t)
    BY <1>0, <1>4 DEF AttentionRow, ResumeTarget
  <1> QED  BY <1>1, <1>2, <1>3, <1>4 DEF ResolveTransition

\* One accepted event preserves the invariant.
LEMMA DeliverIInv ==
    ASSUME IInv, NEW e \in RunEventType, Deliver(e)
    PROVE  IInv'
  <1>1. run \in RunRecord /\ PhaseOfState(run) /\ run' \in Transition(run, e)
    BY DEF IInv, TypeOK, Deliver
  <1>2. PICK t \in ResolveTransition(run, e) :
          /\ run'.state = t.state
          /\ run'.phase = t.phase
          /\ run'.merge_policy = run.merge_policy
          /\ run'.attention_code = AttentionAfter(run, e, t)
          /\ run'.resume_phase = ResumePhaseAfter(run, e, t)
    BY <1>1, TransitionShape
  <1>3. run' \in RunRecord
    BY <1>1, TransitionShape
  <1>4. /\ PhaseOfState(t)
        /\ t.state = "NeedsHuman" =>
             /\ e \in {"NoChange", "Escalate", "ExternalChange"}
             /\ run.phase \in WorkPhases \cup ReviewPhases
             /\ run.state = IF run.phase \in WorkPhases THEN "WorkInProgress"
                            ELSE "InReview"
        /\ run.state = "NeedsHuman" /\ t.state \notin FinalStates =>
             e = "Resume" /\ t \in ResumeTarget(run)
    BY <1>1, TargetShape
  <1>5. TypeOK'
    <2>1. published' \in BOOLEAN
      BY DEF Deliver
    <2> QED
      BY <1>3, <2>1 DEF TypeOK, IInv, Deliver, CleanVerdicts, TransitionTarget, To, RunRecord
  <1>6. PhaseOfState(run)'
    BY <1>2, <1>4 DEF PhaseOfState
  <1>7. /\ GateOf(run, run.phase, verdict)'
        /\ (run.state = "NeedsHuman" => GateOf(run, run.resume_phase, verdict))'
        /\ MergeNeedsVerdict'
    BY <1>2, GateKept
  <1>8. PausedSafely'
    <2>1. CASE t.state = "NeedsHuman"
      BY <1>2, <1>4, <2>1 DEF PausedSafely, ResumePhaseAfter, Deliver, To
    <2>2. CASE t.state # "NeedsHuman"
      BY <1>2, <2>2 DEF PausedSafely
    <2> QED  BY <2>1, <2>2
  <1>9. NoChangeWasClaimed'
    <2> SUFFICES ASSUME t.state = "CompletedNoChange"
                 PROVE  pauseCause' = "NoChange"
      BY <1>2 DEF NoChangeWasClaimed
    <2>1. run.state = "NeedsHuman" /\ run.attention_code = "NoChange"
      BY DEF ResolveTransition, AuthorRow, ReviewRow, MergeRow, AttentionRow,
             ResumeTarget, To, In, Revalidate
    <2>2. pauseCause = "NoChange"
      BY <2>1 DEF IInv, AttentionIsCurrent, AttentionCodeFor, PausedSafely
    <2> QED  BY <1>2, <2>2 DEF Deliver
  <1>10. AttentionIsCurrent'
    <2>1. CASE t.state = "NeedsHuman"
      BY <1>2, <2>1
      DEF AttentionIsCurrent, AttentionAfter, ResumePhaseAfter, Deliver, To
    <2>2. CASE t.state \in {"Ready", "WorkInProgress", "InReview"}
      <3>1. CASE run.state = "NeedsHuman"
        BY <1>2, <1>4, <2>2, <3>1
        DEF AttentionIsCurrent, AttentionAfter, ResumePhaseAfter, FinalStates
      <3>2. CASE run.state \in {"Ready", "WorkInProgress", "InReview"}
        BY <1>2, <2>2, <3>2
        DEF AttentionIsCurrent, AttentionAfter, ResumePhaseAfter, IInv
      <3>3. CASE run.state \in FinalStates
        BY <3>3 DEF ResolveTransition, AuthorRow, ReviewRow, MergeRow, AttentionRow,
                    In, FinalStates
      <3> QED  BY <1>1, <3>1, <3>2, <3>3 DEF RunRecord, RunState, FinalStates
    <2>3. CASE t.state \in FinalStates
      BY <1>2, <2>3 DEF AttentionIsCurrent, FinalStates
    <2> QED
      BY <2>1, <2>2, <2>3 DEF ResolveTransition, TransitionTarget, RunState, FinalStates
  <1>11. PublishedForReview'
    <2>1. published => published'
      BY DEF Deliver
    <2>2. CASE t.state = "InReview"
      BY <1>2, <2>2 DEF PublishedForReview, Deliver
    <2>3. CASE t.state = "NeedsHuman"
      BY <1>2, <2>1, <2>3 DEF PublishedForReview, Deliver, IInv, To
    <2>4. CASE t.state \notin {"InReview", "NeedsHuman"}
      <3>1. t.state # "Ready"
        BY <2>4 DEF ResolveTransition, AuthorRow, ReviewRow, MergeRow, AttentionRow,
                    ResumeTarget, To, Revalidate
      <3> QED  BY <1>2, <2>4, <3>1 DEF PublishedForReview
    <2> QED  BY <2>2, <2>3, <2>4
  <1> QED
    BY <1>5, <1>6, <1>7, <1>8, <1>9, <1>10, <1>11 DEF IInv

\* The inductive invariant, of every behaviour and for every MaxRevision.
THEOREM Invariance == Spec => []IInv
  <1>1. IInv /\ [Next]_vars => IInv'
    <2> SUFFICES ASSUME IInv, [Next]_vars PROVE IInv'
      OBVIOUS
    <2>1. CASE Next
      BY <2>1, DeliverIInv DEF Next
    <2>2. CASE UNCHANGED vars
      BY <2>2 DEF vars, IInv, TypeOK, PhaseOfState, GateOf, PausedSafely,
                  PublishedForReview, MergeNeedsVerdict, NoChangeWasClaimed, AttentionIsCurrent
    <2> QED  BY <2>1, <2>2
  <1> QED  BY InitIInv, <1>1, PTL DEF Spec

-----------------------------------------------------------------------------
\* Type correctness.
THEOREM TypeCorrect == Spec => []TypeOK
  <1>1. IInv => TypeOK  BY DEF IInv
  <1> QED  BY <1>1, Invariance, PTL

\* A merged run's present content has the verdict its policy asks for.
THEOREM MergesAreReviewed == Spec => []MergeNeedsVerdict
  <1>1. IInv => MergeNeedsVerdict  BY DEF IInv
  <1> QED  BY <1>1, Invariance, PTL

\* A run completed without a change was paused by the no-change claim.
THEOREM NoChangeIsConfirmed == Spec => []NoChangeWasClaimed
  <1>1. IInv => NoChangeWasClaimed  BY DEF IInv
  <1> QED  BY <1>1, Invariance, PTL

\* The attention fields describe the present pause.
THEOREM AttentionCorrect == Spec => []AttentionIsCurrent
  <1>1. IInv => AttentionIsCurrent  BY DEF IInv
  <1> QED  BY <1>1, Invariance, PTL

\* A paused run always has a safe phase to resume.
THEOREM PauseIsNeverFinal == Spec => []PausedCanResume
  <1>1. IInv => PausedCanResume
    <2> SUFFICES ASSUME IInv, run.state = "NeedsHuman"
                 PROVE  \E t \in TransitionTarget : AttentionRow(run, "Resume", t)
      BY DEF PausedCanResume, CanTransition, ResolveTransition
    <2>1. /\ run.phase = "Paused"
          /\ run.resume_phase \in WorkPhases \cup ReviewPhases
      BY DEF IInv, PhaseOfState, PausedSafely
    <2>2. CASE run.resume_phase \in WorkPhases
      <3>1. To("WorkInProgress", run.resume_phase) \in TransitionTarget
        BY <2>2 DEF To, TransitionTarget, RunState, RunPhase, WorkPhases, ReviewPhases
      <3> QED  BY <2>1, <2>2, <3>1 DEF AttentionRow, ResumeTarget, In
    <2>3. CASE run.resume_phase \in ReviewPhases
      <3>1. To("InReview", run.resume_phase) \in TransitionTarget
        BY <2>3 DEF To, TransitionTarget, RunState, RunPhase, WorkPhases, ReviewPhases
      <3> QED  BY <2>1, <2>3, <3>1 DEF AttentionRow, ResumeTarget, In
    <2> QED  BY <2>1, <2>2, <2>3
  <1> QED  BY <1>1, Invariance, PTL

\* A resumed run is exactly where the pause interrupted it.
THEOREM ResumptionIsExact == Spec => ResumeRestores
  <1> DEFINE Exact == run.state = "NeedsHuman" /\ run'.state \notin FinalStates
                        => To(run'.state, run'.phase) = pausedAt
  <1>1. IInv /\ [Next]_vars => [Exact]_vars
    <2> SUFFICES ASSUME IInv, Next, run.state = "NeedsHuman",
                        run'.state \notin FinalStates
                 PROVE  To(run'.state, run'.phase) = pausedAt
      OBVIOUS
    <2>1. PICK e \in RunEventType : Deliver(e)
      BY DEF Next
    <2>2. PICK t \in ResolveTransition(run, e) :
            run'.state = t.state /\ run'.phase = t.phase
      BY <2>1, TransitionShape DEF Deliver, IInv, TypeOK
    <2>3. t \in ResumeTarget(run)
      BY <2>2, TargetShape DEF IInv, TypeOK
    <2> QED
      BY <2>2, <2>3 DEF ResumeTarget, To, IInv, PausedSafely, WorkPhases, ReviewPhases
  <1> QED  BY <1>1, Invariance, PTL DEF Spec, ResumeRestores

\* The record implements the diagram of SPEC.md section 9, in review while its
\* pull request exists: every accepted event follows an edge, resumes the stored
\* stage, or leaves the stage as it is.
THEOREM RefinesDiagram == Spec => ImplementsDiagram
  <1> DEFINE stored == IF run.state = "NeedsHuman" THEN Stage(pausedAt) ELSE None
             place == <<Stage(run), stored>>
  <1>1. Init => Diagram!Init
    BY DEF Init, Diagram!Init, Diagram!None, None, Stage
  <1>2. IInv /\ [Next]_vars => [Diagram!Move]_place
    <2> SUFFICES ASSUME IInv, Next
                 PROVE  Diagram!Move \/ UNCHANGED <<Stage(run), stored>>
      BY DEF vars, Stage
    <2>1. PICK e \in RunEventType : Deliver(e)
      BY DEF Next
    <2>2. PICK t \in ResolveTransition(run, e) :
            run'.state = t.state /\ run'.phase = t.phase
      BY <2>1, TransitionShape DEF Deliver, IInv, TypeOK
    <2>3. /\ run \in RunRecord /\ PhaseOfState(run)
          /\ t.state = "NeedsHuman" => pausedAt' = To(run.state, run.phase)
          /\ run.state = "InReview" => published
          /\ run.state = "Ready" => ~published
          /\ published => published'
          /\ t.state # "InReview" /\ published' => published
      BY <2>1, <2>2 DEF IInv, TypeOK, Deliver, PublishedForReview
    <2> USE <2>2, <2>3 DEF In, To, Revalidate, WorkPhases, ReviewPhases, Stage,
                     PhaseOfState, None, Diagram!None, Diagram!Move, Diagram!Follow,
                     Diagram!Edges, Diagram!Active
    <2>4. CASE AuthorRow(run, e, t)  BY <2>4 DEF AuthorRow
    <2>5. CASE ReviewRow(run, e, t)  BY <2>5 DEF ReviewRow
    <2>6. CASE MergeRow(run, e, t)   BY <2>6 DEF MergeRow
    <2>7. CASE AttentionRow(run, e, t) /\ e # "Resume"
      BY <2>7 DEF AttentionRow
    <2>8. CASE AttentionRow(run, e, t) /\ e = "Resume"
      <3>1. /\ run.state = "NeedsHuman" /\ t \in ResumeTarget(run)
            /\ run.phase = "Paused"
        BY <2>8 DEF AttentionRow
      <3>2. t = pausedAt
        BY <3>1 DEF ResumeTarget, IInv, PausedSafely
      <3> QED BY <3>1, <3>2 DEF Diagram!Resume, ResumeTarget
    <2> QED  BY <2>4, <2>5, <2>6, <2>7, <2>8 DEF ResolveTransition
  <1> QED
    BY <1>1, <1>2, Invariance, PTL DEF Spec, ImplementsDiagram, Diagram!Spec
=============================================================================
