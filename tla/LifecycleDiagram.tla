-------------------------- MODULE LifecycleDiagram --------------------------
(***************************************************************************)
(* The durable lifecycle of a run: the state diagram of SPEC.md section 9, *)
(* edge by edge (346-372), with the one rule of the table in 9.1 that says *)
(* more than an edge does: a resume leads to the stored resume state       *)
(* (391), which may be a wait for approval although no edge is drawn.      *)
(* The loop of InReview is a step that changes nothing here.               *)
(***************************************************************************)

VARIABLES stage, stored     \* where a paused run was interrupted

None == "None"

Active == {"Ready", "WorkInProgress", "InReview", "AwaitingApproval", "NeedsHuman"}

Edges ==
    {<<"Ready", "WorkInProgress">>,
     <<"WorkInProgress", "InReview">>, <<"WorkInProgress", "NeedsHuman">>,
     <<"InReview", "AwaitingApproval">>, <<"InReview", "NeedsHuman">>,
     <<"InReview", "Merged">>,
     <<"AwaitingApproval", "Merged">>, <<"AwaitingApproval", "InReview">>,
     <<"AwaitingApproval", "NeedsHuman">>,
     <<"NeedsHuman", "WorkInProgress">>, <<"NeedsHuman", "InReview">>,
     <<"NeedsHuman", "CompletedNoChange">>}
      \cup {<<s, "Cancelled">> : s \in Active}

Init == stage = "Ready" /\ stored = None

Resume == stage = "NeedsHuman" /\ stage' = stored /\ stored' = None

Follow == /\ <<stage, stage'>> \in Edges
          /\ stage = "NeedsHuman" => stage' \notin Active
          /\ stored' = IF stage' = "NeedsHuman" THEN stage ELSE None

Move == Follow \/ Resume

Spec == Init /\ [][Move]_<<stage, stored>>
=============================================================================
