------------------------------ MODULE MCDecisions ------------------------------
(***************************************************************************)
(* The pure decisions, one at a time: what to plan for a listing, whether  *)
(* to accept a configuration and what it plans, how to judge a branch,     *)
(* where to keep the state, and what date it is.  Every input is a state,  *)
(* one step decides.                                                       *)
(***************************************************************************)
EXTENDS MCCandidatePlanner, MCBranchPolicy, MCRepositoryPolicy, MCStateRoot, MCCalendar

Init == \/ PlanInit /\ JudgeIdle /\ ConfigIdle /\ RootIdle /\ CalendarIdle
        \/ PlanIdle /\ JudgeInit /\ ConfigIdle /\ RootIdle /\ CalendarIdle
        \/ PlanIdle /\ JudgeIdle /\ ConfigInit /\ RootIdle /\ CalendarIdle
        \/ PlanIdle /\ JudgeIdle /\ ConfigIdle /\ RootInit /\ CalendarIdle
        \/ PlanIdle /\ JudgeIdle /\ ConfigIdle /\ RootIdle /\ CalendarInit

NothingElse == /\ branch = NoProtection /\ config = NoConfig /\ disk = NoDisk
               /\ day = NoDay

Next == \/ Plan /\ NothingElse /\ UNCHANGED <<judgeVars, configVars, rootVars, calendarVars>>
        \/ Judge /\ UNCHANGED <<planVars, configVars, rootVars, calendarVars>>
        \/ Configure /\ UNCHANGED <<planVars, judgeVars, rootVars, calendarVars>>
        \/ ResolveRoot /\ UNCHANGED <<planVars, judgeVars, configVars, calendarVars>>
        \/ Convert /\ UNCHANGED <<planVars, judgeVars, configVars, rootVars>>

Spec == Init /\ [][Next]_<<planVars, judgeVars, configVars, rootVars, calendarVars>>
=============================================================================
