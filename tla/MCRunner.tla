------------------------------ MODULE MCRunner ------------------------------
(***************************************************************************)
(* The three machines of the agent runner, side by side for TLC: its main  *)
(* loop, its approvals, and the matching of rules. They share no variable, *)
(* so one behaviour runs one of them and leaves the others in their        *)
(* initial states: the states are the sum of the three models, not their   *)
(* product.                                                                *)
(***************************************************************************)
EXTENDS AgentRunner, AgentApprovals, WildcardMatch

VARIABLE focus      \* the machine that runs

vars == <<focus, runnerVars, approvalVars, wildcardVars>>

TypeOK ==
    /\ focus \in {"loop", "approvals", "rules"}
    /\ RunnerTypeOK /\ ApprovalTypeOK /\ WildcardTypeOK

Init ==
    /\ focus \in {"loop", "approvals", "rules"}
    /\ RunnerInit /\ ApprovalInit /\ WildcardInit

Next ==
    /\ UNCHANGED focus
    /\ \/ focus = "loop" /\ RunnerNext /\ UNCHANGED <<approvalVars, wildcardVars>>
       \/ focus = "approvals" /\ ApprovalNext /\ UNCHANGED <<runnerVars, wildcardVars>>
       \/ focus = "rules" /\ WildcardNext /\ UNCHANGED <<runnerVars, approvalVars>>

\* The fairness of each machine, while it runs.
Fairness ==
    /\ WF_runnerVars(focus = "loop" /\ StartQuery)
    /\ WF_runnerVars(focus = "loop" /\ FinishCleanup)
    /\ WF_runnerVars(focus = "loop" /\ Exit)
    /\ WF_runnerVars(focus = "loop" /\ Pull)
    /\ WF_runnerVars(focus = "loop" /\ TurnResult("spoken"))
    /\ WF_runnerVars(focus = "loop" /\ generatorDone /\ owed = <<>> /\ QueryEnds)
    /\ \A r \in Ids : WF_approvalVars(focus = "approvals" /\ Timeout(r))

Spec == Init /\ [][Next]_vars /\ Fairness
=============================================================================
