--------------------------- MODULE AgentApprovals ---------------------------
(***************************************************************************)
(* The agent runner asks (agent-runner/src/index.ts): questions to the     *)
(* user, approval of a plan, approval of a tool, and the permission mode   *)
(* they depend on. A hook of the SDK registers a request, emits it and     *)
(* waits; the answer comes back on stdin, or a timer rejects it.           *)
(*                                                                         *)
(* The mode exists three times: in the runner (mode), in the SDK           *)
(* (sdkMode) and in what the application was last told (told). Calls       *)
(* setPermissionMode to the SDK and status messages from it are under way  *)
(* for a while. The SDK and the agent are external. Cooldowns of 30 s are  *)
(* flags that may expire at any time.                                      *)
(***************************************************************************)
EXTENDS Naturals, Sequences, FiniteSets

CONSTANTS
    Questions,      \* questions the agent may ask
    ToolUses,          \* uses of tools that are subject to approval (tool:specifier)
    EditTools,      \* those of Write, Edit and NotebookEdit
    PLAN_MODE_DENIED_TOOLS, \* the same and Bash
    DenyRules, AskRules, AllowRules, \* tools that persistentRules match
    InitialMode,    \* --permission-mode
    UserModes,      \* the modes the user chooses from
    MaxRequests,    \* bound on the requests made
    MaxCalls,       \* bound on setPermissionMode calls under way
    MaxRestarts      \* bound on the restarts of the query

Modes == {"default", "acceptEdits", "bypassPermissions", "plan", "dontAsk"}

ASSUME ApprovalBounds ==
    /\ EditTools \cup PLAN_MODE_DENIED_TOOLS \subseteq ToolUses
    /\ DenyRules \cup AskRules \cup AllowRules \subseteq ToolUses
    /\ InitialMode \in Modes /\ UserModes \subseteq Modes
    /\ {MaxRequests, MaxCalls, MaxRestarts} \subseteq Nat

VARIABLES
    queryUp,       \* the query is up
    mode,           \* currentPermissionMode
    prePlan,        \* prePlanPermissionMode
    suppress,       \* suppressStalePlanMode
    planFile,       \* lastPlanFilePath is set
    exitCooldown,   \* ExitPlanMode was approved less than 30 s ago
    cached,         \* lastQuestionAnswers: the question they answer, fresh for 30 s
    sdkMode, calls, status, \* the SDK's mode, calls to it, a status message from it
    exiting,        \* ExitPlanMode was allowed and has not finished
    told,           \* the mode of the last permission_mode_changed
    requests,       \* what was asked, by request id
    asked, orphans, \* the requests made, and how many of them a dead query made
    verdict,        \* what the SDK was answered: allow, deny, or the answers to a question
    session,        \* sessionApprovals
    planWritten,    \* history: a plan was written since plan mode was entered
    drifted,        \* history: changes of the mode overlapped or failed
    restarts

askVars == <<requests, asked, orphans, verdict>>
sdkVars == <<sdkMode, calls, status, exiting>>
planVars == <<prePlan, suppress, planFile, exitCooldown>>
flawVars == <<planWritten, drifted>>
approvalVars == <<queryUp, mode, told, cached, restarts, askVars, sdkVars, planVars,
                  session, flawVars>>

NoQuestion == "none"
Ids == 1 .. MaxRequests
Unused == [kind |-> "unused", about |-> NoQuestion]
Request ==
    {Unused} \cup [kind : {"question"}, about : Questions]
             \cup [kind : {"plan"}, about : {NoQuestion}]
             \cup [kind : {"tool"}, about : ToolUses]

ApprovalTypeOK ==
    /\ {queryUp, suppress, planFile, exitCooldown, exiting, planWritten,
        drifted} \subseteq BOOLEAN
    /\ {mode, prePlan, sdkMode, told} \subseteq Modes
    /\ cached \in Questions \cup {NoQuestion}
    /\ calls \in Seq([mode : Modes, by : {"user", "exit", "enter"}])
    /\ status \in Modes \cup {"none"}
    /\ requests \in [Ids -> Request]
    /\ asked \in 0 .. MaxRequests /\ orphans \in 0 .. MaxRequests
    /\ verdict \in [Ids -> {"none", "allow", "deny"} \cup Questions]
    /\ session \in [ToolUses -> {"none", "allow", "deny"}]
    /\ restarts \in 0 .. MaxRestarts

ApprovalInit ==
    /\ queryUp = TRUE
    /\ mode = InitialMode /\ sdkMode = InitialMode /\ told = InitialMode
    /\ prePlan = IF InitialMode = "plan" THEN "bypassPermissions" ELSE InitialMode
    /\ suppress = FALSE /\ planFile = FALSE /\ exitCooldown = FALSE /\ cached = NoQuestion
    /\ calls = <<>> /\ status = "none" /\ exiting = FALSE
    /\ requests = [r \in Ids |-> Unused] /\ asked = 0 /\ orphans = 0
    /\ verdict = [r \in Ids |-> "none"]
    /\ session = [t \in ToolUses |-> "none"]
    /\ restarts = 0
    /\ planWritten = FALSE /\ drifted = FALSE

-----------------------------------------------------------------------------
(* The permission mode. *)
Call(m, by) == calls' = Append(calls, [mode |-> m, by |-> by])

\* The agent waits for the hooks of its own tools.
AgentFree == queryUp /\ ~exiting /\ \A i \in DOMAIN calls : calls[i].by = "user"

\* The user sets the mode. Entering plan mode starts a new plan cycle; the mode it
\* is entered from is remembered even when it is plan mode.
SetPermissionMode(m) ==
    /\ queryUp /\ Len(calls) < MaxCalls
    /\ drifted' = (drifted \/ calls # <<>> \/ status # "none" \/ exiting)
    /\ IF m = "plan"
       THEN /\ prePlan' = mode
            /\ suppress' = FALSE /\ exitCooldown' = FALSE /\ planFile' = FALSE
            /\ planWritten' = FALSE
       ELSE UNCHANGED <<planVars, planWritten>>
    /\ mode' = m
    /\ Call(m, "user")
    /\ UNCHANGED <<queryUp, told, cached, restarts, askVars, sdkMode, status, exiting,
                   session>>

\* The SDK answers the oldest call. The mode of a call that fails stays in the runner,
\* and the user is told of an error instead of a mode.
CallReturns(works) ==
    /\ calls # <<>>
    /\ calls' = Tail(calls)
    /\ sdkMode' = IF works THEN Head(calls).mode ELSE sdkMode
    /\ told' = IF works /\ Head(calls).by = "user" THEN Head(calls).mode ELSE told
    /\ planFile' = (planFile /\ Head(calls).by # "exit")
    /\ drifted' = (drifted \/ ~works)
    /\ UNCHANGED <<queryUp, mode, cached, restarts, askVars, status, exiting, prePlan,
                   suppress, exitCooldown, session, planWritten>>

\* A status message with the SDK's mode is on its way and arrives later.
SDKReports ==
    /\ queryUp /\ status = "none" /\ status' = sdkMode
    /\ UNCHANGED <<queryUp, mode, told, cached, restarts, askVars, sdkMode, calls, exiting,
                   planVars, session, flawVars>>

StatusArrives ==
    /\ status # "none"
    /\ status' = "none"
    /\ IF status = "plan" /\ suppress
       THEN UNCHANGED <<mode, told, suppress, drifted>>
       ELSE /\ suppress' = (suppress /\ status = "plan")
            /\ mode' = status /\ told' = status
            /\ drifted' = (drifted \/ status # mode \/ calls # <<>>)
    /\ UNCHANGED <<queryUp, cached, restarts, askVars, sdkMode, calls, exiting, prePlan,
                   planFile, exitCooldown, session, planWritten>>

\* The agent enters plan mode by a tool (postToolUseHook).
EnterPlanMode ==
    /\ AgentFree /\ sdkMode # "plan" /\ Len(calls) < MaxCalls
    /\ sdkMode' = "plan"
    /\ suppress' = FALSE /\ planFile' = FALSE /\ planWritten' = FALSE
    /\ prePlan' = IF mode # "plan" THEN mode ELSE prePlan
    /\ mode' = "plan" /\ told' = "plan"
    /\ Call("plan", "enter")
    /\ drifted' = (drifted \/ calls # <<>> \/ status # "none")
    /\ UNCHANGED <<queryUp, cached, restarts, askVars, status, exiting, exitCooldown,
                   session>>

\* The agent writes or reads a plan (preToolUseHook): it is tracked in plan mode only.
WritePlan ==
    /\ AgentFree /\ sdkMode = "plan"
    /\ planWritten' = TRUE
    /\ planFile' = (planFile \/ mode = "plan")
    /\ UNCHANGED <<queryUp, mode, told, cached, restarts, askVars, sdkVars, prePlan, suppress,
                   exitCooldown, session, drifted>>

\* Mutant of ExitPlanModeDone: the SDK is trusted to restore the mode by itself.
ExitWithoutCall ==
    /\ exiting
    /\ exiting' = FALSE
    /\ sdkMode' \in {sdkMode, prePlan}
    /\ mode' = prePlan /\ told' = prePlan /\ planWritten' = FALSE
    /\ suppress' = TRUE
    /\ drifted' = (drifted \/ calls # <<>> \/ status # "none")
    /\ UNCHANGED <<queryUp, cached, restarts, askVars, calls, status, prePlan, planFile,
                   exitCooldown, session>>

\* ExitPlanMode has run (postToolUseHook): the mode is restored, and the SDK has left
\* plan mode by itself or not.
ExitPlanModeDone ==
    /\ exiting /\ Len(calls) < MaxCalls
    /\ exiting' = FALSE
    /\ sdkMode' \in {sdkMode, prePlan}
    /\ mode' = prePlan /\ told' = prePlan /\ planWritten' = FALSE
    /\ suppress' = TRUE
    /\ Call(prePlan, "exit")
    /\ drifted' = (drifted \/ calls # <<>> \/ status # "none")
    /\ UNCHANGED <<queryUp, cached, restarts, askVars, status, prePlan, planFile,
                   exitCooldown, session>>

-----------------------------------------------------------------------------
(* Requests. *)
NewRequest(kind, about, answer) ==
    /\ asked < MaxRequests
    /\ asked' = asked + 1
    /\ requests' = [requests EXCEPT ![asked + 1] = [kind |-> kind, about |-> about]]
    /\ verdict' = [verdict EXCEPT ![asked + 1] = answer]
    /\ UNCHANGED orphans

Pending(r) == r <= asked /\ verdict[r] = "none"

\* askUserQuestionHook. A question within the cooldown gets the answers of the last one.
AskQuestion(q) ==
    /\ AgentFree
    /\ NewRequest("question", q, cached)
    /\ UNCHANGED <<queryUp, mode, told, cached, restarts, sdkVars, planVars, session, flawVars>>

\* exitPlanModeHook: refused within the cooldown, allowed when no plan is tracked or when
\* the file of the one that is cannot be read or is empty, else the user decides.
CallExitPlanMode ==
    /\ AgentFree /\ sdkMode = "plan" /\ ~exitCooldown
    /\ \A r \in orphans + 1 .. asked : Pending(r) => requests[r].kind # "plan"
    /\ \/ planFile /\ NewRequest("plan", NoQuestion, "none") /\ UNCHANGED <<exitCooldown, exiting>>
       \/ exitCooldown' = TRUE /\ exiting' = TRUE /\ UNCHANGED askVars
    /\ UNCHANGED <<queryUp, mode, told, cached, restarts, sdkMode, calls, status, prePlan,
                   suppress, planFile, session, flawVars>>

CooldownEnds ==
    /\ \/ exitCooldown /\ exitCooldown' = FALSE /\ UNCHANGED cached
       \/ cached # NoQuestion /\ cached' = NoQuestion /\ UNCHANGED exitCooldown
    /\ UNCHANGED <<queryUp, mode, told, restarts, askVars, sdkVars, prePlan, suppress,
                   planFile, session, flawVars>>

\* The answer to a pending request. One to a request that is settled is ignored.
UserAnswers(r, consents) ==
    /\ Pending(r)
    /\ verdict' = [verdict EXCEPT ![r] =
                       IF ~consents THEN "deny"
                       ELSE IF requests[r].kind = "question" THEN requests[r].about
                       ELSE "allow"]
    /\ \/ /\ requests[r].kind = "question"
          /\ cached' = IF consents THEN requests[r].about ELSE NoQuestion
          /\ UNCHANGED <<exitCooldown, exiting, session>>
       \/ /\ requests[r].kind = "plan"
          /\ exitCooldown' = (exitCooldown \/ consents)
          /\ exiting' = (exiting \/ (consents /\ r > orphans))
          /\ UNCHANGED <<cached, session>>
       \/ /\ requests[r].kind = "tool"
          /\ \/ session' = [session EXCEPT ![requests[r].about] = verdict'[r]]
             \/ UNCHANGED session
          /\ UNCHANGED <<cached, exitCooldown, exiting>>
    /\ UNCHANGED <<queryUp, mode, told, restarts, requests, asked, orphans, sdkMode, calls,
                   status, prePlan, suppress, planFile, flawVars>>

\* Mutant of Timeout: a crash of the query clears the timers.
TimeoutOfLiveQuery(r) ==
    /\ Pending(r) /\ r > orphans
    /\ verdict' = [verdict EXCEPT ![r] = "deny"]
    /\ cached' = IF requests[r].kind = "question" THEN NoQuestion ELSE cached
    /\ UNCHANGED <<queryUp, mode, told, restarts, requests, asked, orphans, sdkVars,
                   planVars, session, flawVars>>

Timeout(r) ==
    /\ Pending(r)
    /\ verdict' = [verdict EXCEPT ![r] = "deny"]
    /\ cached' = IF requests[r].kind = "question" THEN NoQuestion ELSE cached
    /\ UNCHANGED <<queryUp, mode, told, restarts, requests, asked, orphans, sdkVars, planVars,
                   session, flawVars>>

-----------------------------------------------------------------------------
(* Tools. In bypass mode the SDK lets a tool run without a question; in any other
   mode it asks canUseTool. *)
EffectiveMode == IF mode = "plan" THEN prePlan ELSE mode

RuleFor(t) ==
    IF t \in DenyRules THEN "deny"
    ELSE IF t \in AskRules THEN "ask"
    ELSE IF t \in AllowRules THEN "allow" ELSE "none"

Decision(t) ==
    IF mode = "plan" /\ t \in PLAN_MODE_DENIED_TOOLS THEN "deny"
    ELSE IF EffectiveMode = "bypassPermissions" THEN "bypass"
    ELSE IF session[t] # "none" THEN session[t]
    ELSE IF RuleFor(t) \in {"allow", "deny"} THEN RuleFor(t)
    ELSE IF EffectiveMode = "acceptEdits" /\ t \in EditTools THEN "allow"
    ELSE IF EffectiveMode = "dontAsk" THEN "deny"
    ELSE "ask"

Runs(t) == sdkMode = "bypassPermissions" \/ Decision(t) \in {"bypass", "allow"}

\* The agent uses a tool that needs the user's approval.
UseTool(t) ==
    /\ AgentFree
    /\ ~Runs(t) /\ Decision(t) = "ask"
    /\ NewRequest("tool", t, "none")
    /\ UNCHANGED <<queryUp, mode, told, cached, restarts, sdkVars, planVars, session,
                   flawVars>>

-----------------------------------------------------------------------------
(* A crash of the query and its replacement, which gets the options of the first. *)
Crash ==
    /\ queryUp /\ restarts < MaxRestarts
    /\ queryUp' = FALSE /\ restarts' = restarts + 1
    /\ calls' = <<>> /\ status' = "none" /\ exiting' = FALSE
    /\ orphans' = asked
    /\ UNCHANGED <<mode, told, cached, requests, asked, verdict, sdkMode, planVars, session,
                   flawVars>>

\* Its first message, init, tells the application the mode of the SDK; the runner
\* keeps the mode it had.
NewQuery ==
    /\ ~queryUp
    /\ queryUp' = TRUE
    /\ sdkMode' = InitialMode /\ told' = InitialMode
    /\ UNCHANGED <<mode, cached, restarts, askVars, calls, status, exiting, planVars,
                   session, flawVars>>

-----------------------------------------------------------------------------
ApprovalNext ==
    \/ \E m \in UserModes : SetPermissionMode(m)
    \/ \E works \in BOOLEAN : CallReturns(works)
    \/ SDKReports \/ StatusArrives
    \/ EnterPlanMode \/ WritePlan \/ CallExitPlanMode \/ ExitPlanModeDone
    \/ \E q \in Questions : AskQuestion(q)
    \/ \E t \in ToolUses : UseTool(t)
    \/ \E r \in Ids : Timeout(r) \/ \E consents \in BOOLEAN : UserAnswers(r, consents)
    \/ CooldownEnds \/ Crash \/ NewQuery

\* Timers fire.
ApprovalFairness ==
    \A r \in Ids : WF_approvalVars(Timeout(r))

ApprovalSpec ==
    ApprovalInit /\ [][ApprovalNext]_approvalVars /\ ApprovalFairness

-----------------------------------------------------------------------------
\* Every request is settled in the end, also those whose query has died.
RequestsSettle == \A r \in Ids : r <= asked ~> verdict[r] # "none"

\* With nothing under way the runner, the SDK and the application agree on the mode, if
\* no two changes ever overlapped or failed and the query never crashed; and a plan that
\* was written in this plan mode is tracked, so that ExitPlanMode asks the user unless the
\* file cannot be read or is empty.
Quiet == queryUp /\ calls = <<>> /\ status = "none" /\ ~exiting
Undisturbed == ~drifted /\ restarts = 0
ModesAgree ==
    Quiet /\ Undisturbed =>
        /\ mode = sdkMode /\ told = mode
        /\ sdkMode = "plan" /\ planWritten => planFile
=============================================================================
