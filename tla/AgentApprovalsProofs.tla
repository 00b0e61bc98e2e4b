------------------------ MODULE AgentApprovalsProofs ------------------------
(***************************************************************************)
(* Proofs about the approvals of the agent runner and its rules, and about *)
(* the three machines of the runner together: the verdict on a request     *)
(* stands, the three copies of the permission mode agree once nothing is   *)
(* under way, and the two-pointer matching of a rule is right for every    *)
(* pattern and value.                                                      *)
(***************************************************************************)
EXTENDS MCRunner, AgentRunnerProofs, SequenceTheorems, TLAPS

Calls == [mode : Modes, by : {"user", "exit", "enter"}]
Answers == {"none", "allow", "deny"} \cup Questions

(* ApprovalTypeOK, by what belongs together.                               *)
ApprovalFlags ==
    /\ queryUp \in BOOLEAN /\ suppress \in BOOLEAN /\ planFile \in BOOLEAN
    /\ exitCooldown \in BOOLEAN /\ exiting \in BOOLEAN
    /\ planWritten \in BOOLEAN /\ drifted \in BOOLEAN

ModeTypes ==
    /\ mode \in Modes /\ prePlan \in Modes /\ sdkMode \in Modes /\ told \in Modes
    /\ status \in Modes \cup {"none"}
    /\ calls \in Seq(Calls)

RequestTypes ==
    /\ requests \in [Ids -> Request]
    /\ asked \in 0 .. MaxRequests /\ orphans \in 0 .. MaxRequests
    /\ verdict \in [Ids -> Answers]
    /\ session \in [ToolUses -> {"none", "allow", "deny"}]
    /\ cached \in Questions \cup {NoQuestion}
    /\ restarts \in 0 .. MaxRestarts

LEMMA SplitApprovals == ApprovalTypeOK <=> ApprovalFlags /\ ModeTypes /\ RequestTypes
  BY DEF ApprovalTypeOK, ApprovalFlags, ModeTypes, RequestTypes, Calls, Answers

LEMMA SplitApprovalsNext ==
  ApprovalTypeOK' <=> ApprovalFlags' /\ ModeTypes' /\ RequestTypes'
  BY SplitApprovals, PTL

(* What nobody has asked has no verdict.                                   *)
NoEarlyVerdict == \A r \in Ids : r > asked => verdict[r] = "none"

(* While no two changes of the mode overlap: the one call under way is     *)
(* about the runner's mode, and a plan of this plan mode is tracked.       *)
CallsAgree ==
    /\ Len(calls) <= 1
    /\ calls = <<>> => mode = sdkMode /\ told = mode
    /\ calls # <<>> => /\ calls[1].mode = mode
                       /\ calls[1].by # "user" => told = mode

PlanTracked ==
    /\ calls # <<>> /\ calls[1].by = "exit" => ~planWritten
    /\ mode = "plan" /\ planWritten => planFile

ModesTracked == Undisturbed => CallsAgree /\ PlanTracked

UpUntilCrash == restarts = 0 => queryUp

ApprovalInv == ApprovalTypeOK /\ NoEarlyVerdict /\ UpUntilCrash /\ ModesTracked

USE DEF askVars, sdkVars, planVars, flawVars, approvalVars
-----------------------------------------------------------------------------
LEMMA ApprovalInitTypes == ApprovalInit => ApprovalInv
<1> SUFFICES ASSUME ApprovalInit PROVE ApprovalInv
  OBVIOUS
<1>1. ApprovalFlags
  BY DEF ApprovalInit, ApprovalFlags
<1>2. ModeTypes
  BY ApprovalBounds DEF ApprovalInit, ModeTypes, Modes
<1>3. RequestTypes
  BY ApprovalBounds DEF ApprovalInit, RequestTypes, Request, Unused, Answers, Ids
<1>4. NoEarlyVerdict
  BY DEF ApprovalInit, NoEarlyVerdict, Ids
<1>5. ModesTracked
  <2>1. calls = <<>> /\ Len(calls) = 0 /\ mode = sdkMode /\ told = mode
    BY DEF ApprovalInit
  <2>2. ~planWritten
    BY DEF ApprovalInit
  <2> QED
    BY <2>1, <2>2 DEF ModesTracked, CallsAgree, PlanTracked
<1>6. UpUntilCrash
  BY DEF ApprovalInit, UpUntilCrash
<1> QED
  BY <1>1, <1>2, <1>3, <1>4, <1>5, <1>6, SplitApprovals DEF ApprovalInv

LEMMA ApprovalFlagsStep ==
  ASSUME ApprovalFlags, [ApprovalNext]_approvalVars PROVE ApprovalFlags'
<1> USE DEF ApprovalFlags
<1>1. ASSUME NEW m \in UserModes, SetPermissionMode(m) PROVE ApprovalFlags'
  BY <1>1 DEF SetPermissionMode
<1>2. ASSUME NEW works \in BOOLEAN, CallReturns(works) PROVE ApprovalFlags'
  BY <1>2 DEF CallReturns
<1>3. CASE SDKReports \/ StatusArrives
  BY <1>3 DEF SDKReports, StatusArrives
<1>4. CASE EnterPlanMode \/ WritePlan \/ CallExitPlanMode \/ ExitPlanModeDone
  BY <1>4 DEF EnterPlanMode, WritePlan, CallExitPlanMode, ExitPlanModeDone
<1>5. ASSUME NEW q \in Questions, AskQuestion(q) PROVE ApprovalFlags'
  BY <1>5 DEF AskQuestion
<1>6. ASSUME NEW t \in ToolUses, UseTool(t) PROVE ApprovalFlags'
  BY <1>6 DEF UseTool
<1>7. ASSUME NEW r \in Ids, Timeout(r) PROVE ApprovalFlags'
  BY <1>7 DEF Timeout
<1>8. ASSUME NEW r \in Ids, NEW consents \in BOOLEAN, UserAnswers(r, consents)
      PROVE  ApprovalFlags'
  BY <1>8 DEF UserAnswers
<1>9. CASE CooldownEnds \/ Crash \/ NewQuery \/ UNCHANGED approvalVars
  BY <1>9 DEF CooldownEnds, Crash, NewQuery
<1> QED
  BY <1>1, <1>2, <1>3, <1>4, <1>5, <1>6, <1>7, <1>8, <1>9 DEF ApprovalNext

LEMMA ModeTypesStep ==
  ASSUME ModeTypes, [ApprovalNext]_approvalVars PROVE ModeTypes'
<1> USE DEF ModeTypes
<1>0. ASSUME NEW m \in Modes, NEW by \in {"user", "exit", "enter"}, Call(m, by)
      PROVE  calls' \in Seq(Calls)
  BY <1>0 DEF Call, Calls
<1>1. ASSUME NEW m \in UserModes, SetPermissionMode(m) PROVE ModeTypes'
  BY <1>0, <1>1, ApprovalBounds DEF SetPermissionMode
<1>2. ASSUME NEW works \in BOOLEAN, CallReturns(works) PROVE ModeTypes'
  <2>1. Head(calls) \in Calls /\ Tail(calls) \in Seq(Calls) /\ Head(calls).mode \in Modes
    <3>1. Head(calls) \in Calls /\ Tail(calls) \in Seq(Calls)
      BY <1>2 DEF CallReturns
    <3> QED
      BY <3>1 DEF Calls
  <2> QED
    BY <1>2, <2>1 DEF CallReturns
<1>3. CASE SDKReports
  BY <1>3 DEF SDKReports
<1>4. CASE StatusArrives
  BY <1>4 DEF StatusArrives
<1>5. CASE EnterPlanMode
  BY <1>0, <1>5 DEF EnterPlanMode, Modes
<1>6. CASE ExitPlanModeDone
  BY <1>0, <1>6 DEF ExitPlanModeDone
<1>7. CASE WritePlan \/ CallExitPlanMode
  BY <1>7 DEF WritePlan, CallExitPlanMode
<1>8. ASSUME NEW q \in Questions, AskQuestion(q) PROVE ModeTypes'
  BY <1>8 DEF AskQuestion
<1>9. ASSUME NEW t \in ToolUses, UseTool(t) PROVE ModeTypes'
  BY <1>9 DEF UseTool
<1>10. ASSUME NEW r \in Ids, Timeout(r) PROVE ModeTypes'
  BY <1>10 DEF Timeout
<1>11. ASSUME NEW r \in Ids, NEW consents \in BOOLEAN, UserAnswers(r, consents)
       PROVE  ModeTypes'
  BY <1>11 DEF UserAnswers
<1>12. CASE Crash
  BY <1>12 DEF Crash
<1>13. CASE CooldownEnds \/ NewQuery \/ UNCHANGED approvalVars
  BY <1>13, ApprovalBounds DEF CooldownEnds, NewQuery
<1> QED
  BY <1>1, <1>2, <1>3, <1>4, <1>5, <1>6, <1>7, <1>8, <1>9, <1>10, <1>11, <1>12, <1>13
     DEF ApprovalNext

(* Requests: a new one, and an answer to one that waits.                   *)
LEMMA NewRequestTypes ==
  ASSUME RequestTypes, NoEarlyVerdict, NEW kind, NEW about, NEW answer,
         [kind |-> kind, about |-> about] \in Request, answer \in Answers,
         NewRequest(kind, about, answer)
  PROVE  /\ requests' \in [Ids -> Request] /\ verdict' \in [Ids -> Answers]
         /\ asked' \in 0 .. MaxRequests /\ orphans' \in 0 .. MaxRequests
         /\ NoEarlyVerdict'
<1>1. /\ asked \in Nat /\ asked' = asked + 1 /\ asked + 1 \in Ids /\ Ids \subseteq Nat
      /\ asked' \in 0 .. MaxRequests
  BY ApprovalBounds DEF RequestTypes, NewRequest, Ids
<1>2. /\ requests' = [requests EXCEPT ![asked + 1] = [kind |-> kind, about |-> about]]
      /\ verdict' = [verdict EXCEPT ![asked + 1] = answer] /\ orphans' = orphans
  BY DEF NewRequest
<1>3. requests' \in [Ids -> Request] /\ verdict' \in [Ids -> Answers]
  BY <1>1, <1>2 DEF RequestTypes
<1>4. \A r \in Ids : r # asked + 1 => verdict'[r] = verdict[r]
  BY <1>1, <1>2 DEF RequestTypes
<1>5. NoEarlyVerdict'
  <2> SUFFICES ASSUME NEW r \in Ids, r > asked' PROVE verdict'[r] = "none"
    BY DEF NoEarlyVerdict
  <2>1. r > asked /\ r # asked + 1
    BY <1>1
  <2> QED
    BY <1>4, <2>1 DEF NoEarlyVerdict
<1> QED
  BY <1>1, <1>2, <1>3, <1>5 DEF RequestTypes

LEMMA VerdictTypes ==
  ASSUME RequestTypes, NoEarlyVerdict, NEW r \in Ids, NEW answer \in Answers, Pending(r),
         verdict' = [verdict EXCEPT ![r] = answer], asked' = asked
  PROVE  /\ verdict' \in [Ids -> Answers] /\ verdict'[r] = answer
         /\ NoEarlyVerdict'
<1>1. verdict' \in [Ids -> Answers] /\ verdict'[r] = answer
  BY DEF RequestTypes
<1>2. \A q \in Ids : q # r => verdict'[q] = verdict[q]
  BY DEF RequestTypes
<1>3. verdict[r] = "none" /\ ~(r > asked')
  BY ApprovalBounds DEF Pending, Ids, RequestTypes
<1> QED
  BY <1>1, <1>2, <1>3 DEF NoEarlyVerdict

LEMMA RequestsStep ==
  ASSUME RequestTypes, NoEarlyVerdict, [ApprovalNext]_approvalVars
  PROVE  RequestTypes' /\ NoEarlyVerdict'
<1> DEFINE Good == RequestTypes' /\ NoEarlyVerdict'
<1> SUFFICES Good
  OBVIOUS
<1>0. ASSUME UNCHANGED askVars, cached' \in {cached, NoQuestion},
             session' = session, restarts' = restarts
      PROVE  Good
  BY <1>0 DEF RequestTypes, NoEarlyVerdict
<1>1. ASSUME NEW kind, NEW about, NEW answer \in Answers,
             [kind |-> kind, about |-> about] \in Request,
             NewRequest(kind, about, answer), UNCHANGED <<cached, session, restarts>>
      PROVE  Good
  BY <1>1, NewRequestTypes DEF RequestTypes
<1>2. ASSUME NEW m \in UserModes, SetPermissionMode(m) PROVE Good
  BY <1>0, <1>2 DEF SetPermissionMode
<1>3. ASSUME NEW works \in BOOLEAN, CallReturns(works) PROVE Good
  BY <1>0, <1>3 DEF CallReturns
<1>4. CASE \/ SDKReports \/ StatusArrives \/ EnterPlanMode \/ WritePlan
           \/ ExitPlanModeDone \/ NewQuery \/ CooldownEnds \/ UNCHANGED approvalVars
  BY <1>0, <1>4 DEF SDKReports, StatusArrives, EnterPlanMode, WritePlan,
     ExitPlanModeDone, NewQuery, CooldownEnds
<1>5. CASE CallExitPlanMode
  <2>1. [kind |-> "plan", about |-> NoQuestion] \in Request
    BY DEF Request
  <2>2. "none" \in Answers
    BY DEF Answers
  <2>3. \/ NewRequest("plan", NoQuestion, "none") \/ UNCHANGED askVars
    BY <1>5 DEF CallExitPlanMode
  <2>4. UNCHANGED <<cached, session, restarts>>
    BY <1>5 DEF CallExitPlanMode
  <2> QED
    BY <1>0, <1>1, <2>1, <2>2, <2>3, <2>4
<1>6. ASSUME NEW q \in Questions, AskQuestion(q) PROVE Good
  <2>1. [kind |-> "question", about |-> q] \in Request /\ cached \in Answers
    BY DEF Request, RequestTypes, Answers, NoQuestion
  <2>2. NewRequest("question", q, cached) /\ UNCHANGED <<cached, session, restarts>>
    BY <1>6 DEF AskQuestion
  <2> QED
    BY <1>1, <2>1, <2>2
<1>7. ASSUME NEW t \in ToolUses, UseTool(t) PROVE Good
  <2>1. [kind |-> "tool", about |-> t] \in Request /\ "none" \in Answers
    BY DEF Request, Answers
  <2>2. NewRequest("tool", t, "none") /\ UNCHANGED <<cached, session, restarts>>
    BY <1>7 DEF UseTool
  <2> QED
    BY <1>1, <2>1, <2>2
<1>8. ASSUME NEW r \in Ids, Timeout(r) PROVE Good
  <2>1. /\ Pending(r) /\ verdict' = [verdict EXCEPT ![r] = "deny"] /\ asked' = asked
        /\ cached' \in {cached, NoQuestion}
        /\ UNCHANGED <<requests, orphans, session, restarts>>
    BY <1>8 DEF Timeout
  <2>2. "deny" \in Answers
    BY DEF Answers
  <2> QED
    BY <2>1, <2>2, VerdictTypes DEF RequestTypes
<1>9. ASSUME NEW r \in Ids, NEW consents \in BOOLEAN, UserAnswers(r, consents) PROVE Good
  <2> DEFINE answer == IF ~consents THEN "deny"
                       ELSE IF requests[r].kind = "question" THEN requests[r].about
                       ELSE "allow"
  <2>1. /\ Pending(r) /\ verdict' = [verdict EXCEPT ![r] = answer] /\ asked' = asked
        /\ UNCHANGED <<requests, orphans, restarts>>
    BY <1>9 DEF UserAnswers
  <2>2. requests[r] \in Request
    BY DEF RequestTypes
  <2>3. /\ requests[r].kind = "question" => requests[r].about \in Questions
        /\ requests[r].kind = "tool" => requests[r].about \in ToolUses
    BY <2>2 DEF Request, Unused
  <2>4. /\ answer \in Answers
        /\ requests[r].kind = "tool" => answer \in {"allow", "deny"}
    BY <2>3 DEF Answers
  <2>5. /\ verdict' \in [Ids -> Answers] /\ verdict'[r] = answer /\ NoEarlyVerdict'
    <3> HIDE DEF answer
    <3> QED
      BY <2>1, <2>4, VerdictTypes
  <2>6. cached' \in Questions \cup {NoQuestion}
    <3>1. \/ cached' = cached
          \/ /\ requests[r].kind = "question"
             /\ cached' = IF consents THEN requests[r].about ELSE NoQuestion
      BY <1>9 DEF UserAnswers
    <3> QED
      BY <2>3, <3>1 DEF RequestTypes
  <2>7. session' \in [ToolUses -> {"none", "allow", "deny"}]
    <3>1. \/ session' = session
          \/ /\ requests[r].kind = "tool"
             /\ session' = [session EXCEPT ![requests[r].about] = verdict'[r]]
      BY <1>9 DEF UserAnswers
    <3>2. requests[r].kind = "tool" => verdict'[r] \in {"allow", "deny"}
      BY <2>4, <2>5
    <3> QED
      BY <2>3, <3>1, <3>2 DEF RequestTypes
  <2> QED
    BY <2>1, <2>5, <2>6, <2>7 DEF RequestTypes
<1>10. CASE Crash
  <2>1. /\ restarts < MaxRestarts /\ restarts' = restarts + 1 /\ orphans' = asked
        /\ UNCHANGED <<requests, asked, verdict, session, cached>>
    BY <1>10 DEF Crash
  <2> QED
    BY <2>1, ApprovalBounds DEF RequestTypes, NoEarlyVerdict
<1> HIDE DEF Good
<1> QED
  BY <1>2, <1>3, <1>4, <1>5, <1>6, <1>7, <1>8, <1>9, <1>10 DEF ApprovalNext
-----------------------------------------------------------------------------
(* A step of an undisturbed runner starts from an undisturbed one.         *)
LEMMA DisturbedStays ==
  ASSUME RequestTypes, [ApprovalNext]_approvalVars, Undisturbed'
  PROVE  Undisturbed /\ restarts' = restarts
<1>1. ~drifted' /\ restarts' = 0
  BY DEF Undisturbed
<1>2. (drifted => drifted') /\ (restarts' = restarts \/ (restarts' = restarts + 1))
  <2>1. ASSUME NEW m \in UserModes, SetPermissionMode(m)
        PROVE  (drifted => drifted') /\ restarts' = restarts
    BY <2>1 DEF SetPermissionMode
  <2>2. ASSUME NEW works \in BOOLEAN, CallReturns(works)
        PROVE  (drifted => drifted') /\ restarts' = restarts
    BY <2>2 DEF CallReturns
  <2>9. ASSUME StatusArrives PROVE (drifted => drifted') /\ restarts' = restarts
    <3>1. drifted => drifted'
      BY <2>9 DEF StatusArrives
    <3>2. restarts' = restarts
      BY <2>9 DEF StatusArrives
    <3> QED
      BY <3>1, <3>2
  <2>3. ASSUME \/ SDKReports \/ EnterPlanMode \/ WritePlan
               \/ CallExitPlanMode \/ ExitPlanModeDone \/ CooldownEnds \/ NewQuery
               \/ UNCHANGED approvalVars
        PROVE  (drifted => drifted') /\ restarts' = restarts
    <3>1. restarts' = restarts
      BY <2>3 DEF SDKReports, EnterPlanMode, WritePlan, CallExitPlanMode,
                  ExitPlanModeDone, CooldownEnds, NewQuery
    <3>2. EnterPlanMode \/ ExitPlanModeDone => (drifted => drifted')
      BY DEF EnterPlanMode, ExitPlanModeDone
    <3>3. \/ SDKReports \/ WritePlan \/ CallExitPlanMode \/ CooldownEnds \/ NewQuery
          \/ UNCHANGED approvalVars
          => drifted' = drifted
      BY DEF SDKReports, WritePlan, CallExitPlanMode, CooldownEnds, NewQuery
    <3> QED
      BY <2>3, <3>1, <3>2, <3>3
  <2>4. ASSUME NEW q \in Questions, AskQuestion(q) PROVE UNCHANGED <<drifted, restarts>>
    BY <2>4 DEF AskQuestion
  <2>5. ASSUME NEW t \in ToolUses, UseTool(t) PROVE UNCHANGED <<drifted, restarts>>
    BY <2>5 DEF UseTool
  <2>6. ASSUME NEW r \in Ids, Timeout(r) PROVE UNCHANGED <<drifted, restarts>>
    BY <2>6 DEF Timeout
  <2>7. ASSUME NEW r \in Ids, NEW consents \in BOOLEAN, UserAnswers(r, consents)
        PROVE  UNCHANGED <<drifted, restarts>>
    BY <2>7 DEF UserAnswers
  <2>8. ASSUME Crash PROVE drifted' = drifted /\ restarts' = restarts + 1
    BY <2>8 DEF Crash
  <2> QED
    BY <2>1, <2>2, <2>3, <2>4, <2>5, <2>6, <2>7, <2>8, <2>9 DEF ApprovalNext
<1>3. restarts \in Nat
  BY ApprovalBounds DEF RequestTypes
<1>4. restarts' = restarts
  BY <1>1, <1>2, <1>3
<1>5. ~drifted
  BY <1>1, <1>2
<1> QED
  BY <1>1, <1>4, <1>5 DEF Undisturbed

(* The one call under way, when it comes and when it goes.                 *)
LEMMA CallStarts ==
  ASSUME calls = <<>>, NEW m, NEW by, Call(m, by)
  PROVE  Len(calls') = 1 /\ calls' # <<>> /\ calls'[1] = [mode |-> m, by |-> by]
  BY DEF Call

LEMMA CallEnds ==
  ASSUME NEW S, NEW s \in Seq(S), s # <<>>, Len(s) <= 1
  PROVE  Tail(s) = <<>> /\ Len(Tail(s)) = 0 /\ Head(s) = s[1]
<1>1. Head(s) = s[1]
  BY EmptySeq
<1>2. Len(s) = 1
  <2>1. Len(s) \in Nat \ {0}
    BY EmptySeq
  <2> QED
    BY <2>1
<1>3. Tail(s) \in Seq(S) /\ Len(Tail(s)) = 0
  BY <1>2
<1> QED
  BY <1>1, <1>3, EmptySeq

LEMMA ModesStep ==
  ASSUME ModeTypes, RequestTypes, UpUntilCrash, ModesTracked,
         [ApprovalNext]_approvalVars
  PROVE  ModesTracked'
<1> DEFINE Good == CallsAgree' /\ PlanTracked'
<1> SUFFICES ASSUME Undisturbed' PROVE Good
  BY DEF ModesTracked
<1>0. CallsAgree /\ PlanTracked /\ ~drifted'
  BY DisturbedStays DEF ModesTracked, Undisturbed
<1>1. UNCHANGED <<calls, mode, sdkMode, told, planWritten, planFile>> => Good
  BY <1>0 DEF CallsAgree, PlanTracked
<1>2. ASSUME NEW m \in UserModes, SetPermissionMode(m) PROVE Good
  <2>1. calls = <<>> /\ Call(m, "user") /\ mode' = m
    BY <1>0, <1>2 DEF SetPermissionMode
  <2>2. Len(calls') = 1 /\ calls' # <<>> /\ calls'[1] = [mode |-> m, by |-> "user"]
    BY <2>1, CallStarts
  <2>3. CallsAgree'
    BY <2>1, <2>2 DEF CallsAgree
  <2>4. m = "plan" => ~planWritten'
    BY <1>2 DEF SetPermissionMode
  <2> QED
    BY <2>1, <2>2, <2>3, <2>4 DEF PlanTracked
<1>3. ASSUME NEW works \in BOOLEAN, CallReturns(works) PROVE Good
  <2>1. works
    BY <1>0, <1>3 DEF CallReturns
  <2>2. /\ calls # <<>> /\ calls' = Tail(calls) /\ sdkMode' = Head(calls).mode
        /\ told' = IF Head(calls).by = "user" THEN Head(calls).mode ELSE told
        /\ mode' = mode
    BY <1>3, <2>1 DEF CallReturns
  <2>3. calls' = <<>> /\ Len(calls') = 0 /\ Head(calls) = calls[1]
    BY <1>0, <2>2, CallEnds DEF ModeTypes, CallsAgree
  <2>4. CallsAgree'
    BY <1>0, <2>2, <2>3 DEF CallsAgree
  <2>5. planFile' = (planFile /\ calls[1].by # "exit") /\ planWritten' = planWritten
    BY <1>3, <2>3 DEF CallReturns
  <2>6. mode' = "plan" /\ planWritten' => planFile'
    BY <1>0, <2>2, <2>5 DEF PlanTracked
  <2> QED
    BY <2>3, <2>4, <2>6 DEF PlanTracked
<1>4. CASE StatusArrives
  <2>1. UNCHANGED <<calls, sdkMode, planFile, planWritten>>
    BY <1>4 DEF StatusArrives
  <2>2. \/ UNCHANGED <<mode, told>>
        \/ mode' = status /\ told' = status /\ status = mode /\ calls = <<>>
    BY <1>0, <1>4 DEF StatusArrives
  <2>3. CallsAgree'
    BY <1>0, <2>1, <2>2 DEF CallsAgree
  <2>4. mode' = mode
    BY <2>2
  <2> QED
    BY <1>0, <2>1, <2>3, <2>4 DEF PlanTracked
<1>5. CASE EnterPlanMode
  <2>1. calls = <<>> /\ Call("plan", "enter") /\ mode' = "plan" /\ told' = "plan"
    BY <1>0, <1>5 DEF EnterPlanMode
  <2>2. ~planWritten'
    BY <1>5 DEF EnterPlanMode
  <2>3. Len(calls') = 1 /\ calls' # <<>> /\ calls'[1] = [mode |-> "plan", by |-> "enter"]
    BY <2>1, CallStarts
  <2>4. CallsAgree'
    BY <2>1, <2>3 DEF CallsAgree
  <2> QED
    BY <2>2, <2>4 DEF PlanTracked
<1>6. CASE WritePlan
  <2>1. UNCHANGED <<calls, mode, sdkMode, told>>
    BY <1>6 DEF WritePlan
  <2>2. CallsAgree'
    BY <1>0, <2>1 DEF CallsAgree
  <2>3. calls # <<>> => calls[1].by = "user"
    <3> SUFFICES ASSUME calls # <<>> PROVE calls[1].by = "user"
      OBVIOUS
    <3>1. Len(calls) \in Nat \ {0} /\ DOMAIN calls = 1 .. Len(calls)
      BY EmptySeq DEF ModeTypes
    <3>2. 1 \in DOMAIN calls
      BY <3>1
    <3> QED
      BY <1>6, <3>2 DEF WritePlan, AgentFree
  <2>4. mode = "plan" => planFile'
    BY <1>6 DEF WritePlan
  <2> QED
    BY <2>1, <2>2, <2>3, <2>4 DEF PlanTracked
<1>7. CASE ExitPlanModeDone
  <2>1. calls = <<>> /\ Call(prePlan, "exit") /\ mode' = prePlan /\ told' = prePlan
    BY <1>0, <1>7 DEF ExitPlanModeDone
  <2>2. ~planWritten'
    BY <1>7 DEF ExitPlanModeDone
  <2>3. Len(calls') = 1 /\ calls' # <<>> /\ calls'[1] = [mode |-> prePlan, by |-> "exit"]
    BY <2>1, CallStarts
  <2>4. CallsAgree'
    BY <2>1, <2>3 DEF CallsAgree
  <2> QED
    BY <2>2, <2>4 DEF PlanTracked
<1>8. ~Crash
  BY DisturbedStays DEF Crash, RequestTypes
<1>9. ~NewQuery
  BY DisturbedStays DEF NewQuery, UpUntilCrash, Undisturbed
<1>10. CASE SDKReports \/ CallExitPlanMode \/ CooldownEnds \/ UNCHANGED approvalVars
  BY <1>1, <1>10 DEF SDKReports, CallExitPlanMode, CooldownEnds
<1>11. ASSUME NEW q \in Questions, AskQuestion(q) PROVE Good
  BY <1>1, <1>11 DEF AskQuestion
<1>12. ASSUME NEW t \in ToolUses, UseTool(t) PROVE Good
  BY <1>1, <1>12 DEF UseTool
<1>13. ASSUME NEW r \in Ids, Timeout(r) PROVE Good
  BY <1>1, <1>13 DEF Timeout
<1>14. ASSUME NEW r \in Ids, NEW consents \in BOOLEAN, UserAnswers(r, consents) PROVE Good
  BY <1>1, <1>14 DEF UserAnswers
<1> HIDE DEF Good
<1> QED
  BY <1>2, <1>3, <1>4, <1>5, <1>6, <1>7, <1>8, <1>9, <1>10, <1>11, <1>12, <1>13, <1>14
     DEF ApprovalNext

LEMMA UpStep ==
  ASSUME RequestTypes, UpUntilCrash, [ApprovalNext]_approvalVars
  PROVE  UpUntilCrash'
<1> USE DEF UpUntilCrash
<1>1. CASE Crash
  <2>1. restarts' = restarts + 1 /\ restarts \in Nat
    BY <1>1, ApprovalBounds DEF Crash, RequestTypes
  <2>2. restarts' # 0
    BY <2>1
  <2> QED
    BY <2>2
<1>2. CASE NewQuery
  BY <1>2 DEF NewQuery
<1>3. ASSUME NEW m \in UserModes, SetPermissionMode(m) PROVE UNCHANGED <<queryUp, restarts>>
  BY <1>3 DEF SetPermissionMode
<1>4. ASSUME NEW works \in BOOLEAN, CallReturns(works) PROVE UNCHANGED <<queryUp, restarts>>
  BY <1>4 DEF CallReturns
<1>5. ASSUME \/ SDKReports \/ StatusArrives \/ EnterPlanMode \/ WritePlan
             \/ CallExitPlanMode \/ ExitPlanModeDone \/ CooldownEnds
             \/ UNCHANGED approvalVars
      PROVE  UNCHANGED <<queryUp, restarts>>
  BY <1>5 DEF SDKReports, StatusArrives, EnterPlanMode, WritePlan, CallExitPlanMode,
              ExitPlanModeDone, CooldownEnds
<1>6. ASSUME NEW q \in Questions, AskQuestion(q) PROVE UNCHANGED <<queryUp, restarts>>
  BY <1>6 DEF AskQuestion
<1>7. ASSUME NEW t \in ToolUses, UseTool(t) PROVE UNCHANGED <<queryUp, restarts>>
  BY <1>7 DEF UseTool
<1>8. ASSUME NEW r \in Ids, Timeout(r) PROVE UNCHANGED <<queryUp, restarts>>
  BY <1>8 DEF Timeout
<1>9. ASSUME NEW r \in Ids, NEW consents \in BOOLEAN, UserAnswers(r, consents)
      PROVE  UNCHANGED <<queryUp, restarts>>
  BY <1>9 DEF UserAnswers
<1> QED
  BY <1>1, <1>2, <1>3, <1>4, <1>5, <1>6, <1>7, <1>8, <1>9 DEF ApprovalNext

LEMMA ApprovalInvStep == ApprovalInv /\ [ApprovalNext]_approvalVars => ApprovalInv'
<1> SUFFICES ASSUME ApprovalInv, [ApprovalNext]_approvalVars PROVE ApprovalInv'
  OBVIOUS
<1>1. ApprovalFlags /\ ModeTypes /\ RequestTypes
  BY SplitApprovals DEF ApprovalInv
<1>2. ApprovalTypeOK'
  BY <1>1, ApprovalFlagsStep, ModeTypesStep, RequestsStep, SplitApprovalsNext
     DEF ApprovalInv
<1> QED
  BY <1>1, <1>2, RequestsStep, UpStep, ModesStep DEF ApprovalInv

(* The invariant of the approvals: types, no verdict before its request,   *)
(* and what the copies of the mode mean while one change is under way.     *)
THEOREM ApprovalInvariant == ApprovalSpec => []ApprovalInv
  BY ApprovalInitTypes, ApprovalInvStep, PTL DEF ApprovalSpec

(* The variables of the approvals keep their types.                        *)
THEOREM ApprovalTypeOKHolds == ApprovalSpec => []ApprovalTypeOK
<1>1. ApprovalInv => ApprovalTypeOK
  BY DEF ApprovalInv
<1> QED
  BY ApprovalInvariant, <1>1, PTL

(* With no call, status message or exit under way, the runner, the SDK and *)
(* the application have the same mode, and a plan that was written is      *)
(* tracked, as long as changes of the mode never overlapped or failed.     *)
THEOREM ModesAgreeHolds == ApprovalSpec => []ModesAgree
<1>1. ApprovalInv => ModesAgree
  <2> SUFFICES ASSUME ApprovalInv, Quiet, Undisturbed
               PROVE  /\ mode = sdkMode /\ told = mode
                      /\ sdkMode = "plan" /\ planWritten => planFile
    BY DEF ModesAgree
  <2>1. CallsAgree /\ PlanTracked /\ calls = <<>>
    BY DEF ApprovalInv, ModesTracked, Quiet
  <2>2. mode = sdkMode /\ told = mode
    BY <2>1 DEF CallsAgree
  <2> QED
    BY <2>1, <2>2 DEF PlanTracked
<1> QED
  BY ApprovalInvariant, <1>1, PTL
-----------------------------------------------------------------------------
(* Wildcards. Fits(p, v, i, j): what follows the first i characters of the *)
(* pattern stands for what follows the first j of the value, by the same   *)
(* cuts as in Matches.                                                     *)
StandsFor(p, v, i, a, b) == IF p[i] = Star THEN a <= b ELSE b = a + 1 /\ v[b] = p[i]

Fits(p, v, i, j) ==
    \E cut \in [i .. Len(p) -> 0 .. Len(v)] :
        /\ cut[i] = j /\ cut[Len(p)] = Len(v)
        /\ \A k \in (i + 1) .. Len(p) : StandsFor(p, v, k, cut[k - 1], cut[k])

LEMMA FitsWhole ==
  ASSUME NEW p \in Seq(Alphabet), NEW v \in Seq(Alphabet)
  PROVE  Matches(p, v) <=> Fits(p, v, 0, 0)
<1>1. 0 + 1 = 1
  OBVIOUS
<1> QED
  BY <1>1 DEF Matches, Fits, StandsFor

LEMMA FitsAtEnd ==
  ASSUME NEW p \in Seq(Alphabet), NEW v \in Seq(Alphabet), NEW j \in 0 .. Len(v)
  PROVE  Fits(p, v, Len(p), j) <=> j = Len(v)
<1>1. Len(p) \in Nat /\ Len(v) \in Nat
  OBVIOUS
<1>2. ASSUME Fits(p, v, Len(p), j) PROVE j = Len(v)
  BY <1>2 DEF Fits
<1>3. ASSUME j = Len(v) PROVE Fits(p, v, Len(p), j)
  <2> DEFINE cut == [k \in Len(p) .. Len(p) |-> Len(v)]
  <2>1. cut \in [Len(p) .. Len(p) -> 0 .. Len(v)] /\ cut[Len(p)] = j
    BY <1>1, <1>3
  <2>2. (Len(p) + 1) .. Len(p) = {}
    BY <1>1
  <2> HIDE DEF cut
  <2> QED
    BY <1>3, <2>1, <2>2 DEF Fits
<1> QED
  BY <1>2, <1>3

LEMMA FitsOneMore ==
  ASSUME NEW p \in Seq(Alphabet), NEW v \in Seq(Alphabet),
         NEW i \in 0 .. (Len(p) - 1), NEW j \in 0 .. Len(v)
  PROVE  Fits(p, v, i, j) <=>
           \E k \in 0 .. Len(v) : StandsFor(p, v, i + 1, j, k) /\ Fits(p, v, i + 1, k)
<1>1. /\ Len(p) \in Nat /\ Len(v) \in Nat /\ i \in Nat /\ i + 1 <= Len(p)
      /\ i \in i .. Len(p) /\ i + 1 \in i .. Len(p) /\ Len(p) \in (i + 1) .. Len(p)
  OBVIOUS
<1>2. ASSUME Fits(p, v, i, j)
      PROVE  \E k \in 0 .. Len(v) : StandsFor(p, v, i + 1, j, k) /\ Fits(p, v, i + 1, k)
  <2>1. PICK cut \in [i .. Len(p) -> 0 .. Len(v)] :
               /\ cut[i] = j /\ cut[Len(p)] = Len(v)
               /\ \A k \in (i + 1) .. Len(p) : StandsFor(p, v, k, cut[k - 1], cut[k])
    BY <1>2 DEF Fits
  <2> DEFINE rest == [k \in (i + 1) .. Len(p) |-> cut[k]]
  <2>2. rest \in [(i + 1) .. Len(p) -> 0 .. Len(v)]
    BY <1>1, <2>1
  <2>3. rest[i + 1] = cut[i + 1] /\ rest[Len(p)] = Len(v)
    BY <1>1, <2>1
  <2>4. ASSUME NEW k \in (i + 2) .. Len(p)
        PROVE  StandsFor(p, v, k, rest[k - 1], rest[k])
    <3>1. k \in (i + 1) .. Len(p) /\ k - 1 \in (i + 1) .. Len(p)
      BY <1>1
    <3>2. rest[k] = cut[k] /\ rest[k - 1] = cut[k - 1]
      BY <3>1
    <3> QED
      BY <2>1, <3>1, <3>2
  <2>5. (i + 1) + 1 = i + 2
    BY <1>1
  <2> HIDE DEF rest
  <2>6. Fits(p, v, i + 1, cut[i + 1])
    BY <2>2, <2>3, <2>4, <2>5 DEF Fits
  <2>7. StandsFor(p, v, i + 1, j, cut[i + 1])
    <3>1. i + 1 \in (i + 1) .. Len(p) /\ (i + 1) - 1 = i
      BY <1>1
    <3> QED
      BY <2>1, <3>1
  <2>8. cut[i + 1] \in 0 .. Len(v)
    BY <1>1, <2>1
  <2> QED
    BY <2>6, <2>7, <2>8
<1>3. ASSUME NEW k \in 0 .. Len(v), StandsFor(p, v, i + 1, j, k), Fits(p, v, i + 1, k)
      PROVE  Fits(p, v, i, j)
  <2>1. PICK rest \in [(i + 1) .. Len(p) -> 0 .. Len(v)] :
               /\ rest[i + 1] = k /\ rest[Len(p)] = Len(v)
               /\ \A l \in ((i + 1) + 1) .. Len(p) : StandsFor(p, v, l, rest[l - 1], rest[l])
    BY <1>3 DEF Fits
  <2> DEFINE cut == [l \in i .. Len(p) |-> IF l = i THEN j ELSE rest[l]]
  <2>2. \A l \in i .. Len(p) : l # i => l \in (i + 1) .. Len(p)
    BY <1>1
  <2>3. cut \in [i .. Len(p) -> 0 .. Len(v)]
    BY <2>1, <2>2
  <2>4. /\ \A l \in (i + 1) .. Len(p) : cut[l] = rest[l]
        /\ cut[i] = j
    BY <1>1
  <2>5. cut[Len(p)] = Len(v)
    BY <1>1, <2>1, <2>4
  <2>6. ASSUME NEW l \in (i + 1) .. Len(p) PROVE StandsFor(p, v, l, cut[l - 1], cut[l])
    <3>1. CASE l = i + 1
      <4>1. l - 1 = i /\ cut[l] = k
        BY <1>1, <2>1, <2>4, <3>1
      <4> QED
        BY <1>3, <2>4, <3>1, <4>1
    <3>2. CASE l # i + 1
      <4>1. l \in ((i + 1) + 1) .. Len(p) /\ l - 1 \in (i + 1) .. Len(p)
        BY <1>1, <3>2
      <4> QED
        BY <2>1, <2>4, <4>1
    <3> QED
      BY <3>1, <3>2
  <2> HIDE DEF cut
  <2> QED
    BY <2>3, <2>4, <2>5, <2>6 DEF Fits
<1> QED
  BY <1>2, <1>3

(* One character of the pattern, as the loop of wildcardMatch reads it.    *)
LEMMA FitsStar ==
  ASSUME NEW p \in Seq(Alphabet), NEW v \in Seq(Alphabet),
         NEW i \in 0 .. (Len(p) - 1), NEW j \in 0 .. Len(v), p[i + 1] = Star
  PROVE  Fits(p, v, i, j) <=> \E k \in j .. Len(v) : Fits(p, v, i + 1, k)
<1>1. \A k \in 0 .. Len(v) : StandsFor(p, v, i + 1, j, k) <=> k \in j .. Len(v)
  BY DEF StandsFor
<1>2. j .. Len(v) \subseteq 0 .. Len(v)
  OBVIOUS
<1> QED
  BY <1>1, <1>2, FitsOneMore

LEMMA FitsChar ==
  ASSUME NEW p \in Seq(Alphabet), NEW v \in Seq(Alphabet),
         NEW i \in 0 .. (Len(p) - 1), NEW j \in 0 .. Len(v), p[i + 1] # Star
  PROVE  Fits(p, v, i, j) <=>
           j + 1 \in 0 .. Len(v) /\ v[j + 1] = p[i + 1] /\ Fits(p, v, i + 1, j + 1)
<1>1. \A k \in 0 .. Len(v) : StandsFor(p, v, i + 1, j, k) <=> k = j + 1 /\ v[k] = p[i + 1]
  BY DEF StandsFor
<1> QED
  BY <1>1, FitsOneMore
-----------------------------------------------------------------------------
(* Before the first wildcard the rest of the pattern must fit the rest of  *)
(* the value. After one, the last wildcard may still take more: the value  *)
(* matches when the pattern behind it fits from matchVi on or later, and   *)
(* whatever fits there has to pass what was compared since.                *)
NoStarYet ==
    Matches(pattern, value) <=> Fits(pattern, value, pi, vi)

LastStar ==
    /\ starPi < pi /\ matchVi <= vi
    /\ Matches(pattern, value) <=>
          \E k \in matchVi .. Len(value) : Fits(pattern, value, starPi + 1, k)
    /\ Fits(pattern, value, pi, vi) => Fits(pattern, value, starPi + 1, matchVi)
    /\ Fits(pattern, value, starPi + 1, matchVi) => Fits(pattern, value, pi, vi)
    /\ \A k \in matchVi .. Len(value) : Fits(pattern, value, starPi + 1, k) =>
          \E l \in vi .. Len(value) : Fits(pattern, value, pi, l)

MatchInv ==
    /\ WildcardTypeOK /\ Len(pattern) <= MaxPattern
    /\ matcher = "idle" => pi = 0 /\ vi = 0 /\ starPi = Unset /\ matchVi = 0
    /\ matcher = "matching" /\ starPi = Unset => NoStarYet
    /\ matcher = "matching" /\ starPi # Unset => LastStar
    /\ WildcardCorrect

LEMMA TextLengths ==
  ASSUME NEW n \in Nat, NEW t \in Texts(n)
  PROVE  t \in Seq(Alphabet) /\ Len(t) <= n
<1>1. PICK k \in 0 .. n : t \in [1 .. k -> Alphabet]
  BY DEF Texts
<1>2. t \in Seq(Alphabet) /\ Len(t) = k
  BY <1>1
<1> QED
  BY <1>1, <1>2

LEMMA MatchInit == WildcardInit => MatchInv
<1>1. Len(<<>>) = 0 /\ <<>> \in Seq(Alphabet)
  OBVIOUS
<1> QED
  BY <1>1, WildcardBounds DEF WildcardInit, MatchInv, WildcardTypeOK, WildcardCorrect, Unset

(* What the loop knows of its indices.                                     *)
LEMMA Indices ==
  ASSUME WildcardTypeOK, Len(pattern) <= MaxPattern
  PROVE  /\ Len(pattern) \in Nat /\ Len(value) \in Nat
         /\ pi \in 0 .. Len(pattern) /\ vi \in 0 .. Len(value)
         /\ matchVi \in 0 .. Len(value)
         /\ starPi # Unset => starPi \in 0 .. Len(pattern)
         /\ \A i \in 0 .. Len(pattern) : i # Unset
  BY WildcardBounds DEF WildcardTypeOK, Unset

LEMMA BeginMatchStep ==
  ASSUME MatchInv, NEW p \in Texts(MaxPattern), NEW v \in Texts(MaxValue), BeginMatch(p, v)
  PROVE  MatchInv'
<1>1. /\ p \in Seq(Alphabet) /\ Len(p) <= MaxPattern /\ v \in Seq(Alphabet)
      /\ Len(p) \in Nat /\ Len(v) \in Nat
  BY TextLengths, WildcardBounds
<1>2. /\ pattern' = p /\ value' = v /\ matcher' = "matching" /\ matcher = "idle"
      /\ UNCHANGED <<pi, vi, starPi, matchVi>> /\ pi = 0 /\ vi = 0 /\ starPi = Unset
  BY DEF BeginMatch, MatchInv
<1>3. NoStarYet'
  BY <1>1, <1>2, FitsWhole DEF NoStarYet
<1>4. matchVi = 0 => WildcardTypeOK'
  BY <1>1, <1>2 DEF WildcardTypeOK, Unset
<1>5. matchVi = 0
  BY <1>2 DEF MatchInv
<1> QED
  BY <1>1, <1>2, <1>3, <1>4, <1>5 DEF MatchInv, WildcardCorrect, Unset

(* The steps of the loop keep the texts.                                   *)
LEMMA PassStarStep ==
  ASSUME MatchInv, PassStar
  PROVE  MatchInv'
<1> DEFINE F(i, j) == Fits(pattern, value, i, j)
           M == Matches(pattern, value)
<1>1. /\ WildcardTypeOK /\ Len(pattern) <= MaxPattern /\ matcher = "matching"
      /\ vi < Len(value) /\ pi < Len(pattern) /\ pattern[pi + 1] = Star
      /\ starPi' = pi /\ matchVi' = vi /\ pi' = pi + 1
      /\ UNCHANGED <<pattern, value, vi, matcher>>
  BY DEF PassStar, InValue, AtStar, MatchInv
<1>2. /\ Len(pattern) \in Nat /\ Len(value) \in Nat
      /\ pi \in 0 .. (Len(pattern) - 1) /\ vi \in 0 .. Len(value)
      /\ pi # Unset /\ pattern \in Seq(Alphabet) /\ value \in Seq(Alphabet)
  BY <1>1, Indices DEF WildcardTypeOK
<1>3. F(pi, vi) <=> \E k \in vi .. Len(value) : F(pi + 1, k)
  BY <1>1, <1>2, FitsStar
<1>4. M <=> F(pi, vi)
  <2>1. CASE starPi = Unset
    BY <1>1, <2>1 DEF MatchInv, NoStarYet
  <2>2. CASE starPi # Unset
    <3>1. LastStar
      BY <1>1, <2>2 DEF MatchInv
    <3>2. ASSUME F(pi, vi) PROVE M
      <4>1. matchVi \in matchVi .. Len(value)
        BY <1>1, Indices
      <4> QED
        BY <3>1, <3>2, <4>1 DEF LastStar
    <3>3. ASSUME M PROVE F(pi, vi)
      <4>1. PICK k \in matchVi .. Len(value) : F(starPi + 1, k)
        BY <3>1, <3>3 DEF LastStar
      <4>2. PICK l \in vi .. Len(value) : F(pi, l)
        BY <3>1, <4>1 DEF LastStar
      <4>3. l \in 0 .. Len(value) /\ l .. Len(value) \subseteq vi .. Len(value)
        BY <1>2
      <4>4. \E m \in l .. Len(value) : F(pi + 1, m)
        BY <1>1, <1>2, <4>2, <4>3, FitsStar
      <4> QED
        BY <1>3, <4>3, <4>4
    <3> QED
      BY <3>2, <3>3
  <2> QED
    BY <2>1, <2>2
<1>5. LastStar'
  <2>1. pi < pi + 1 /\ vi <= vi /\ vi \in vi .. Len(value)
    BY <1>2
  <2> HIDE DEF F, M
  <2>2. M <=> \E k \in vi .. Len(value) : F(pi + 1, k)
    BY <1>3, <1>4
  <2> USE DEF F, M
  <2> QED
    BY <1>1, <2>1, <2>2 DEF LastStar
<1>6. WildcardTypeOK'
  BY <1>1, <1>2 DEF WildcardTypeOK
<1> QED
  BY <1>1, <1>2, <1>5, <1>6 DEF MatchInv, WildcardCorrect, Unset

LEMMA PassSameStep ==
  ASSUME MatchInv, PassSame
  PROVE  MatchInv'
<1> DEFINE F(i, j) == Fits(pattern, value, i, j)
           M == Matches(pattern, value)
<1>1. /\ WildcardTypeOK /\ Len(pattern) <= MaxPattern /\ matcher = "matching"
      /\ vi < Len(value) /\ pi < Len(pattern) /\ pattern[pi + 1] # Star
      /\ pattern[pi + 1] = value[vi + 1]
      /\ pi' = pi + 1 /\ vi' = vi + 1
      /\ UNCHANGED <<pattern, value, starPi, matchVi, matcher>>
  BY DEF PassSame, InValue, AtStar, AtSame, MatchInv
<1>2. /\ Len(pattern) \in Nat /\ Len(value) \in Nat
      /\ pi \in 0 .. (Len(pattern) - 1) /\ vi \in 0 .. Len(value)
      /\ vi + 1 \in 0 .. Len(value) /\ pi + 1 \in 0 .. Len(pattern)
      /\ pattern \in Seq(Alphabet) /\ value \in Seq(Alphabet)
  BY <1>1, Indices DEF WildcardTypeOK
<1>3. F(pi, vi) <=> F(pi + 1, vi + 1)
  BY <1>1, <1>2, FitsChar
<1>4. WildcardTypeOK'
  BY <1>1, <1>2 DEF WildcardTypeOK
<1>5. CASE starPi = Unset
  <2>1. NoStarYet
    BY <1>1, <1>5 DEF MatchInv
  <2>2. NoStarYet'
    BY <1>1, <1>3, <2>1 DEF NoStarYet
  <2> QED
    BY <1>1, <1>4, <1>5, <2>2 DEF MatchInv, WildcardCorrect, Unset
<1>6. CASE starPi # Unset
  <2>1. LastStar
    BY <1>1, <1>6 DEF MatchInv
  <2>2. ASSUME NEW k \in matchVi .. Len(value), F(starPi + 1, k)
        PROVE  \E l \in (vi + 1) .. Len(value) : F(pi + 1, l)
    <3>1. PICK l \in vi .. Len(value) : F(pi, l)
      BY <2>1, <2>2 DEF LastStar
    <3>2. l \in 0 .. Len(value)
      BY <1>2
    <3>3. l + 1 \in 0 .. Len(value) /\ F(pi + 1, l + 1)
      BY <1>1, <1>2, <3>1, <3>2, FitsChar
    <3>4. l + 1 \in (vi + 1) .. Len(value)
      BY <1>2, <3>3
    <3> QED
      BY <3>3, <3>4
  <2>3. starPi < pi + 1 /\ matchVi <= vi + 1
    BY <1>1, <1>2, <1>6, <2>1, Indices DEF LastStar
  <2>4. LastStar'
    <3>1. /\ M <=> \E k \in matchVi .. Len(value) : F(starPi + 1, k)
          /\ F(pi, vi) => F(starPi + 1, matchVi)
          /\ F(starPi + 1, matchVi) => F(pi, vi)
      BY <2>1 DEF LastStar
    <3> QED
      BY <1>1, <1>3, <2>2, <2>3, <3>1 DEF LastStar
  <2> QED
    BY <1>1, <1>4, <1>6, <2>4 DEF MatchInv, WildcardCorrect, Unset
<1> QED
  BY <1>5, <1>6

(* The comparison failed: the pattern does not fit here.                   *)
LEMMA NoFit ==
  ASSUME WildcardTypeOK, Len(pattern) <= MaxPattern, vi < Len(value), ~AtStar, ~AtSame
  PROVE  ~Fits(pattern, value, pi, vi)
<1>1. /\ Len(pattern) \in Nat /\ Len(value) \in Nat
      /\ pi \in 0 .. Len(pattern) /\ vi \in 0 .. Len(value)
      /\ pattern \in Seq(Alphabet) /\ value \in Seq(Alphabet)
  BY Indices DEF WildcardTypeOK
<1>2. CASE pi = Len(pattern)
  BY <1>1, <1>2, FitsAtEnd
<1>3. CASE pi # Len(pattern)
  <2>1. /\ pi \in 0 .. (Len(pattern) - 1)
        /\ pattern[pi + 1] # Star /\ value[vi + 1] # pattern[pi + 1]
    BY <1>1, <1>3 DEF AtStar, AtSame
  <2> QED
    BY <1>1, <2>1, FitsChar
<1> QED
  BY <1>2, <1>3

LEMMA BacktrackStep ==
  ASSUME MatchInv, Backtrack
  PROVE  MatchInv'
<1> DEFINE F(i, j) == Fits(pattern, value, i, j)
           M == Matches(pattern, value)
<1>1. /\ WildcardTypeOK /\ Len(pattern) <= MaxPattern /\ matcher = "matching"
      /\ vi < Len(value) /\ starPi # Unset
      /\ pi' = starPi + 1 /\ matchVi' = matchVi + 1 /\ vi' = matchVi + 1
      /\ UNCHANGED <<pattern, value, starPi, matcher>>
  BY DEF Backtrack, InValue, MatchInv
<1>2. LastStar
  BY <1>1 DEF MatchInv
<1>3. ~F(starPi + 1, matchVi)
  BY <1>1, <1>2, NoFit DEF Backtrack, LastStar
<1>4. /\ Len(pattern) \in Nat /\ Len(value) \in Nat /\ starPi \in 0 .. Len(pattern)
      /\ starPi < pi /\ pi \in 0 .. Len(pattern) /\ matchVi <= vi
      /\ vi \in 0 .. Len(value) /\ matchVi \in 0 .. Len(value)
  BY <1>1, <1>2, Indices DEF LastStar
<1>5. starPi + 1 \in 0 .. Len(pattern) /\ matchVi + 1 \in 0 .. Len(value)
  BY <1>1, <1>4
<1>6. \A k \in matchVi .. Len(value) : k # matchVi <=> k \in (matchVi + 1) .. Len(value)
  BY <1>4
<1>7. M <=> \E k \in (matchVi + 1) .. Len(value) : F(starPi + 1, k)
  <2>1. M <=> \E k \in matchVi .. Len(value) : F(starPi + 1, k)
    BY <1>2 DEF LastStar
  <2>2. (matchVi + 1) .. Len(value) \subseteq matchVi .. Len(value)
    BY <1>4
  <2> HIDE DEF F, M
  <2> QED
    BY <1>3, <1>6, <2>1, <2>2
<1>8. WildcardTypeOK'
  BY <1>1, <1>5 DEF WildcardTypeOK
<1>9. LastStar'
  <2>1. starPi < starPi + 1 /\ matchVi + 1 <= matchVi + 1
    BY <1>4
  <2> QED
    BY <1>1, <1>7, <2>1 DEF LastStar
<1> QED
  BY <1>1, <1>8, <1>9 DEF MatchInv, WildcardCorrect, Unset

LEMMA FailMatchStep ==
  ASSUME MatchInv, FailMatch
  PROVE  MatchInv'
<1>1. /\ WildcardTypeOK /\ Len(pattern) <= MaxPattern /\ matcher = "matching"
      /\ vi < Len(value) /\ starPi = Unset /\ matcher' = "mismatch"
      /\ UNCHANGED <<pattern, value, pi, vi, starPi, matchVi>>
  BY DEF FailMatch, InValue, MatchInv
<1>2. ~Fits(pattern, value, pi, vi)
  BY <1>1, NoFit DEF FailMatch
<1>3. ~Matches(pattern, value)
  BY <1>1, <1>2 DEF MatchInv, NoStarYet
<1>4. WildcardTypeOK'
  BY <1>1 DEF WildcardTypeOK, Unset
<1>5. WildcardCorrect'
  BY <1>1, <1>3 DEF WildcardCorrect, Matches
<1> QED
  BY <1>1, <1>4, <1>5 DEF MatchInv, Unset

LEMMA PassTrailingStarStep ==
  ASSUME MatchInv, PassTrailingStar
  PROVE  MatchInv'
<1> DEFINE F(i, j) == Fits(pattern, value, i, j)
           M == Matches(pattern, value)
<1>1. /\ WildcardTypeOK /\ Len(pattern) <= MaxPattern /\ matcher = "matching"
      /\ vi = Len(value) /\ pi < Len(pattern) /\ pattern[pi + 1] = Star
      /\ pi' = pi + 1
      /\ UNCHANGED <<pattern, value, vi, starPi, matchVi, matcher>>
  BY DEF PassTrailingStar, AtStar, MatchInv
<1>2. /\ Len(pattern) \in Nat /\ Len(value) \in Nat
      /\ pi \in 0 .. (Len(pattern) - 1) /\ vi \in 0 .. Len(value)
      /\ pi + 1 \in 0 .. Len(pattern) /\ vi .. Len(value) = {vi}
      /\ pattern \in Seq(Alphabet) /\ value \in Seq(Alphabet)
  BY <1>1, Indices DEF WildcardTypeOK
<1>3. F(pi, vi) <=> F(pi + 1, vi)
  <2>1. F(pi, vi) <=> \E k \in vi .. Len(value) : F(pi + 1, k)
    BY <1>1, <1>2, FitsStar
  <2> HIDE DEF F
  <2> QED
    BY <1>2, <2>1
<1>4. WildcardTypeOK'
  BY <1>1, <1>2 DEF WildcardTypeOK
<1>5. CASE starPi = Unset
  <2>1. NoStarYet'
    BY <1>1, <1>3, <1>5 DEF NoStarYet, MatchInv
  <2> QED
    BY <1>1, <1>4, <1>5, <2>1 DEF MatchInv, WildcardCorrect, Unset
<1>6. CASE starPi # Unset
  <2>1. LastStar
    BY <1>1, <1>6 DEF MatchInv
  <2>2. starPi < pi + 1 /\ matchVi <= vi
    BY <1>1, <1>2, <1>6, <2>1, Indices DEF LastStar
  <2>3. ASSUME NEW k \in matchVi .. Len(value), F(starPi + 1, k)
        PROVE  \E l \in vi .. Len(value) : F(pi + 1, l)
    <3>1. \E l \in vi .. Len(value) : F(pi, l)
      BY <2>1, <2>3 DEF LastStar
    <3> HIDE DEF F
    <3> QED
      BY <1>2, <1>3, <3>1
  <2>4. /\ M <=> \E k \in matchVi .. Len(value) : F(starPi + 1, k)
        /\ F(pi, vi) => F(starPi + 1, matchVi)
        /\ F(starPi + 1, matchVi) => F(pi, vi)
    BY <2>1 DEF LastStar
  <2>5. LastStar'
    BY <1>1, <1>3, <2>2, <2>3, <2>4 DEF LastStar
  <2> QED
    BY <1>1, <1>4, <1>6, <2>5 DEF MatchInv, WildcardCorrect, Unset
<1> QED
  BY <1>5, <1>6

LEMMA ReturnMatchStep ==
  ASSUME MatchInv, ReturnMatch
  PROVE  MatchInv'
<1> DEFINE F(i, j) == Fits(pattern, value, i, j)
           M == Matches(pattern, value)
<1>1. /\ WildcardTypeOK /\ Len(pattern) <= MaxPattern /\ matcher = "matching"
      /\ vi = Len(value) /\ ~AtStar
      /\ matcher' = IF pi = Len(pattern) THEN "match" ELSE "mismatch"
      /\ UNCHANGED <<pattern, value, pi, vi, starPi, matchVi>>
  BY DEF ReturnMatch, MatchInv
<1>2. /\ Len(pattern) \in Nat /\ Len(value) \in Nat
      /\ pi \in 0 .. Len(pattern) /\ vi \in 0 .. Len(value) /\ vi .. Len(value) = {vi}
      /\ pattern \in Seq(Alphabet) /\ value \in Seq(Alphabet)
  BY <1>1, Indices DEF WildcardTypeOK
<1>3. F(pi, vi) <=> pi = Len(pattern)
  <2>1. CASE pi = Len(pattern)
    BY <1>1, <1>2, <2>1, FitsAtEnd
  <2>2. CASE pi # Len(pattern)
    <3>1. /\ pi \in 0 .. (Len(pattern) - 1) /\ pattern[pi + 1] # Star
          /\ vi + 1 \notin 0 .. Len(value)
      BY <1>1, <1>2, <2>2 DEF AtStar
    <3> QED
      BY <1>2, <2>2, <3>1, FitsChar
  <2> QED
    BY <2>1, <2>2
<1>4. M <=> F(pi, vi)
  <2>1. CASE starPi = Unset
    BY <1>1, <2>1 DEF MatchInv, NoStarYet
  <2>2. CASE starPi # Unset
    <3>1. LastStar
      BY <1>1, <2>2 DEF MatchInv
    <3>2. /\ M <=> \E k \in matchVi .. Len(value) : F(starPi + 1, k)
          /\ F(pi, vi) => F(starPi + 1, matchVi)
          /\ \A k \in matchVi .. Len(value) : F(starPi + 1, k) =>
                \E l \in vi .. Len(value) : F(pi, l)
      BY <3>1 DEF LastStar
    <3>3. matchVi \in matchVi .. Len(value)
      BY <1>1, Indices
    <3> HIDE DEF F, M
    <3> QED
      BY <1>2, <3>2, <3>3
  <2> QED
    BY <2>1, <2>2
<1>5. WildcardTypeOK'
  BY <1>1 DEF WildcardTypeOK, Unset
<1>6. WildcardCorrect'
  <2>1. M <=> pi = Len(pattern)
    BY <1>3, <1>4
  <2>2. CASE pi = Len(pattern)
    BY <1>1, <2>1, <2>2 DEF WildcardCorrect
  <2>3. CASE pi # Len(pattern)
    BY <1>1, <2>1, <2>3 DEF WildcardCorrect, Matches
  <2> QED
    BY <2>2, <2>3
<1> QED
  BY <1>1, <1>5, <1>6 DEF MatchInv, Unset

LEMMA MatchInvStep == MatchInv /\ [WildcardNext]_wildcardVars => MatchInv'
<1> SUFFICES ASSUME MatchInv, [WildcardNext]_wildcardVars PROVE MatchInv'
  OBVIOUS
<1>1. CASE UNCHANGED wildcardVars
  BY <1>1 DEF wildcardVars, MatchInv, WildcardTypeOK, NoStarYet, LastStar,
              WildcardCorrect, Unset
<1> QED
  BY <1>1, BeginMatchStep, PassStarStep, PassSameStep, BacktrackStep, FailMatchStep,
     PassTrailingStarStep, ReturnMatchStep DEF WildcardNext

(* The loop invariant of wildcardMatch: what is known of the rest of the   *)
(* pattern at every iteration, and of the last wildcard.                   *)
THEOREM WildcardInvariant == WildcardSpec => []MatchInv
  BY MatchInit, MatchInvStep, PTL DEF WildcardSpec

(* wildcardMatch answers what the pattern means, for every pattern and     *)
(* every value: going back to the last wildcard only loses no match.       *)
THEOREM WildcardCorrectHolds == WildcardSpec => []WildcardCorrect
<1>1. MatchInv => WildcardCorrect
  BY DEF MatchInv
<1> QED
  BY WildcardInvariant, <1>1, PTL
-----------------------------------------------------------------------------
(* The three machines of the agent runner, side by side, each in its types,*)
(* whichever of them runs.                                                 *)
THEOREM TypeCorrect == Spec => []TypeOK
<1> DEFINE Inv == /\ focus \in {"loop", "approvals", "rules"}
                  /\ IInv /\ ApprovalInv /\ MatchInv
<1>1. Init => Inv
  BY InitInv, ApprovalInitTypes, MatchInit DEF Init
<1>2. Inv /\ [Next]_vars => Inv'
  <2> SUFFICES ASSUME Inv, [Next]_vars PROVE Inv'
    OBVIOUS
  <2>1. focus' = focus
    BY DEF Next, vars
  <2>2. [RunnerNext]_runnerVars /\ [ApprovalNext]_approvalVars
        /\ [WildcardNext]_wildcardVars
    BY DEF Next, vars
  <2> QED
    BY <2>1, <2>2, RunnerInvStep, ApprovalInvStep, MatchInvStep
<1>3. Inv => TypeOK
  BY DEF IInv, ApprovalInv, MatchInv, TypeOK
<1> QED
  BY <1>1, <1>2, <1>3, PTL DEF Spec
=============================================================================
