------------------------- MODULE AgentRunnerProofs -------------------------
(***************************************************************************)
(* Proofs about AgentRunner for any number of messages, events, tools and  *)
(* crashes: no message is lost between stdin and the SDK, the text of the  *)
(* agent is emitted once and in its order, and every tool use ends once.   *)
(***************************************************************************)
EXTENDS AgentRunner, SequenceTheorems, TLAPS

(* What has come in and is not cancelled, in the order of its handing over *)
Line == taken \o messageQueue

(* What the agent streamed, emitted or not.                                *)
Emitted == out \o blockBuffer

(* Tools in the runner's two sets and the tool_end events that were sent.  *)
ToolsTracked ==
    raced \/
        /\ \A t \in Tools :
             /\ ended[t] <= started[t] + untracked[t]
             /\ t \in activeTools => ended[t] < started[t] + untracked[t]
             /\ cleanup = "none" /\ started[t] > 0 => t \in activeTools \cup completedToolNames
        /\ cleanup # "none" => activeTools = {}

(* Between turns nothing is held back; in a turn the runner knows whether  *)
(* the agent has spoken.                                                   *)
TurnTracked ==
    overtaken \/ crashes > 0 \/
        /\ Increasing(Emitted) /\ ToSet(Emitted) = 1 .. clock
        /\ owed = <<>> => blockBuffer = <<>> /\ streamed = <<>>
        /\ Len(owed) <= 1
        /\ owed # <<>> => (hadText <=> streamed # <<>>)

IInv == RunnerTypeOK /\ MailboxKept /\ ToolsTracked /\ TurnTracked

(* RunnerTypeOK, one variable at a time, by what belongs together.         *)
Flags ==
    /\ messageWaiter \in BOOLEAN /\ mainLoopRunning \in BOOLEAN
    /\ stdinClosed \in BOOLEAN /\ generatorDone \in BOOLEAN /\ queryRef \in BOOLEAN
    /\ exited \in BOOLEAN /\ hadText \in BOOLEAN
    /\ overtaken \in BOOLEAN /\ raced \in BOOLEAN
    /\ main \in {"starting", "reading", "backoff", "finished", "failed"}
    /\ cleanup \in {"none", "interrupting", "done"}

Counters ==
    /\ received \in 0 .. MaxMessages /\ clock \in 0 .. MaxEvents
    /\ attempts \in 0 .. MAX_CLI_RECOVERY /\ crashes \in 0 .. MaxCrashes

MessageTypes ==
    /\ messageQueue \in Seq(Messages)
    /\ owed \in Seq(Messages) /\ taken \in Seq(Messages)
    /\ cancelled \subseteq Messages /\ answered \subseteq Messages
    /\ abandoned \subseteq Messages

StreamTypes ==
    /\ blockBuffer \in Seq(1 .. MaxEvents) /\ out \in Seq(1 .. MaxEvents)
    /\ streamed \in Seq(1 .. MaxEvents)

ToolTypes ==
    /\ activeTools \subseteq Tools /\ completedToolNames \subseteq Tools
    /\ started \in [Tools -> Nat] /\ ended \in [Tools -> Nat] /\ untracked \in [Tools -> Nat]

Types == Flags /\ Counters /\ MessageTypes /\ StreamTypes /\ ToolTypes

LEMMA SplitTypes == RunnerTypeOK <=> Types
  BY DEF RunnerTypeOK, Types, Flags, Counters, MessageTypes, StreamTypes, ToolTypes

LEMMA SplitTypesNext == RunnerTypeOK' <=> Types'
  BY SplitTypes, PTL
-----------------------------------------------------------------------------
(* Sequences as the sets of their elements.                                *)
LEMMA Elements ==
  ASSUME NEW S, NEW s \in Seq(S), NEW t \in Seq(S)
  PROVE  /\ ToSet(s) \subseteq S /\ ToSet(<<>>) = {}
         /\ \A e \in S : ToSet(Append(s, e)) = ToSet(s) \cup {e}
         /\ ToSet(s \o t) = ToSet(s) \cup ToSet(t)
<1>1. ToSet(s) \subseteq S /\ ToSet(<<>>) = {}
  BY DEF ToSet
<1>2. ASSUME NEW e \in S PROVE ToSet(Append(s, e)) = ToSet(s) \cup {e}
  <2>1. /\ DOMAIN s = 1 .. Len(s) /\ DOMAIN Append(s, e) = 1 .. (Len(s) + 1)
        /\ \A i \in 1 .. Len(s) : Append(s, e)[i] = s[i]
        /\ Append(s, e)[Len(s) + 1] = e /\ Len(s) \in Nat
    OBVIOUS
  <2> QED
    BY <2>1 DEF ToSet
<1>3. ToSet(s \o t) = ToSet(s) \cup ToSet(t)
  <2>1. /\ DOMAIN s = 1 .. Len(s) /\ DOMAIN t = 1 .. Len(t)
        /\ DOMAIN (s \o t) = 1 .. (Len(s) + Len(t)) /\ Len(s) \in Nat /\ Len(t) \in Nat
        /\ \A i \in 1 .. Len(s) : (s \o t)[i] = s[i]
        /\ \A i \in 1 .. Len(t) : (s \o t)[Len(s) + i] = t[i]
    OBVIOUS
  <2>2. ASSUME NEW i \in 1 .. (Len(s) + Len(t))
        PROVE  i \in 1 .. Len(s) \/ \E j \in 1 .. Len(t) : i = Len(s) + j
    <3>1. i - Len(s) \in 1 .. Len(t) \/ i \in 1 .. Len(s)
      BY <2>1
    <3>2. i = Len(s) + (i - Len(s))
      BY <2>1
    <3> QED
      BY <3>1, <3>2
  <2>3. ASSUME NEW x \in ToSet(s \o t) PROVE x \in ToSet(s) \cup ToSet(t)
    <3>1. PICK i \in 1 .. (Len(s) + Len(t)) : x = (s \o t)[i]
      BY <2>1 DEF ToSet
    <3>2. CASE i \in 1 .. Len(s)
      BY <2>1, <3>1, <3>2 DEF ToSet
    <3>3. CASE \E j \in 1 .. Len(t) : i = Len(s) + j
      BY <2>1, <3>1, <3>3 DEF ToSet
    <3> QED
      BY <2>2, <3>2, <3>3
  <2>4. ASSUME NEW x \in ToSet(s) \cup ToSet(t) PROVE x \in ToSet(s \o t)
    <3>1. CASE x \in ToSet(s)
      <4>1. PICK i \in 1 .. Len(s) : x = s[i]
        BY <2>1, <3>1 DEF ToSet
      <4>2. i \in DOMAIN (s \o t) /\ (s \o t)[i] = x
        BY <2>1, <4>1
      <4> QED
        BY <4>2 DEF ToSet
    <3>2. CASE x \in ToSet(t)
      <4>1. PICK i \in 1 .. Len(t) : x = t[i]
        BY <2>1, <3>2 DEF ToSet
      <4>2. Len(s) + i \in DOMAIN (s \o t) /\ (s \o t)[Len(s) + i] = x
        BY <2>1, <4>1
      <4> QED
        BY <4>2 DEF ToSet
    <3> QED
      BY <3>1, <3>2
  <2> QED
    BY <2>3, <2>4
<1> QED
  BY <1>1, <1>2, <1>3

LEMMA IncreasingAppend ==
  ASSUME NEW S, S \subseteq Nat, NEW s \in Seq(S), NEW n \in S, Increasing(s),
         \A x \in ToSet(s) : x < n
  PROVE  Increasing(Append(s, n))
<1>1. /\ DOMAIN s = 1 .. Len(s) /\ DOMAIN Append(s, n) = 1 .. (Len(s) + 1)
      /\ \A i \in 1 .. Len(s) : Append(s, n)[i] = s[i]
      /\ Append(s, n)[Len(s) + 1] = n /\ Len(s) \in Nat
  OBVIOUS
<1>2. \A i \in 1 .. Len(s) : s[i] < n
  BY <1>1 DEF ToSet
<1> QED
  BY <1>1, <1>2 DEF Increasing

(* One more of the numbers 1, 2, 3 ...                                     *)
Numbered(s, n) == Increasing(s) /\ ToSet(s) = 1 .. n

LEMMA NextInOrder ==
  ASSUME NEW S, S \subseteq Nat, NEW s \in Seq(S), NEW n \in Nat, n + 1 \in S,
         Numbered(s, n)
  PROVE  Numbered(Append(s, n + 1), n + 1)
<1> USE DEF Numbered
<1>1. \A x \in ToSet(s) : x < n + 1
  OBVIOUS
<1>2. Increasing(Append(s, n + 1))
  BY <1>1, IncreasingAppend
<1>3. ToSet(Append(s, n + 1)) = ToSet(s) \cup {n + 1}
  BY Elements
<1>4. 1 .. (n + 1) = (1 .. n) \cup {n + 1}
  OBVIOUS
<1> QED
  BY <1>2, <1>3, <1>4

LEMMA OneLeft ==
  ASSUME NEW S, NEW s \in Seq(S), s # <<>>, Len(s) <= 1
  PROVE  Tail(s) = <<>> /\ Len(Tail(s)) = 0
<1>1. Len(s) \in Nat \ {0}
  BY EmptySeq
<1>2. Len(s) = 1
  BY <1>1
<1>3. Tail(s) \in Seq(S) /\ Len(Tail(s)) = 0
  BY <1>2
<1> QED
  BY <1>3, EmptySeq

(* Text that moves from the block buffer to the output keeps its place.    *)
LEMMA Concatenated ==
  ASSUME NEW S, NEW s \in Seq(S), NEW t \in Seq(S), NEW e \in S
  PROVE  /\ (s \o t) \o <<>> = s \o t /\ s \o <<>> = s /\ <<>> \o s = s
         /\ s \o Append(t, e) = Append(s \o t, e)
         /\ s \o <<e>> = Append(s, e)
         /\ s \o t \in Seq(S) /\ Append(s, e) \in Seq(S)
<1>1. s \o t \in Seq(S) /\ Append(s, e) \in Seq(S)
  OBVIOUS
<1>2. (s \o t) \o <<>> = s \o t /\ s \o <<>> = s /\ <<>> \o s = s
  BY <1>1, ConcatEmptySeq
<1>3. s \o <<e>> = Append(s, e) /\ (s \o t) \o <<e>> = Append(s \o t, e)
      /\ t \o <<e>> = Append(t, e)
  BY <1>1, AppendIsConcat
<1>4. s \o (t \o <<e>>) = (s \o t) \o <<e>>
  BY ConcatAssociative
<1> QED
  BY <1>1, <1>2, <1>3, <1>4

(* Taking the first element from one sequence and putting it at the end of *)
(* another.                                                                *)
LEMMA HeadMoves ==
  ASSUME NEW S, NEW s \in Seq(S), NEW t \in Seq(S), t # <<>>
  PROVE  /\ Append(s, Head(t)) \o Tail(t) = s \o t
         /\ Head(t) \in S /\ Tail(t) \in Seq(S)
<1>1. Head(t) \in S /\ Tail(t) \in Seq(S) /\ t = <<Head(t)>> \o Tail(t)
  OBVIOUS
<1>2. Append(s, Head(t)) = s \o <<Head(t)>> /\ <<Head(t)>> \in Seq(S)
  BY <1>1, AppendIsConcat
<1>3. (s \o <<Head(t)>>) \o Tail(t) = s \o (<<Head(t)>> \o Tail(t))
  BY <1>1, <1>2, ConcatAssociative
<1> QED
  BY <1>1, <1>2, <1>3
-----------------------------------------------------------------------------
USE DEF inputVars, loopVars, streamVars, toolVars, turnVars, exitVars, causeVars,
        runnerVars

(* What the actions that touch the queue do to the messages, leaving the   *)
(* runner's flags aside.                                                   *)
Takes(m) == /\ taken' = Append(taken, m) /\ owed' = Append(owed, m)
            /\ blockBuffer' = <<>> /\ UNCHANGED <<out, streamed, clock, crashes>>
            /\ UNCHANGED <<answered, abandoned>>

TakesNone == UNCHANGED <<taken, owed, answered, abandoned, blockBuffer, out, streamed,
                         clock, crashes>>

LEMMA PullEffect ==
  ASSUME Pull
  PROVE  /\ UNCHANGED <<received, cancelled, attempts, toolVars, cleanup, main>>
         /\ \/ /\ messageQueue # <<>> /\ messageQueue' = Tail(messageQueue)
               /\ Takes(Head(messageQueue))
            \/ UNCHANGED messageQueue /\ TakesNone
<1>1. ASSUME TakeMessage(Head(messageQueue)) PROVE Takes(Head(messageQueue))
  BY <1>1 DEF TakeMessage, Takes
<1>2. NoMessageTaken => TakesNone
  BY DEF NoMessageTaken, TakesNone
<1> QED
  BY <1>1, <1>2 DEF Pull

LEMMA ReceiveEffect ==
  ASSUME ReceiveMessage
  PROVE  /\ received < MaxMessages /\ received' = received + 1
         /\ UNCHANGED <<cancelled, attempts, toolVars, cleanup>>
         /\ \/ messageWaiter /\ Takes(received + 1) /\ UNCHANGED messageQueue
            \/ messageQueue' = Append(messageQueue, received + 1) /\ TakesNone
<1>1. ASSUME TakeMessage(received + 1) PROVE Takes(received + 1)
  BY <1>1 DEF TakeMessage, Takes
<1>2. NoMessageTaken => TakesNone
  BY DEF NoMessageTaken, TakesNone
<1> QED
  BY <1>1, <1>2 DEF ReceiveMessage

LEMMA CrashEffect ==
  ASSUME QueryCrashes \/ QueryFails
  PROVE  /\ crashes < MaxCrashes /\ crashes' = crashes + 1
         /\ abandoned' = abandoned \cup ToSet(owed) /\ owed' = <<>>
         /\ UNCHANGED <<received, messageQueue, cancelled, taken, answered, clock>>
         /\ \/ QueryCrashes /\ attempts < MAX_CLI_RECOVERY /\ attempts' = attempts + 1
            \/ QueryFails /\ attempts' = attempts
         /\ out' \in {out, Flushed} /\ blockBuffer' \in {blockBuffer, <<>>}
         /\ streamed' \in {streamed, <<>>}
<1>1. CASE QueryCrashes
  BY <1>1 DEF QueryCrashes, Recoverable, AbandonTurns
<1>2. CASE QueryFails
  BY <1>2 DEF QueryFails, BeginCleanup, AbandonTurns
<1> QED
  BY <1>1, <1>2

LEMMA TypesInit == RunnerInit => Types
<1>1. RunnerInit => Flags
  BY DEF RunnerInit, Flags
<1>2. ASSUME RunnerInit PROVE Counters /\ MessageTypes /\ StreamTypes /\ ToolTypes
  <2>1. /\ received = 0 /\ clock = 0 /\ attempts = 0 /\ crashes = 0
        /\ messageQueue = <<>> /\ owed = <<>> /\ taken = <<>>
        /\ cancelled = {} /\ answered = {} /\ abandoned = {}
        /\ blockBuffer = <<>> /\ out = <<>> /\ streamed = <<>>
        /\ activeTools = {} /\ completedToolNames = {} /\ started = [t \in Tools |-> 0]
        /\ ended = [t \in Tools |-> 0] /\ untracked = [t \in Tools |-> 0]
    BY <1>2 DEF RunnerInit
  <2>2. Counters
    BY <2>1, RunnerBounds DEF Counters
  <2> QED
    BY <2>1, <2>2 DEF MessageTypes, StreamTypes, ToolTypes
<1> QED
  BY <1>1, <1>2 DEF Types

LEMMA FlagsStep == Flags /\ [RunnerNext]_runnerVars => Flags'
<1> SUFFICES ASSUME Flags, [RunnerNext]_runnerVars PROVE Flags'
  OBVIOUS
<1> USE DEF Flags, ReleaseWaiter
<1>1. CASE Pull
  BY <1>1 DEF Pull, NoMessageTaken, TakeMessage
<1>2. CASE ReceiveMessage
  BY <1>2 DEF ReceiveMessage, NoMessageTaken, TakeMessage
<1>3. CASE CancelMessage
  BY <1>3 DEF CancelMessage
<1>4. CASE ReceiveStop \/ CloseStdin
  BY <1>4 DEF ReceiveStop, CloseStdin
<1>5. CASE TextDelta \/ BlockStop
  BY <1>5 DEF TextDelta, BlockStop, SDKSpeaks
<1>6. ASSUME NEW t \in Tools, ToolUse(t) \/ ToolResult(t) PROVE Flags'
  <2>1. /\ raced' = (raced \/ cleanup # "none") /\ UNCHANGED <<overtaken, hadText>>
        /\ UNCHANGED <<inputVars, loopVars, exitVars>>
    BY <1>6 DEF ToolUse, ToolResult, SDKSpeaks
  <2> QED
    BY <2>1
<1>7. ASSUME NEW kind \in {"spoken", "local", "error"}, TurnResult(kind) PROVE Flags'
  BY <1>7 DEF TurnResult, SDKSpeaks
<1>8. CASE Signal
  BY <1>8 DEF Signal, BeginCleanup
<1>9. CASE FinishCleanup
  BY <1>9 DEF FinishCleanup
<1>14. CASE Exit
  BY <1>14 DEF Exit
<1>10. CASE StartQuery \/ QueryEnds
  BY <1>10 DEF StartQuery, QueryEnds
<1>11. CASE QueryCrashes
  BY <1>11 DEF QueryCrashes, Recoverable, AbandonTurns
<1>12. CASE QueryFails
  BY <1>12 DEF QueryFails, BeginCleanup, AbandonTurns
<1>13. CASE UNCHANGED runnerVars
  BY <1>13
<1> QED
  BY <1>1, <1>2, <1>3, <1>4, <1>5, <1>6, <1>7, <1>8, <1>9, <1>10, <1>11, <1>12, <1>13,
     <1>14 DEF RunnerNext

LEMMA CountersStep == Counters /\ [RunnerNext]_runnerVars => Counters'
<1> SUFFICES ASSUME Counters, [RunnerNext]_runnerVars PROVE Counters'
  OBVIOUS
<1>0. /\ MaxMessages \in Nat /\ MaxEvents \in Nat /\ MaxCrashes \in Nat
      /\ MAX_CLI_RECOVERY \in Nat
  BY RunnerBounds
<1>1. CASE UNCHANGED <<received, clock, attempts, crashes>>
  BY <1>1 DEF Counters
<1>2. CASE Pull
  BY <1>1, <1>2, PullEffect DEF Takes, TakesNone
<1>3. CASE ReceiveMessage
  <2>1. /\ received < MaxMessages /\ received' = received + 1
        /\ UNCHANGED <<clock, attempts, crashes>>
    BY <1>3, ReceiveEffect DEF Takes, TakesNone
  <2> QED
    BY <1>0, <2>1 DEF Counters
<1>4. CASE TextDelta
  <2>1. clock < MaxEvents /\ clock' = clock + 1 /\ UNCHANGED <<received, attempts, crashes>>
    BY <1>4 DEF TextDelta
  <2> QED
    BY <1>0, <2>1 DEF Counters
<1>5. ASSUME NEW t \in Tools, ToolUse(t) PROVE Counters'
  <2>1. clock < MaxEvents /\ clock' = clock + 1 /\ UNCHANGED <<received, attempts, crashes>>
    BY <1>5 DEF ToolUse
  <2> QED
    BY <1>0, <2>1 DEF Counters
<1>6. ASSUME NEW kind \in {"spoken", "local", "error"}, TurnResult(kind) PROVE Counters'
  <2>1. /\ \/ clock < MaxEvents /\ clock' = clock + 1
           \/ clock' = clock
        /\ attempts' = 0 /\ UNCHANGED <<received, crashes>>
    BY <1>6 DEF TurnResult
  <2> QED
    BY <1>0, <2>1 DEF Counters
<1>7. CASE QueryCrashes \/ QueryFails
  BY <1>0, <1>7, CrashEffect DEF Counters
<1>8. ASSUME NEW t \in Tools, ToolResult(t)
      PROVE  UNCHANGED <<received, clock, attempts, crashes>>
  BY <1>8 DEF ToolResult
<1>9. ASSUME \/ CancelMessage \/ ReceiveStop \/ CloseStdin \/ BlockStop \/ Signal
             \/ FinishCleanup \/ Exit \/ StartQuery \/ QueryEnds \/ UNCHANGED runnerVars
      PROVE  UNCHANGED <<received, clock, attempts, crashes>>
  BY <1>9 DEF CancelMessage, ReceiveStop, CloseStdin, BlockStop, Signal, BeginCleanup,
              FinishCleanup, Exit, StartQuery, QueryEnds
<1> QED
  BY <1>1, <1>2, <1>3, <1>4, <1>5, <1>6, <1>7, <1>8, <1>9 DEF RunnerNext

LEMMA MessageTypesStep ==
  Counters /\ MessageTypes /\ [RunnerNext]_runnerVars => MessageTypes'
<1> SUFFICES ASSUME Counters, MessageTypes, [RunnerNext]_runnerVars PROVE MessageTypes'
  OBVIOUS
<1>0. received < MaxMessages => received + 1 \in Messages
  BY RunnerBounds DEF Counters, Messages
<1>1. CASE UNCHANGED <<messageQueue, owed, taken, cancelled, answered, abandoned>>
  BY <1>1 DEF MessageTypes
<1>2. CASE Pull
  <2>1. CASE messageQueue # <<>> /\ messageQueue' = Tail(messageQueue)
             /\ Takes(Head(messageQueue)) /\ UNCHANGED cancelled
    <3>1. /\ Head(messageQueue) \in Messages /\ Tail(messageQueue) \in Seq(Messages)
          /\ owed \in Seq(Messages) /\ taken \in Seq(Messages)
      BY <2>1 DEF MessageTypes
    <3>2. owed' \in Seq(Messages) /\ taken' \in Seq(Messages)
      BY <2>1, <3>1 DEF Takes
    <3> QED
      BY <2>1, <3>1, <3>2 DEF MessageTypes, Takes
  <2> QED
    BY <1>1, <1>2, <2>1, PullEffect DEF TakesNone
<1>3. CASE ReceiveMessage
  <2>1. /\ received + 1 \in Messages /\ UNCHANGED cancelled
        /\ \/ Takes(received + 1) /\ UNCHANGED messageQueue
           \/ messageQueue' = Append(messageQueue, received + 1) /\ TakesNone
    BY <1>0, <1>3, ReceiveEffect
  <2>2. CASE Takes(received + 1) /\ UNCHANGED messageQueue
    <3>1. owed' \in Seq(Messages) /\ taken' \in Seq(Messages)
      BY <2>1, <2>2 DEF Takes, MessageTypes
    <3> QED
      BY <2>1, <2>2, <3>1 DEF Takes, MessageTypes
  <2>3. CASE messageQueue' = Append(messageQueue, received + 1) /\ TakesNone
    BY <2>1, <2>3 DEF TakesNone, MessageTypes
  <2> QED
    BY <2>1, <2>2, <2>3
<1>4. CASE CancelMessage
  <2>1. PICK i \in DOMAIN messageQueue : /\ messageQueue' = Without(messageQueue, i)
                                         /\ cancelled' = cancelled \cup {messageQueue[i]}
    BY <1>4 DEF CancelMessage
  <2>2. messageQueue' \in Seq(Messages) /\ messageQueue[i] \in Messages
    BY <2>1 DEF Without, MessageTypes
  <2> QED
    BY <1>4, <2>1, <2>2 DEF CancelMessage, MessageTypes
<1>5. ASSUME NEW kind \in {"spoken", "local", "error"}, TurnResult(kind)
      PROVE  MessageTypes'
  <2>1. /\ owed # <<>> /\ owed' = Tail(owed) /\ answered' = answered \cup {Head(owed)}
        /\ UNCHANGED <<messageQueue, taken, cancelled, abandoned>>
    BY <1>5 DEF TurnResult, SDKSpeaks
  <2> QED
    BY <2>1 DEF MessageTypes
<1>6. CASE QueryCrashes \/ QueryFails
  <2>1. ToSet(owed) \subseteq Messages
    BY DEF ToSet, MessageTypes
  <2>2. /\ abandoned' = abandoned \cup ToSet(owed) /\ owed' = <<>>
        /\ UNCHANGED <<messageQueue, cancelled, taken, answered>>
    BY <1>6, CrashEffect
  <2> QED
    BY <2>1, <2>2 DEF MessageTypes
<1>7. ASSUME NEW t \in Tools, ToolUse(t) \/ ToolResult(t)
      PROVE  UNCHANGED <<messageQueue, owed, taken, cancelled, answered, abandoned>>
  BY <1>7 DEF ToolUse, ToolResult
<1>8. ASSUME \/ ReceiveStop \/ CloseStdin \/ TextDelta \/ BlockStop \/ Signal
             \/ FinishCleanup \/ Exit \/ StartQuery \/ QueryEnds \/ UNCHANGED runnerVars
      PROVE  UNCHANGED <<messageQueue, owed, taken, cancelled, answered, abandoned>>
  BY <1>8 DEF ReceiveStop, CloseStdin, TextDelta, BlockStop, Signal, BeginCleanup,
              FinishCleanup, Exit, StartQuery, QueryEnds
<1> QED
  BY <1>1, <1>2, <1>3, <1>4, <1>5, <1>6, <1>7, <1>8 DEF RunnerNext

LEMMA StreamTypesStep ==
  Counters /\ StreamTypes /\ [RunnerNext]_runnerVars => StreamTypes'
<1> SUFFICES ASSUME Counters, StreamTypes, [RunnerNext]_runnerVars PROVE StreamTypes'
  OBVIOUS
<1>1. clock < MaxEvents => clock + 1 \in 1 .. MaxEvents
  BY RunnerBounds DEF Counters
<1>2. Flushed \in Seq(1 .. MaxEvents) /\ <<>> \in Seq(1 .. MaxEvents)
  BY DEF Flushed, StreamTypes
<1>3. CASE /\ out' \in {out, Flushed} /\ blockBuffer' \in {blockBuffer, <<>>}
           /\ streamed' \in {streamed, <<>>}
  BY <1>2, <1>3 DEF StreamTypes
<1>4. CASE Pull
  BY <1>3, <1>4, PullEffect DEF Takes, TakesNone
<1>5. CASE ReceiveMessage
  BY <1>3, <1>5, ReceiveEffect DEF Takes, TakesNone
<1>6. CASE TextDelta
  <2>1. /\ clock < MaxEvents /\ streamed' = Append(streamed, clock + 1)
        /\ \/ blockBuffer' = Append(blockBuffer, clock + 1) /\ UNCHANGED out
           \/ blockBuffer' = <<clock + 1>> /\ out' = Flushed
           \/ blockBuffer' = <<>> /\ out' = Append(Flushed, clock + 1)
    BY <1>6 DEF TextDelta
  <2> DEFINE e == clock + 1
             S == 1 .. MaxEvents
  <2>2. /\ e \in S /\ Flushed \in Seq(S) /\ <<>> \in Seq(S)
        /\ blockBuffer \in Seq(S) /\ out \in Seq(S) /\ streamed \in Seq(S)
    BY <1>1, <1>2, <2>1 DEF StreamTypes
  <2> HIDE DEF e, S
  <2>3. /\ Append(blockBuffer, e) \in Seq(S) /\ Append(Flushed, e) \in Seq(S)
        /\ Append(streamed, e) \in Seq(S) /\ <<e>> \in Seq(S)
    BY <2>2
  <2> QED
    BY <2>1, <2>2, <2>3 DEF StreamTypes, e, S
<1>7. ASSUME NEW t \in Tools, ToolUse(t) PROVE StreamTypes'
  <2>1. /\ clock < MaxEvents /\ out' = Append(Flushed, clock + 1) /\ blockBuffer' = <<>>
        /\ streamed' = streamed
    BY <1>7 DEF ToolUse
  <2> QED
    BY <1>1, <1>2, <2>1 DEF StreamTypes
<1>8. ASSUME NEW kind \in {"spoken", "local", "error"}, TurnResult(kind) PROVE StreamTypes'
  <2>1. /\ kind = "local" => clock < MaxEvents
        /\ out' = Flushed \o ResultText(kind) /\ blockBuffer' = <<>> /\ streamed' = <<>>
    BY <1>8 DEF TurnResult
  <2>2. ResultText(kind) \in Seq(1 .. MaxEvents)
    <3>1. \/ ResultText(kind) = <<>> \/ ResultText(kind) = streamed
          \/ ResultText(kind) = <<clock + 1>> /\ kind = "local"
      BY DEF ResultText
    <3>2. kind = "local" => <<clock + 1>> \in Seq(1 .. MaxEvents)
      BY <1>1, <2>1
    <3> QED
      BY <1>2, <3>1, <3>2 DEF StreamTypes
  <2> QED
    BY <1>2, <2>1, <2>2 DEF StreamTypes
<1>9. CASE QueryCrashes \/ QueryFails
  BY <1>3, <1>9, CrashEffect
<1>10. ASSUME NEW t \in Tools, ToolResult(t)
       PROVE  out' = Flushed /\ blockBuffer' = <<>> /\ streamed' = streamed
  BY <1>10 DEF ToolResult
<1>11. ASSUME \/ CancelMessage \/ ReceiveStop \/ CloseStdin \/ BlockStop \/ Signal
              \/ FinishCleanup \/ Exit \/ StartQuery \/ QueryEnds \/ UNCHANGED runnerVars
       PROVE  /\ out' \in {out, Flushed} /\ blockBuffer' \in {blockBuffer, <<>>}
              /\ streamed' \in {streamed, <<>>}
  BY <1>11 DEF CancelMessage, ReceiveStop, CloseStdin, BlockStop, Signal, BeginCleanup,
               FinishCleanup, Exit, StartQuery, QueryEnds
<1> QED
  BY <1>3, <1>4, <1>5, <1>6, <1>7, <1>8, <1>9, <1>10, <1>11 DEF RunnerNext

LEMMA ToolTypesStep == ToolTypes /\ [RunnerNext]_runnerVars => ToolTypes'
<1> SUFFICES ASSUME ToolTypes, [RunnerNext]_runnerVars PROVE ToolTypes'
  OBVIOUS
<1> USE DEF ToolTypes
<1>1. ASSUME NEW t \in Tools, ToolUse(t) \/ ToolResult(t) PROVE ToolTypes'
  <2>1. /\ activeTools' \subseteq activeTools \cup {t}
        /\ completedToolNames' \subseteq completedToolNames \cup {t}
    BY <1>1 DEF ToolUse, ToolResult
  <2>2. /\ started' \in {started, [started EXCEPT ![t] = @ + 1]}
        /\ ended' \in {ended, [ended EXCEPT ![t] = @ + 1]}
        /\ untracked' \in {untracked, [untracked EXCEPT ![t] = @ + 1]}
    BY <1>1 DEF ToolUse, ToolResult
  <2>3. ASSUME NEW f \in [Tools -> Nat] PROVE [f EXCEPT ![t] = @ + 1] \in [Tools -> Nat]
    OBVIOUS
  <2> QED
    BY <2>1, <2>2, <2>3
<1>2. ASSUME NEW kind \in {"spoken", "local", "error"}, TurnResult(kind) PROVE ToolTypes'
  BY <1>2 DEF TurnResult
<1>3. CASE Signal \/ QueryFails
  BY <1>3 DEF Signal, QueryFails, BeginCleanup
<1>4. CASE \/ Pull \/ ReceiveMessage \/ CancelMessage \/ ReceiveStop \/ CloseStdin
           \/ TextDelta \/ BlockStop \/ FinishCleanup \/ Exit \/ StartQuery
           \/ QueryEnds \/ QueryCrashes \/ UNCHANGED runnerVars
  BY <1>4 DEF Pull, ReceiveMessage, CancelMessage, ReceiveStop, CloseStdin, TextDelta,
     BlockStop, FinishCleanup, Exit, StartQuery, QueryEnds, QueryCrashes
<1> QED
  BY <1>1, <1>2, <1>3, <1>4 DEF RunnerNext

LEMMA TypeStep == IInv /\ [RunnerNext]_runnerVars => RunnerTypeOK'
  BY SplitTypes, SplitTypesNext, FlagsStep, CountersStep, MessageTypesStep,
     StreamTypesStep, ToolTypesStep DEF IInv, Types
-----------------------------------------------------------------------------
(* Cancelling takes one message out of the line and keeps the others.      *)
LEMMA Removed ==
  ASSUME NEW S, S \subseteq Nat, NEW s \in Seq(S), NEW i \in 1 .. Len(s), Increasing(s)
  PROVE  /\ Without(s, i) \in Seq(S) /\ Increasing(Without(s, i))
         /\ ToSet(s) = ToSet(Without(s, i)) \cup {s[i]}
         /\ s[i] \notin ToSet(Without(s, i))
<1> DEFINE w == Without(s, i)
<1>0. /\ Len(s) \in Nat /\ DOMAIN s = 1 .. Len(s) /\ Len(s) - 1 \in Nat
      /\ \A k \in 1 .. Len(s) : s[k] \in S /\ s[k] \in Nat
  <2>1. /\ Len(s) \in Nat /\ DOMAIN s = 1 .. Len(s)
        /\ \A k \in 1 .. Len(s) : s[k] \in S
    OBVIOUS
  <2>2. \A k \in 1 .. Len(s) : s[k] \in Nat
    BY <2>1
  <2>3. Len(s) - 1 \in Nat
    BY <2>1
  <2> QED
    BY <2>1, <2>2, <2>3
<1>1. /\ Len(s) \in Nat /\ DOMAIN s = 1 .. Len(s) /\ w \in Seq(S)
      /\ DOMAIN w = 1 .. (Len(s) - 1)
      /\ \A k \in 1 .. (Len(s) - 1) : w[k] = IF k < i THEN s[k] ELSE s[k + 1]
      /\ \A k \in 1 .. Len(s) : s[k] \in Nat
  <2>1. w = [k \in 1 .. (Len(s) - 1) |-> IF k < i THEN s[k] ELSE s[k + 1]]
    BY DEF Without
  <2>2. \A k \in 1 .. (Len(s) - 1) : (IF k < i THEN s[k] ELSE s[k + 1]) \in S
    BY <1>0
  <2> HIDE DEF w
  <2>3. w \in [1 .. (Len(s) - 1) -> S]
    BY <2>1, <2>2
  <2>4. w \in Seq(S)
    BY <1>0, <2>3
  <2> QED
    BY <1>0, <2>1, <2>4
<1> HIDE DEF w
<1>2. Increasing(w)
  <2> SUFFICES ASSUME NEW j \in 1 .. (Len(s) - 1), NEW k \in 1 .. (Len(s) - 1), j < k
               PROVE  w[j] < w[k]
    BY <1>1 DEF Increasing
  <2>1. \A a, b \in 1 .. Len(s) : a < b => s[a] < s[b]
    BY <1>1 DEF Increasing
  <2>2. /\ j \in 1 .. Len(s) /\ k \in 1 .. Len(s)
        /\ j + 1 \in 1 .. Len(s) /\ k + 1 \in 1 .. Len(s)
        /\ j < k + 1 /\ j + 1 < k + 1
    BY <1>1
  <2> QED
    BY <1>1, <2>1, <2>2
<1>3. ASSUME NEW x \in ToSet(s) PROVE x \in ToSet(w) \cup {s[i]}
  <2>1. PICK k \in 1 .. Len(s) : x = s[k]
    BY <1>1 DEF ToSet
  <2>2. k < i => k \in DOMAIN w /\ w[k] = x
    BY <1>1, <2>1
  <2>3. k > i => k - 1 \in DOMAIN w /\ w[k - 1] = x
    BY <1>1, <2>1
  <2> QED
    BY <1>1, <2>1, <2>2, <2>3 DEF ToSet
<1>4. ASSUME NEW x \in ToSet(w) PROVE x \in ToSet(s) /\ x # s[i]
  <2>1. PICK k \in 1 .. (Len(s) - 1) : x = w[k]
    BY <1>1 DEF ToSet
  <2>2. CASE k < i
    <3>1. x = s[k] /\ k \in DOMAIN s /\ s[k] \in Nat /\ s[i] \in Nat
      BY <1>1, <2>1, <2>2
    <3>2. s[k] < s[i]
      BY <1>1, <2>2, <3>1 DEF Increasing
    <3> QED
      BY <3>1, <3>2 DEF ToSet
  <2>3. CASE ~(k < i)
    <3>1. x = s[k + 1] /\ k + 1 \in DOMAIN s /\ s[k + 1] \in Nat /\ s[i] \in Nat
      BY <1>1, <2>1, <2>3
    <3>2. s[i] < s[k + 1]
      BY <1>1, <2>3, <3>1 DEF Increasing
    <3> QED
      BY <3>1, <3>2 DEF ToSet
  <2> QED
    BY <2>2, <2>3
<1>5. s[i] \in ToSet(s)
  BY <1>1 DEF ToSet
<1> QED
  BY <1>1, <1>2, <1>3, <1>4, <1>5 DEF w

LEMMA RemovedBehind ==
  ASSUME NEW S, NEW s \in Seq(S), NEW t \in Seq(S), NEW i \in 1 .. Len(t)
  PROVE  /\ Len(s) + i \in 1 .. Len(s \o t) /\ (s \o t)[Len(s) + i] = t[i]
         /\ s \o Without(t, i) = Without(s \o t, Len(s) + i)
<1> DEFINE a == s \o Without(t, i)
           b == Without(s \o t, Len(s) + i)
           n == Len(s) + Len(t)
<1>1. /\ Len(s) \in Nat /\ Len(t) \in Nat /\ s \o t \in Seq(S) /\ Len(s \o t) = n
      /\ \A k \in 1 .. Len(s) : (s \o t)[k] = s[k]
      /\ \A k \in 1 .. Len(t) : (s \o t)[Len(s) + k] = t[k]
  OBVIOUS
<1>2. /\ Without(t, i) \in Seq(S) /\ Len(Without(t, i)) = Len(t) - 1
      /\ \A k \in 1 .. (Len(t) - 1) :
           Without(t, i)[k] = IF k < i THEN t[k] ELSE t[k + 1]
  BY <1>1 DEF Without
<1>3. /\ a \in Seq(S) /\ Len(a) = n - 1
      /\ \A k \in 1 .. Len(s) : a[k] = s[k]
      /\ \A k \in 1 .. (Len(t) - 1) : a[Len(s) + k] = Without(t, i)[k]
  <2> DEFINE v == Without(t, i)
  <2>1. /\ v \in Seq(S) /\ Len(v) \in Nat /\ Len(v) = Len(t) - 1
    BY <1>1, <1>2
  <2> HIDE DEF v
  <2>2. /\ s \o v \in Seq(S) /\ Len(s \o v) = Len(s) + Len(v)
        /\ \A k \in 1 .. Len(s) : (s \o v)[k] = s[k]
        /\ \A k \in 1 .. Len(v) : (s \o v)[Len(s) + k] = v[k]
    BY <2>1
  <2> QED
    BY <1>1, <2>1, <2>2 DEF v
<1>4. /\ b \in Seq(S) /\ Len(b) = n - 1
      /\ \A k \in 1 .. (n - 1) : b[k] = IF k < Len(s) + i THEN (s \o t)[k] ELSE (s \o t)[k + 1]
  BY <1>1 DEF Without
<1> HIDE DEF a, b
<1>5. ASSUME NEW k \in 1 .. (n - 1) PROVE a[k] = b[k]
  <2>1. CASE k \in 1 .. Len(s)
    BY <1>1, <1>3, <1>4, <2>1
  <2>2. CASE k \notin 1 .. Len(s)
    <3>1. PICK j \in 1 .. (Len(t) - 1) : k = Len(s) + j
      <4>1. k - Len(s) \in 1 .. (Len(t) - 1) /\ k = Len(s) + (k - Len(s))
        BY <1>1, <2>2
      <4> QED
        BY <4>1
    <3>2. a[k] = IF j < i THEN t[j] ELSE t[j + 1]
      BY <1>2, <1>3, <3>1
    <3>3. b[k] = IF j < i THEN (s \o t)[Len(s) + j] ELSE (s \o t)[Len(s) + (j + 1)]
      <4>1. b[k] = IF k < Len(s) + i THEN (s \o t)[k] ELSE (s \o t)[k + 1]
        BY <1>4
      <4>2. (k < Len(s) + i <=> j < i) /\ k + 1 = Len(s) + (j + 1)
        BY <1>1, <3>1
      <4> QED
        BY <3>1, <4>1, <4>2
    <3>4. (s \o t)[Len(s) + j] = t[j] /\ (s \o t)[Len(s) + (j + 1)] = t[j + 1]
      BY <1>1, <3>1
    <3> QED
      BY <3>2, <3>3, <3>4
  <2> QED
    BY <2>1, <2>2
<1>6. a = b
  BY <1>3, <1>4, <1>5, SeqEqual
<1> QED
  BY <1>1, <1>6 DEF a, b
-----------------------------------------------------------------------------
LEMMA WakeupStep == IInv /\ [RunnerNext]_runnerVars => NoLostWakeup'
<1> SUFFICES ASSUME NoLostWakeup, Flags, [RunnerNext]_runnerVars PROVE NoLostWakeup'
  BY SplitTypes DEF IInv, MailboxKept, Types
<1> USE DEF NoLostWakeup, ReleaseWaiter
<1>1. CASE Pull
  BY <1>1 DEF Pull
<1>2. CASE ReceiveMessage
  BY <1>2 DEF ReceiveMessage
<1>3. CASE CancelMessage
  <2>1. ~messageWaiter
    BY <1>3 DEF CancelMessage
  <2> QED
    BY <1>3, <2>1 DEF CancelMessage
<1>4. CASE ReceiveStop \/ CloseStdin
  BY <1>4 DEF ReceiveStop, CloseStdin
<1>5. CASE TextDelta \/ BlockStop
  BY <1>5 DEF TextDelta, BlockStop
<1>6. ASSUME NEW t \in Tools, ToolUse(t) \/ ToolResult(t) PROVE NoLostWakeup'
  BY <1>6 DEF ToolUse, ToolResult
<1>7. ASSUME NEW kind \in {"spoken", "local", "error"}, TurnResult(kind)
      PROVE  NoLostWakeup'
  <2>1. \/ UNCHANGED <<mainLoopRunning, messageWaiter, generatorDone>>
        \/ messageWaiter' = FALSE
    BY <1>7 DEF TurnResult
  <2>2. UNCHANGED <<messageQueue, cleanup>>
    BY <1>7 DEF TurnResult
  <2> QED
    BY <2>1, <2>2
<1>8. CASE Signal
  BY <1>8 DEF Signal, BeginCleanup
<1>9. CASE FinishCleanup
  BY <1>9 DEF FinishCleanup
<1>10. CASE Exit
  BY <1>10 DEF Exit
<1>11. CASE StartQuery
  BY <1>11 DEF StartQuery
<1>12. CASE QueryEnds
  BY <1>12 DEF QueryEnds
<1>13. CASE QueryCrashes
  BY <1>13 DEF QueryCrashes
<1>14. CASE QueryFails
  BY <1>14 DEF QueryFails, BeginCleanup
<1>15. CASE UNCHANGED runnerVars
  BY <1>15
<1> QED
  BY <1>1, <1>2, <1>3, <1>4, <1>5, <1>6, <1>7, <1>8, <1>9, <1>10, <1>11, <1>12, <1>13,
     <1>14, <1>15 DEF RunnerNext

(* The line moves on, grows by the newest message, or loses one.           *)
LEMMA LineStep ==
  ASSUME MessageTypes, Counters, NoLostWakeup, [RunnerNext]_runnerVars
  PROVE  \/ Line' = Line /\ UNCHANGED <<received, cancelled>>
         \/ /\ Line' = Append(Line, received + 1)
            /\ received < MaxMessages /\ received' = received + 1 /\ UNCHANGED cancelled
         \/ \E i \in 1 .. Len(Line) :
              /\ Line' = Without(Line, i) /\ cancelled' = cancelled \cup {Line[i]}
              /\ UNCHANGED received
<1> DEFINE Good ==
      \/ Line' = Line /\ UNCHANGED <<received, cancelled>>
      \/ /\ Line' = Append(Line, received + 1)
         /\ received < MaxMessages /\ received' = received + 1 /\ UNCHANGED cancelled
      \/ \E i \in 1 .. Len(Line) :
           /\ Line' = Without(Line, i) /\ cancelled' = cancelled \cup {Line[i]}
           /\ UNCHANGED received
<1> SUFFICES Good
  OBVIOUS
<1>0. taken \in Seq(Messages) /\ messageQueue \in Seq(Messages)
  BY DEF MessageTypes
<1>1. UNCHANGED <<taken, messageQueue, received, cancelled>> => Good
  BY DEF Line
<1>2. CASE Pull
  <2>1. CASE messageQueue # <<>> /\ messageQueue' = Tail(messageQueue)
             /\ Takes(Head(messageQueue)) /\ UNCHANGED <<received, cancelled>>
    <3>1. Line' = Line
      BY <1>0, <2>1, HeadMoves DEF Line, Takes
    <3> QED
      BY <2>1, <3>1
  <2> QED
    BY <1>1, <1>2, <2>1, PullEffect DEF TakesNone
<1>3. CASE ReceiveMessage
  <2>1. received + 1 \in Messages /\ received < MaxMessages /\ received' = received + 1
        /\ UNCHANGED cancelled
    BY <1>3, ReceiveEffect, RunnerBounds DEF Counters, Messages
  <2>2. CASE messageWaiter /\ Takes(received + 1) /\ UNCHANGED messageQueue
    <3>1. messageQueue = <<>> /\ messageQueue' = <<>> /\ taken' = Append(taken, received + 1)
      BY <2>2 DEF Takes, NoLostWakeup
    <3>2. Line' = Append(Line, received + 1)
      BY <1>0, <2>1, <3>1, Concatenated DEF Line
    <3> QED
      BY <2>1, <3>2
  <2>3. CASE messageQueue' = Append(messageQueue, received + 1) /\ TakesNone
    <3>1. Line' = Append(Line, received + 1)
      BY <1>0, <2>1, <2>3, Concatenated DEF Line, TakesNone
    <3> QED
      BY <2>1, <3>1
  <2> QED
    BY <1>3, <2>2, <2>3, ReceiveEffect
<1>4. CASE CancelMessage
  <2>1. PICK i \in 1 .. Len(messageQueue) :
               /\ messageQueue' = Without(messageQueue, i)
               /\ cancelled' = cancelled \cup {messageQueue[i]}
    BY <1>0, <1>4 DEF CancelMessage
  <2>2. UNCHANGED <<taken, received>>
    BY <1>4 DEF CancelMessage
  <2>3. /\ Len(taken) + i \in 1 .. Len(Line) /\ Line[Len(taken) + i] = messageQueue[i]
        /\ Line' = Without(Line, Len(taken) + i)
    BY <1>0, <2>1, <2>2, RemovedBehind DEF Line
  <2> QED
    BY <2>1, <2>2, <2>3
<1>5. ASSUME NEW t \in Tools, ToolUse(t) \/ ToolResult(t)
      PROVE  UNCHANGED <<taken, messageQueue, received, cancelled>>
  BY <1>5 DEF ToolUse, ToolResult
<1>6. ASSUME NEW kind \in {"spoken", "local", "error"}, TurnResult(kind)
      PROVE  UNCHANGED <<taken, messageQueue, received, cancelled>>
  BY <1>6 DEF TurnResult
<1>7. ASSUME QueryCrashes \/ QueryFails
      PROVE  UNCHANGED <<taken, messageQueue, received, cancelled>>
  BY <1>7, CrashEffect
<1>8. ASSUME \/ ReceiveStop \/ CloseStdin \/ TextDelta \/ BlockStop \/ Signal
             \/ FinishCleanup \/ Exit \/ StartQuery \/ QueryEnds \/ UNCHANGED runnerVars
      PROVE  UNCHANGED <<taken, messageQueue, received, cancelled>>
  BY <1>8 DEF ReceiveStop, CloseStdin, TextDelta, BlockStop, Signal, BeginCleanup,
              FinishCleanup, Exit, StartQuery, QueryEnds
<1> HIDE DEF Good
<1> QED
  BY <1>1, <1>2, <1>3, <1>4, <1>5, <1>6, <1>7, <1>8 DEF RunnerNext

LEMMA MailboxStep == IInv /\ [RunnerNext]_runnerVars => MailboxKept'
<1> SUFFICES ASSUME IInv, [RunnerNext]_runnerVars PROVE MailboxKept'
  OBVIOUS
<1>0. /\ MessageTypes /\ Counters /\ MessageTypes' /\ NoLostWakeup
      /\ Messages \subseteq Nat
  BY SplitTypes, MessageTypesStep DEF IInv, Types, MailboxKept, Messages
<1>1. /\ taken \in Seq(Messages) /\ messageQueue \in Seq(Messages)
      /\ taken' \in Seq(Messages) /\ messageQueue' \in Seq(Messages)
      /\ Line \in Seq(Messages) /\ Line' \in Seq(Messages)
  BY <1>0 DEF MessageTypes, Line
<1>2. received \in Nat
  BY <1>0, RunnerBounds DEF Counters
<1>3. QED
  <2> DEFINE Kept(s, r, c) == /\ Increasing(s) /\ ToSet(s) \cup c = 1 .. r
                              /\ c \cap ToSet(s) = {}
  <2>1. /\ ToSet(Line) = ToSet(taken) \cup ToSet(messageQueue)
        /\ ToSet(Line') = ToSet(taken') \cup ToSet(messageQueue')
    BY <1>1, <1>2, Elements DEF Line
  <2>2. Kept(Line, received, cancelled)
    BY <2>1 DEF IInv, MailboxKept, Line
  <2>3. ASSUME Line' = Line, UNCHANGED <<received, cancelled>>
        PROVE  Kept(Line', received', cancelled')
    BY <2>2, <2>3
  <2>4. ASSUME Line' = Append(Line, received + 1), received < MaxMessages,
               received' = received + 1, UNCHANGED cancelled
        PROVE  Kept(Line', received', cancelled')
    <3>1. received + 1 \in Messages
      BY <1>0, <2>4, RunnerBounds DEF Counters, Messages
    <3>2. \A x \in ToSet(Line) : x < received + 1
      BY <1>2, <2>2
    <3>3. Increasing(Line')
      BY <1>0, <1>1, <2>2, <2>4, <3>1, <3>2, IncreasingAppend
    <3>4. ToSet(Line') = ToSet(Line) \cup {received + 1}
      BY <1>1, <2>4, <3>1, Elements
    <3>5. 1 .. (received + 1) = (1 .. received) \cup {received + 1}
      BY <1>2
    <3>6. received + 1 \notin cancelled
      BY <1>2, <2>2
    <3> QED
      BY <2>2, <2>4, <3>3, <3>4, <3>5, <3>6
  <2>5. ASSUME NEW i \in 1 .. Len(Line), Line' = Without(Line, i),
               cancelled' = cancelled \cup {Line[i]}, UNCHANGED received
        PROVE  Kept(Line', received', cancelled')
    <3>1. /\ Increasing(Line') /\ ToSet(Line) = ToSet(Line') \cup {Line[i]}
          /\ Line[i] \notin ToSet(Line')
      BY <1>0, <1>1, <2>2, <2>5, Removed
    <3> QED
      BY <2>2, <2>5, <3>1
  <2>6. Kept(Line', received', cancelled')
    BY <1>0, <2>3, <2>4, <2>5, LineStep
  <2> QED
    BY <2>1, <2>6, WakeupStep DEF MailboxKept, Line
-----------------------------------------------------------------------------
(* Tools: what one of them did, without the flag.                          *)
ToolsFine ==
    /\ \A t \in Tools :
         /\ ended[t] <= started[t] + untracked[t]
         /\ t \in activeTools => ended[t] < started[t] + untracked[t]
         /\ cleanup = "none" /\ started[t] > 0 => t \in activeTools \cup completedToolNames
    /\ cleanup # "none" => activeTools = {}

LEMMA ToolsBefore == ToolsTracked <=> raced \/ ToolsFine
  BY DEF ToolsTracked, ToolsFine

LEMMA ToolsAfter == ToolsTracked' <=> raced' \/ ToolsFine'
  BY ToolsBefore, PTL

LEMMA CleanupEndsTools ==
  ASSUME ToolTypes, ToolsFine, cleanup = "none", BeginCleanup
  PROVE  ToolsFine'
<1>1. /\ activeTools' = {} /\ UNCHANGED <<started, untracked>>
      /\ cleanup' # "none"
      /\ ended' = [t \in Tools |-> IF t \in activeTools THEN ended[t] + 1 ELSE ended[t]]
  BY DEF BeginCleanup
<1>2. ASSUME NEW t \in Tools PROVE ended'[t] <= started[t] + untracked[t]
  <2>1. /\ ended'[t] = IF t \in activeTools THEN ended[t] + 1 ELSE ended[t]
        /\ ended[t] \in Nat /\ started[t] \in Nat /\ untracked[t] \in Nat
    BY <1>1 DEF ToolTypes
  <2>2. /\ ended[t] <= started[t] + untracked[t]
        /\ t \in activeTools => ended[t] < started[t] + untracked[t]
    BY DEF ToolsFine
  <2> QED
    BY <2>1, <2>2
<1> QED
  BY <1>1, <1>2 DEF ToolsFine

LEMMA ToolsStep == IInv /\ [RunnerNext]_runnerVars => ToolsTracked'
<1> SUFFICES ASSUME ToolsTracked, ToolTypes, [RunnerNext]_runnerVars PROVE ToolsTracked'
  BY SplitTypes DEF IInv, Types
<1>0. raced => raced'
  <2>1. \A t \in Tools : ToolUse(t) \/ ToolResult(t) => (raced => raced')
    BY DEF ToolUse, ToolResult, SDKSpeaks
  <2>2. \A kind \in {"spoken", "local", "error"} : TurnResult(kind) => (raced => raced')
    BY DEF TurnResult, SDKSpeaks
  <2>3. TextDelta \/ BlockStop => (raced => raced')
    BY DEF TextDelta, BlockStop, SDKSpeaks
  <2>4. Pull \/ ReceiveMessage \/ CancelMessage \/ ReceiveStop \/ CloseStdin => raced' = raced
    BY DEF Pull, ReceiveMessage, CancelMessage, ReceiveStop, CloseStdin, TakeMessage,
           NoMessageTaken
  <2>5. StartQuery \/ QueryEnds \/ QueryCrashes \/ QueryFails \/ Signal => raced' = raced
    BY DEF StartQuery, QueryEnds, QueryCrashes, QueryFails, Signal, BeginCleanup
  <2>6. FinishCleanup \/ Exit \/ UNCHANGED runnerVars => raced' = raced
    BY DEF FinishCleanup, Exit
  <2> QED
    BY <2>1, <2>2, <2>3, <2>4, <2>5, <2>6 DEF RunnerNext
<1> SUFFICES ASSUME ~raced', ToolsFine PROVE ToolsFine'
  BY <1>0, ToolsBefore, ToolsAfter
<1>1. UNCHANGED <<toolVars, cleanup>> => ToolsFine'
  BY DEF ToolsFine
<1>2. ASSUME NEW t \in Tools, ToolUse(t) PROVE ToolsFine'
  <2>1. /\ cleanup = "none" /\ cleanup' = "none"
        /\ activeTools' = activeTools \cup {t}
        /\ started' = [started EXCEPT ![t] = @ + 1]
        /\ UNCHANGED <<completedToolNames, ended, untracked>>
    BY <1>2 DEF ToolUse, SDKSpeaks
  <2>2. /\ started'[t] = started[t] + 1 /\ \A u \in Tools \ {t} : started'[u] = started[u]
        /\ started[t] \in Nat /\ ended[t] \in Nat /\ untracked[t] \in Nat
    BY <2>1 DEF ToolTypes
  <2>3. ASSUME NEW u \in Tools
        PROVE  /\ ended[u] <= started'[u] + untracked[u]
               /\ u \in activeTools \/ u = t => ended[u] < started'[u] + untracked[u]
    BY <2>2 DEF ToolsFine
  <2>4. ASSUME NEW u \in Tools, started'[u] > 0 PROVE u \in activeTools' \cup completedToolNames
    BY <2>1, <2>2, <2>4 DEF ToolsFine
  <2> QED
    BY <2>1, <2>3, <2>4 DEF ToolsFine
<1>3. ASSUME NEW t \in Tools, ToolResult(t) PROVE ToolsFine'
  <2>1. /\ cleanup = "none" /\ cleanup' = "none"
    BY <1>3 DEF ToolResult, SDKSpeaks
  <2>2. CASE UNCHANGED toolVars
    BY <1>1, <2>1, <2>2
  <2>3. CASE /\ t \in activeTools
             /\ activeTools' = activeTools \ {t}
             /\ completedToolNames' = completedToolNames \cup {t}
             /\ ended' = [ended EXCEPT ![t] = @ + 1]
             /\ UNCHANGED <<started, untracked>>
    <3>1. /\ ended'[t] = ended[t] + 1 /\ \A u \in Tools \ {t} : ended'[u] = ended[u]
          /\ ended[t] \in Nat /\ started[t] \in Nat /\ untracked[t] \in Nat
      BY <2>3 DEF ToolTypes
    <3>2. ASSUME NEW u \in Tools
          PROVE  /\ ended'[u] <= started[u] + untracked[u]
                 /\ u \in activeTools \ {t} => ended'[u] < started[u] + untracked[u]
      <4>1. CASE u = t
        BY <2>3, <3>1, <4>1 DEF ToolsFine
      <4>2. CASE u # t
        BY <3>1, <4>2 DEF ToolsFine
      <4> QED
        BY <4>1, <4>2
    <3>3. ASSUME NEW u \in Tools, started[u] > 0 PROVE u \in activeTools' \cup completedToolNames'
      BY <2>1, <2>3, <3>3 DEF ToolsFine
    <3> QED
      BY <2>1, <2>3, <3>2, <3>3 DEF ToolsFine
  <2>4. CASE /\ t \notin activeTools \cup completedToolNames
             /\ ended' = [ended EXCEPT ![t] = @ + 1]
             /\ untracked' = IF started[t] = 0 THEN [untracked EXCEPT ![t] = @ + 1]
                             ELSE untracked
             /\ UNCHANGED <<activeTools, completedToolNames, started>>
    <3>1. ended[t] \in Nat /\ started[t] \in Nat /\ untracked[t] \in Nat
      BY DEF ToolTypes
    <3>2. started[t] = 0
      BY <2>1, <2>4, <3>1 DEF ToolsFine
    <3>3. /\ ended'[t] = ended[t] + 1 /\ \A u \in Tools \ {t} : ended'[u] = ended[u]
          /\ untracked'[t] = untracked[t] + 1
          /\ \A u \in Tools \ {t} : untracked'[u] = untracked[u]
      BY <2>4, <3>2 DEF ToolTypes
    <3>4. ASSUME NEW u \in Tools
          PROVE  /\ ended'[u] <= started[u] + untracked'[u]
                 /\ u \in activeTools => ended'[u] < started[u] + untracked'[u]
      <4>1. CASE u = t
        BY <2>4, <3>1, <3>3, <4>1 DEF ToolsFine
      <4>2. CASE u # t
        BY <3>3, <4>2 DEF ToolsFine
      <4> QED
        BY <4>1, <4>2
    <3> QED
      BY <2>1, <2>4, <3>4 DEF ToolsFine
  <2> QED
    BY <1>3, <2>2, <2>3, <2>4 DEF ToolResult
<1>4. CASE Signal
  BY <1>4, CleanupEndsTools DEF Signal
<1>5. CASE QueryFails
  <2>1. CASE cleanup = "none"
    BY <1>5, <2>1, CleanupEndsTools DEF QueryFails
  <2>2. CASE cleanup # "none"
    BY <1>1, <1>5, <2>2 DEF QueryFails
  <2> QED
    BY <2>1, <2>2
<1>6. CASE FinishCleanup
  BY <1>6 DEF FinishCleanup, ToolsFine
<1>7. CASE Pull \/ ReceiveMessage
  BY <1>1, <1>7, PullEffect, ReceiveEffect
<1>8. ASSUME NEW kind \in {"spoken", "local", "error"}, TurnResult(kind)
      PROVE  UNCHANGED <<toolVars, cleanup>>
  BY <1>8 DEF TurnResult
<1>9. ASSUME \/ CancelMessage \/ ReceiveStop \/ CloseStdin \/ TextDelta \/ BlockStop
             \/ Exit \/ StartQuery \/ QueryEnds \/ QueryCrashes \/ UNCHANGED runnerVars
      PROVE  UNCHANGED <<toolVars, cleanup>>
  BY <1>9 DEF CancelMessage, ReceiveStop, CloseStdin, TextDelta, BlockStop, Exit,
              StartQuery, QueryEnds, QueryCrashes
<1> QED
  BY <1>1, <1>2, <1>3, <1>4, <1>5, <1>6, <1>7, <1>8, <1>9 DEF RunnerNext
-----------------------------------------------------------------------------
(* The text of the agent: what was emitted, and what a turn remembers.     *)
TextInOrder == Numbered(Emitted, clock)

TurnFine ==
    /\ owed = <<>> => blockBuffer = <<>> /\ streamed = <<>>
    /\ Len(owed) <= 1
    /\ owed # <<>> => (hadText <=> streamed # <<>>)

LEMMA TurnBefore == TurnTracked <=> overtaken \/ crashes > 0 \/ (TextInOrder /\ TurnFine)
  BY DEF TurnTracked, TextInOrder, Numbered, TurnFine

LEMMA TurnAfter ==
  TurnTracked' <=> (overtaken \/ crashes > 0 \/ (TextInOrder /\ TurnFine))'
  BY TurnBefore, PTL

(* A step emits or buffers the next event, or only moves text from the     *)
(* buffer to the output.                                                   *)
Moved == Emitted' = Emitted /\ UNCHANGED clock
Grown == Emitted' = Append(Emitted, clock + 1) /\ clock < MaxEvents /\ clock' = clock + 1

LEMMA FlushMoves ==
  ASSUME StreamTypes, out' = Flushed, blockBuffer' = <<>>
  PROVE  Emitted' = Emitted
<1>1. Flushed \o <<>> = Flushed
  BY ConcatEmptySeq DEF StreamTypes, Flushed
<1> QED
  BY <1>1 DEF Emitted, Flushed

LEMMA FlushGrows ==
  ASSUME StreamTypes, Counters, clock < MaxEvents
  PROVE  /\ Append(Flushed, clock + 1) \o <<>> = Append(Flushed, clock + 1)
         /\ Flushed \o <<clock + 1>> = Append(Flushed, clock + 1)
         /\ out \o Append(blockBuffer, clock + 1) = Append(Flushed, clock + 1)
         /\ Flushed \o <<>> = Flushed
<1>1. clock + 1 \in 1 .. MaxEvents
  BY RunnerBounds DEF Counters
<1>2. /\ out \in Seq(1 .. MaxEvents) /\ blockBuffer \in Seq(1 .. MaxEvents)
      /\ Flushed \in Seq(1 .. MaxEvents)
  BY DEF StreamTypes, Flushed
<1>3. Append(Flushed, clock + 1) \in Seq(1 .. MaxEvents)
  BY <1>1, <1>2
<1> QED
  BY <1>1, <1>2, <1>3, Concatenated, ConcatEmptySeq DEF Flushed

LEMMA EmptyMoves ==
  ASSUME StreamTypes, blockBuffer = <<>>, blockBuffer' = <<>>, out' = out
  PROVE  Emitted' = Emitted
  BY DEF Emitted

LEMMA TurnStepKeeps ==
  ASSUME StreamTypes, Counters, MessageTypes, TurnFine, [RunnerNext]_runnerVars,
         ~overtaken', ~(crashes' > 0)
  PROVE  (Moved \/ Grown) /\ TurnFine'
<1> DEFINE Good == (Moved \/ Grown) /\ TurnFine'
<1> SUFFICES Good
  OBVIOUS
<1>0. UNCHANGED <<out, blockBuffer, clock, owed, streamed, hadText>> => Good
  BY DEF Moved, Emitted, TurnFine
<1>1. ASSUME NEW m, TakeMessage(m) PROVE Good
  <2>1. owed = <<>>
    BY <1>1 DEF TakeMessage
  <2>2. blockBuffer = <<>> /\ streamed = <<>>
    BY <2>1 DEF TurnFine
  <2>3. /\ owed' = <<m>> /\ blockBuffer' = <<>> /\ streamed' = <<>>
        /\ UNCHANGED <<out, clock>>
    BY <1>1, <2>1, <2>2 DEF TakeMessage
  <2>4. ~hadText'
    BY <1>1 DEF TakeMessage
  <2>5. Moved
    BY <2>2, <2>3, EmptyMoves DEF Moved
  <2>6. owed' # <<>> /\ Len(owed') = 1
    BY <2>3
  <2> QED
    BY <2>3, <2>4, <2>5, <2>6 DEF TurnFine
<1>2. NoMessageTaken => Good
  BY <1>0 DEF NoMessageTaken
<1>3. CASE Pull \/ ReceiveMessage
  BY <1>1, <1>2, <1>3 DEF Pull, ReceiveMessage
<1>4. CASE TextDelta
  <2>1. /\ owed # <<>> /\ owed' = owed /\ clock < MaxEvents /\ clock' = clock + 1
        /\ streamed' = Append(streamed, clock + 1)
        /\ \/ blockBuffer' = Append(blockBuffer, clock + 1) /\ UNCHANGED out
           \/ blockBuffer' = <<clock + 1>> /\ out' = Flushed
           \/ blockBuffer' = <<>> /\ out' = Append(Flushed, clock + 1)
    BY <1>4 DEF TextDelta, SDKSpeaks
  <2>2. hadText'
    BY <1>4 DEF TextDelta
  <2>3. streamed' # <<>>
    BY <2>1 DEF StreamTypes
  <2>4. Emitted' = Append(Emitted, clock + 1)
    BY <2>1, FlushGrows DEF Emitted, Flushed
  <2>5. TurnFine'
    BY <2>1, <2>2, <2>3 DEF TurnFine
  <2> QED
    BY <2>1, <2>4, <2>5 DEF Grown
<1>5. CASE BlockStop
  BY <1>5, FlushMoves DEF BlockStop, TurnFine, Moved
<1>6. ASSUME NEW t \in Tools, ToolUse(t) PROVE Good
  <2>1. /\ owed # <<>> /\ owed' = owed /\ clock < MaxEvents /\ clock' = clock + 1
        /\ out' = Append(Flushed, clock + 1) /\ blockBuffer' = <<>>
        /\ UNCHANGED streamed
    BY <1>6 DEF ToolUse, SDKSpeaks
  <2>2. hadText' = hadText
    BY <1>6 DEF ToolUse
  <2>3. Emitted' = Append(Emitted, clock + 1)
    BY <2>1, FlushGrows DEF Emitted, Flushed
  <2>4. TurnFine'
    BY <2>1, <2>2 DEF TurnFine
  <2> QED
    BY <2>1, <2>3, <2>4 DEF Grown
<1>7. ASSUME NEW t \in Tools, ToolResult(t) PROVE Good
  BY <1>7, FlushMoves DEF ToolResult, TurnFine, Moved
<1>8. ASSUME NEW kind \in {"spoken", "local", "error"}, TurnResult(kind) PROVE Good
  <2>1. /\ owed # <<>> /\ owed' = Tail(owed)
        /\ kind = "local" => streamed = <<>> /\ clock < MaxEvents
        /\ clock' = IF kind = "local" THEN clock + 1 ELSE clock
        /\ out' = Flushed \o ResultText(kind)
        /\ blockBuffer' = <<>> /\ streamed' = <<>>
    BY <1>8 DEF TurnResult, SDKSpeaks
  <2>2. hadText <=> streamed # <<>>
    BY <2>1 DEF TurnFine
  <2>3. TurnFine'
    <3>1. owed' = <<>> /\ Len(owed') = 0
      <4>1. owed \in Seq(Messages) /\ owed # <<>> /\ Len(owed) <= 1
        BY <2>1 DEF MessageTypes, TurnFine
      <4> QED
        BY <2>1, <4>1, OneLeft
    <3> QED
      BY <2>1, <3>1 DEF TurnFine
  <2>4. CASE kind = "local"
    <3>1. ResultText(kind) = <<clock + 1>> /\ clock < MaxEvents
      BY <2>1, <2>2, <2>4 DEF ResultText
    <3>2. out' = Append(Flushed, clock + 1)
      BY <2>1, <3>1, FlushGrows
    <3>3. Emitted' = Append(Emitted, clock + 1)
      BY <2>1, <3>1, <3>2, FlushGrows DEF Emitted, Flushed
    <3> QED
      BY <2>1, <2>3, <2>4, <3>1, <3>3 DEF Grown
  <2>5. CASE kind # "local"
    <3>1. ResultText(kind) = <<>>
      BY <2>2, <2>5 DEF ResultText
    <3>2. out' = Flushed
      BY <2>1, <3>1, ConcatEmptySeq DEF StreamTypes, Flushed
    <3> QED
      BY <2>1, <2>3, <2>5, <3>2, FlushMoves DEF Moved
  <2> QED
    BY <2>4, <2>5
<1>9. CASE Signal
  BY <1>9, FlushMoves DEF Signal, BeginCleanup, TurnFine, Moved
<1>10. CASE QueryEnds
  BY <1>10, FlushMoves DEF QueryEnds, TurnFine, Moved
<1>11. ~(QueryCrashes \/ QueryFails)
  BY CrashEffect DEF Counters
<1>12. ASSUME \/ CancelMessage \/ ReceiveStop \/ CloseStdin \/ FinishCleanup
              \/ Exit \/ StartQuery \/ UNCHANGED runnerVars
       PROVE  UNCHANGED <<out, blockBuffer, clock, owed, streamed, hadText>>
  BY <1>12 DEF CancelMessage, ReceiveStop, CloseStdin, FinishCleanup, Exit, StartQuery
<1> HIDE DEF Good
<1> QED
  BY <1>0, <1>3, <1>4, <1>5, <1>6, <1>7, <1>8, <1>9, <1>10, <1>11, <1>12 DEF RunnerNext

LEMMA CauseStays ==
  ASSUME Counters, [RunnerNext]_runnerVars
  PROVE  /\ overtaken => overtaken'
         /\ crashes > 0 => crashes' > 0
<1> DEFINE Good == (overtaken => overtaken') /\ (crashes > 0 => crashes' > 0)
<1> SUFFICES Good
  OBVIOUS
<1>0. UNCHANGED <<overtaken, crashes>> => Good
  OBVIOUS
<1>1. ASSUME NEW m, TakeMessage(m) PROVE Good
  <2>1. overtaken => overtaken'
    BY <1>1 DEF TakeMessage
  <2>2. crashes' = crashes
    BY <1>1 DEF TakeMessage
  <2> QED
    BY <2>1, <2>2
<1>2. NoMessageTaken => UNCHANGED <<overtaken, crashes>>
  BY DEF NoMessageTaken
<1>3. CASE Pull \/ ReceiveMessage
  BY <1>0, <1>1, <1>2, <1>3 DEF Pull, ReceiveMessage
<1>4. CASE QueryCrashes
  <2>1. crashes' = crashes + 1
    BY <1>4 DEF QueryCrashes
  <2>2. overtaken' = overtaken
    BY <1>4 DEF QueryCrashes
  <2> QED
    BY <2>1, <2>2 DEF Counters
<1>5. CASE QueryFails
  <2>1. crashes' = crashes + 1
    BY <1>5 DEF QueryFails
  <2>2. overtaken' = overtaken
    BY <1>5 DEF QueryFails, BeginCleanup
  <2> QED
    BY <2>1, <2>2 DEF Counters
<1>6. ASSUME NEW t \in Tools, ToolUse(t) \/ ToolResult(t)
      PROVE  UNCHANGED <<overtaken, crashes>>
  BY <1>6 DEF ToolUse, ToolResult
<1>7. ASSUME NEW kind \in {"spoken", "local", "error"}, TurnResult(kind)
      PROVE  UNCHANGED <<overtaken, crashes>>
  BY <1>7 DEF TurnResult
<1>8. ASSUME \/ CancelMessage \/ ReceiveStop \/ CloseStdin \/ FinishCleanup \/ TextDelta
             \/ BlockStop \/ Signal \/ QueryEnds
             \/ Exit \/ StartQuery \/ UNCHANGED runnerVars
      PROVE  UNCHANGED <<overtaken, crashes>>
  BY <1>8 DEF CancelMessage, ReceiveStop, CloseStdin, FinishCleanup, TextDelta, BlockStop,
              Signal, BeginCleanup, QueryEnds, Exit, StartQuery
<1> HIDE DEF Good
<1> QED
  BY <1>0, <1>3, <1>4, <1>5, <1>6, <1>7, <1>8 DEF RunnerNext

LEMMA TurnStep == IInv /\ [RunnerNext]_runnerVars => TurnTracked'
<1> SUFFICES ASSUME IInv, [RunnerNext]_runnerVars, ~overtaken', ~(crashes' > 0)
             PROVE  TextInOrder' /\ TurnFine'
  BY TurnAfter
<1>0. StreamTypes /\ Counters /\ MessageTypes /\ StreamTypes'
  BY SplitTypes, StreamTypesStep DEF IInv, Types
<1>1. TextInOrder /\ TurnFine
  BY <1>0, CauseStays, TurnBefore DEF IInv
<1>2. (Moved \/ Grown) /\ TurnFine'
  BY <1>0, <1>1, TurnStepKeeps
<1>3. CASE Moved
  BY <1>1, <1>2, <1>3 DEF Moved, TextInOrder
<1>4. CASE Grown
  <2>1. /\ clock \in Nat /\ clock + 1 \in 1 .. MaxEvents /\ 1 .. MaxEvents \subseteq Nat
        /\ 1 .. (clock + 1) = (1 .. clock) \cup {clock + 1}
    BY <1>0, <1>4, RunnerBounds DEF Counters, Grown
  <2>2. Emitted \in Seq(1 .. MaxEvents)
    BY <1>0 DEF StreamTypes, Emitted
  <2>3. Numbered(Emitted, clock)
    BY <1>1 DEF TextInOrder
  <2>4. Emitted' = Append(Emitted, clock + 1) /\ clock' = clock + 1
    BY <1>4 DEF Grown
  <2>5. Numbered(Append(Emitted, clock + 1), clock + 1)
    BY <2>1, <2>2, <2>3, NextInOrder
  <2> QED
    BY <1>2, <2>4, <2>5 DEF TextInOrder, Numbered
<1> QED
  BY <1>2, <1>3, <1>4
-----------------------------------------------------------------------------
LEMMA InitInv == RunnerInit => IInv
<1> SUFFICES ASSUME RunnerInit PROVE IInv
  OBVIOUS
<1>1. RunnerTypeOK
  BY SplitTypes, TypesInit
<1>2. /\ taken \o messageQueue = <<>> /\ Emitted = <<>>
      /\ ToSet(<<>>) = {} /\ 1 .. 0 = {} /\ Increasing(<<>>)
  <2>1. <<>> \o <<>> = <<>>
    OBVIOUS
  <2>2. DOMAIN <<>> = {}
    OBVIOUS
  <2> QED
    BY <2>1, <2>2 DEF RunnerInit, Emitted, ToSet, Increasing
<1>3. MailboxKept
  BY <1>2 DEF RunnerInit, MailboxKept, NoLostWakeup
<1>4. ToolsTracked
  BY DEF RunnerInit, ToolsTracked
<1>5. TurnTracked
  BY <1>2, TurnBefore DEF RunnerInit, TextInOrder, Numbered, TurnFine
<1> QED
  BY <1>1, <1>3, <1>4, <1>5 DEF IInv

LEMMA RunnerInvStep == IInv /\ [RunnerNext]_runnerVars => IInv'
  BY TypeStep, MailboxStep, ToolsStep, TurnStep DEF IInv

(* The invariant of the runner: what its queue, its waiting generator, its *)
(* text buffer and its two sets of tools mean, in every state it can reach.*)
THEOREM Invariant == RunnerSpec => []IInv
  BY InitInv, RunnerInvStep, PTL DEF RunnerSpec

(* The variables of the runner keep their types, its counters their bounds.*)
THEOREM RunnerTypeOKHolds == RunnerSpec => []RunnerTypeOK
<1>1. IInv => RunnerTypeOK
  BY DEF IInv
<1> QED
  BY Invariant, <1>1, PTL

(* Every message from stdin is queued, handed to the SDK once and in order,*)
(* or cancelled, through every crash and restart of the query; and the     *)
(* generator never sleeps on a queue that has a message.                   *)
THEOREM MailboxKeptHolds == RunnerSpec => []MailboxKept
<1>1. IInv => MailboxKept
  BY DEF IInv
<1> QED
  BY Invariant, <1>1, PTL

(* Text and tool events leave on stdout in the order the SDK produced them,*)
(* each once, as long as no message overtakes a turn and no query crashes. *)
THEOREM OutInOrderHolds == RunnerSpec => []OutInOrder
<1>1. IInv => OutInOrder
  BY DEF IInv, TurnTracked, OutInOrder, Emitted
<1> QED
  BY Invariant, <1>1, PTL

(* A tool that was reported started is reported ended at most once, by its *)
(* result or by cleanup and never by both, however often the result is     *)
(* replayed; results that came before any start are the only others, and   *)
(* cleanup leaves no tool running.                                         *)
THEOREM ToolsEndOnceHolds == RunnerSpec => []ToolsEndOnce
<1>1. IInv => ToolsEndOnce
  BY DEF IInv, ToolsTracked, ToolsEndOnce
<1> QED
  BY Invariant, <1>1, PTL
=============================================================================
