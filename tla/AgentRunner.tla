---------------------------- MODULE AgentRunner ----------------------------
(***************************************************************************)
(* The main loop of the agent runner (agent-runner/src/index.ts), the      *)
(* child process behind a conversation: user messages come in on stdin,    *)
(* wait in messageQueue and are pulled by the Claude SDK through a         *)
(* generator; what the SDK streams goes out on stdout, with text held back *)
(* until a block is complete; a crash of the SDK's command line process is *)
(* answered by a new query; a signal or a fatal error by cleanup().        *)
(*                                                                         *)
(* Node runs one callback at a time and its promise continuations before   *)
(* the next callback, so a step here is a callback up to its next wait for *)
(* the outside world. The SDK and the command line process are external:   *)
(* they pull, stream, fail and finish as they like.                        *)
(***************************************************************************)
EXTENDS Naturals, Sequences, FiniteSets, SequencesExt

CONSTANTS
    Tools,               \* the tool uses the agent may make
    MaxMessages,         \* bound on the messages sent to the runner
    MaxEvents,           \* bound on the text chunks and tool uses of the agent
    MaxEnds,             \* bound on the tool_end events of a tool that is not tracked
    MaxCrashes,          \* bound on the crashes of the command line process
    MAX_CLI_RECOVERY     \* crashes in a row that are recovered from

ASSUME RunnerBounds ==
    /\ MaxMessages \in Nat /\ MaxEvents \in Nat /\ MaxEnds \in Nat
    /\ MaxCrashes \in Nat /\ MAX_CLI_RECOVERY \in Nat

VARIABLES
    received,            \* messages 1..received have come in on stdin
    messageQueue,        \* those that wait to be pulled
    messageWaiter,       \* the generator's promise is waiting for a message
    mainLoopRunning,     \* FALSE after stop, the end of stdin, or cleanup
    stdinClosed,
    main,                \* where main() is
    generatorDone,       \* the message generator of this query has returned
    queryRef,            \* there is a query to interrupt and close
    attempts,            \* cliRecoveryAttempts
    blockBuffer,         \* text that was streamed and not emitted
    hadText,             \* parentTurnHadAssistantText
    activeTools, completedToolNames,
    cleanup,             \* how far cleanup() is
    exited,
    owed,                \* external: messages of this query without a result
    streamed,            \* external: text chunks of the turn the SDK is in
    taken, cancelled, answered, abandoned, \* history: what became of messages
    clock, out,          \* history: events streamed so far, events emitted
    started, ended,      \* history: tool_start and tool_end events per tool
    untracked,           \* history: results that came before any tool_start, per tool
    crashes, overtaken, raced  \* history: what went wrong

inputVars == <<received, messageQueue, stdinClosed, cancelled>>
loopVars == <<messageWaiter, mainLoopRunning, main, generatorDone, queryRef, attempts>>
streamVars == <<blockBuffer, hadText, streamed, clock, out>>
toolVars == <<activeTools, completedToolNames, started, ended, untracked>>
turnVars == <<owed, taken, answered, abandoned>>
exitVars == <<cleanup, exited>>
causeVars == <<crashes, overtaken, raced>>
runnerVars == <<inputVars, loopVars, streamVars, toolVars, turnVars, exitVars, causeVars>>

Messages == 1 .. MaxMessages

RunnerTypeOK ==
    /\ received \in 0 .. MaxMessages
    /\ messageQueue \in Seq(Messages)
    /\ {messageWaiter, mainLoopRunning, stdinClosed, generatorDone, queryRef,
        hadText, exited, overtaken, raced} \subseteq BOOLEAN
    /\ main \in {"starting", "reading", "backoff", "finished", "failed"}
    /\ attempts \in 0 .. MAX_CLI_RECOVERY
    /\ blockBuffer \in Seq(1 .. MaxEvents) /\ out \in Seq(1 .. MaxEvents)
    /\ streamed \in Seq(1 .. MaxEvents)
    /\ activeTools \subseteq Tools /\ completedToolNames \subseteq Tools
    /\ cleanup \in {"none", "interrupting", "done"}
    /\ owed \in Seq(Messages) /\ taken \in Seq(Messages)
    /\ {cancelled, answered, abandoned} \subseteq SUBSET Messages
    /\ clock \in 0 .. MaxEvents
    /\ {started, ended, untracked} \subseteq [Tools -> Nat]
    /\ crashes \in 0 .. MaxCrashes

RunnerInit ==
    /\ received = 0 /\ messageQueue = <<>> /\ cancelled = {}
    /\ messageWaiter = FALSE /\ mainLoopRunning = TRUE /\ stdinClosed = FALSE
    /\ main = "starting" /\ generatorDone = FALSE /\ queryRef = FALSE /\ attempts = 0
    /\ blockBuffer = <<>> /\ hadText = FALSE /\ streamed = <<>> /\ clock = 0 /\ out = <<>>
    /\ activeTools = {} /\ completedToolNames = {} /\ started = [t \in Tools |-> 0]
    /\ ended = [t \in Tools |-> 0] /\ untracked = [t \in Tools |-> 0]
    /\ owed = <<>> /\ taken = <<>> /\ answered = {} /\ abandoned = {}
    /\ cleanup = "none" /\ exited = FALSE
    /\ crashes = 0 /\ overtaken = FALSE /\ raced = FALSE

-----------------------------------------------------------------------------
(* The message generator. Taking a message starts a turn as far as the runner
   is concerned: what was kept for the turn before is dropped, even when the
   SDK is still in that turn. *)
TakeMessage(m) ==
    /\ taken' = Append(taken, m)
    /\ owed' = Append(owed, m)
    /\ blockBuffer' = <<>> /\ hadText' = FALSE
    /\ overtaken' = (overtaken \/ owed # <<>>)
    /\ UNCHANGED <<answered, abandoned, streamed, clock, out, crashes, raced>>

NoMessageTaken == UNCHANGED <<turnVars, streamVars, causeVars>>

\* Resolving the waiter with null makes the generator return.
ReleaseWaiter ==
    /\ messageWaiter' = FALSE
    /\ generatorDone' = (generatorDone \/ messageWaiter)

\* The SDK asks the generator for the next message.
Pull ==
    /\ main = "reading" /\ ~generatorDone /\ ~messageWaiter /\ ~exited
    /\ \/ /\ mainLoopRunning /\ messageQueue # <<>>
          /\ TakeMessage(Head(messageQueue))
          /\ messageQueue' = Tail(messageQueue)
          /\ UNCHANGED <<messageWaiter, generatorDone>>
       \/ /\ mainLoopRunning /\ messageQueue = <<>> /\ ~stdinClosed
          /\ messageWaiter' = TRUE
          /\ NoMessageTaken /\ UNCHANGED <<messageQueue, generatorDone>>
       \/ /\ ~mainLoopRunning
          /\ generatorDone' = TRUE
          /\ NoMessageTaken /\ UNCHANGED <<messageQueue, messageWaiter>>
    /\ UNCHANGED <<received, stdinClosed, cancelled, mainLoopRunning, main, queryRef,
                   attempts, toolVars, exitVars>>

-----------------------------------------------------------------------------
(* Input lines. *)
\* Mutant of ReceiveMessage: the waiter gets the message and it is queued as well.
ReceiveTwice ==
    /\ ~stdinClosed /\ ~exited /\ received < MaxMessages
    /\ received' = received + 1
    /\ messageQueue' = Append(messageQueue, received + 1)
    /\ IF messageWaiter
       THEN TakeMessage(received + 1) /\ messageWaiter' = FALSE
       ELSE NoMessageTaken /\ UNCHANGED messageWaiter
    /\ UNCHANGED <<stdinClosed, cancelled, mainLoopRunning, main, generatorDone,
                   queryRef, attempts, toolVars, exitVars>>

\* Mutant of ReceiveMessage: the message is queued and nobody is woken.
ReceiveWithoutWakeup ==
    /\ ~stdinClosed /\ ~exited /\ received < MaxMessages
    /\ received' = received + 1
    /\ messageQueue' = Append(messageQueue, received + 1)
    /\ NoMessageTaken
    /\ UNCHANGED <<stdinClosed, cancelled, loopVars, toolVars, exitVars>>

ReceiveMessage ==
    /\ ~stdinClosed /\ ~exited /\ received < MaxMessages
    /\ received' = received + 1
    /\ IF messageWaiter
       THEN /\ TakeMessage(received + 1)
            /\ messageWaiter' = FALSE
            /\ UNCHANGED messageQueue
       ELSE /\ messageQueue' = Append(messageQueue, received + 1)
            /\ NoMessageTaken /\ UNCHANGED messageWaiter
    /\ UNCHANGED <<stdinClosed, cancelled, mainLoopRunning, main, generatorDone,
                   queryRef, attempts, toolVars, exitVars>>

Without(q, i) == [k \in 1 .. Len(q) - 1 |-> IF k < i THEN q[k] ELSE q[k + 1]]

CancelMessage ==
    /\ ~stdinClosed /\ ~exited
    /\ \E i \in DOMAIN messageQueue :
          /\ messageQueue' = Without(messageQueue, i)
          /\ cancelled' = cancelled \cup {messageQueue[i]}
    /\ UNCHANGED <<received, stdinClosed, loopVars, streamVars, toolVars, turnVars,
                   exitVars, causeVars>>

\* Mutant of ReceiveStop: the generator keeps waiting.
StopWithoutWakeup ==
    /\ ~stdinClosed /\ ~exited
    /\ mainLoopRunning' = FALSE
    /\ UNCHANGED <<inputVars, messageWaiter, generatorDone, main, queryRef, attempts,
                   streamVars, toolVars, turnVars, exitVars, causeVars>>

ReceiveStop ==
    /\ ~stdinClosed /\ ~exited
    /\ mainLoopRunning' = FALSE
    /\ ReleaseWaiter
    /\ UNCHANGED <<inputVars, main, queryRef, attempts, streamVars, toolVars, turnVars,
                   exitVars, causeVars>>

CloseStdin ==
    /\ ~stdinClosed /\ ~exited
    /\ stdinClosed' = TRUE
    /\ mainLoopRunning' = FALSE
    /\ ReleaseWaiter
    /\ UNCHANGED <<received, messageQueue, cancelled, main, queryRef, attempts,
                   streamVars, toolVars, turnVars, exitVars, causeVars>>

-----------------------------------------------------------------------------
(* Messages of the SDK. They come while the loop reads, for a turn that was
   taken; during cleanup's interrupt the loop still reads. *)
SDKSpeaks ==
    /\ main = "reading" /\ ~exited /\ owed # <<>>
    /\ raced' = (raced \/ cleanup # "none")

Flushed == out \o blockBuffer

\* A chunk of text completes no block, or completes all blocks but its own
\* last one, or ends with a block.
TextDelta ==
    /\ SDKSpeaks /\ clock < MaxEvents
    /\ clock' = clock + 1
    /\ streamed' = Append(streamed, clock + 1)
    /\ hadText' = TRUE
    /\ \/ blockBuffer' = Append(blockBuffer, clock + 1) /\ UNCHANGED out
       \/ blockBuffer' = <<clock + 1>> /\ out' = Flushed
       \/ blockBuffer' = <<>> /\ out' = Append(Flushed, clock + 1)
    /\ UNCHANGED <<inputVars, loopVars, toolVars, turnVars, exitVars, crashes, overtaken>>

BlockStop ==
    /\ SDKSpeaks /\ blockBuffer # <<>>
    /\ out' = Flushed /\ blockBuffer' = <<>>
    /\ UNCHANGED <<inputVars, loopVars, hadText, streamed, clock, toolVars, turnVars,
                   exitVars, crashes, overtaken>>

\* Mutant of ToolUse: the text before the tool is not flushed first.
ToolUseUnflushed(t) ==
    /\ SDKSpeaks /\ clock < MaxEvents
    /\ clock' = clock + 1
    /\ out' = Append(out, clock + 1)
    /\ activeTools' = activeTools \cup {t}
    /\ started' = [started EXCEPT ![t] = @ + 1]
    /\ UNCHANGED <<inputVars, loopVars, blockBuffer, hadText, streamed, completedToolNames,
                   ended, untracked, turnVars, exitVars, crashes, overtaken>>

\* Nothing is asked about the tool use: it may be a replay, or come after its result.
ToolUse(t) ==
    /\ SDKSpeaks /\ clock < MaxEvents
    /\ clock' = clock + 1
    /\ out' = Append(Flushed, clock + 1) /\ blockBuffer' = <<>>
    /\ activeTools' = activeTools \cup {t}
    /\ started' = [started EXCEPT ![t] = @ + 1]
    /\ UNCHANGED <<inputVars, loopVars, hadText, streamed, completedToolNames, ended,
                   untracked, turnVars, exitVars, crashes, overtaken>>

\* Mutant of ToolResult: a completed tool is not remembered, and a replayed result is
\* taken for one of a tool that was never tracked.
ToolResultForgotten(t) ==
    /\ SDKSpeaks
    /\ out' = Flushed /\ blockBuffer' = <<>>
    /\ t \in activeTools \/ ended[t] < MaxEnds
    /\ activeTools' = activeTools \ {t}
    /\ ended' = [ended EXCEPT ![t] = @ + 1]
    /\ untracked' = IF t \notin activeTools /\ started[t] = 0
                    THEN [untracked EXCEPT ![t] = @ + 1] ELSE untracked
    /\ UNCHANGED <<inputVars, loopVars, hadText, streamed, clock, completedToolNames, started,
                   turnVars, exitVars, crashes, overtaken>>

\* The result of a tool use that is active, that was completed before (a resumed
\* session is replayed), or that is not tracked: it is reported ended and not
\* remembered, as often as results for it come (MaxEnds bounds them).
ToolResult(t) ==
    /\ SDKSpeaks
    /\ out' = Flushed /\ blockBuffer' = <<>>
    /\ \/ /\ t \in activeTools
          /\ activeTools' = activeTools \ {t}
          /\ completedToolNames' = completedToolNames \cup {t}
          /\ ended' = [ended EXCEPT ![t] = @ + 1]
          /\ UNCHANGED <<started, untracked>>
       \/ /\ t \in completedToolNames \ activeTools
          /\ UNCHANGED toolVars
       \/ /\ t \notin activeTools \cup completedToolNames /\ ended[t] < MaxEnds
          /\ ended' = [ended EXCEPT ![t] = @ + 1]
          /\ untracked' = IF started[t] = 0 THEN [untracked EXCEPT ![t] = @ + 1]
                          ELSE untracked
          /\ UNCHANGED <<activeTools, completedToolNames, started>>
    /\ UNCHANGED <<inputVars, loopVars, hadText, streamed, clock, turnVars, exitVars,
                   crashes, overtaken>>

\* The end of a turn. The text of a result is emitted when the runner saw no text
\* in the turn, for a local command streams none; the result of any other turn
\* repeats what was streamed.
ResultText(kind) ==
    IF hadText \/ kind = "error" THEN <<>>
    ELSE IF kind = "local" THEN <<clock + 1>> ELSE streamed

\* An authentication error stops the loop.
TurnResult(kind) ==
    /\ SDKSpeaks
    /\ kind = "local" => streamed = <<>> /\ clock < MaxEvents
    /\ clock' = IF kind = "local" THEN clock + 1 ELSE clock
    /\ out' = Flushed \o ResultText(kind)
    /\ blockBuffer' = <<>> /\ streamed' = <<>>
    /\ hadText' = (hadText \/ kind = "local" \/ (kind = "spoken" /\ streamed # <<>>))
    /\ owed' = Tail(owed)
    /\ answered' = answered \cup {Head(owed)}
    /\ attempts' = 0
    /\ \/ UNCHANGED <<mainLoopRunning, messageWaiter, generatorDone>>
       \/ kind = "error" /\ mainLoopRunning' = FALSE /\ ReleaseWaiter
    /\ UNCHANGED <<inputVars, main, queryRef, toolVars, taken, abandoned,
                   exitVars, crashes, overtaken>>

-----------------------------------------------------------------------------
(* Cleanup, up to the wait for queryRef.interrupt(): without a query there is
   nothing to wait for. *)
BeginCleanup ==
    /\ cleanup' = IF queryRef THEN "interrupting" ELSE "done"
    /\ mainLoopRunning' = FALSE
    /\ ended' = [t \in Tools |-> IF t \in activeTools THEN ended[t] + 1 ELSE ended[t]]
    /\ activeTools' = {}
    /\ out' = Flushed /\ blockBuffer' = <<>>
    /\ IF queryRef
       THEN UNCHANGED <<messageWaiter, generatorDone, stdinClosed>>
       ELSE ReleaseWaiter /\ stdinClosed' = TRUE
    /\ UNCHANGED <<received, messageQueue, cancelled, queryRef, attempts, hadText,
                   streamed, clock, completedToolNames, started, untracked, exited, overtaken, raced>>

FinishCleanup ==
    /\ cleanup = "interrupting" /\ ~exited
    /\ cleanup' = "done"
    /\ queryRef' = FALSE
    /\ ReleaseWaiter
    /\ stdinClosed' = TRUE
    /\ UNCHANGED <<received, messageQueue, cancelled, mainLoopRunning, main, attempts,
                   streamVars, toolVars, turnVars, exited, causeVars>>

\* SIGTERM, SIGINT or an unhandled rejection.
Signal ==
    /\ cleanup = "none" /\ ~exited
    /\ BeginCleanup
    /\ UNCHANGED <<main, turnVars, crashes>>

\* After cleanup, or once main() is over and nothing can come in any more.
Exit ==
    /\ ~exited
    /\ cleanup = "done" \/ (main = "finished" /\ stdinClosed)
    /\ exited' = TRUE
    /\ UNCHANGED <<inputVars, loopVars, streamVars, toolVars, turnVars, cleanup, causeVars>>

-----------------------------------------------------------------------------
(* main(): a query, and another one when the command line process crashes. *)
StartQuery ==
    /\ main \in {"starting", "backoff"} /\ ~exited
    /\ main' = "reading"
    /\ queryRef' = TRUE
    /\ generatorDone' = FALSE
    /\ UNCHANGED <<inputVars, messageWaiter, mainLoopRunning, attempts, streamVars,
                   toolVars, turnVars, exitVars, causeVars>>

\* The generator has returned, or the command line process has exited cleanly.
QueryEnds ==
    /\ main = "reading" /\ ~exited
    /\ main' = "finished"
    /\ queryRef' = FALSE
    /\ out' = Flushed /\ blockBuffer' = <<>>
    /\ UNCHANGED <<inputVars, messageWaiter, mainLoopRunning, generatorDone, attempts,
                   hadText, streamed, clock, toolVars, turnVars, exitVars, causeVars>>

\* Mutant of Recoverable: one attempt too many.
RecoverableOnceMore == mainLoopRunning /\ attempts <= MAX_CLI_RECOVERY

Recoverable == mainLoopRunning /\ attempts < MAX_CLI_RECOVERY

AbandonTurns ==
    /\ abandoned' = abandoned \cup ToSet(owed)
    /\ owed' = <<>>
    /\ UNCHANGED <<taken, answered>>

\* A crash that is recovered from. Text and tools of the broken turn stay.
QueryCrashes ==
    /\ main = "reading" /\ ~exited /\ crashes < MaxCrashes
    /\ Recoverable
    /\ main' = "backoff"
    /\ queryRef' = FALSE
    /\ ReleaseWaiter
    /\ attempts' = attempts + 1
    /\ crashes' = crashes + 1
    /\ streamed' = <<>>
    /\ AbandonTurns
    /\ UNCHANGED <<inputVars, mainLoopRunning, blockBuffer, hadText, clock, out, toolVars,
                   exitVars, overtaken, raced>>

\* Any other error, or a crash too many: main() rejects, and its handler cleans up
\* unless that has been done.
QueryFails ==
    /\ main = "reading" /\ ~exited /\ crashes < MaxCrashes
    /\ main' = "failed"
    /\ crashes' = crashes + 1
    /\ AbandonTurns
    /\ IF cleanup = "none"
       THEN BeginCleanup
       ELSE UNCHANGED <<inputVars, messageWaiter, mainLoopRunning, generatorDone, queryRef,
                        attempts, streamVars, toolVars, exitVars, overtaken, raced>>

-----------------------------------------------------------------------------
RunnerNext ==
    \/ Pull \/ ReceiveMessage \/ CancelMessage \/ ReceiveStop \/ CloseStdin
    \/ TextDelta \/ BlockStop
    \/ \E t \in Tools : ToolUse(t) \/ ToolResult(t)
    \/ \E kind \in {"spoken", "local", "error"} : TurnResult(kind)
    \/ StartQuery \/ QueryEnds \/ QueryCrashes \/ QueryFails
    \/ Signal \/ FinishCleanup \/ Exit

\* The timers of main() and of drainAndExit fire, and the SDK does its part: it asks for
\* messages, ends the turns it began, answers an interrupt, and ends the query when no
\* messages are left.
RunnerFairness ==
    /\ WF_runnerVars(StartQuery) /\ WF_runnerVars(FinishCleanup)
    /\ WF_runnerVars(Exit)
    /\ WF_runnerVars(Pull)
    /\ WF_runnerVars(TurnResult("spoken"))
    /\ WF_runnerVars(generatorDone /\ owed = <<>> /\ QueryEnds)

RunnerSpec == RunnerInit /\ [][RunnerNext]_runnerVars /\ RunnerFairness

-----------------------------------------------------------------------------
Increasing(s) == \A i, j \in DOMAIN s : i < j => s[i] < s[j]

\* A message never waits in the queue behind a generator that waits for one, and a loop
\* that was told to stop leaves nobody waiting, cleanup's own interrupt excepted.
NoLostWakeup ==
    messageWaiter =>
        /\ messageQueue = <<>> /\ ~generatorDone
        /\ mainLoopRunning \/ cleanup = "interrupting"

\* Messages reach the SDK in the order they came in, none twice, and across crashes
\* none is lost from the queue: each one is waiting, was handed over, or was cancelled;
\* and none waits past a generator that waits for one.
MailboxKept ==
    /\ Increasing(taken \o messageQueue)
    /\ ToSet(taken) \cup ToSet(messageQueue) \cup cancelled = 1 .. received
    /\ cancelled \cap ToSet(taken \o messageQueue) = {}
    /\ NoLostWakeup

\* What the agent streams is emitted in its order, once, unless a turn was overtaken
\* by the next message or broken by a crash.
OutInOrder ==
    overtaken \/ crashes > 0 \/
        /\ Increasing(out \o blockBuffer)
        /\ ToSet(out \o blockBuffer) = 1 .. clock

\* A tool is reported ended at most once for each time it was reported started, however
\* often its result is replayed, save for results that came before any start: those are
\* all reported. And no tool is left running when the runner announces its shutdown. The
\* SDK may break both by going on during cleanup.
ToolsEndOnce ==
    raced \/
        /\ \A t \in Tools :
              /\ ended[t] <= started[t] + untracked[t]
              /\ t \in activeTools => ended[t] < started[t] + untracked[t]
        /\ cleanup = "done" => activeTools = {}

\* Every message that came in gets its turn, is cancelled, is given up in a crash that
\* was reported, or sees the runner end.
MessagesSettle ==
    \A m \in Messages :
        m <= received ~>
            \/ m \in answered \cup cancelled \cup abandoned
            \/ main \in {"finished", "failed"} \/ exited

\* A runner that was told to stop ends its loop.
StopEndsLoop == ~mainLoopRunning ~> main \in {"finished", "failed"} \/ exited
=============================================================================
