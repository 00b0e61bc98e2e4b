-------------------------- MODULE ConversationFeed --------------------------
(***************************************************************************)
(* What the frontend shows of a conversation: the events that come over    *)
(* the WebSocket (hooks/useWebSocket.ts), the batcher that holds text for  *)
(* a frame (hooks/useStreamingBatcher.ts), the store's streaming state,    *)
(* queued messages and message list (stores/appStore.ts), sending and      *)
(* stopping (ChatInput.tsx), and what is done after a reconnection.        *)
(*                                                                         *)
(* JavaScript runs one callback at a time, so a step is a callback up to   *)
(* its next await. The backend is external: it takes messages, streams,    *)
(* stores and ends turns as backend/agent does, and the hub delivers in    *)
(* order, save for the faults it can have.                                 *)
(*                                                                         *)
(* A text chunk is a number, a user message m the number MaxText + m, and  *)
(* a list of messages the sequence of what it shows.                       *)
(***************************************************************************)
EXTENDS Naturals, Sequences, FiniteSets, SequencesExt, Filter

CONSTANTS
    MaxText,        \* bound on the text chunks of the agent
    MaxUser,        \* bound on the user's messages
    MaxAsks,        \* bound on the prompts of the agent
    MaxFaults,      \* bound on disconnections, faults of the hub, failed requests,
                    \* stops and withdrawn messages, together
    MaxAll          \* bound on the sum of all these

ASSUME FeedBounds == {MaxText, MaxUser, MaxAsks, MaxFaults, MaxAll} \subseteq Nat

VARIABLES
    running,        \* external: the backend has a process for the conversation
    inbox, turn,    \* external: messages it has, the message it serves (0: none)
    said,           \* external: text of the turn
    deferred, db,   \* external: the user message to store at the turn's end, the table
    answering,      \* external: the turn has had output (inActiveTurn)
    asking, raised, \* external: what the agent waits for, what a snapshot may still show
    clock, asks,    \* external: chunks streamed and prompts raised so far
    wire, link,     \* events under way to the client, which is connected
    faults,         \* faults and interventions so far
    submitted, post,    \* messages the user sent, and the request of the last one
    approving,          \* the prompts whose answer is under way
    buffer,             \* the batcher's text
    text, isStreaming,  \* streamingState
    pending,            \* the prompts that are shown
    queuedMessages, messages,
    resultFinalized,    \* the conversation is in resultFinalizedSet
    recon, fetched, prompts, \* where each reconciliation is, and the response it has
    mishaps             \* history: what went wrong

turnVars == <<running, inbox, turn, said, deferred, db, answering, asking, raised, clock, asks>>
hubVars == <<wire, link, faults>>
sendVars == <<submitted, post, approving>>
streamingVars == <<buffer, text, isStreaming, pending, resultFinalized>>
listVars == <<queuedMessages, messages>>
reconVars == <<recon, fetched, prompts>>
feedVars == <<turnVars, hubVars, sendVars, streamingVars, listVars, reconVars, mishaps>>

User(m) == MaxText + m
Chunks == 1 .. MaxText
UserMessages == MaxText + 1 .. MaxText + MaxUser
Items == 1 .. MaxText + MaxUser
Kinds == {"tool", "plan", "question"}
Reconciliations == 1 .. MaxFaults
Event == [type : {"init", "result", "turn_complete", "complete", "error", "idle",
                  "question_over"}]
             \cup [type : {"ask"}, kind : Kinds]
             \cup [type : {"assistant_text"}, chunk : 1 .. MaxText]

FeedTypeOK ==
    /\ {running, answering, link, isStreaming, resultFinalized} \subseteq BOOLEAN
    /\ inbox \in Seq(1 .. MaxUser) /\ turn \in 0 .. MaxUser
    /\ {said, buffer} \subseteq Seq(1 .. MaxText)
    /\ {deferred, db, text, messages, queuedMessages} \subseteq Seq(Items)
    /\ Len(deferred) <= 1
    /\ asking \in Kinds \cup {"none"} /\ approving \subseteq {"tool", "question"}
    /\ raised \subseteq {"plan", "question"} /\ pending \subseteq Kinds
    /\ wire \in Seq(Event) /\ (~link => wire = <<>>)
    /\ clock \in 0 .. MaxText /\ asks \in 0 .. MaxAsks /\ faults \in 0 .. MaxFaults
    /\ submitted \in 0 .. MaxUser
    /\ post \in {"none", "denying", "denied", "queueing", "adding", "sending", "accepted"}
    /\ recon \in [Reconciliations -> {"none", "asked", "active", "inactive", "paging", "paged",
                                     "snapping", "snapped", "repaging", "repaged"}]
    /\ fetched \in [Reconciliations -> Seq(Items)]
    /\ prompts \in [Reconciliations -> SUBSET {"plan", "question"}]

(***************************************************************************)
(* mishaps names what went wrong, and the properties what they excuse:     *)
(*   hub       the hub lost an event, or swapped two                       *)
(*   missed    the client was away when it did not stream, or a step of    *)
(*             the reconciliation failed: nothing is loaded again          *)
(*   gap       text came between the snapshot and its restoration, or the  *)
(*             snapshot was behind it, or behind the one restored before   *)
(*   overlap   text in a snapshot or page is also shown or under way, or   *)
(*             a finished message has text of the turn already             *)
(*   paged     a page replaced messages that were not stored yet           *)
(*   idle      the turn ended while its snapshot was asked for             *)
(*   late      a step worked on a view that was no longer so               *)
(*   cleared   an init cleared text that was not in any message            *)
(*   cut       a final event dropped queued messages but the first         *)
(*   asked     the backend went idle with a prompt shown                   *)
(*   overtaken a message was added to the list while another was queued    *)
(*   stale     a message was queued on a view that no longer streamed      *)
(*   overwritten   the backend had one message to store after the turn,    *)
(*             and got another                                             *)
(*   stopped, removed, failed   the user stopped, withdrew a message, or   *)
(*             a message was refused                                       *)
(***************************************************************************)
FeedInit ==
    /\ running = FALSE /\ inbox = <<>> /\ turn = 0
    /\ said = <<>> /\ deferred = <<>> /\ db = <<>>
    /\ answering = FALSE /\ asking = "none" /\ raised = {} /\ clock = 0 /\ asks = 0
    /\ wire = <<>> /\ link = TRUE /\ faults = 0
    /\ submitted = 0 /\ post = "none" /\ approving = {}
    /\ buffer = <<>> /\ text = <<>> /\ isStreaming = FALSE /\ pending = {}
    /\ resultFinalized = FALSE
    /\ queuedMessages = <<>> /\ messages = <<>>
    /\ recon = [r \in Reconciliations |-> "none"]
    /\ fetched = [r \in Reconciliations |-> <<>>]
    /\ prompts = [r \in Reconciliations |-> {}]
    /\ mishaps = {}

-----------------------------------------------------------------------------
(* The backend. *)
\* What the user and the environment do only so often.
Budget == clock + asks + submitted + faults < MaxAll
Trouble == Budget /\ faults < MaxFaults /\ faults' = faults + 1

Emit(events) ==
    /\ wire' = IF link THEN wire \o events ELSE wire
    /\ UNCHANGED link

Of(type) == [type |-> type]

Note(what) == mishaps' = mishaps \cup what

\* A message that comes while the agent answers is kept, to be stored after the answer:
\* one, the last. A process that is started again takes back a question of the old one.
\* Only the first request has something to do when it returns.
Accept ==
    /\ post = "sending" /\ post' = (IF submitted = 1 THEN "accepted" ELSE "none")
    /\ running' = TRUE
    /\ inbox' = Append(inbox, submitted)
    /\ IF answering
       THEN /\ deferred' = <<User(submitted)>> /\ UNCHANGED db
            /\ Note(IF deferred # <<>> THEN {"overwritten"} ELSE {})
       ELSE db' = Append(db, User(submitted)) /\ UNCHANGED <<deferred, mishaps>>
    /\ Emit(IF running \/ submitted = 1 THEN <<>> ELSE <<Of("question_over")>>)
    /\ UNCHANGED <<turn, said, answering, asking, raised, clock, asks, faults, submitted, approving,
                   streamingVars, listVars, reconVars>>

BeginTurn ==
    /\ running /\ turn = 0 /\ inbox # <<>>
    /\ turn' = Head(inbox) /\ inbox' = Tail(inbox)
    /\ Emit(<<Of("init")>>)
    /\ UNCHANGED <<faults, running, said, deferred, db, answering, asking, raised, clock, asks, sendVars,
                   streamingVars, listVars, reconVars, mishaps>>

Speak ==
    /\ turn # 0 /\ asking = "none" /\ clock < MaxText /\ Budget
    /\ clock' = clock + 1
    /\ said' = Append(said, clock + 1) /\ answering' = TRUE
    /\ Emit(<<[type |-> "assistant_text", chunk |-> clock + 1]>>)
    /\ UNCHANGED <<faults, running, inbox, turn, deferred, db, asking, raised, asks, sendVars,
                   streamingVars, listVars, reconVars, mishaps>>

\* A tool has started, and waits for the user.
RequestApproval(kind) ==
    /\ turn # 0 /\ asking = "none" /\ asks < MaxAsks /\ Budget
    /\ asking' = kind /\ asks' = asks + 1
    /\ answering' = TRUE /\ raised' = raised \cup ({kind} \ {"tool"})
    /\ Emit(<<[type |-> "ask", kind |-> kind]>>)
    /\ UNCHANGED <<faults, running, inbox, turn, said, deferred, db, clock, sendVars,
                   streamingVars, listVars, reconVars, mishaps>>

\* The agent waits no longer than its timeout.
PromptExpires ==
    /\ Trouble
    /\ asking # "none" /\ asking' = "none"
    /\ Emit(IF asking = "question" THEN <<Of("question_over")>> ELSE <<>>)
    /\ UNCHANGED <<running, inbox, turn, said, deferred, db, answering, raised, clock, asks, sendVars,
                   streamingVars, listVars, reconVars, mishaps>>

StoreTurn ==
    /\ db' = db \o said \o deferred
    /\ said' = <<>> /\ deferred' = <<>>
    /\ turn' = 0 /\ answering' = FALSE /\ asking' = "none" /\ raised' = {}
    /\ UNCHANGED <<clock, asks>>

EndTurn ==
    /\ turn # 0 /\ asking = "none"
    /\ StoreTurn
    /\ Emit(<<Of("result"), Of("turn_complete")>>)
    /\ UNCHANGED <<faults, running, inbox, sendVars, streamingVars, listVars, reconVars, mishaps>>

\* The process completes, fails or is stopped, and the backend reports idle.
EndProcess(last) ==
    /\ running /\ running' = FALSE
    /\ IF last = <<Of("complete")>> THEN turn = 0 /\ inbox = <<>> /\ UNCHANGED faults
       ELSE Trouble
    /\ StoreTurn
    /\ inbox' = <<>>
    /\ Emit(Append(last, Of("idle")))
    /\ UNCHANGED <<sendVars, streamingVars, listVars, reconVars, mishaps>>

-----------------------------------------------------------------------------
(* The store. *)
FirstQueued == IF queuedMessages = <<>> THEN <<>> ELSE <<Head(queuedMessages)>>

\* finalizeStreamingMessage with commitQueued, on streaming text t: the text becomes a
\* message, and the first queued message one after it. A terminal finalization drops
\* the other queued messages.
Finalize(t, terminal) ==
    /\ messages' = messages \o t \o FirstQueued
    /\ queuedMessages' = IF terminal \/ queuedMessages = <<>> THEN <<>>
                         ELSE Tail(queuedMessages)
    /\ text' = <<>>
    /\ isStreaming' = (queuedMessages' # <<>>)

Cut(terminal) == IF terminal /\ Len(queuedMessages) > 1 THEN {"cut"} ELSE {}

\* The batcher's flush: what streaming text and isStreaming are after it.
Streamed == text \o buffer
StreamedOn == isStreaming \/ buffer # <<>>

FlushFrame ==
    /\ buffer # <<>> /\ buffer' = <<>>
    /\ text' = Streamed /\ isStreaming' = TRUE
    /\ UNCHANGED <<turnVars, hubVars, sendVars, pending, resultFinalized, listVars,
                   reconVars, mishaps>>

-----------------------------------------------------------------------------
(* Events. Text and most prompts are batched, other events flush the batcher first. *)
InSnapshot(r) == recon[r] \in {"snapping", "snapped", "repaging", "repaged"}
Reconciling == \E r \in Reconciliations : InSnapshot(r)

Receive(type) ==
    /\ wire # <<>> /\ Head(wire).type = type /\ wire' = Tail(wire)
    /\ UNCHANGED <<turnVars, link, faults, sendVars, reconVars>>

\* Text that is dropped is to come back with every snapshot there will be.
ReceiveText ==
    /\ Receive("assistant_text")
    /\ LET c == Head(wire).chunk IN
       IF Reconciling
       THEN /\ Note(IF \A r \in Reconciliations : InSnapshot(r) =>
                          recon[r] = "snapping" \/ c \in ToSet(fetched[r])
                    THEN {} ELSE {"gap"})
            /\ UNCHANGED buffer
       ELSE buffer' = Append(buffer, c) /\ UNCHANGED mishaps
    /\ UNCHANGED <<text, isStreaming, pending, resultFinalized, listVars>>

\* Mutant of ReceiveInit: the queued message stays queued when it is shown.
InitKeepsQueue ==
    /\ Receive("init")
    /\ resultFinalized' = FALSE
    /\ buffer' = <<>>
    /\ messages' = IF isStreaming THEN messages \o Streamed \o FirstQueued ELSE messages
    /\ text' = IF isStreaming THEN <<>> ELSE Streamed
    /\ isStreaming' = TRUE
    /\ UNCHANGED <<pending, queuedMessages, mishaps>>

\* The handler has read the state before the flush. When it was streaming, the agent is
\* taken to have picked up the first queued message, or, when none is queued, to have
\* been started again, and its text is cleared.
ReceiveInit ==
    /\ Receive("init")
    /\ resultFinalized' = FALSE
    /\ buffer' = <<>>
    /\ IF ~isStreaming THEN text' = Streamed /\ UNCHANGED <<listVars, mishaps>>
       ELSE IF queuedMessages # <<>>
       THEN /\ messages' = messages \o Streamed \o FirstQueued
            /\ queuedMessages' = Tail(queuedMessages)
            /\ text' = <<>> /\ UNCHANGED mishaps
       ELSE /\ text' = <<>> /\ UNCHANGED listVars
            /\ Note(IF Streamed = <<>> THEN {} ELSE {"cleared"})
    /\ isStreaming' = TRUE
    /\ UNCHANGED pending

\* Mutant of ReceiveResult: the text of the last frame is not flushed first.
ResultUnflushed ==
    /\ Receive("result")
    /\ buffer' = <<>> /\ Finalize(text, FALSE)
    /\ resultFinalized' = TRUE /\ pending' = {}
    /\ UNCHANGED mishaps

ReceiveResult ==
    /\ Receive("result")
    /\ buffer' = <<>> /\ Finalize(Streamed, FALSE)
    /\ resultFinalized' = TRUE /\ pending' = {}
    /\ UNCHANGED mishaps

\* clearPendingToolApproval and clearPendingPlanApproval: a question stays.
Questions == pending \cap {"question"}

\* Skipped when the result has done the work.
ReceiveTurnComplete ==
    /\ Receive("turn_complete")
    /\ buffer' = <<>> /\ pending' = Questions /\ resultFinalized' = FALSE
    /\ IF resultFinalized
       THEN text' = Streamed /\ isStreaming' = StreamedOn /\ UNCHANGED listVars
       ELSE Finalize(Streamed, FALSE)
    /\ UNCHANGED mishaps

ReceiveEnd(type) ==
    /\ Receive(type)
    /\ buffer' = <<>> /\ Finalize(Streamed, TRUE) /\ Note(Cut(TRUE))
    /\ pending' = IF type = "error" THEN Questions ELSE {}
    /\ resultFinalized' = (resultFinalized /\ type = "error")

\* Mutant of ReceiveIdle: the status is recorded and no more.
IdleWithoutSafetyNet ==
    /\ Receive("idle")
    /\ buffer' = <<>> /\ text' = Streamed /\ isStreaming' = StreamedOn
    /\ UNCHANGED <<pending, resultFinalized, listVars, mishaps>>

\* The safety net: an idle backend does not stream, unless it waits for the user.
ReceiveIdle ==
    /\ Receive("idle")
    /\ buffer' = <<>>
    /\ IF isStreaming /\ pending = {}
       THEN Finalize(Streamed, TRUE) /\ resultFinalized' = FALSE /\ Note(Cut(TRUE))
       ELSE /\ text' = Streamed /\ isStreaming' = StreamedOn
            /\ Note(IF isStreaming THEN {"asked"} ELSE IF StreamedOn THEN {"late"} ELSE {})
            /\ UNCHANGED <<resultFinalized, listVars>>
    /\ UNCHANGED pending

\* Only a tool's request flushes the batcher.
ReceiveAsk ==
    /\ Receive("ask")
    /\ pending' = pending \cup {Head(wire).kind}
    /\ IF Head(wire).kind = "tool"
       THEN buffer' = <<>> /\ text' = Streamed /\ isStreaming' = StreamedOn
       ELSE UNCHANGED <<buffer, text, isStreaming>>
    /\ UNCHANGED <<resultFinalized, listVars, mishaps>>

ReceiveQuestionOver ==
    /\ Receive("question_over")
    /\ pending' = pending \ {"question"}
    /\ UNCHANGED <<buffer, text, isStreaming, resultFinalized, listVars, mishaps>>

-----------------------------------------------------------------------------
(* The user. *)
\* The composer gives way to a question or a tool's prompt. What is done with the message
\* is decided on the view of the moment, and done when the attachments are loaded. The
\* first message creates the conversation, and is shown when that has returned.
Submit ==
    /\ post = "none" /\ submitted < MaxUser /\ Budget
    /\ submitted = 0 \/ messages # <<>>
    /\ pending \subseteq {"plan"}
    /\ submitted' = submitted + 1
    /\ post' = IF submitted = 0 THEN "sending" ELSE IF "plan" \in pending THEN "denying"
               ELSE IF isStreaming THEN "queueing" ELSE "adding"
    /\ UNCHANGED <<turnVars, hubVars, approving, streamingVars, listVars, reconVars, mishaps>>

\* What the agent waits for after an answer to a prompt of this kind: an answer that comes
\* too late for its request is ignored.
Answered(kind) == asking' \in {asking, IF asking = kind THEN "none" ELSE asking}

\* A message denies the plan that is shown; a failure is logged.
PlanDenied ==
    /\ post = "denying" /\ post' = "denied"
    /\ Answered("plan")
    /\ UNCHANGED <<running, inbox, turn, said, deferred, db, answering, raised, clock, asks, hubVars,
                   submitted, approving, streamingVars, listVars, reconVars, mishaps>>

\* addQueuedMessage, or addMessage and setStreaming; then the message is sent.
AddMessageOrQueue ==
    /\ post \in {"denied", "queueing", "adding"} /\ post' = "sending"
    /\ IF post = "queueing"
       THEN /\ queuedMessages' = Append(queuedMessages, User(submitted))
            /\ Note(IF isStreaming THEN {} ELSE {"stale"}) /\ UNCHANGED <<isStreaming, messages>>
       ELSE /\ messages' = Append(messages, User(submitted))
            /\ isStreaming' = TRUE /\ UNCHANGED queuedMessages
            /\ Note(IF queuedMessages # <<>> THEN {"overtaken"} ELSE {})
    /\ pending' = IF post = "denied" THEN pending \ {"plan"} ELSE pending
    /\ UNCHANGED <<turnVars, hubVars, submitted, approving, buffer, text, resultFinalized,
                   reconVars>>

PostReturns ==
    /\ post = "accepted" /\ post' = "none"
    /\ messages' = Append(messages, User(1)) /\ isStreaming' = TRUE
    /\ Note(IF turn = 0 /\ inbox = <<>> THEN {"late"} ELSE {})
    /\ UNCHANGED <<turnVars, hubVars, submitted, approving, buffer, text, pending, resultFinalized,
                   queuedMessages, reconVars>>

\* Attachments that cannot be loaded: nothing is sent.
LoadFails ==
    /\ Trouble
    /\ post \in {"denying", "queueing", "adding"} /\ post' = "none"
    /\ UNCHANGED <<turnVars, wire, link, submitted, approving, streamingVars, listVars, reconVars,
                   mishaps>>

PostFails ==
    /\ Trouble
    /\ post = "sending" /\ post' = "none"
    /\ IF submitted = 1
       THEN submitted' = 0 /\ UNCHANGED <<queuedMessages, isStreaming, mishaps>>
       ELSE /\ queuedMessages' = <<>> /\ isStreaming' = FALSE
            /\ Note({"failed"}) /\ UNCHANGED submitted
    /\ UNCHANGED <<turnVars, wire, link, approving, buffer, text, pending, resultFinalized, messages,
                   reconVars>>

\* handleStop finalizes at once; what the batcher holds is not flushed first.
Stop ==
    /\ Trouble
    /\ isStreaming
    /\ Finalize(text, TRUE)
    /\ Note(Cut(TRUE) \cup {"stopped"} \cup
            (IF \E r \in Reconciliations : recon[r] # "none" THEN {"late"} ELSE {}))
    /\ UNCHANGED <<turnVars, wire, link, sendVars, buffer, pending, resultFinalized,
                   reconVars>>

RemoveQueuedMessage ==
    /\ Trouble
    /\ \E i \in DOMAIN queuedMessages : queuedMessages' = RemoveAt(queuedMessages, i)
    /\ Note({"removed"})
    /\ UNCHANGED <<turnVars, wire, link, sendVars, streamingVars, messages, reconVars>>

\* The prompt that has the place of the composer; a plan's stands beside it.
Prompt == IF "question" \in pending THEN "question" ELSE IF "tool" \in pending THEN "tool" ELSE "plan"

\* The plan's prompt is cleared at once, the others when the backend has answered. The
\* agent waits until it has the answer, so nothing is lost in letting that come at once.
Answer ==
    /\ Prompt \in pending \ approving
    /\ Answered(Prompt)
    /\ IF Prompt = "plan" THEN pending' = {} /\ UNCHANGED approving
       ELSE approving' = approving \cup {Prompt} /\ UNCHANGED pending
    /\ UNCHANGED <<running, inbox, turn, said, deferred, db, answering, raised, clock, asks, hubVars,
                   submitted, post, buffer, text, isStreaming, resultFinalized, listVars, reconVars,
                   mishaps>>

\* The prompt is cleared, even if it is the next one by then; when the request has failed
\* it stays.
AnswerReturns ==
    /\ \E kind \in approving :
          /\ approving' = approving \ {kind}
          /\ \/ pending' = pending \ {kind} /\ UNCHANGED faults
             \/ Trouble /\ UNCHANGED pending
    /\ UNCHANGED <<turnVars, wire, link, submitted, post, buffer, text, isStreaming,
                   resultFinalized, listVars, reconVars, mishaps>>

-----------------------------------------------------------------------------
(* Faults, and the reconciliation after a reconnection. *)
Disconnect ==
    /\ Trouble
    /\ link /\ link' = FALSE /\ wire' = <<>>
    /\ UNCHANGED <<turnVars, sendVars, streamingVars, listVars, reconVars, mishaps>>

\* A broadcast that times out is lost; a message that a slow client's retry goroutine
\* holds arrives after the one behind it.
HubFaults ==
    /\ Trouble
    /\ wire # <<>>
    /\ \/ wire' = Tail(wire)
       \/ Len(wire) > 1 /\ wire' = <<wire[2], wire[1]>> \o SubSeq(wire, 3, Len(wire))
    /\ Note({"hub"})
    /\ UNCHANGED <<turnVars, link, sendVars, streamingVars, listVars, reconVars>>

\* Every reconnection starts a reconciliation of its own, known here by the number of
\* faults before it. Without local streaming nothing is reconciled.
ClientReconnects ==
    /\ ~link /\ link' = TRUE
    /\ IF isStreaming THEN recon' = [recon EXCEPT ![faults] = "asked"] /\ UNCHANGED mishaps
       ELSE Note({"missed"}) /\ UNCHANGED recon
    /\ UNCHANGED <<turnVars, wire, faults, sendVars, streamingVars, listVars, fetched, prompts>>

Goes(r, to) == recon' = [recon EXCEPT ![r] = to]
Fetches(r, s) == fetched' = [fetched EXCEPT ![r] = s]
Finish(r) ==
    /\ Goes(r, "none") /\ Fetches(r, <<>>)
    /\ prompts' = [prompts EXCEPT ![r] = {}]
ReconStep == UNCHANGED <<turnVars, hubVars, sendVars>>

\* The server's answers. A conversation counts as streaming while its process
\* runs, and its snapshot is written some time after the text and the prompts.
ServerAnswers(r) ==
    /\ \/ recon[r] = "asked" /\ Goes(r, IF running THEN "active" ELSE "inactive")
          /\ UNCHANGED <<fetched, prompts, mishaps>>
       \/ recon[r] = "paging" /\ Goes(r, "paged") /\ Fetches(r, db)
          /\ UNCHANGED <<prompts, mishaps>>
       \/ recon[r] = "repaging" /\ Goes(r, "repaged") /\ Fetches(r, db)
          /\ UNCHANGED <<prompts, mishaps>>
       \/ recon[r] = "snapping" /\ Goes(r, "snapped")
          /\ \E n \in 0 .. Len(said) :
                /\ Fetches(r, SubSeq(said, 1, n))
                /\ Note(IF n < Len(said) THEN {"gap"} ELSE {})
                /\ \E p \in IF n = 0 THEN {{}} ELSE SUBSET raised :
                      prompts' = [prompts EXCEPT ![r] = p]
    /\ ReconStep /\ UNCHANGED <<streamingVars, listVars>>

ReconFails(r) ==
    /\ Trouble
    /\ recon[r] \in {"asked", "paging", "snapping", "repaging"}
    /\ Finish(r)
    /\ Note({"missed"})
    /\ UNCHANGED <<turnVars, wire, link, sendVars, streamingVars, listVars>>

\* Text that is still to be shown.
Coming == ToSet(buffer) \cup
          {wire[i].chunk : i \in {j \in DOMAIN wire : wire[j].type = "assistant_text"}}

\* Not active: finalize, and load the messages again. The batcher is not flushed.
FinalizeInactive(r) ==
    /\ recon[r] = "inactive" /\ Goes(r, "paging")
    /\ Finalize(text, TRUE)
    /\ Note(Cut(TRUE) \cup (IF buffer # <<>> \/ turn # 0 \/ inbox # <<>> THEN {"late"} ELSE {}))
    /\ pending' = Questions
    /\ ReconStep /\ UNCHANGED <<buffer, resultFinalized, fetched, prompts>>

BeginSnapshot(r) ==
    /\ recon[r] = "active" /\ Goes(r, "snapping")
    /\ ReconStep /\ UNCHANGED <<streamingVars, listVars, fetched, prompts, mishaps>>

\* Mutant of RestoreSnapshot: the snapshot is appended to what is streamed.
RestoreAppends(r) ==
    /\ recon[r] = "snapped" /\ fetched[r] # <<>> /\ Finish(r)
    /\ text' = text \o fetched[r] /\ isStreaming' = TRUE
    /\ ReconStep /\ UNCHANGED <<buffer, pending, resultFinalized, listVars, mishaps>>

\* restoreStreamingFromSnapshot replaces the streaming text, whatever has happened to
\* the turn in the meantime. A tool's prompt stays, a plan's is as in the snapshot, a
\* question is added.
RestoreSnapshot(r) ==
    /\ recon[r] = "snapped" /\ fetched[r] # <<>> /\ Finish(r)
    /\ text' = fetched[r] /\ isStreaming' = TRUE
    /\ pending' = (pending \ {"plan"}) \cup prompts[r]
    /\ Note((IF said = <<>> \/ turn = 0 THEN {"late"} ELSE {}) \cup
            (IF ToSet(db) \subseteq ToSet(messages) THEN {} ELSE {"missed"}) \cup
            (IF ToSet(text) \subseteq ToSet(fetched[r]) THEN {} ELSE {"gap"}) \cup
            (IF \/ ToSet(fetched[r] \o said) \cap ToSet(messages) # {}
                \/ ToSet(fetched[r]) \cap Coming # {} \/ buffer # <<>>
             THEN {"overlap"} ELSE {}))
    /\ ReconStep /\ UNCHANGED <<buffer, resultFinalized, listVars>>

NoSnapshot(r) ==
    /\ recon[r] = "snapped" /\ fetched[r] = <<>> /\ Goes(r, "repaging")
    /\ ReconStep /\ UNCHANGED <<streamingVars, listVars, fetched, prompts, mishaps>>

\* setMessagePage replaces the list. Streaming goes on, also when the turn has ended.
SetMessagePage(r) ==
    /\ recon[r] \in {"paged", "repaged"} /\ Finish(r)
    /\ messages' = fetched[r]
    /\ Note((IF fetched[r] # db \/ deferred # <<>> \/ post # "none" \/ queuedMessages # <<>>
             THEN {"paged"} ELSE {})
            \cup (IF recon[r] = "repaged" /\ turn = 0 THEN {"idle"} ELSE {})
            \cup (IF ToSet(fetched[r]) \cap (ToSet(text) \cup Coming) # {} THEN {"overlap"} ELSE {}))
    /\ ReconStep /\ UNCHANGED <<streamingVars, queuedMessages>>

-----------------------------------------------------------------------------
FeedNext ==
    \/ Accept \/ BeginTurn \/ Speak \/ PromptExpires \/ EndTurn
    \/ \E kind \in Kinds : RequestApproval(kind)
    \/ \E last \in {<<>>, <<Of("complete")>>, <<Of("error")>>} : EndProcess(last)
    \/ FlushFrame
    \/ ReceiveText \/ ReceiveInit \/ ReceiveResult \/ ReceiveTurnComplete
    \/ ReceiveEnd("complete") \/ ReceiveEnd("error") \/ ReceiveIdle
    \/ ReceiveAsk \/ ReceiveQuestionOver
    \/ Submit \/ PlanDenied \/ AddMessageOrQueue
    \/ PostReturns \/ LoadFails \/ PostFails \/ Stop \/ RemoveQueuedMessage
    \/ Answer \/ AnswerReturns
    \/ Disconnect \/ HubFaults \/ ClientReconnects
    \/ \E r \in Reconciliations :
          \/ ServerAnswers(r) \/ ReconFails(r) \/ FinalizeInactive(r) \/ BeginSnapshot(r)
          \/ RestoreSnapshot(r) \/ NoSnapshot(r) \/ SetMessagePage(r)

ReceiveSome ==
    \/ ReceiveText \/ ReceiveInit \/ ReceiveResult \/ ReceiveTurnComplete
    \/ ReceiveEnd("complete") \/ ReceiveEnd("error") \/ ReceiveIdle
    \/ ReceiveAsk \/ ReceiveQuestionOver

Reconcile(r) ==
    \/ ServerAnswers(r) \/ FinalizeInactive(r) \/ BeginSnapshot(r) \/ RestoreSnapshot(r)
    \/ NoSnapshot(r) \/ SetMessagePage(r)

\* Events are delivered, frames are painted, requests return.
FeedFairness ==
    /\ WF_feedVars(ReceiveSome) /\ WF_feedVars(FlushFrame)
    /\ \A r \in Reconciliations : WF_feedVars(Reconcile(r))
    /\ WF_feedVars(PostReturns) /\ WF_feedVars(AnswerReturns)

FeedSpec == FeedInit /\ [][FeedNext]_feedVars /\ FeedFairness

-----------------------------------------------------------------------------
Rising(s) == \A i, j \in DOMAIN s : i < j => s[i] < s[j]
Texts(s) == Only(s, Chunks)
Users(s) == Only(s, UserMessages)
Free(causes) == mishaps \cap causes = {}

\* The text on the screen, in finished messages and in the stream, is in the order in
\* which it was said, and nothing is shown twice.
ShownInOrder ==
    Free({"hub", "overlap", "late", "idle", "paged", "missed"}) =>
        Rising(Texts(messages) \o text \o buffer)

\* A user message is shown or queued once, and in the order of sending.
SentOnce == Free({"paged", "overtaken"}) => Rising(Users(messages) \o queuedMessages)

\* At rest the list shows what is stored.
AtRest ==
    /\ turn = 0 /\ inbox = <<>> /\ post = "none"
    /\ link /\ wire = <<>> /\ (\A r \in Reconciliations : recon[r] = "none") /\ buffer = <<>>
ShownIsStored ==
    AtRest /\ mishaps = {} =>
        /\ Texts(messages) = Texts(db)
        /\ Users(messages) = Users(db)

\* When the backend is done for good, the conversation stops streaming.
StreamingSettles ==
    <>[](turn = 0 /\ inbox = <<>> /\ post = "none" /\ link)
        => <>[](~isStreaming \/ pending # {} \/ ~Free({"hub", "missed", "late", "idle", "asked", "paged"}))
=============================================================================
