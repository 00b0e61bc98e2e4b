--------------------------- MODULE TurnPersistence ---------------------------
(***************************************************************************)
(* How the messages of ONE conversation reach the database: the callers of *)
(* SendConversationMessage, the agent, handleConversationOutput of every   *)
(* backend the conversation has had (src/backend/agent/manager.go), the    *)
(* message table and the streaming snapshot (src/backend/store/sqlite.go), *)
(* an orderly shutdown, a kill at any point, and the recovery at the next  *)
(* start.  Starts do not overlap here: ConversationManager is about those. *)
(*                                                                         *)
(* A user message is a number; the turn that answers message m is turn m,  *)
(* and its text is abstracted to the number of text events it is made of.  *)
(* Tool and thinking events ("work") add no text, but open the turn and    *)
(* make the snapshot dirty.  Of the two events that end a turn (result and *)
(* turn_complete) the second finds nothing to store and is left out.       *)
(***************************************************************************)
EXTENDS Naturals, Sequences, FiniteSets

CONSTANTS MaxMessages,  \* bound: user messages sent
          MaxText,      \* bound: text and work events in one turn
          MaxBackends,  \* bound: backends started
          MaxDowns,     \* bound: times the application goes down
          NativeLoop    \* the backends are Go loops, not agent-runner processes

ASSUME BoundsAssumption ==
    /\ MaxMessages \in Nat \ {0} /\ MaxText \in Nat \ {0}
    /\ MaxBackends \in Nat \ {0} /\ MaxDowns \in Nat
ASSUME BackendKindAssumption == NativeLoop \in BOOLEAN

Messages == 1..MaxMessages
Backends == 1..MaxBackends
None     == 0                       \* no message, no backend

Text   == [turn : Messages \cup {None}, len : 0..MaxText]
NoText == [turn |-> None, len |-> 0]

(* Rows of the message table.  "recovered" is an assistant message that    *)
(* ConvertSnapshotsToMessages made, "error" one that the completion        *)
(* handler synthesized for a backend that said nothing.                    *)
Row == [role : {"user", "assistant", "recovered", "error"},
        turn : Messages \cup {None}, len : 0..MaxText]
UserRow(m)    == [role |-> "user", turn |-> m, len |-> 0]
TextRow(r, t) == [role |-> r, turn |-> t.turn, len |-> t.len]
ErrorRow      == [role |-> "error", turn |-> None, len |-> 0]

VARIABLES
    app,       \* the sidecar: "up", "stopping" (m.ctx cancelled), "down", ...
    downs,     \* how often it went down
    log,       \* the messages table of the conversation, by position
    snapshot,  \* conversations.streaming_snapshot
    session,   \* conversations.agent_session_id is not empty
    current,   \* convProcesses[convID]
    started,   \* backends started so far
    alive,     \* the backend's agent runs
    inbox,     \* messages written to its stdin and not yet answered
    said,      \* events of the answer to the first of them
    output,    \* Output(): events not yet handled
    active,    \* inActiveTurn
    pending,   \* pendingUserMessage
    handler,   \* handleConversationOutput: where it is
    text,      \* currentAssistantMessage
    dirty,     \* snapshotDirty
    taken,     \* the deferred message the handler has taken and not stored
    burial,    \* handleConversationCompletion
    send,      \* SendConversationMessage of each user message: where it is
    target,    \* the backend it chose
    excused,   \* history: acknowledged messages the code gives up, see below
    missed     \* history: turns whose snapshot a restart passed over

dbVars    == <<log, snapshot, session>>
agentVars == <<alive, inbox, said>>
turnVars  == <<active, pending>>
localVars == <<handler, text, dirty, taken>>
sendVars  == <<send, target>>
mapVars   == <<current, started, burial>>
histVars  == <<excused, missed>>
vars == <<app, downs, log, snapshot, session, current, started, alive, inbox, said,
          output, active, pending, handler, text, dirty, taken,
          burial, send, target, excused, missed>>

Event == {"text", "work", "end"} \X Messages

TypeOK ==
    /\ app \in {"up", "stopping", "down", "convert", "clear"}
    /\ downs \in 0..MaxDowns
    /\ log \in Seq(Row) /\ snapshot \in Text /\ session \in BOOLEAN
    /\ current \in Backends \cup {None} /\ started \in 0..MaxBackends
    /\ alive \in [Backends -> BOOLEAN]
    /\ inbox \in [Backends -> Seq(Messages)]
    /\ said \in [Backends -> 0..MaxText]
    /\ output \in [Backends -> Seq(Event)]
    /\ active \in [Backends -> BOOLEAN]
    /\ pending \in [Backends -> Messages \cup {None}]
    /\ handler \in [Backends -> {"none", "loop", "store", "clear", "final",
                                 "check", "finalClear", "ended"}]
    /\ text \in [Backends -> Text] /\ dirty \in [Backends -> BOOLEAN]
    /\ taken \in [Backends -> Messages \cup {None}]
    /\ burial \in [Backends -> {"none", "wait", "ended"}]
    /\ send \in [Messages -> {"new", "decide", "store", "deliver", "acked", "failed"}]
    /\ target \in [Messages -> Backends \cup {None}]
    /\ excused \subseteq Messages /\ missed \subseteq Messages

FreshBackends(v) == [b \in Backends |-> v]

Init ==
    /\ app = "up" /\ downs = 0
    /\ log = <<>> /\ snapshot = NoText /\ session = FALSE
    /\ current = None /\ started = 0
    /\ alive = FreshBackends(FALSE) /\ inbox = FreshBackends(<<>>)
    /\ said = FreshBackends(0) /\ output = FreshBackends(<<>>)
    /\ active = FreshBackends(FALSE) /\ pending = FreshBackends(None)
    /\ handler = FreshBackends("none") /\ text = FreshBackends(NoText)
    /\ dirty = FreshBackends(FALSE) /\ taken = FreshBackends(None)
    /\ burial = FreshBackends("none")
    /\ send = [m \in Messages |-> "new"]
    /\ target = [m \in Messages |-> None]
    /\ excused = {} /\ missed = {}

Running == app \in {"up", "stopping"}
-----------------------------------------------------------------------------
(* SendConversationMessage.  Messages are numbered in the order in which   *)
(* the calls begin; the calls themselves overlap freely.                   *)

Begins(m) ==
    /\ app = "up" /\ send[m] = "new"
    /\ \A k \in Messages : k < m => send[k] # "new"

(* The backend in the map is running: use it.                              *)
SendFindsBackend(m) ==
    /\ Begins(m) /\ current # None /\ alive[current]
    /\ target' = [target EXCEPT ![m] = current]
    /\ send' = [send EXCEPT ![m] = "decide"]
    /\ UNCHANGED <<app, downs, dbVars, mapVars, agentVars, output, turnVars,
                   localVars, histVars>>

(* Otherwise start a new one and its two handlers; needsRestart makes the  *)
(* message be stored at once.                                              *)
SendRestarts(m) ==
    /\ Begins(m) /\ ~(current # None /\ alive[current])
    /\ started < MaxBackends
    /\ started' = started + 1 /\ current' = started'
    /\ alive' = [alive EXCEPT ![started'] = TRUE]
    /\ handler' = [handler EXCEPT ![started'] = "loop"]
    /\ burial' = [burial EXCEPT ![started'] = "wait"]
    /\ target' = [target EXCEPT ![m] = started']
    /\ send' = [send EXCEPT ![m] = "store"]
    /\ UNCHANGED <<app, downs, dbVars, inbox, said, output, turnVars,
                   text, dirty, taken, histVars>>

(* StoreOrDeferMessage: a message already deferred is overwritten.         *)
Defer(m) ==
    /\ Running /\ send[m] = "decide" /\ active[target[m]]
    /\ pending' = [pending EXCEPT ![target[m]] = m]
    /\ send' = [send EXCEPT ![m] = "deliver"]
    /\ excused' = excused \cup ({pending[target[m]]} \ {None})
    /\ UNCHANGED <<app, downs, dbVars, mapVars, agentVars, output, active,
                   localVars, target, missed>>

StoreNow(m) ==
    /\ Running /\ send[m] = "decide" /\ ~active[target[m]]
    /\ send' = [send EXCEPT ![m] = "store"]
    /\ UNCHANGED <<app, downs, dbVars, mapVars, agentVars, output, turnVars,
                   localVars, target, histVars>>

Store(m) ==
    /\ Running /\ send[m] = "store"
    /\ log' = Append(log, UserRow(m))
    /\ send' = [send EXCEPT ![m] = "deliver"]
    /\ UNCHANGED <<app, downs, snapshot, session, mapVars, agentVars, output, turnVars,
                   localVars, target, histVars>>

Returns(m, result) == /\ send' = [send EXCEPT ![m] = result]
                      /\ target' = [target EXCEPT ![m] = None]

(* SendMessageWithAttachments: into the agent's stdin, or, when the agent  *)
(* is gone, an error, after which whatever is pending is discarded.  The   *)
(* queue of a Go loop takes a message even if the loop has ended.          *)
Deliver(m) ==
    /\ Running /\ send[m] = "deliver" /\ (alive[target[m]] \/ NativeLoop)
    /\ inbox' = IF alive[target[m]]
                THEN [inbox EXCEPT ![target[m]] = Append(@, m)] ELSE inbox
    /\ Returns(m, "acked")
    /\ UNCHANGED <<app, downs, dbVars, mapVars, alive, said, output, turnVars,
                   localVars, histVars>>

DeliverFails(m) ==
    /\ Running /\ send[m] = "deliver" /\ ~alive[target[m]] /\ ~NativeLoop
    /\ pending' = [pending EXCEPT ![target[m]] = None]
    /\ Returns(m, "failed")
    /\ excused' = excused \cup ({pending[target[m]]} \ {None})
    /\ UNCHANGED <<app, downs, dbVars, mapVars, agentVars, output, active,
                   localVars, missed>>

Sender(m) ==
    \/ SendFindsBackend(m) \/ SendRestarts(m) \/ Defer(m) \/ StoreNow(m)
    \/ Store(m) \/ Deliver(m) \/ DeliverFails(m)
-----------------------------------------------------------------------------
(* The agent behind a backend: it answers its messages one after another   *)
(* and may end at any time; what it has written can still be read.  Work   *)
(* that follows text would only have the same text flushed again.          *)

AgentSays(b) ==
    /\ alive[b] /\ inbox[b] # <<>> /\ said[b] < MaxText
    /\ said' = [said EXCEPT ![b] = @ + 1]
    /\ \E k \in IF said[b] = 0 THEN {"text", "work"} ELSE {"text"} :
         output' = [output EXCEPT ![b] = Append(@, <<k, Head(inbox[b])>>)]
    /\ UNCHANGED <<app, downs, dbVars, mapVars, alive, inbox, turnVars,
                   localVars, sendVars, histVars>>

AgentEndsTurn(b) ==
    /\ alive[b] /\ inbox[b] # <<>>
    /\ output' = [output EXCEPT ![b] = Append(@, <<"end", Head(inbox[b])>>)]
    /\ inbox' = [inbox EXCEPT ![b] = Tail(@)] /\ said' = [said EXCEPT ![b] = 0]
    /\ UNCHANGED <<app, downs, dbVars, mapVars, alive, turnVars,
                   localVars, sendVars, histVars>>

AgentDies(b) ==
    /\ alive[b]
    /\ alive' = [alive EXCEPT ![b] = FALSE]
    /\ inbox' = [inbox EXCEPT ![b] = <<>>] /\ said' = [said EXCEPT ![b] = 0]
    /\ UNCHANGED <<app, downs, dbVars, mapVars, output, turnVars,
                   localVars, sendVars, histVars>>

Agent(b) == AgentSays(b) \/ AgentEndsTurn(b) \/ AgentDies(b)
-----------------------------------------------------------------------------
(* handleConversationOutput.  Its writes in the loop use m.ctx and fail    *)
(* once that is cancelled; the final ones use a detached context.          *)

Looping(b) == Running /\ handler[b] = "loop"
NextEvent(b, k) == output[b] # <<>> /\ Head(output[b])[1] = k

(* session_id_update: the agent-runner sends it ahead of anything else it  *)
(* has to say, the Go loop never (its session_started is not looked at).   *)
RecordSession(b) ==
    /\ Looping(b) /\ app = "up" /\ ~NativeLoop /\ ~session
    /\ inbox[b] # <<>> \/ output[b] # <<>>
    /\ session' = TRUE
    /\ UNCHANGED <<app, downs, log, snapshot, mapVars, agentVars, output,
                   turnVars, localVars, sendVars, histVars>>

SessionHandled == session \/ NativeLoop \/ app = "stopping"

HandleText(b) ==
    /\ Looping(b) /\ NextEvent(b, "text") /\ SessionHandled
    /\ output' = [output EXCEPT ![b] = Tail(@)]
    /\ active' = [active EXCEPT ![b] = TRUE]
    /\ text' = [text EXCEPT ![b] = [turn |-> Head(output[b])[2], len |-> @.len + 1]]
    /\ dirty' = [dirty EXCEPT ![b] = TRUE]
    /\ UNCHANGED <<app, downs, dbVars, mapVars, agentVars, pending, handler, taken,
                   sendVars, histVars>>

HandleWork(b) ==
    /\ Looping(b) /\ NextEvent(b, "work") /\ SessionHandled
    /\ output' = [output EXCEPT ![b] = Tail(@)]
    /\ active' = [active EXCEPT ![b] = TRUE]
    /\ dirty' = [dirty EXCEPT ![b] = TRUE]
    /\ UNCHANGED <<app, downs, dbVars, mapVars, agentVars, pending, handler,
                   text, taken, sendVars, histVars>>

(* The debounce timer fires.                                               *)
FlushSnapshot(b) ==
    /\ Looping(b) /\ dirty[b] /\ app = "up"
    /\ snapshot' = text[b]
    /\ dirty' = [dirty EXCEPT ![b] = FALSE]
    /\ UNCHANGED <<app, downs, log, session, mapVars, agentVars, output, turnVars,
                   handler, text, taken, sendVars, histVars>>

(* Mutants of EndTurnAndTakePending: the deferred message is taken but     *)
(* kept; left for later; dropped.                                          *)
EndTurnAndCopyPending(b) ==
    /\ active' = [active EXCEPT ![b] = FALSE]
    /\ taken' = [taken EXCEPT ![b] = pending[b]]
    /\ UNCHANGED pending

EndTurnOnly(b) ==
    /\ active' = [active EXCEPT ![b] = FALSE]
    /\ IF handler[b] = "loop" /\ output[b] # <<>>
       THEN UNCHANGED <<taken, pending>>
       ELSE /\ taken' = [taken EXCEPT ![b] = pending[b]]
            /\ pending' = [pending EXCEPT ![b] = None]

EndTurnAndDropPending(b) ==
    /\ active' = [active EXCEPT ![b] = FALSE]
    /\ pending' = [pending EXCEPT ![b] = None]
    /\ UNCHANGED taken

EndTurnAndTakePending(b) ==
    /\ active' = [active EXCEPT ![b] = FALSE]
    /\ taken' = [taken EXCEPT ![b] = pending[b]]
    /\ pending' = [pending EXCEPT ![b] = None]

(* turn_complete, complete or result.                                      *)
HandleTurnEnd(b) ==
    /\ Looping(b) /\ NextEvent(b, "end") /\ SessionHandled
    /\ output' = [output EXCEPT ![b] = Tail(@)]
    /\ EndTurnAndTakePending(b)
    /\ handler' = [handler EXCEPT ![b] = "store"]
    /\ UNCHANGED <<app, downs, dbVars, mapVars, agentVars, text, dirty,
                   sendVars, histVars>>

(* [assistant, deferred user message] in one transaction.                  *)
TurnRows(b) ==
    (IF text[b].len > 0 THEN <<TextRow("assistant", text[b])>> ELSE <<>>)
    \o (IF taken[b] # None THEN <<UserRow(taken[b])>> ELSE <<>>)

(* Mutant of StoreTurn: currentAssistantMessage is not reset.              *)
StoreTurnKeepsText(b) ==
    /\ Running /\ handler[b] = "store"
    /\ log' = IF app = "up" THEN log \o TurnRows(b) ELSE log
    /\ dirty' = [dirty EXCEPT ![b] = FALSE]
    /\ taken' = [taken EXCEPT ![b] = None]
    /\ handler' = [handler EXCEPT ![b] = "clear"]
    /\ excused' = IF app = "up" THEN excused ELSE excused \cup ({taken[b]} \ {None})
    /\ UNCHANGED <<app, downs, snapshot, session, mapVars, agentVars, output, turnVars,
                   text, sendVars, missed>>

(* An error is logged only: the turn's state is reset all the same.        *)
StoreTurn(b) ==
    /\ Running /\ handler[b] = "store"
    /\ log' = IF app = "up" THEN log \o TurnRows(b) ELSE log
    /\ text' = [text EXCEPT ![b] = NoText] /\ dirty' = [dirty EXCEPT ![b] = FALSE]
    /\ taken' = [taken EXCEPT ![b] = None]
    /\ handler' = [handler EXCEPT ![b] = "clear"]
    /\ excused' = IF app = "up" THEN excused ELSE excused \cup ({taken[b]} \ {None})
    /\ UNCHANGED <<app, downs, snapshot, session, mapVars, agentVars, output, turnVars,
                   sendVars, missed>>

ClearSnapshot(b) ==
    /\ Running /\ handler[b] = "clear"
    /\ snapshot' = IF app = "up" THEN NoText ELSE snapshot
    /\ handler' = [handler EXCEPT ![b] = "loop"]
    /\ UNCHANGED <<app, downs, log, session, mapVars, agentVars, output, turnVars,
                   text, dirty, taken, sendVars, histVars>>

(* Output() is closed and drained, or m.ctx is cancelled: then the current *)
(* state is first forced into the snapshot.                                *)
LeaveLoop(b) ==
    /\ Looping(b)
    /\ \/ ~alive[b] /\ output[b] = <<>> /\ UNCHANGED snapshot
       \/ app = "stopping" /\ snapshot' = text[b]
    /\ EndTurnAndTakePending(b)
    /\ handler' = [handler EXCEPT ![b] = "final"]
    /\ UNCHANGED <<app, downs, log, session, mapVars, agentVars, output, text,
                   dirty, sendVars, histVars>>

FinalStore(b) ==
    /\ Running /\ handler[b] = "final"
    /\ log' = log \o TurnRows(b)
    /\ text' = [text EXCEPT ![b] = NoText] /\ dirty' = [dirty EXCEPT ![b] = FALSE]
    /\ taken' = [taken EXCEPT ![b] = None]
    /\ handler' = [handler EXCEPT ![b] = "check"]
    /\ UNCHANGED <<app, downs, snapshot, session, mapVars, agentVars, output, turnVars,
                   sendVars, histVars>>

(* isStaleHandler, read under m.mu and acted on after it is released.      *)
CheckStale(b) ==
    /\ Running /\ handler[b] = "check"
    /\ handler' = [handler EXCEPT ![b] =
                     IF current \notin {None, b} THEN "ended" ELSE "finalClear"]
    /\ UNCHANGED <<app, downs, dbVars, mapVars, agentVars, output, turnVars,
                   text, dirty, taken, sendVars, histVars>>

FinalClear(b) ==
    /\ Running /\ handler[b] = "finalClear"
    /\ snapshot' = NoText
    /\ handler' = [handler EXCEPT ![b] = "ended"]
    /\ UNCHANGED <<app, downs, log, session, mapVars, agentVars, output, turnVars,
                   text, dirty, taken, sendVars, histVars>>

Handler(b) ==
    \/ RecordSession(b) \/ HandleText(b) \/ HandleWork(b) \/ FlushSnapshot(b)
    \/ HandleTurnEnd(b) \/ StoreTurn(b) \/ ClearSnapshot(b)
    \/ LeaveLoop(b) \/ FinalStore(b) \/ CheckStale(b) \/ FinalClear(b)

(* handleConversationCompletion waits for Done, or at shutdown for 300 ms. *)
(* Unless an error event was seen, a backend that crashed gets an error    *)
(* message, and so does one of which no text has been handled, except at   *)
(* shutdown: a choice here, since how an agent ends is open.  Then the map *)
(* entry goes.                                                             *)
Bury(b) ==
    /\ Running /\ burial[b] = "wait" /\ (~alive[b] \/ app = "stopping")
    /\ \/ ~alive[b] /\ log' = Append(log, ErrorRow)
       \/ UNCHANGED log
    /\ current' = IF current = b THEN None ELSE current
    /\ burial' = [burial EXCEPT ![b] = "ended"]
    /\ UNCHANGED <<app, downs, snapshot, session, started, agentVars, output, turnVars,
                   localVars, sendVars, histVars>>
-----------------------------------------------------------------------------
(* The application.                                                        *)

(* SIGTERM: the app-level context is cancelled.                            *)
Shutdown ==
    /\ app = "up" /\ downs < MaxDowns
    /\ app' = "stopping"
    /\ UNCHANGED <<downs, dbVars, mapVars, agentVars, output, turnVars,
                   localVars, sendVars, histVars>>

(* The process ends, after the grace period or by SIGKILL at any moment:   *)
(* its memory is gone, and the agents with it.                             *)
GoDown ==
    /\ Running /\ downs < MaxDowns
    /\ app' = "down" /\ downs' = downs + 1
    /\ current' = None
    /\ alive' = FreshBackends(FALSE) /\ inbox' = FreshBackends(<<>>)
    /\ said' = FreshBackends(0) /\ output' = FreshBackends(<<>>)
    /\ active' = FreshBackends(FALSE) /\ pending' = FreshBackends(None)
    /\ handler' = [b \in Backends |-> IF b <= started THEN "ended" ELSE "none"]
    /\ burial'  = [b \in Backends |-> IF b <= started THEN "ended" ELSE "none"]
    /\ text' = FreshBackends(NoText) /\ dirty' = FreshBackends(FALSE)
    /\ taken' = FreshBackends(None)
    /\ send' = [m \in Messages |-> IF send[m] \in {"decide", "store", "deliver"}
                                   THEN "failed" ELSE send[m]]
    /\ excused' = excused \cup {m \in Messages : send[m] = "acked"}
    /\ target' = [m \in Messages |-> None]
    /\ UNCHANGED <<dbVars, started, missed>>

(* Mutant of Restart: ConvertSnapshotsToMessages is not called.            *)
RestartWithoutRecovery ==
    /\ app = "down" /\ app' = "up"
    /\ UNCHANGED <<downs, dbVars, mapVars, agentVars, output, turnVars,
                   localVars, sendVars, histVars>>

Restart ==
    /\ app = "down" /\ app' = "convert"
    /\ UNCHANGED <<downs, dbVars, mapVars, agentVars, output, turnVars,
                   localVars, sendVars, histVars>>

(* Mutant of AlreadyStored: the contents are not compared.                 *)
LastIsAnswer ==
    log # <<>> /\ log[Len(log)].role \in {"assistant", "recovered"}

(* The last message is an assistant message of the same content.           *)
AlreadyStored ==
    /\ log # <<>>
    /\ LET last == log[Len(log)]
       IN  last.role \in {"assistant", "recovered"} /\ last.turn = snapshot.turn
           /\ last.len = snapshot.len

(* ConvertSnapshotsToMessages, for a conversation whose session id is      *)
(* known: without text, or already stored, a snapshot is only cleared.     *)
ConvertSnapshot ==
    /\ app = "convert" /\ session
    /\ app' = "clear"
    /\ log' = IF snapshot.len = 0 \/ AlreadyStored THEN log
              ELSE Append(log, TextRow("recovered", snapshot))
    /\ UNCHANGED <<downs, snapshot, session, mapVars, agentVars, output, turnVars,
                   localVars, sendVars, histVars>>

(* GetInterruptedConversations does not select it.                         *)
NothingToConvert ==
    /\ app = "convert" /\ ~session
    /\ app' = "up" /\ missed' = missed \cup ({snapshot.turn} \ {None})
    /\ UNCHANGED <<downs, dbVars, mapVars, agentVars, output, turnVars,
                   localVars, sendVars, excused>>

ClearConverted ==
    /\ app = "clear" /\ app' = "up" /\ snapshot' = NoText
    /\ UNCHANGED <<downs, log, session, mapVars, agentVars, output, turnVars,
                   localVars, sendVars, histVars>>

(* The new application may itself be killed before it is up.               *)
KilledInInit ==
    /\ app \in {"convert", "clear"} /\ downs < MaxDowns
    /\ app' = "down" /\ downs' = downs + 1
    /\ UNCHANGED <<dbVars, mapVars, agentVars, output, turnVars,
                   localVars, sendVars, histVars>>

Recovery == Restart \/ ConvertSnapshot \/ NothingToConvert \/ ClearConverted
-----------------------------------------------------------------------------
Next ==
    \/ \E m \in Messages : Sender(m)
    \/ \E b \in Backends : Agent(b) \/ Handler(b) \/ Bury(b)
    \/ Shutdown \/ GoDown \/ KilledInInit \/ Recovery

(* The application, once down, is started again and comes up unless it is  *)
(* killed; the user, the agents and the moments of a kill are free.        *)
Spec == Init /\ [][Next]_vars /\ WF_vars(Recovery)
-----------------------------------------------------------------------------
Rows(r, m) == {i \in DOMAIN log : log[i].role = r /\ log[i].turn = m}

(* While the application lives a message and the answer to it are stored   *)
(* once, even when backends follow one another and messages are deferred.  *)
StoredOnce ==
    \A m \in Messages, role \in {"user", "assistant"} : Cardinality(Rows(role, m)) <= 1

(* No answer is stored twice (sqlite.go:2282 "Dedup ...").                 *)
AnswerOnce ==
    \A m \in Messages :
        Cardinality(Rows("assistant", m)) + Cardinality(Rows("recovered", m)) <= 1

(* The answer to a message never precedes the message, deferred or not.    *)
UserBeforeAnswer ==
    \A m \in Messages :
        \A u \in Rows("user", m) :
            \A a \in Rows("assistant", m) \cup Rows("recovered", m) : u < a

(* A message whose sending was acknowledged is stored, or will be at the   *)
(* end of the turn; the exceptions are the ones the code makes: a later    *)
(* message was deferred over it, a failed send discarded it, the           *)
(* application went down, or the turn ended when m.ctx was cancelled.      *)
AckedIsKept ==
    \A m \in Messages : send[m] = "acked" =>
        \/ Rows("user", m) # {} \/ m \in excused
        \/ \E b \in Backends : m \in {pending[b], taken[b]}

(* The lengths in which the answer of turn m would survive a kill right    *)
(* now: what is stored, and the snapshot if the next start will find it    *)
(* (one that a start has already passed over is lost).                     *)
Durable(m) ==
    {log[i].len : i \in Rows("assistant", m) \cup Rows("recovered", m)}
    \cup (IF session /\ m = snapshot.turn /\ m \notin missed
          THEN {snapshot.len} ELSE {})

(* Something survived that is now neither there nor part of what is.       *)
Forgets ==
    \E m \in Messages : \E n \in Durable(m) \ {0} : \A k \in Durable(m)' : k < n

OneHandler == Cardinality({b \in Backends : handler[b] \notin {"none", "ended"}}) <= 1

(* Until the application shuts down, and as long as no handler of an       *)
(* earlier backend is still at work (the handlers of a conversation share  *)
(* one snapshot), nothing of an answer that has become durable is lost:    *)
(* the snapshot goes only when the rows are there, whatever is killed when.*)
DurableStays == [][OneHandler /\ app # "stopping" => ~Forgets]_vars

(* "force-flush the latest snapshot state ...                              *)
(* so ConvertSnapshotsToMessages can recover it on next startup"           *)
(* (manager.go:1437): the same while the application shuts down.           *)
ShutdownKeepsAnswer == [][OneHandler /\ app = "stopping" => ~Forgets]_vars

Interrupted(m) == app = "down" /\ snapshot.turn = m /\ snapshot.len > 0
Kept(m)        == Rows("assistant", m) \cup Rows("recovered", m) # {}

(* After a crash the snapshot of a conversation whose agent has told its   *)
(* session id becomes a message, even if the application is killed again   *)
(* while it recovers.                                                      *)
SnapshotIsRecovered ==
    \A m \in Messages : (Interrupted(m) /\ session) ~> Kept(m)

(* "This recovers partial agent responses that were lost when the app was  *)
(* killed mid-turn" (sqlite.go:2231), whatever agent it was.               *)
PartialAnswerIsRecovered == \A m \in Messages : Interrupted(m) ~> Kept(m)
=============================================================================
