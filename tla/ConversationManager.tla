------------------------- MODULE ConversationManager -------------------------
(***************************************************************************)
(* How src/backend/agent/manager.go starts, restarts, resumes, stops and   *)
(* buries the backends of ONE conversation: the map entry                  *)
(* convProcesses[convID], the status in the database, concurrent API calls *)
(* and the completion handler of every backend that was started.  m.mu     *)
(* guards the map only: each call releases it for its database reads and   *)
(* for Start, and that is where the calls interleave.  A backend is used   *)
(* only through BackendContract.                                           *)
(***************************************************************************)
EXTENDS Naturals, FiniteSets

CONSTANTS Callers,      \* goroutines serving API calls on the conversation
          NoCaller,     \* nobody has stopped a backend
          MaxBackends   \* bound: backends created in one behaviour

ASSUME CallersAssumption  == NoCaller \notin Callers
ASSUME BackendsAssumption == MaxBackends \in Nat \ {0}

Backends  == 1..MaxBackends
NoBackend == 0

VARIABLES
    status,     \* Conversation.Status in the store; "none": not yet created
    entry,      \* convProcesses[convID], NoBackend when the key is absent
    created,    \* how many backends resolveBackend has made
    phase,      \* life of each backend, as in BackendContract
    owner,      \* who stopped each backend, as in BackendContract
    completion, \* handleConversationCompletion of each backend
    op,         \* the API call each caller is in
    pc,         \* where it is in that call
    proc,       \* its local variable proc / newBackend / backend
    overlapped, \* history: a backend was put in the map beside one that was
                \*   being started, or over one that was running
    misreported \* history: a start was reported as active after the burial of
                \*   its backend, or failed after an active conversation was stored

callVars == <<op, pc, proc>>
histVars == <<overlapped, misreported>>
vars == <<status, entry, created, phase, owner, completion, op, pc, proc,
          overlapped, misreported>>

Backend(b) == INSTANCE BackendContract WITH phase <- phase[b], owner <- owner[b]

Ops == {"none", "create", "createLocal", "send", "resume", "local", "stop", "complete"}
Local == {"local", "createLocal"}
Pcs == {"idle", "insert", "start", "undo", "activate", "trystop",
        "setIdle", "setCompleted"}

TypeOK ==
    /\ status \in {"none", "active", "idle", "completed"}
    /\ entry \in Backends \cup {NoBackend}
    /\ created \in 0..MaxBackends
    /\ phase \in [Backends -> {"new", "failed", "running", "exited", "closed", "done"}]
    /\ owner \in [Backends -> Callers \cup {NoCaller}]
    /\ completion \in [Backends -> {"none", "wait", "setIdle", "ended"}]
    /\ op \in [Callers -> Ops]
    /\ pc \in [Callers -> Pcs]
    /\ proc \in [Callers -> Backends \cup {NoBackend}]
    /\ overlapped \in BOOLEAN /\ misreported \in BOOLEAN

Init ==
    /\ status = "none" /\ entry = NoBackend /\ created = 0
    /\ phase = [b \in Backends |-> "new"]
    /\ owner = [b \in Backends |-> NoCaller]
    /\ completion = [b \in Backends |-> "none"]
    /\ op = [c \in Callers |-> "none"]
    /\ pc = [c \in Callers |-> "idle"]
    /\ proc = [c \in Callers |-> NoBackend]
    /\ overlapped = FALSE /\ misreported = FALSE

running(b) == b # NoBackend /\ phase[b] = "running"

(* A caller that has put a backend in the map and has not seen its Start   *)
(* (or the clean-up after a failed Start) through.                         *)
Starting(c) == pc[c] \in {"start", "undo"}

Goto(c, l) == pc' = [pc EXCEPT ![c] = l]
Return(c)  == /\ op' = [op EXCEPT ![c] = "none"] /\ Goto(c, "idle")
              /\ proc' = [proc EXCEPT ![c] = NoBackend]
-----------------------------------------------------------------------------
(* The calls begin.                                                        *)

(* StartConversation up to AddConversation.  Without an initial message    *)
(* the conversation is born idle, and no backend is started.               *)
CreateIdle ==
    /\ status = "none"
    /\ status' = "idle"
    /\ UNCHANGED <<entry, created, phase, owner, completion, callVars, histVars>>

BeginCreate(c) ==
    /\ pc[c] = "idle" /\ status = "none"
    /\ status' = "active"
    /\ \E o \in {"create", "createLocal"} : op' = [op EXCEPT ![c] = o]
    /\ Goto(c, "insert")
    /\ UNCHANGED <<entry, created, phase, owner, completion, proc, histVars>>

Idle(c) == pc[c] = "idle" /\ status # "none"
-----------------------------------------------------------------------------
(* Send and resume: first look at the map, then read the database unlocked.*)

(* SendConversationMessage uses a live backend as it is.  Otherwise it     *)
(* goes on to restart, by way of Ollama ("local") when the model is a      *)
(* local one that is not ready yet.                                        *)
BeginSend(c) ==
    /\ Idle(c) /\ ~(running(entry) /\ owner[entry] = NoCaller)
    /\ \E o \in {"send", "local"} : op' = [op EXCEPT ![c] = o]
    /\ Goto(c, "insert")
    /\ UNCHANGED <<status, entry, created, phase, owner, completion, proc, histVars>>

(* ResumeConversation needs a recorded agent session: some agent has run.  *)
BeginResume(c) ==
    /\ Idle(c) /\ ~running(entry)
    /\ \E b \in Backends : phase[b] \notin {"new", "failed"}
    /\ \E o \in {"resume", "local"} : op' = [op EXCEPT ![c] = o]
    /\ Goto(c, "insert")
    /\ UNCHANGED <<status, entry, created, phase, owner, completion, proc, histVars>>

(* A database read, resolveBackend or the Ollama preparation fails; only   *)
(* the Ollama path then marks the conversation idle (emitOllamaError).     *)
PrepareFails(c) ==
    /\ pc[c] = "insert"
    /\ Return(c)
    /\ status' = IF op[c] \in Local THEN "idle" ELSE status
    /\ misreported' = (misreported \/ op[c] = "create")
    /\ UNCHANGED <<entry, created, phase, owner, completion, overlapped>>

(* The double-check under m.mu: somebody else's backend is running.        *)
InsertFindsRunning(c) ==
    /\ pc[c] = "insert" /\ op[c] # "create" /\ running(entry)
    /\ Return(c)
    /\ UNCHANGED <<status, entry, created, phase, owner, completion, histVars>>

(* Mutant of Insert: a dead backend found in the map is started again.     *)
InsertReusesDead(c) ==
    /\ pc[c] = "insert" /\ (op[c] = "create" \/ ~running(entry))
    /\ created < MaxBackends
    /\ IF entry = NoBackend THEN created' = created + 1 /\ entry' = created'
                            ELSE UNCHANGED <<created, entry>>
    /\ proc' = [proc EXCEPT ![c] = entry'] /\ Goto(c, "start")
    /\ overlapped' = (overlapped \/ running(entry) \/ \E d \in Callers : Starting(d))
    /\ UNCHANGED <<status, phase, owner, completion, op, misreported>>

(* Publish the new backend under m.mu; StartConversation does not look.    *)
Insert(c) ==
    /\ pc[c] = "insert" /\ (op[c] = "create" \/ ~running(entry))
    /\ created < MaxBackends
    /\ created' = created + 1
    /\ entry' = created'
    /\ proc' = [proc EXCEPT ![c] = created'] /\ Goto(c, "start")
    /\ overlapped' = (overlapped \/ running(entry) \/ \E d \in Callers : Starting(d))
    /\ UNCHANGED <<status, phase, owner, completion, op, misreported>>

(* backend.Start() without m.mu; then the two handlers are launched.  A    *)
(* stop that came before makes the Start of an agent process fail; the Go  *)
(* loop starts, and finds the stop message in its queue.                   *)
StartSucceeds(c) ==
    /\ pc[c] = "start"
    /\ phase' = [phase EXCEPT ![proc[c]] = "running"]
    /\ completion' = [completion EXCEPT ![proc[c]] = "wait"]
    /\ IF op[c] \in {"create", "createLocal"}
       THEN Return(c)
       ELSE Goto(c, "activate") /\ UNCHANGED <<op, proc>>
    /\ UNCHANGED <<status, entry, created, owner, histVars>>

(* StartConversation goes on to mark the conversation idle, and like Send  *)
(* leaves the dead backend in the map; Resume and the Ollama path remove   *)
(* the entry.                                                              *)
StartFails(c) ==
    /\ pc[c] = "start"
    /\ phase' = [phase EXCEPT ![proc[c]] = "failed"]
    /\ IF op[c] = "send" THEN Return(c)
       ELSE /\ Goto(c, IF op[c] = "create" THEN "setIdle" ELSE "undo")
            /\ UNCHANGED <<op, proc>>
    /\ UNCHANGED <<status, entry, created, owner, completion, histVars>>

(* delete(m.convProcesses, convID), whatever the entry is by now; the      *)
(* Ollama path goes on to emitOllamaError, which marks it idle.            *)
UndoInsert(c) ==
    /\ pc[c] = "undo"
    /\ entry' = NoBackend
    /\ IF op[c] \in Local THEN Goto(c, "setIdle") /\ UNCHANGED <<op, proc>>
                           ELSE Return(c)
    /\ UNCHANGED <<status, created, phase, owner, completion, histVars>>

Activate(c) ==
    /\ pc[c] = "activate"
    /\ status' = "active"
    /\ misreported' = (misreported \/ completion[proc[c]] = "ended")
    /\ Return(c)
    /\ UNCHANGED <<entry, created, phase, owner, completion, overlapped>>
-----------------------------------------------------------------------------
(* StopConversation, and CompleteConversation which begins with it.        *)

AfterStop(c) == IF op[c] = "complete" THEN Goto(c, "setCompleted") /\ UNCHANGED <<op, proc>>
                                      ELSE Return(c)

(* Take the backend out of the map under m.mu ...                          *)
BeginStop(c) ==
    /\ Idle(c) /\ entry # NoBackend
    /\ entry' = NoBackend /\ proc' = [proc EXCEPT ![c] = entry]
    /\ \E o \in {"stop", "complete"} : op' = [op EXCEPT ![c] = o]
    /\ Goto(c, "trystop")
    /\ UNCHANGED <<status, created, phase, owner, completion, histVars>>

(* ... or find nothing to stop; CompleteConversation still completes.      *)
BeginComplete(c) ==
    /\ Idle(c) /\ entry = NoBackend
    /\ op' = [op EXCEPT ![c] = "complete"] /\ Goto(c, "setCompleted")
    /\ UNCHANGED <<status, entry, created, phase, owner, completion, proc, histVars>>

(* TryStop: only the caller that performed the stop goes on to the status. *)
TryStop(c) ==
    /\ pc[c] = "trystop"
    /\ IF owner[proc[c]] = NoCaller
       THEN owner' = [owner EXCEPT ![proc[c]] = c] /\ Goto(c, "setIdle") /\ UNCHANGED <<op, proc>>
       ELSE AfterStop(c) /\ UNCHANGED owner
    /\ UNCHANGED <<status, entry, created, phase, completion, histVars>>

(* Mutant of SetIdle: a status the store does not know.                    *)
SetStopped(c) ==
    /\ pc[c] = "setIdle"
    /\ status' = "stopped"
    /\ AfterStop(c)
    /\ UNCHANGED <<entry, created, phase, owner, completion, histVars>>

SetIdle(c) ==
    /\ pc[c] = "setIdle"
    /\ status' = "idle"
    /\ AfterStop(c)
    /\ UNCHANGED <<entry, created, phase, owner, completion, histVars>>

SetCompleted(c) ==
    /\ pc[c] = "setCompleted"
    /\ status' = "completed"
    /\ Return(c)
    /\ UNCHANGED <<entry, created, phase, owner, completion, histVars>>
-----------------------------------------------------------------------------
(* The backends, by their contract, and their completion handlers.         *)

BackendExits(b) ==
    /\ phase[b] = "running"
    /\ phase' = [phase EXCEPT ![b] = "exited"]
    /\ UNCHANGED <<status, entry, created, owner, completion, callVars, histVars>>

BackendCloses(b) ==
    /\ phase[b] \in {"exited", "closed"}
    /\ phase' = [phase EXCEPT ![b] = IF @ = "exited" THEN "closed" ELSE "done"]
    /\ UNCHANGED <<status, entry, created, owner, completion, callVars, histVars>>

(* Mutants of CompletionRemoves: whatever the entry is, it goes; it stays; *)
(* the handler returns early when the entry is somebody else's.            *)
CompletionRemovesAny(b) ==
    /\ completion[b] = "wait" /\ phase[b] = "done"
    /\ completion' = [completion EXCEPT ![b] = "setIdle"]
    /\ entry' = NoBackend
    /\ UNCHANGED <<status, created, phase, owner, callVars, histVars>>

CompletionKeeps(b) ==
    /\ completion[b] = "wait" /\ phase[b] = "done"
    /\ completion' = [completion EXCEPT ![b] = "setIdle"]
    /\ UNCHANGED <<status, entry, created, phase, owner, callVars, histVars>>

CompletionRemovesOwn(b) ==
    /\ completion[b] = "wait" /\ phase[b] = "done" /\ entry = b
    /\ completion' = [completion EXCEPT ![b] = "setIdle"]
    /\ entry' = NoBackend
    /\ UNCHANGED <<status, created, phase, owner, callVars, histVars>>

(* After Done: remove the map entry, if it is still this backend's ...     *)
CompletionRemoves(b) ==
    /\ completion[b] = "wait" /\ phase[b] = "done"
    /\ completion' = [completion EXCEPT ![b] = "setIdle"]
    /\ entry' = IF entry = b THEN NoBackend ELSE entry
    /\ UNCHANGED <<status, created, phase, owner, callVars, histVars>>

(* Mutant of CompletionSetsIdle: only for a backend that was not stopped.  *)
CompletionSetsIdleUnlessStopped(b) ==
    /\ completion[b] = "setIdle"
    /\ completion' = [completion EXCEPT ![b] = "ended"]
    /\ status' = IF owner[b] = NoCaller THEN "idle" ELSE status
    /\ UNCHANGED <<entry, created, phase, owner, callVars, histVars>>

(* ... and mark the conversation idle, whatever has started meanwhile.     *)
CompletionSetsIdle(b) ==
    /\ completion[b] = "setIdle"
    /\ completion' = [completion EXCEPT ![b] = "ended"]
    /\ status' = "idle"
    /\ UNCHANGED <<entry, created, phase, owner, callVars, histVars>>

Handler(b) == CompletionRemoves(b) \/ CompletionSetsIdle(b)
-----------------------------------------------------------------------------
Begin(c) ==
    BeginCreate(c) \/ BeginSend(c) \/ BeginResume(c) \/ BeginStop(c) \/ BeginComplete(c)

Proceed(c) ==
    \/ PrepareFails(c) \/ InsertFindsRunning(c) \/ Insert(c)
    \/ StartSucceeds(c) \/ StartFails(c) \/ UndoInsert(c) \/ Activate(c)
    \/ TryStop(c) \/ SetIdle(c) \/ SetCompleted(c)

Next ==
    \/ CreateIdle
    \/ \E c \in Callers : Begin(c) \/ Proceed(c)
    \/ \E b \in Backends : BackendExits(b) \/ BackendCloses(b) \/ Handler(b)

(* Goroutines run; a stopped backend exits and an exited one closes its    *)
(* channels (BackendContract).  Nobody has to make a call.                 *)
Fairness ==
    /\ \A c \in Callers : WF_vars(Proceed(c))
    /\ \A b \in Backends :
         WF_vars(Handler(b) \/ BackendCloses(b) \/ (owner[b] # NoCaller /\ BackendExits(b)))

Spec == Init /\ [][Next]_vars /\ Fairness
-----------------------------------------------------------------------------
(* A running backend can be found and stopped: it is in the map, or it has *)
(* been stopped, or a StopConversation that took it out is about to.       *)
NoOrphan ==
    \A b \in Backends : phase[b] = "running" =>
        \/ entry = b \/ owner[b] # NoCaller
        \/ \E c \in Callers : pc[c] = "trystop" /\ proc[c] = b

(* Only overlapping starts, or a send that overtakes the creation of the   *)
(* conversation, can orphan a backend: neither a stop, nor a failed start, *)
(* nor a completion handler that comes late ever does.                     *)
OrphanHasCause == ~overlapped => NoOrphan

(* "The double-check ... ensures only one actually starts a new process"   *)
(* (manager.go:1728): while the backend one send has started runs, no      *)
(* other send is starting another.                                         *)
OneSendStarts ==
    \A c, d \in Callers :
        c # d /\ op[c] = "send" /\ op[d] = "send" /\ pc[c] = "activate"
              /\ running(proc[c]) /\ owner[proc[c]] = NoCaller
        => pc[d] # "start"

(* A backend that has been buried is not in the map any more, so that the  *)
(* map does not grow and no call finds a dead backend there for ever.      *)
BuriedLeavesMap ==
    \A b \in Backends : completion[b] \in {"setIdle", "ended"} => entry # b

Quiet ==
    /\ \A c \in Callers : pc[c] = "idle"
    /\ \A b \in Backends : phase[b] # "running" /\ completion[b] \in {"none", "ended"}

(* A conversation that is active while nothing runs and nobody is at work  *)
(* on it got there in one of two ways: its backend ended before the call   *)
(* that started it reported "active", or its creation was abandoned.       *)
StuckActiveHasCause ==
    Quiet /\ status = "active" => misreported

(* "Active --> Idle: Agent completes" (data-models-persistence.md:415):    *)
(* once the last backend has ended and been buried the conversation is not *)
(* active.                                                                 *)
AgentCompletesIdle ==
    Quiet /\ created > 0 /\ completion[created] = "ended" => status # "active"

(* Every backend is driven as its contract allows: started once, stopped   *)
(* by one owner.                                                           *)
BackendsFollowContract ==
    [][\A b \in Backends : Backend(b)!Next \/ UNCHANGED Backend(b)!vars]_vars

(* Backends that have ended or must end, and whose completion handler has  *)
(* not yet dealt with it.                                                  *)
Unburied ==
    {b \in Backends :
        \/ phase[b] = "running" /\ owner[b] # NoCaller
        \/ phase[b] \in {"exited", "closed", "done"} /\ completion[b] # "ended"}

(* A backend that has ended, or was stopped through the API, is buried.    *)
DeadAreBuried == (Unburied # {}) ~> (Unburied = {})
=============================================================================
