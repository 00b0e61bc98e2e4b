---------------------- MODULE ConversationManagerProofs ----------------------
(***************************************************************************)
(* Proofs about ConversationManager for any number of callers and of       *)
(* backends: what a completion handler leaves in the map, what can orphan  *)
(* a backend, what can leave a conversation active with nobody at work on  *)
(* it, and that every backend is driven as BackendContract allows.         *)
(***************************************************************************)
EXTENDS ConversationManager, TLAPS

USE DEF callVars, histVars, Goto, Return, AfterStop

(* Backends are numbered in the order of their creation; one that does not *)
(* exist yet is nowhere mentioned.                                         *)
Fresh ==
    /\ entry <= created /\ \A c \in Callers : proc[c] <= created
    /\ \A b \in Backends : b > created => phase[b] = "new" /\ completion[b] = "none"

(* What a caller knows of its backend; two callers never start the same.   *)
Locals ==
    \A c \in Callers :
        /\ pc[c] \in {"start", "undo", "activate", "trystop"} => proc[c] # NoBackend
        /\ pc[c] = "start" =>
             /\ phase[proc[c]] = "new"
             /\ \A d \in Callers : d # c /\ pc[d] = "start" => proc[d] # proc[c]
        /\ pc[c] = "undo" => phase[proc[c]] = "failed"
        /\ pc[c] = "activate" => completion[proc[c]] # "none"

(* Exactly the backends that came up have a completion handler.            *)
Handlers ==
    \A b \in Backends :
        /\ completion[b] = "none" <=> phase[b] \in {"new", "failed"}
        /\ phase[b] = "running" => completion[b] = "wait"

(* Someone is about to start b.                                            *)
BeingStarted(b) == \E c \in Callers : pc[c] = "start" /\ proc[c] = b

Tracked(b) ==
    \/ entry = b \/ owner[b] # NoCaller
    \/ \E c \in Callers : pc[c] = "trystop" /\ proc[c] = b

(* As long as starts have not overlapped, the map holds what the only      *)
(* caller that starts a backend has put there, or nothing; and a backend   *)
(* that runs or is being started is tracked.                               *)
Orderly ==
    ~overlapped =>
        /\ \A c, d \in Callers : Starting(c) /\ Starting(d) => c = d
        /\ \A c \in Callers : Starting(c) => entry \in {proc[c], NoBackend}
        /\ \A b \in Backends : phase[b] = "running" \/ BeingStarted(b) => Tracked(b)

Creating(c) ==
    \/ op[c] = "create" /\ pc[c] \in {"insert", "start", "setIdle"}
    \/ op[c] = "createLocal" /\ pc[c] \in {"insert", "start", "undo", "setIdle"}

(* Somebody will yet set the status: the creator, or a completion handler. *)
Responsible ==
    status = "active" /\ ~misreported =>
        \/ \E c \in Callers : Creating(c)
        \/ \E b \in Backends : completion[b] \in {"wait", "setIdle"}

IInv == TypeOK /\ Fresh /\ Locals /\ Handlers /\ BuriedLeavesMap /\ Orderly /\ Responsible

(* Backends are numbers, and NoBackend is the smallest of all.             *)
LEMMA BackendNumbers ==
    /\ Backends \subseteq Nat /\ NoBackend \notin Backends
    /\ NoBackend \in Nat /\ \A n \in Nat : NoBackend <= n
  BY BackendsAssumption DEF Backends, NoBackend

(* The invariant holds before the first call.                              *)
LEMMA InvInit == Init => IInv
<1> SUFFICES ASSUME Init PROVE IInv
  OBVIOUS
<1>1. TypeOK
  <2>1. created \in 0..MaxBackends /\ entry \in Backends \cup {NoBackend}
    BY BackendsAssumption DEF Init
  <2>2. /\ op \in [Callers -> Ops] /\ pc \in [Callers -> Pcs]
        /\ proc \in [Callers -> Backends \cup {NoBackend}]
    BY DEF Init, Ops, Pcs
  <2> QED
    BY <2>1, <2>2 DEF Init, TypeOK
<1>2. Fresh /\ Locals /\ Handlers
  BY DEF Init, Fresh, Locals, Handlers, NoBackend, Backends
<1>3. BuriedLeavesMap /\ Orderly /\ Responsible
  BY DEF Init, BuriedLeavesMap, Orderly, Starting, BeingStarted, Responsible
<1> QED
  BY <1>1, <1>2, <1>3 DEF IInv

(* Every action keeps the types.                                           *)
LEMMA TypeStep == TypeOK /\ [Next]_vars => TypeOK'
<1> SUFFICES ASSUME TypeOK, [Next]_vars PROVE TypeOK'
  OBVIOUS
<1> USE DEF TypeOK, Ops, Pcs
<1>1. CASE UNCHANGED vars
  BY <1>1 DEF vars, callVars, histVars
<1>2. CASE CreateIdle
  BY <1>2 DEF CreateIdle
<1>3. ASSUME NEW c \in Callers, BeginCreate(c) PROVE TypeOK'
  BY <1>3 DEF BeginCreate
<1>4. ASSUME NEW c \in Callers, BeginSend(c) PROVE TypeOK'
  BY <1>4 DEF BeginSend
<1>5. ASSUME NEW c \in Callers, BeginResume(c) PROVE TypeOK'
  BY <1>5 DEF BeginResume
<1>6. ASSUME NEW c \in Callers, BeginStop(c) PROVE TypeOK'
  BY <1>6 DEF BeginStop
<1>7. ASSUME NEW c \in Callers, BeginComplete(c) PROVE TypeOK'
  BY <1>7 DEF BeginComplete
<1>8. ASSUME NEW c \in Callers, PrepareFails(c) PROVE TypeOK'
  BY <1>8 DEF PrepareFails
<1>9. ASSUME NEW c \in Callers, InsertFindsRunning(c) PROVE TypeOK'
  BY <1>9 DEF InsertFindsRunning
<1>10. ASSUME NEW c \in Callers, Insert(c) PROVE TypeOK'
  <2>1. created' \in 0..MaxBackends /\ created' \in Backends
    BY <1>10, BackendsAssumption DEF Insert, Backends
  <2> QED
    BY <1>10, <2>1 DEF Insert
<1>11. ASSUME NEW c \in Callers, StartSucceeds(c) PROVE TypeOK'
  BY <1>11 DEF StartSucceeds
<1>12. ASSUME NEW c \in Callers, StartFails(c) PROVE TypeOK'
  BY <1>12 DEF StartFails
<1>13. ASSUME NEW c \in Callers, UndoInsert(c) PROVE TypeOK'
  BY <1>13 DEF UndoInsert
<1>14. ASSUME NEW c \in Callers, Activate(c) PROVE TypeOK'
  BY <1>14 DEF Activate
<1>15. ASSUME NEW c \in Callers, TryStop(c) PROVE TypeOK'
  BY <1>15 DEF TryStop
<1>16. ASSUME NEW c \in Callers, SetIdle(c) PROVE TypeOK'
  BY <1>16 DEF SetIdle
<1>17. ASSUME NEW c \in Callers, SetCompleted(c) PROVE TypeOK'
  BY <1>17 DEF SetCompleted
<1>18. ASSUME NEW b \in Backends, BackendExits(b) PROVE TypeOK'
  BY <1>18 DEF BackendExits
<1>19. ASSUME NEW b \in Backends, BackendCloses(b) PROVE TypeOK'
  BY <1>19 DEF BackendCloses
<1>20. ASSUME NEW b \in Backends, CompletionRemoves(b) PROVE TypeOK'
  BY <1>20 DEF CompletionRemoves
<1>21. ASSUME NEW b \in Backends, CompletionSetsIdle(b) PROVE TypeOK'
  BY <1>21 DEF CompletionSetsIdle
<1> QED
  BY <1>1, <1>2, <1>3, <1>4, <1>5, <1>6, <1>7, <1>8, <1>9, <1>10, <1>11,
     <1>12, <1>13, <1>14, <1>15, <1>16, <1>17, <1>18, <1>19, <1>20,
     <1>21
  DEF Next, Begin, Proceed, Handler

(* Except by Insert, nothing new is mentioned anywhere.                    *)
LEMMA FreshKept ==
    ASSUME TypeOK, Fresh, created' = created, entry' \in {entry, NoBackend},
           \A c \in Callers : proc'[c] \in {proc[c], entry, NoBackend},
           \A b \in Backends : b > created =>
               phase'[b] = phase[b] /\ completion'[b] = completion[b]
    PROVE  Fresh'
<1>1. created \in Nat /\ NoBackend <= created
  BY BackendNumbers, BackendsAssumption DEF TypeOK
<1> QED
  BY <1>1 DEF Fresh

(* Only Insert mentions a new backend, and it takes the next number.       *)
LEMMA FreshStep ==
    TypeOK /\ Fresh /\ Locals /\ Handlers /\ [Next]_vars => Fresh'
<1> SUFFICES ASSUME TypeOK, Fresh, Locals, Handlers, [Next]_vars PROVE Fresh'
  OBVIOUS
<1> USE DEF TypeOK
<1>1. CASE UNCHANGED <<created, entry, proc, phase, completion>>
  BY <1>1, FreshKept
<1>2. CASE CreateIdle
  BY <1>1, <1>2 DEF CreateIdle
<1>3. ASSUME NEW c \in Callers,
             \/ BeginCreate(c) \/ BeginSend(c) \/ BeginResume(c)
             \/ BeginComplete(c)
      PROVE  Fresh'
  BY <1>1, <1>3 DEF BeginCreate, BeginSend, BeginResume, BeginComplete
<1>4. CASE UNCHANGED vars
  BY <1>4, FreshKept DEF vars, callVars, histVars
<1>5. ASSUME NEW c \in Callers, BeginStop(c) PROVE Fresh'
  BY <1>5, FreshKept DEF BeginStop
<1>6. ASSUME NEW c \in Callers, PrepareFails(c) PROVE Fresh'
  BY <1>6, FreshKept DEF PrepareFails
<1>7. ASSUME NEW c \in Callers, InsertFindsRunning(c) PROVE Fresh'
  BY <1>7, FreshKept DEF InsertFindsRunning
<1>8. ASSUME NEW c \in Callers, Insert(c) PROVE Fresh'
  <2>1. created' = created + 1 /\ created \in Nat /\ entry' = created'
    BY <1>8, BackendsAssumption DEF Insert
  <2>2. \A d \in Callers : proc[d] \in Nat /\ proc[d] <= created
    BY BackendNumbers DEF Fresh
  <2>3. \A d \in Callers : proc'[d] = proc[d] \/ proc'[d] = created'
    BY <1>8 DEF Insert
  <2>4. \A d \in Callers : proc'[d] <= created'
    BY <2>1, <2>2, <2>3
  <2>5. \A b \in Backends : b > created' => b > created
    BY <2>1, BackendNumbers
  <2> QED
    BY <1>8, <2>1, <2>4, <2>5 DEF Insert, Fresh
<1>9. ASSUME NEW c \in Callers, StartSucceeds(c) PROVE Fresh'
  <2>1. proc[c] \in Backends /\ proc[c] <= created
    BY <1>9 DEF StartSucceeds, Locals, Fresh
  <2>2. \A b \in Backends : b > created => b # proc[c]
    BY <2>1, BackendNumbers, BackendsAssumption
  <2> QED
    BY <1>9, <2>1, <2>2, FreshKept DEF StartSucceeds
<1>10. ASSUME NEW c \in Callers, StartFails(c) PROVE Fresh'
  <2>1. proc[c] \in Backends /\ proc[c] <= created
    BY <1>10 DEF StartFails, Locals, Fresh
  <2>2. \A b \in Backends : b > created => b # proc[c]
    BY <2>1, BackendNumbers, BackendsAssumption
  <2> QED
    BY <1>10, <2>1, <2>2, FreshKept DEF StartFails
<1>11. ASSUME NEW c \in Callers, UndoInsert(c) PROVE Fresh'
  BY <1>11, FreshKept DEF UndoInsert
<1>12. ASSUME NEW c \in Callers, Activate(c) PROVE Fresh'
  BY <1>12, FreshKept DEF Activate
<1>13. ASSUME NEW c \in Callers, TryStop(c) PROVE Fresh'
  BY <1>13, FreshKept DEF TryStop
<1>14. ASSUME NEW c \in Callers, SetIdle(c) PROVE Fresh'
  BY <1>14, FreshKept DEF SetIdle
<1>15. ASSUME NEW c \in Callers, SetCompleted(c) PROVE Fresh'
  BY <1>15, FreshKept DEF SetCompleted
<1>16. ASSUME NEW b \in Backends, BackendExits(b) PROVE Fresh'
  BY <1>16, FreshKept DEF BackendExits, Fresh
<1>17. ASSUME NEW b \in Backends, BackendCloses(b) PROVE Fresh'
  BY <1>17, FreshKept DEF BackendCloses, Fresh
<1>18. ASSUME NEW b \in Backends, CompletionRemoves(b) PROVE Fresh'
  BY <1>18, FreshKept DEF CompletionRemoves, Fresh
<1>19. ASSUME NEW b \in Backends, CompletionSetsIdle(b) PROVE Fresh'
  BY <1>19, FreshKept DEF CompletionSetsIdle, Fresh
<1> QED
  BY <1>1, <1>2, <1>3, <1>4, <1>5, <1>6, <1>7, <1>8, <1>9, <1>10, <1>11,
     <1>12, <1>13, <1>14, <1>15, <1>16, <1>17, <1>18, <1>19
  DEF Next, Begin, Proceed, Handler

(* A completion handler exists from StartSucceeds on (manager.go:1847).    *)
LEMMA HandlersStep == TypeOK /\ Locals /\ Handlers /\ [Next]_vars => Handlers'
<1> SUFFICES ASSUME TypeOK, Locals, Handlers, [Next]_vars PROVE Handlers'
  OBVIOUS
<1> USE DEF TypeOK, Handlers, Locals
<1>1. CASE UNCHANGED <<phase, completion>>
  BY <1>1
<1>2. CASE CreateIdle
  BY <1>1, <1>2 DEF CreateIdle
<1>3. ASSUME NEW c \in Callers,
             \/ BeginCreate(c) \/ BeginSend(c) \/ BeginResume(c)
             \/ BeginStop(c) \/ BeginComplete(c) \/ PrepareFails(c)
             \/ InsertFindsRunning(c) \/ Insert(c) \/ UndoInsert(c)
             \/ Activate(c) \/ TryStop(c) \/ SetIdle(c)
             \/ SetCompleted(c)
      PROVE  Handlers'
  BY <1>1, <1>3
  DEF BeginCreate, BeginSend, BeginResume, BeginStop, BeginComplete,
      PrepareFails, InsertFindsRunning, Insert, UndoInsert, Activate, TryStop,
      SetIdle, SetCompleted
<1>4. CASE UNCHANGED vars
  BY <1>4 DEF vars, callVars, histVars
<1>5. ASSUME NEW c \in Callers, StartSucceeds(c) PROVE Handlers'
  BY <1>5 DEF StartSucceeds
<1>6. ASSUME NEW c \in Callers, StartFails(c) PROVE Handlers'
  BY <1>6 DEF StartFails
<1>7. ASSUME NEW b \in Backends, BackendExits(b) PROVE Handlers'
  BY <1>7 DEF BackendExits
<1>8. ASSUME NEW b \in Backends, BackendCloses(b) PROVE Handlers'
  BY <1>8 DEF BackendCloses
<1>9. ASSUME NEW b \in Backends, CompletionRemoves(b) PROVE Handlers'
  BY <1>9 DEF CompletionRemoves
<1>10. ASSUME NEW b \in Backends, CompletionSetsIdle(b) PROVE Handlers'
  BY <1>10 DEF CompletionSetsIdle
<1> QED
  BY <1>1, <1>2, <1>3, <1>4, <1>5, <1>6, <1>7, <1>8, <1>9, <1>10
  DEF Next, Begin, Proceed, Handler

(* Insert publishes a backend that is not buried, all else removes.        *)
LEMMA BuriedStep ==
    TypeOK /\ Fresh /\ Locals /\ BuriedLeavesMap /\ [Next]_vars => BuriedLeavesMap'
<1> SUFFICES ASSUME TypeOK, Fresh, Locals, BuriedLeavesMap, [Next]_vars
             PROVE  BuriedLeavesMap'
  OBVIOUS
<1> USE DEF TypeOK, Fresh, Locals, BuriedLeavesMap
<1>1. CASE UNCHANGED <<entry, completion>>
  BY <1>1, BackendNumbers
<1>2. CASE CreateIdle
  BY <1>1, <1>2 DEF CreateIdle
<1>3. ASSUME NEW c \in Callers,
             \/ BeginCreate(c) \/ BeginSend(c) \/ BeginResume(c)
             \/ BeginComplete(c) \/ PrepareFails(c)
             \/ InsertFindsRunning(c) \/ Activate(c) \/ TryStop(c)
             \/ SetIdle(c) \/ SetCompleted(c)
      PROVE  BuriedLeavesMap'
  BY <1>1, <1>3
  DEF BeginCreate, BeginSend, BeginResume, BeginComplete, PrepareFails,
      InsertFindsRunning, Activate, TryStop, SetIdle, SetCompleted
<1>4. ASSUME NEW b \in Backends,
             BackendExits(b) \/ BackendCloses(b)
      PROVE  BuriedLeavesMap'
  BY <1>1, <1>4 DEF BackendExits, BackendCloses
<1>5. CASE UNCHANGED vars
  BY <1>5, BackendNumbers DEF vars, callVars, histVars
<1>6. ASSUME NEW c \in Callers, BeginStop(c) PROVE BuriedLeavesMap'
  BY <1>6, BackendNumbers DEF BeginStop
<1>7. ASSUME NEW c \in Callers, Insert(c) PROVE BuriedLeavesMap'
  <2>1. created' > created /\ created' \in Backends
    BY <1>7, BackendsAssumption DEF Insert, Backends
  <2> QED
    BY <1>7, <2>1 DEF Insert
<1>8. ASSUME NEW c \in Callers, StartSucceeds(c) PROVE BuriedLeavesMap'
  BY <1>8, BackendNumbers DEF StartSucceeds
<1>9. ASSUME NEW c \in Callers, StartFails(c) PROVE BuriedLeavesMap'
  BY <1>9, BackendNumbers DEF StartFails
<1>10. ASSUME NEW c \in Callers, UndoInsert(c) PROVE BuriedLeavesMap'
  BY <1>10, BackendNumbers DEF UndoInsert
<1>11. ASSUME NEW b \in Backends, CompletionRemoves(b) PROVE BuriedLeavesMap'
  BY <1>11, BackendNumbers DEF CompletionRemoves
<1>12. ASSUME NEW b \in Backends, CompletionSetsIdle(b) PROVE BuriedLeavesMap'
  BY <1>12, BackendNumbers DEF CompletionSetsIdle
<1> QED
  BY <1>1, <1>2, <1>3, <1>4, <1>5, <1>6, <1>7, <1>8, <1>9, <1>10, <1>11,
     <1>12
  DEF Next, Begin, Proceed, Handler

(* Two callers in Start hold different backends, as Insert makes new ones. *)
LEMMA LocalsStep ==
    TypeOK /\ Fresh /\ Locals /\ Handlers /\ [Next]_vars => Locals'
<1> SUFFICES ASSUME TypeOK, Fresh, Locals, Handlers, [Next]_vars PROVE Locals'
  OBVIOUS
<1> USE DEF TypeOK, Locals
<1>1. CASE UNCHANGED vars
  BY <1>1, BackendNumbers DEF vars, callVars, histVars
<1>2. CASE CreateIdle
  BY <1>2, BackendNumbers DEF CreateIdle
<1>3. ASSUME NEW c \in Callers, BeginCreate(c) PROVE Locals'
  BY <1>3, BackendNumbers DEF BeginCreate
<1>4. ASSUME NEW c \in Callers, BeginSend(c) PROVE Locals'
  BY <1>4, BackendNumbers DEF BeginSend
<1>5. ASSUME NEW c \in Callers, BeginResume(c) PROVE Locals'
  BY <1>5, BackendNumbers DEF BeginResume
<1>6. ASSUME NEW c \in Callers, BeginStop(c) PROVE Locals'
  BY <1>6, BackendNumbers DEF BeginStop
<1>7. ASSUME NEW c \in Callers, BeginComplete(c) PROVE Locals'
  BY <1>7, BackendNumbers DEF BeginComplete
<1>8. ASSUME NEW c \in Callers, PrepareFails(c) PROVE Locals'
  BY <1>8, BackendNumbers DEF PrepareFails
<1>9. ASSUME NEW c \in Callers, InsertFindsRunning(c) PROVE Locals'
  BY <1>9, BackendNumbers DEF InsertFindsRunning
<1>10. ASSUME NEW c \in Callers, Insert(c) PROVE Locals'
  <2>1. created' = created + 1 /\ created \in Nat /\ created' \in Backends
    BY <1>10, BackendsAssumption DEF Insert, Backends
  <2>2. \A d \in Callers : proc[d] # created'
    BY <2>1, BackendNumbers DEF Fresh
  <2>3. phase[created'] = "new" /\ created' # NoBackend
    BY <2>1, BackendNumbers DEF Fresh
  <2>4. /\ pc' = [pc EXCEPT ![c] = "start"] /\ proc' = [proc EXCEPT ![c] = created']
        /\ UNCHANGED <<phase, completion>>
    BY <1>10 DEF Insert
  <2> QED
    BY <2>2, <2>3, <2>4
<1>11. ASSUME NEW c \in Callers, StartSucceeds(c) PROVE Locals'
  BY <1>11, BackendNumbers DEF StartSucceeds
<1>12. ASSUME NEW c \in Callers, StartFails(c) PROVE Locals'
  BY <1>12, BackendNumbers DEF StartFails
<1>13. ASSUME NEW c \in Callers, UndoInsert(c) PROVE Locals'
  BY <1>13, BackendNumbers DEF UndoInsert
<1>14. ASSUME NEW c \in Callers, Activate(c) PROVE Locals'
  BY <1>14, BackendNumbers DEF Activate
<1>15. ASSUME NEW c \in Callers, TryStop(c) PROVE Locals'
  BY <1>15, BackendNumbers DEF TryStop
<1>16. ASSUME NEW c \in Callers, SetIdle(c) PROVE Locals'
  BY <1>16, BackendNumbers DEF SetIdle
<1>17. ASSUME NEW c \in Callers, SetCompleted(c) PROVE Locals'
  BY <1>17, BackendNumbers DEF SetCompleted
<1>18. ASSUME NEW b \in Backends, BackendExits(b) PROVE Locals'
  BY <1>18, BackendNumbers DEF BackendExits
<1>19. ASSUME NEW b \in Backends, BackendCloses(b) PROVE Locals'
  BY <1>19, BackendNumbers DEF BackendCloses
<1>20. ASSUME NEW b \in Backends, CompletionRemoves(b) PROVE Locals'
  BY <1>20, BackendNumbers DEF CompletionRemoves
<1>21. ASSUME NEW b \in Backends, CompletionSetsIdle(b) PROVE Locals'
  BY <1>21, BackendNumbers DEF CompletionSetsIdle
<1> QED
  BY <1>1, <1>2, <1>3, <1>4, <1>5, <1>6, <1>7, <1>8, <1>9, <1>10, <1>11,
     <1>12, <1>13, <1>14, <1>15, <1>16, <1>17, <1>18, <1>19, <1>20,
     <1>21
  DEF Next, Begin, Proceed, Handler

(* Steps of callers that neither start nor stop.                           *)
LEMMA OrderlyKept ==
    ASSUME Orderly, UNCHANGED <<overlapped, entry, owner>>,
           \A b \in Backends : phase'[b] = "running" => phase[b] = "running",
           \A d \in Callers :
               pc[d] \in {"start", "undo", "trystop"} \/ pc'[d] \in {"start", "undo", "trystop"}
               => pc'[d] = pc[d] /\ proc'[d] = proc[d]
    PROVE  Orderly'
  BY DEF Orderly, Starting, BeingStarted, Tracked

(* Without overlapping starts nobody loses track of a backend.             *)
LEMMA OrderlyStep ==
    TypeOK /\ Fresh /\ Locals /\ Handlers /\ Orderly /\ [Next]_vars => Orderly'
<1> SUFFICES ASSUME TypeOK, Fresh, Locals, Handlers, Orderly, [Next]_vars
             PROVE  Orderly'
  OBVIOUS
<1> USE DEF TypeOK
<1>1. CASE UNCHANGED vars
  BY <1>1, OrderlyKept DEF vars, callVars, histVars
<1>2. CASE CreateIdle
  BY <1>2, OrderlyKept DEF CreateIdle
<1>3. ASSUME NEW c \in Callers, BeginCreate(c) PROVE Orderly'
  BY <1>3, OrderlyKept DEF BeginCreate
<1>4. ASSUME NEW c \in Callers, BeginSend(c) PROVE Orderly'
  BY <1>4, OrderlyKept DEF BeginSend, Idle
<1>5. ASSUME NEW c \in Callers, BeginResume(c) PROVE Orderly'
  BY <1>5, OrderlyKept DEF BeginResume, Idle
<1>6. ASSUME NEW c \in Callers, BeginStop(c) PROVE Orderly'
  <2>1. /\ UNCHANGED <<phase, owner, overlapped>> /\ pc[c] = "idle"
        /\ entry' = NoBackend /\ pc'[c] = "trystop" /\ proc'[c] = entry
    BY <1>6 DEF BeginStop, Idle
  <2>2. \A d \in Callers : d # c => pc'[d] = pc[d] /\ proc'[d] = proc[d]
    BY <1>6 DEF BeginStop
  <2>3. \A d \in Callers : Starting(d)' => Starting(d)
    BY <2>1, <2>2 DEF Starting
  <2>4. \A b \in Backends : BeingStarted(b)' => BeingStarted(b)
    BY <2>1, <2>2 DEF BeingStarted
  <2>5. \A b \in Backends : Tracked(b) => Tracked(b)'
    BY <2>1, <2>2 DEF Tracked
  <2> QED
    BY <2>1, <2>3, <2>4, <2>5 DEF Orderly
<1>7. ASSUME NEW c \in Callers, BeginComplete(c) PROVE Orderly'
  BY <1>7, OrderlyKept DEF BeginComplete, Idle
<1>8. ASSUME NEW c \in Callers, PrepareFails(c) PROVE Orderly'
  BY <1>8, OrderlyKept DEF PrepareFails
<1>9. ASSUME NEW c \in Callers, InsertFindsRunning(c) PROVE Orderly'
  BY <1>9, OrderlyKept DEF InsertFindsRunning
<1>10. ASSUME NEW c \in Callers, Insert(c) PROVE Orderly'
  <2> SUFFICES ASSUME ~overlapped' PROVE Orderly'
    BY DEF Orderly
  <2>1. ~overlapped /\ ~running(entry) /\ \A d \in Callers : ~Starting(d)
    BY <1>10 DEF Insert
  <2>2. /\ entry' = created' /\ proc' = [proc EXCEPT ![c] = created']
        /\ pc' = [pc EXCEPT ![c] = "start"] /\ UNCHANGED <<phase, owner>>
    BY <1>10 DEF Insert
  <2>3. \A d \in Callers : Starting(d)' => d = c
    BY <2>1, <2>2 DEF Starting
  <2>4. \A b \in Backends : BeingStarted(b)' => b = created'
    BY <2>2, <2>3 DEF BeingStarted, Starting
  <2>5. \A b \in Backends : phase[b] = "running" => b # entry /\ Tracked(b)
    BY <2>1, BackendNumbers DEF running, Orderly
  <2>6. pc[c] = "insert"
    BY <1>10 DEF Insert
  <2>7. \A b \in Backends : phase[b] = "running" => Tracked(b)'
    BY <2>2, <2>5, <2>6 DEF Tracked
  <2>8. \A b \in Backends : b = created' => Tracked(b)'
    BY <2>2 DEF Tracked
  <2> QED
    BY <2>2, <2>3, <2>4, <2>7, <2>8 DEF Orderly
<1>11. ASSUME NEW c \in Callers, StartSucceeds(c) PROVE Orderly'
  <2>1. BeingStarted(proc[c]) /\ proc[c] \in Backends
    BY <1>11 DEF StartSucceeds, BeingStarted, Locals
  <2>2. UNCHANGED <<entry, owner, overlapped>> /\ Starting(c) /\ ~Starting(c)'
    BY <1>11 DEF StartSucceeds, Starting
  <2>3. \A d \in Callers : d # c => pc'[d] = pc[d] /\ proc'[d] = proc[d]
    BY <1>11 DEF StartSucceeds
  <2>4. \A b \in Backends : phase'[b] = "running" => phase[b] = "running" \/ b = proc[c]
    BY <1>11 DEF StartSucceeds
  <2>5. \A b \in Backends : Tracked(b) => Tracked(b)'
    BY <1>11, <2>2, <2>3 DEF StartSucceeds, Tracked
  <2>6. \A b \in Backends : BeingStarted(b)' => BeingStarted(b)
    BY <2>2, <2>3 DEF BeingStarted, Starting
  <2>7. \A d \in Callers : Starting(d)' => Starting(d) /\ proc'[d] = proc[d]
    BY <2>2, <2>3 DEF Starting
  <2> QED
    BY <2>1, <2>2, <2>4, <2>5, <2>6, <2>7 DEF Orderly
<1>12. ASSUME NEW c \in Callers, StartFails(c) PROVE Orderly'
  <2>1. UNCHANGED <<entry, owner, overlapped>> /\ Starting(c) /\ pc[c] = "start"
    BY <1>12 DEF StartFails, Starting
  <2>2. \A d \in Callers : d # c => pc'[d] = pc[d] /\ proc'[d] = proc[d]
    BY <1>12 DEF StartFails
  <2>3. pc'[c] \in {"idle", "setIdle"} \/ (pc'[c] = "undo" /\ proc'[c] = proc[c])
    <3>1. CASE op[c] = "send"
      <4>1. pc' = [pc EXCEPT ![c] = "idle"]
        BY <1>12, <3>1, Zenon DEF StartFails
      <4> QED
        BY <4>1
    <3>2. CASE op[c] # "send"
      BY <1>12, <3>2 DEF StartFails
    <3> QED
      BY <3>1, <3>2
  <2>4. \A b \in Backends : phase'[b] = "running" => phase[b] = "running"
    BY <1>12 DEF StartFails, Locals
  <2>5. \A b \in Backends : Tracked(b) => Tracked(b)'
    BY <2>1, <2>2 DEF Tracked
  <2>6. \A b \in Backends : BeingStarted(b)' => BeingStarted(b)
    BY <2>2, <2>3 DEF BeingStarted
  <2>7. \A d \in Callers : Starting(d)' => Starting(d) /\ proc'[d] = proc[d]
    BY <2>1, <2>2, <2>3 DEF Starting
  <2> QED
    BY <2>1, <2>4, <2>5, <2>6, <2>7 DEF Orderly
<1>13. ASSUME NEW c \in Callers, UndoInsert(c) PROVE Orderly'
  <2> SUFFICES ASSUME ~overlapped PROVE Orderly'
    BY <1>13 DEF UndoInsert, Orderly
  <2>1. UNCHANGED <<phase, owner>> /\ Starting(c) /\ pc[c] = "undo" /\ entry' = NoBackend
    BY <1>13 DEF UndoInsert, Starting
  <2>2. \A d \in Callers : d # c => pc'[d] = pc[d] /\ proc'[d] = proc[d]
    BY <1>13 DEF UndoInsert
  <2>3. pc'[c] \in {"idle", "setIdle"}
    BY <1>13 DEF UndoInsert
  <2>4. \A d \in Callers : ~Starting(d)'
    BY <2>1, <2>2, <2>3 DEF Starting, Orderly
  <2>5. \A b \in Backends : ~BeingStarted(b)'
    BY <2>4 DEF BeingStarted, Starting
  <2>6. entry \in {proc[c], NoBackend} /\ phase[proc[c]] = "failed"
    BY <2>1 DEF Orderly, Locals
  <2>7. \A b \in Backends : phase[b] = "running" => b # entry /\ Tracked(b)
    BY <2>6, BackendNumbers DEF Orderly
  <2>8. \A b \in Backends : phase'[b] = "running" => Tracked(b)'
    BY <2>1, <2>2, <2>7 DEF Tracked
  <2> QED
    BY <2>4, <2>5, <2>8 DEF Orderly
<1>14. ASSUME NEW c \in Callers, Activate(c) PROVE Orderly'
  BY <1>14, OrderlyKept DEF Activate
<1>15. ASSUME NEW c \in Callers, TryStop(c) PROVE Orderly'
  <2>1. UNCHANGED <<phase, entry, overlapped>> /\ pc[c] = "trystop"
    BY <1>15 DEF TryStop
  <2>2. \A d \in Callers : d # c => pc'[d] = pc[d] /\ proc'[d] = proc[d]
    BY <1>15 DEF TryStop
  <2>3. pc'[c] \notin {"start", "undo"}
    BY <1>15 DEF TryStop
  <2>4. proc[c] \in Backends
    BY <2>1 DEF Locals
  <2>5. \A b \in Backends : Tracked(b) => Tracked(b)'
    <3>1. owner'[proc[c]] # NoCaller
      BY <1>15, <2>4, CallersAssumption DEF TryStop
    <3>2. \A b \in Backends : owner[b] # NoCaller => owner'[b] # NoCaller
      BY <1>15, <2>4, CallersAssumption DEF TryStop
    <3> QED
      BY <2>1, <2>2, <3>1, <3>2 DEF Tracked
  <2>6. \A d \in Callers : Starting(d)' => Starting(d) /\ proc'[d] = proc[d]
    BY <2>2, <2>3 DEF Starting
  <2>7. \A b \in Backends : BeingStarted(b)' => BeingStarted(b)
    BY <2>2, <2>3 DEF BeingStarted
  <2> QED
    BY <2>1, <2>5, <2>6, <2>7 DEF Orderly
<1>16. ASSUME NEW c \in Callers, SetIdle(c) PROVE Orderly'
  BY <1>16, OrderlyKept DEF SetIdle
<1>17. ASSUME NEW c \in Callers, SetCompleted(c) PROVE Orderly'
  BY <1>17, OrderlyKept DEF SetCompleted
<1>18. ASSUME NEW b \in Backends, BackendExits(b) PROVE Orderly'
  BY <1>18, OrderlyKept DEF BackendExits
<1>19. ASSUME NEW b \in Backends, BackendCloses(b) PROVE Orderly'
  BY <1>19, OrderlyKept DEF BackendCloses
<1>20. ASSUME NEW b \in Backends, CompletionRemoves(b) PROVE Orderly'
  <2>1. /\ phase[b] = "done" /\ UNCHANGED <<phase, owner, overlapped, pc, proc>>
        /\ entry' \in {entry, NoBackend} /\ (entry' # entry => entry = b)
    BY <1>20 DEF CompletionRemoves
  <2>2. ~BeingStarted(b)
    BY <2>1 DEF BeingStarted, Locals
  <2>3. \A a \in Backends : a # b /\ Tracked(a) => Tracked(a)'
    BY <2>1 DEF Tracked
  <2>4. \A a \in Backends : BeingStarted(a)' => BeingStarted(a)
    BY <2>1 DEF BeingStarted
  <2>5. \A d \in Callers : Starting(d)' => Starting(d) /\ proc'[d] = proc[d]
    BY <2>1 DEF Starting
  <2> QED
    BY <2>1, <2>2, <2>3, <2>4, <2>5 DEF Orderly
<1>21. ASSUME NEW b \in Backends, CompletionSetsIdle(b) PROVE Orderly'
  BY <1>21, OrderlyKept DEF CompletionSetsIdle
<1> QED
  BY <1>1, <1>2, <1>3, <1>4, <1>5, <1>6, <1>7, <1>8, <1>9, <1>10, <1>11,
     <1>12, <1>13, <1>14, <1>15, <1>16, <1>17, <1>18, <1>19, <1>20,
     <1>21
  DEF Next, Begin, Proceed, Handler

(* Steps that neither end a creation nor a completion handler.             *)
LEMMA ResponsibleKept ==
    ASSUME Responsible, status' = "active" => status = "active",
           misreported => misreported',
           \A d \in Callers : Creating(d) => Creating(d)',
           \A b \in Backends : completion[b] \in {"wait", "setIdle"}
                                => completion'[b] \in {"wait", "setIdle"}
    PROVE  Responsible'
  BY DEF Responsible

(* Whoever stops being responsible has set the status, or is excused.      *)
LEMMA ResponsibleStep ==
    TypeOK /\ Locals /\ Handlers /\ Responsible /\ [Next]_vars => Responsible'
<1> SUFFICES ASSUME TypeOK, Locals, Handlers, Responsible, [Next]_vars
             PROVE  Responsible'
  OBVIOUS
<1> USE DEF TypeOK
<1>1. CASE UNCHANGED vars
  BY <1>1 DEF vars, callVars, histVars, Responsible, Creating
<1>2. CASE CreateIdle
  BY <1>2 DEF CreateIdle, Responsible
<1>3. ASSUME NEW c \in Callers, BeginCreate(c) PROVE Responsible'
  <2>1. Creating(c)'
    BY <1>3 DEF BeginCreate, Creating
  <2> QED
    BY <2>1 DEF Responsible
<1>4. ASSUME NEW c \in Callers, BeginSend(c) PROVE Responsible'
  <2>1. \A d \in Callers : Creating(d) => d # c
    BY <1>4 DEF BeginSend, Idle, Creating
  <2>2. \A d \in Callers : Creating(d) => Creating(d)'
    BY <1>4, <2>1 DEF BeginSend, Creating
  <2> QED
    BY <1>4, <2>2, ResponsibleKept DEF BeginSend
<1>5. ASSUME NEW c \in Callers, BeginResume(c) PROVE Responsible'
  <2>1. \A d \in Callers : Creating(d) => d # c
    BY <1>5 DEF BeginResume, Idle, Creating
  <2>2. \A d \in Callers : Creating(d) => Creating(d)'
    BY <1>5, <2>1 DEF BeginResume, Creating
  <2> QED
    BY <1>5, <2>2, ResponsibleKept DEF BeginResume
<1>6. ASSUME NEW c \in Callers, BeginStop(c) PROVE Responsible'
  <2>1. \A d \in Callers : Creating(d) => d # c
    BY <1>6 DEF BeginStop, Idle, Creating
  <2>2. \A d \in Callers : Creating(d) => Creating(d)'
    BY <1>6, <2>1 DEF BeginStop, Creating
  <2> QED
    BY <1>6, <2>2, ResponsibleKept DEF BeginStop
<1>7. ASSUME NEW c \in Callers, BeginComplete(c) PROVE Responsible'
  <2>1. \A d \in Callers : Creating(d) => d # c
    BY <1>7 DEF BeginComplete, Idle, Creating
  <2>2. \A d \in Callers : Creating(d) => Creating(d)'
    BY <1>7, <2>1 DEF BeginComplete, Creating
  <2> QED
    BY <1>7, <2>2, ResponsibleKept DEF BeginComplete
<1>8. ASSUME NEW c \in Callers, PrepareFails(c) PROVE Responsible'
  <2>1. \A d \in Callers : d # c /\ Creating(d) => Creating(d)'
    BY <1>8 DEF PrepareFails, Creating
  <2>2. Creating(c) => misreported' \/ status' # "active"
    BY <1>8 DEF PrepareFails, Creating, Local
  <2> QED
    BY <1>8, <2>1, <2>2 DEF PrepareFails, Responsible
<1>9. ASSUME NEW c \in Callers, InsertFindsRunning(c) PROVE Responsible'
  <2>1. entry \in Backends /\ completion'[entry] = "wait"
    BY <1>9 DEF InsertFindsRunning, running, Handlers
  <2> QED
    BY <2>1 DEF Responsible
<1>10. ASSUME NEW c \in Callers, Insert(c) PROVE Responsible'
  <2>1. \A d \in Callers : Creating(d) => Creating(d)'
    BY <1>10 DEF Insert, Creating
  <2> QED
    BY <1>10, <2>1, ResponsibleKept DEF Insert
<1>11. ASSUME NEW c \in Callers, StartSucceeds(c) PROVE Responsible'
  <2>1. proc[c] \in Backends /\ completion'[proc[c]] = "wait"
    BY <1>11 DEF StartSucceeds, Locals
  <2> QED
    BY <2>1 DEF Responsible
<1>12. ASSUME NEW c \in Callers, StartFails(c) PROVE Responsible'
  <2>1. \A d \in Callers : d # c /\ Creating(d) => Creating(d)'
    BY <1>12 DEF StartFails, Creating
  <2>2. Creating(c) => Creating(c)'
    BY <1>12 DEF StartFails, Creating
  <2> QED
    BY <1>12, <2>1, <2>2 DEF StartFails, Responsible
<1>13. ASSUME NEW c \in Callers, UndoInsert(c) PROVE Responsible'
  <2>1. \A d \in Callers : d # c /\ Creating(d) => Creating(d)'
    BY <1>13 DEF UndoInsert, Creating
  <2>2. Creating(c) => Creating(c)'
    BY <1>13 DEF UndoInsert, Creating, Local
  <2> QED
    BY <1>13, <2>1, <2>2 DEF UndoInsert, Responsible
<1>14. ASSUME NEW c \in Callers, Activate(c) PROVE Responsible'
  <2>1. completion'[proc[c]] = completion[proc[c]] /\ proc[c] \in Backends
    BY <1>14 DEF Activate, Locals
  <2>2. completion[proc[c]] # "ended" \/ misreported'
    BY <1>14 DEF Activate
  <2>3. completion[proc[c]] \in {"wait", "setIdle"} \/ misreported'
    BY <1>14, <2>1, <2>2 DEF Activate, Locals
  <2> QED
    BY <2>1, <2>3 DEF Responsible
<1>15. ASSUME NEW c \in Callers, TryStop(c) PROVE Responsible'
  <2>1. \A d \in Callers : Creating(d) => d # c
    BY <1>15 DEF TryStop, Idle, Creating
  <2>2. \A d \in Callers : Creating(d) => Creating(d)'
    BY <1>15, <2>1 DEF TryStop, Creating
  <2> QED
    BY <1>15, <2>2, ResponsibleKept DEF TryStop
<1>16. ASSUME NEW c \in Callers, SetIdle(c) PROVE Responsible'
  BY <1>16 DEF SetIdle, Responsible
<1>17. ASSUME NEW c \in Callers, SetCompleted(c) PROVE Responsible'
  <2>1. \A d \in Callers : Creating(d) => d # c
    BY <1>17 DEF SetCompleted, Idle, Creating
  <2>2. \A d \in Callers : Creating(d) => Creating(d)'
    BY <1>17, <2>1 DEF SetCompleted, Creating
  <2> QED
    BY <1>17, <2>2, ResponsibleKept DEF SetCompleted
<1>18. ASSUME NEW b \in Backends, BackendExits(b) PROVE Responsible'
  <2>1. \A d \in Callers : Creating(d) => Creating(d)'
    BY <1>18 DEF BackendExits, Creating
  <2> QED
    BY <1>18, <2>1, ResponsibleKept DEF BackendExits
<1>19. ASSUME NEW b \in Backends, BackendCloses(b) PROVE Responsible'
  <2>1. \A d \in Callers : Creating(d) => Creating(d)'
    BY <1>19 DEF BackendCloses, Creating
  <2> QED
    BY <1>19, <2>1, ResponsibleKept DEF BackendCloses
<1>20. ASSUME NEW b \in Backends, CompletionRemoves(b) PROVE Responsible'
  <2>1. \A d \in Callers : Creating(d) => Creating(d)'
    BY <1>20 DEF CompletionRemoves, Creating
  <2> QED
    BY <1>20, <2>1, ResponsibleKept DEF CompletionRemoves
<1>21. ASSUME NEW b \in Backends, CompletionSetsIdle(b) PROVE Responsible'
  BY <1>21 DEF CompletionSetsIdle, Responsible
<1> QED
  BY <1>1, <1>2, <1>3, <1>4, <1>5, <1>6, <1>7, <1>8, <1>9, <1>10, <1>11,
     <1>12, <1>13, <1>14, <1>15, <1>16, <1>17, <1>18, <1>19, <1>20,
     <1>21
  DEF Next, Begin, Proceed, Handler

(* IInv is an invariant, for any number of callers and of backends         *)
(* (manager.go:1699, 1961, 2226, 1587).                                    *)
THEOREM Invariant == Spec => []IInv
<1>1. IInv /\ [Next]_vars => IInv'
  BY TypeStep, FreshStep, LocalsStep, HandlersStep, BuriedStep, OrderlyStep,
     ResponsibleStep DEF IInv
<1> QED
  BY <1>1, InvInit, PTL DEF Spec
-----------------------------------------------------------------------------
(* The store, the map and the locals of the calls keep their types, for any*)
(* number of callers and of backends.                                      *)
THEOREM TypeCorrect == Spec => []TypeOK
<1>1. IInv => TypeOK
  BY DEF IInv
<1> QED
  BY <1>1, Invariant, PTL

(* The map keeps no backend whose completion handler has passed            *)
(* (manager.go:1672), however the calls interleave.                        *)
THEOREM BuriedLeavesMapHolds == Spec => []BuriedLeavesMap
<1>1. IInv => BuriedLeavesMap
  BY DEF IInv
<1> QED
  BY <1>1, Invariant, PTL

(* Only overlapping starts can orphan a running backend: no interleaving of*)
(* stops, failed starts and late completion handlers does.                 *)
THEOREM OrphanHasCauseHolds == Spec => []OrphanHasCause
<1>1. IInv => OrphanHasCause
  BY DEF IInv, Orderly, OrphanHasCause, NoOrphan, Tracked
<1> QED
  BY <1>1, Invariant, PTL

(* A conversation is left active with nobody at work on it only in the two *)
(* ways StuckActiveHasCause names.                                         *)
THEOREM StuckActiveHasCauseHolds == Spec => []StuckActiveHasCause
<1>1. IInv => StuckActiveHasCause
  BY DEF IInv, Responsible, Creating, StuckActiveHasCause, Quiet
<1> QED
  BY <1>1, Invariant, PTL

(* A caller or handler drives each backend by the steps of its contract.   *)
LEMMA ContractKept ==
    ASSUME UNCHANGED <<phase, owner>>, NEW b \in Backends
    PROVE  UNCHANGED Backend(b)!vars
  BY DEF Backend!vars

(* A step of the manager is, for each backend, one of the contract or      *)
(* none.                                                                   *)
LEMMA ContractStep ==
    IInv /\ [Next]_vars =>
        [\A b \in Backends : Backend(b)!Next \/ UNCHANGED Backend(b)!vars]_vars
<1> SUFFICES ASSUME IInv, [Next]_vars, NEW a \in Backends
             PROVE  Backend(a)!Next \/ UNCHANGED Backend(a)!vars
  OBVIOUS
<1>1. CASE UNCHANGED <<phase, owner>>
  BY <1>1, ContractKept
<1>2. ASSUME NEW c \in Callers, StartSucceeds(c) \/ StartFails(c)
      PROVE  Backend(a)!Next \/ UNCHANGED Backend(a)!vars
  <2>1. UNCHANGED owner /\ phase[proc[c]] = "new" /\ proc[c] \in Backends
    BY <1>2 DEF StartSucceeds, StartFails, IInv, Locals, TypeOK
  <2>2. CASE a = proc[c]
    <3>1. phase[a] = "new" /\ phase'[a] \in {"running", "failed"} /\ owner'[a] = owner[a]
      BY <1>2, <2>1, <2>2 DEF StartSucceeds, StartFails, IInv, TypeOK
    <3> QED
      BY <3>1 DEF Backend!Next, Backend!Start
  <2>3. CASE a # proc[c]
    <3>1. phase'[a] = phase[a] /\ owner'[a] = owner[a]
      BY <1>2, <2>1, <2>3 DEF StartSucceeds, StartFails, IInv, TypeOK
    <3> QED
      BY <3>1 DEF Backend!vars
  <2> QED
    BY <2>2, <2>3
<1>3. ASSUME NEW c \in Callers, TryStop(c)
      PROVE  Backend(a)!Next \/ UNCHANGED Backend(a)!vars
  <2>1. CASE owner[proc[c]] = NoCaller /\ a = proc[c]
    <3>1. phase'[a] = phase[a] /\ owner[a] = NoCaller /\ owner'[a] = c
      BY <1>3, <2>1 DEF TryStop, IInv, TypeOK
    <3> QED
      BY <3>1 DEF Backend!Next, Backend!ClaimStop
  <2>2. CASE ~(owner[proc[c]] = NoCaller /\ a = proc[c])
    <3>1. phase'[a] = phase[a] /\ owner'[a] = owner[a]
      BY <1>3, <2>2 DEF TryStop, IInv, TypeOK
    <3> QED
      BY <3>1 DEF Backend!vars
  <2> QED
    BY <2>1, <2>2
<1>4. ASSUME NEW b \in Backends, BackendExits(b) \/ BackendCloses(b)
      PROVE  Backend(a)!Next \/ UNCHANGED Backend(a)!vars
  <2>1. UNCHANGED owner
    BY <1>4 DEF BackendExits, BackendCloses
  <2>2. CASE a = b
    <3>1. \/ phase[a] = "running" /\ phase'[a] = "exited"
          \/ phase[a] = "exited" /\ phase'[a] = "closed"
          \/ phase[a] = "closed" /\ phase'[a] = "done"
      BY <1>4, <2>2 DEF BackendExits, BackendCloses, IInv, TypeOK
    <3> QED
      BY <2>1, <3>1
      DEF Backend!Next, Backend!Exit, Backend!CloseOutput, Backend!CloseDone
  <2>3. CASE a # b
    <3>1. phase'[a] = phase[a]
      BY <1>4, <2>3 DEF BackendExits, BackendCloses, IInv, TypeOK
    <3> QED
      BY <2>1, <3>1 DEF Backend!vars
  <2> QED
    BY <2>2, <2>3
<1>5. CASE UNCHANGED vars
  BY <1>1, <1>5 DEF vars
<1>6. CASE CreateIdle
  BY <1>1, <1>6 DEF CreateIdle
<1>7. ASSUME NEW c \in Callers, Begin(c) PROVE UNCHANGED <<phase, owner>>
  BY <1>7
  DEF Begin, BeginCreate, BeginSend, BeginResume, BeginStop, BeginComplete
<1>8. ASSUME NEW c \in Callers,
             \/ PrepareFails(c) \/ InsertFindsRunning(c) \/ Insert(c) \/ UndoInsert(c)
             \/ Activate(c) \/ SetIdle(c) \/ SetCompleted(c)
      PROVE  UNCHANGED <<phase, owner>>
  BY <1>8 DEF PrepareFails, InsertFindsRunning, Insert, UndoInsert, Activate,
              SetIdle, SetCompleted
<1>9. ASSUME NEW b \in Backends, Handler(b) PROVE UNCHANGED <<phase, owner>>
  BY <1>9 DEF Handler, CompletionRemoves, CompletionSetsIdle
<1> QED
  BY <1>1, <1>2, <1>3, <1>4, <1>5, <1>6, <1>7, <1>8, <1>9 DEF Next, Proceed

(* No interleaving of the API calls starts a backend twice or stops it for *)
(* two owners (backend.go:25).                                             *)
THEOREM BackendsFollowContractHolds == Spec => BackendsFollowContract
  BY Invariant, ContractStep, PTL DEF Spec, BackendsFollowContract
=============================================================================
