------------------------- MODULE AgentProcessProofs -------------------------
(***************************************************************************)
(* Proofs about AgentProcess for any set of callers and any capacities:    *)
(* type correctness, the order of the shutdown, the single owner of a stop,*)
(* no input after a stop, and the steps of BackendContract.                *)
(***************************************************************************)
EXTENDS AgentProcess, FilterProofs, TLAPS

USE DEF procVars, stopVars, pipeVars, inVars, vars

(* Everything starts with its type.                                        *)
LEMMA TypeInit == Init => TypeOK
<1> SUFFICES ASSUME Init PROVE TypeOK
  OBVIOUS
<1>1. output \in Seq(Streams \X Nat) /\ Len(output) <= OutputCap
  BY BoundsAssumption DEF Init
<1>2. received \in [Streams -> Seq(Nat)]
  BY DEF Init
<1>3. /\ emitted \in [Streams -> Nat] /\ taken \in [Streams -> Nat]
      /\ dropped \in [Streams -> Nat]
  BY DEF Init
<1>4. /\ reader \in [Streams -> {"none", "scan", "record", "send", "ended", "failed"}]
      /\ pc \in [Callers -> {"idle", "write", "stop"}]
      /\ verdict \in [Callers -> {"none", "won", "lost"}]
  BY DEF Init
<1>5. stdin \in 0..StdinCap /\ sends \in 0..MaxSends
  BY BoundsAssumption DEF Init
<1> QED
  BY <1>1, <1>2, <1>3, <1>4, <1>5 DEF Init, TypeOK

(* The steps that leave the queues alone.                                  *)
LEMMA TypeStart ==
    TypeOK /\ (StartSucceeds \/ StartFails) => TypeOK'
<1> SUFFICES ASSUME TypeOK, StartSucceeds \/ StartFails PROVE TypeOK'
  OBVIOUS
<1>1. CASE StartSucceeds
  BY <1>1 DEF TypeOK, StartSucceeds
<1>2. CASE StartFails
  <2>1. stdinOpen' \in BOOLEAN
    BY <1>2 DEF TypeOK, StartFails
  <2> QED
    BY <1>2, <2>1 DEF TypeOK, StartFails
<1> QED
  BY <1>1, <1>2

(* The waiter and the escalation change flags only.                        *)
LEMMA TypeWaiter == TypeOK /\ (Waiter \/ Escalation) => TypeOK'
<1> SUFFICES ASSUME TypeOK, Waiter \/ Escalation PROVE TypeOK'
  OBVIOUS
<1>1. CASE WaitReturns
  BY <1>1 DEF TypeOK, WaitReturns
<1>2. CASE WaiterClearsRunning
  BY <1>2 DEF TypeOK, WaiterClearsRunning
<1>3. CASE WaiterClosesOutput
  BY <1>3 DEF TypeOK, WaiterClosesOutput
<1>4. CASE WaiterClosesDone
  BY <1>4 DEF TypeOK, WaiterClosesDone
<1>5. CASE KillerFires
  <2>1. cancelled' \in BOOLEAN
    BY <1>5 DEF TypeOK, KillerFires
  <2> QED
    BY <1>5, <2>1 DEF TypeOK, KillerFires
<1>6. CASE ChildKilled
  BY <1>6 DEF TypeOK, ChildKilled, ChildExits
<1> QED
  BY <1>1, <1>2, <1>3, <1>4, <1>5, <1>6 DEF Waiter, Escalation

(* The child moves its pipes within their bounds.                          *)
LEMMA TypeChild ==
    /\ TypeOK
    /\ \/ ChildReads \/ ChildExits
       \/ \E s \in Streams : ChildWrites(s) \/ LineTooLong(s)
    => TypeOK'
<1> SUFFICES ASSUME TypeOK,
                    \/ ChildReads \/ ChildExits
                    \/ \E s \in Streams : ChildWrites(s) \/ LineTooLong(s)
             PROVE  TypeOK'
  OBVIOUS
<1>1. CASE ChildReads
  <2>1. stdin' \in 0..StdinCap
    BY <1>1, BoundsAssumption DEF TypeOK, ChildReads
  <2> QED
    BY <1>1, <2>1 DEF TypeOK, ChildReads
<1>2. CASE ChildExits
  BY <1>2 DEF TypeOK, ChildExits
<1>3. ASSUME NEW s \in Streams, ChildWrites(s) PROVE TypeOK'
  <2>1. emitted' \in [Streams -> Nat]
    <3>1. emitted \in [Streams -> Nat] /\ emitted[s] + 1 \in Nat
      BY DEF TypeOK
    <3>2. emitted' = [emitted EXCEPT ![s] = emitted[s] + 1]
      BY <1>3, Zenon DEF ChildWrites
    <3> QED
      BY <3>1, <3>2
  <2>2. UNCHANGED <<procVars, stopVars, taken, reader, output, dropped, received, inVars>>
    BY <1>3, Zenon DEF ChildWrites
  <2> QED
    BY SMTT(30), <2>1, <2>2 DEF TypeOK
<1>4. ASSUME NEW s \in Streams, LineTooLong(s) PROVE TypeOK'
  BY <1>4 DEF TypeOK, LineTooLong
<1> QED
  BY <1>1, <1>2, <1>3, <1>4

(* Writes and stops.                                                       *)
LEMMA TypeCaller == ASSUME NEW c \in Callers PROVE TypeOK /\ Caller(c) => TypeOK'
<1> SUFFICES ASSUME TypeOK, Caller(c) PROVE TypeOK'
  OBVIOUS
<1>1. CASE BeginWrite(c)
  <2>1. sends' \in 0..MaxSends
    BY <1>1, BoundsAssumption DEF TypeOK, BeginWrite
  <2> QED
    BY <1>1, <2>1 DEF TypeOK, BeginWrite
<1>2. CASE BeginStop(c)
  BY <1>2 DEF TypeOK, BeginStop
<1>3. CASE WriteReturns(c)
  <2>1. stdin' \in 0..StdinCap
    BY <1>3, BoundsAssumption DEF TypeOK, WriteReturns
  <2> QED
    BY <1>3, <2>1 DEF TypeOK, WriteReturns
<1>4. CASE TryStop(c)
  <2>1. verdict' \in [Callers -> {"none", "won", "lost"}] /\ stopped' \in BOOLEAN
    BY <1>4 DEF TypeOK, TryStop
  <2>2. pc' \in [Callers -> {"idle", "write", "stop"}]
    BY <1>4 DEF TypeOK, TryStop
  <2>3. killer' \in {"off", "armed"} /\ cancelled' \in BOOLEAN /\ stdinOpen' \in BOOLEAN
    BY <1>4 DEF TypeOK, TryStop, doStopLocked
  <2>4. UNCHANGED <<start, child, running, waiter, pipeVars, mu, stdin, sends>>
    BY <1>4 DEF TryStop
  <2> QED
    BY <2>1, <2>2, <2>3, <2>4 DEF TypeOK
<1> QED
  BY <1>1, <1>2, <1>3, <1>4 DEF Caller, Proceed

(* The steps of the readers and of the consumer.                           *)
LEMMA TypeReader == ASSUME NEW s \in Streams PROVE TypeOK /\ Reader(s) => TypeOK'
<1> SUFFICES ASSUME TypeOK, Reader(s) PROVE TypeOK'
  OBVIOUS
<1>1. CASE ReaderScans(s)
  BY <1>1 DEF TypeOK, ReaderScans
<1>2. CASE ReaderQueues(s)
  <2>1. <<s, taken[s]>> \in Streams \X Nat
    BY DEF TypeOK
  <2>2. output' \in Seq(Streams \X Nat) /\ Len(output') <= OutputCap
    BY <1>2, <2>1, BoundsAssumption DEF TypeOK, ReaderQueues
  <2> QED
    BY <1>2, <2>2 DEF TypeOK, ReaderQueues, Streams
<1>3. CASE ReaderEnds(s)
  BY <1>3 DEF TypeOK, ReaderEnds
<1>4. CASE ReaderDrops(s)
  BY <1>4 DEF TypeOK, ReaderDrops
<1>5. CASE ReaderRecords
  <2>1. reader' = [reader EXCEPT !["stderr"] = "send"] /\ "stderr" \in Streams
    BY <1>5 DEF ReaderRecords, Streams
  <2>2. UNCHANGED <<procVars, stopVars, emitted, taken, output, dropped, received, inVars>>
    BY <1>5 DEF ReaderRecords
  <2> QED
    BY <2>1, <2>2 DEF TypeOK
<1> QED
  BY <1>1, <1>2, <1>3, <1>4, <1>5 DEF Reader

(* What is received was sent by a reader.                                  *)
LEMMA TypeConsume == TypeOK /\ Consume => TypeOK'
<1> SUFFICES ASSUME TypeOK, Consume PROVE TypeOK'
  OBVIOUS
<1>1. Head(output) \in Streams \X Nat
  BY SMTT(30) DEF TypeOK, Consume
<1>2. output' \in Seq(Streams \X Nat) /\ Len(output') <= OutputCap
  BY BoundsAssumption DEF TypeOK, Consume
<1>3. PICK s \in Streams, n \in Nat : Head(output) = <<s, n>>
  BY <1>1
<1>4. Append(received[s], n) \in Seq(Nat)
  BY DEF TypeOK
<1>5. received' = [received EXCEPT ![s] = Append(received[s], n)]
  <2>1. Head(output)[1] = s /\ Head(output)[2] = n
    BY <1>3
  <2> QED
    BY <2>1, Zenon DEF Consume
<1>6. received' \in [Streams -> Seq(Nat)]
  BY <1>4, <1>5 DEF TypeOK
<1>7. UNCHANGED <<procVars, stopVars, emitted, taken, reader, dropped, inVars>>
  BY DEF Consume
<1> QED
  BY <1>2, <1>6, <1>7 DEF TypeOK

(* Every step keeps the types.                                             *)
LEMMA TypeStep == TypeOK /\ [Next]_vars => TypeOK'
<1> SUFFICES ASSUME TypeOK, [Next]_vars PROVE TypeOK'
  OBVIOUS
<1>1. CASE UNCHANGED vars
  BY <1>1 DEF TypeOK
<1>2. CASE Next
  BY <1>2, TypeStart, TypeWaiter, TypeChild, TypeCaller, TypeReader, TypeConsume
  DEF Next, Machine
<1> QED
  BY <1>1, <1>2

(* Every variable keeps its type, and the output channel its capacity, for *)
(* any number of callers and any capacities (process.go:355).              *)
THEOREM TypeCorrect == Spec => []TypeOK
<1>1. Init => TypeOK
  BY TypeInit
<1>2. TypeOK /\ [Next]_vars => TypeOK'
  BY TypeStep
<1> QED
  BY <1>1, <1>2, PTL DEF Spec
-----------------------------------------------------------------------------
(***************************************************************************)
(* The inductive invariant.  None of the three properties is inductive by  *)
(* itself: that nobody writes after a stop, for example, needs to know who *)
(* holds p.mu, and that a stopped process cannot spawn a child any more.   *)
(***************************************************************************)

(* What ties Start, the child, p.running and the waiter together; with the *)
(* readers it gives ShutdownOrder.                                         *)
Lifecycle ==
    /\ start = "started" <=> waiter # "none"
    /\ running <=> waiter \in {"wait", "lock"}
    /\ waiter \in {"lock", "drain", "close", "finished"} => child = "exited"
    /\ outputClosed => \A s \in Streams : ReaderOver(s)

(* p.mu is held across a write by the one caller that is writing.          *)
Lock == \A c \in Callers : pc[c] = "write" <=> mu = c

(* A caller stops the process at most once, and a stop leaves stdin closed *)
(* with nobody writing to it; a process stopped before its child was       *)
(* spawned cannot spawn it any more.                                       *)
Stops ==
    /\ StopHasOneOwner
    /\ \A c \in Callers : pc[c] = "stop" => verdict[c] = "none"
    /\ stopped => /\ mu = NoCaller
                  /\ start = "new" => cancelled
                  /\ stdinOpen => start = "failed"

IInv == TypeOK /\ Lifecycle /\ Lock /\ Stops

(* Before Start nothing runs and nobody has stopped the process.           *)
LEMMA InvInit == Init => Lifecycle /\ Lock /\ Stops
<1> SUFFICES ASSUME Init PROVE Lifecycle /\ Lock /\ Stops
  OBVIOUS
<1>1. Lifecycle
  BY DEF Init, Lifecycle, outputClosed
<1>2. Lock
  BY CallersAssumption DEF Init, Lock
<1>3. Winners = {}
  BY DEF Init, Winners
<1>4. Stops
  BY <1>3 DEF Init, Stops, StopHasOneOwner
<1> QED
  BY <1>1, <1>2, <1>4

(* The callers, the child's pipes and SIGKILL's timer do not touch it.     *)
LEMMA LifecycleStep == TypeOK /\ Lifecycle /\ [Next]_vars => Lifecycle'
<1> SUFFICES ASSUME TypeOK, Lifecycle, [Next]_vars PROVE Lifecycle'
  OBVIOUS
<1> USE DEF Lifecycle, outputClosed, ReaderOver
<1>1. CASE UNCHANGED <<start, waiter, running, child, reader>>
  BY <1>1
<1>2. CASE StartSucceeds
  BY <1>2 DEF StartSucceeds
<1>3. CASE StartFails
  BY <1>3 DEF StartFails
<1>4. ASSUME NEW s \in Streams, LineTooLong(s) PROVE Lifecycle'
  BY <1>4 DEF LineTooLong, TypeOK
<1>5. CASE ChildExits
  BY <1>5 DEF ChildExits
<1>6. CASE WaitReturns
  BY <1>6 DEF WaitReturns
<1>7. CASE WaiterClearsRunning
  BY <1>7 DEF WaiterClearsRunning
<1>8. CASE WaiterClosesOutput
  BY <1>8 DEF WaiterClosesOutput
<1>9. CASE WaiterClosesDone
  BY <1>9 DEF WaiterClosesDone
<1>10. ASSUME NEW s \in Streams, Reader(s) PROVE Lifecycle'
  <2>1. UNCHANGED <<start, waiter, running, child>>
    BY <1>10 DEF Reader, ReaderScans, ReaderEnds, ReaderQueues, ReaderDrops, ReaderRecords
  <2>2. ASSUME NEW r \in Streams, ReaderOver(r) PROVE ReaderOver(r)'
    BY <1>10, <2>2 DEF Reader, ReaderScans, ReaderEnds, ReaderQueues, ReaderDrops,
                       ReaderRecords, TypeOK
  <2> QED
    BY <2>1, <2>2
<1>11. CASE ChildReads \/ Consume \/ KillerFires \/ \E s \in Streams : ChildWrites(s)
  BY <1>1, <1>11 DEF ChildReads, Consume, KillerFires, ChildWrites
<1>12. ASSUME NEW c \in Callers, Caller(c) PROVE Lifecycle'
  BY <1>1, <1>12 DEF Caller, BeginWrite, BeginStop, Proceed, WriteReturns, TryStop
<1> QED
  BY <1>1, <1>2, <1>3, <1>4, <1>5, <1>6, <1>7, <1>8, <1>9, <1>10, <1>11, <1>12
  DEF Next, Machine, Waiter, Escalation, ChildKilled

(* Every step that is no caller's leaves p.mu and the callers alone.       *)
LEMMA OnlyCallersMove ==
    ASSUME [Next]_vars, \A c \in Callers : ~Caller(c)
    PROVE  UNCHANGED <<mu, pc, stopped, verdict>>
<1>1. CASE UNCHANGED vars
  BY <1>1
<1>2. CASE StartSucceeds \/ StartFails
  BY <1>2 DEF StartSucceeds, StartFails
<1>3. CASE ChildReads \/ ChildExits \/ Consume
           \/ \E s \in Streams : ChildWrites(s) \/ LineTooLong(s)
  BY <1>3 DEF ChildReads, ChildExits, Consume, ChildWrites, LineTooLong
<1>4. CASE Waiter \/ Escalation
  BY <1>4 DEF Waiter, WaitReturns, WaiterClearsRunning, WaiterClosesOutput,
              WaiterClosesDone, Escalation, KillerFires, ChildKilled, ChildExits
<1>5. CASE \E s \in Streams : Reader(s)
  BY <1>5 DEF Reader, ReaderScans, ReaderEnds, ReaderQueues, ReaderDrops, ReaderRecords
<1> QED
  BY <1>1, <1>2, <1>3, <1>4, <1>5 DEF Next, Machine

(* BeginWrite takes p.mu and WriteReturns gives it back.                   *)
LEMMA LockStep == TypeOK /\ Lock /\ [Next]_vars => Lock'
<1> SUFFICES ASSUME TypeOK, Lock, [Next]_vars PROVE Lock'
  OBVIOUS
<1>1. CASE \A c \in Callers : ~Caller(c)
  BY <1>1, OnlyCallersMove DEF Lock
<1>2. ASSUME NEW c \in Callers, BeginWrite(c) PROVE Lock'
  BY <1>2, CallersAssumption DEF Lock, BeginWrite, TypeOK
<1>3. ASSUME NEW c \in Callers, WriteReturns(c) PROVE Lock'
  BY <1>3, CallersAssumption DEF Lock, WriteReturns, TypeOK
<1>4. ASSUME NEW c \in Callers, BeginStop(c) PROVE Lock'
  BY <1>4 DEF Lock, BeginStop, TypeOK
<1>5. ASSUME NEW c \in Callers, TryStop(c) PROVE Lock'
  BY <1>5 DEF Lock, TryStop, TypeOK
<1> QED
  BY <1>1, <1>2, <1>3, <1>4, <1>5 DEF Caller, Proceed

(* TryStop under p.mu: the first caller wins, every later one loses.       *)
LEMMA OneOwnerStep ==
    ASSUME TypeOK, Stops, NEW c \in Callers, TryStop(c) PROVE StopHasOneOwner'
<1>1. CASE stopped
  <2>1. verdict' = [verdict EXCEPT ![c] = "lost"] /\ stopped' = stopped
    BY <1>1 DEF TryStop
  <2>2. Winners' = Winners
    BY <2>1 DEF Winners, Stops, TryStop, TypeOK
  <2> QED
    BY <2>1, <2>2 DEF Stops, StopHasOneOwner
<1>2. CASE ~stopped
  <2>1. verdict' = [verdict EXCEPT ![c] = "won"] /\ stopped'
    BY <1>2 DEF TryStop
  <2>2. Winners = {}
    BY <1>2 DEF Stops, StopHasOneOwner
  <2>3. Winners' = {c}
    BY <2>1, <2>2 DEF Winners, TypeOK
  <2> QED
    BY <2>1, <2>3 DEF StopHasOneOwner
<1> QED
  BY <1>1, <1>2

(* A stop needs p.mu, so it never overlaps a write.                        *)
LEMMA StopsStep == TypeOK /\ Lifecycle /\ Lock /\ Stops /\ [Next]_vars => Stops'
<1> SUFFICES ASSUME TypeOK, Lifecycle, Lock, Stops, [Next]_vars PROVE Stops'
  OBVIOUS
<1>1. ASSUME UNCHANGED <<mu, pc, stopped, verdict>>,
             stopped => /\ start' = "new" => cancelled'
                        /\ stdinOpen' => start' = "failed"
      PROVE  Stops'
  BY <1>1 DEF Stops, StopHasOneOwner, Winners
<1>2. CASE \A c \in Callers : ~Caller(c)
  <2>1. UNCHANGED <<mu, pc, stopped, verdict>>
    BY <1>2, OnlyCallersMove
  <2>2. CASE StartSucceeds
    BY <1>1, <2>1, <2>2 DEF StartSucceeds, Stops
  <2>3. CASE StartFails
    BY <1>1, <2>1, <2>3 DEF StartFails
  <2>6. CASE UNCHANGED <<start, cancelled, stdinOpen>>
    BY <1>1, <2>1, <2>6 DEF Stops
  <2>4. ASSUME NEW s \in Streams, LineTooLong(s) PROVE Stops'
    BY <2>4, <2>6 DEF LineTooLong
  <2>5. CASE Escalation
    BY <1>1, <2>1, <2>5 DEF Escalation, KillerFires, ChildKilled, ChildExits, Stops
  <2>7. CASE Waiter
    BY <2>6, <2>7 DEF Waiter, WaitReturns, WaiterClearsRunning, WaiterClosesOutput,
                      WaiterClosesDone
  <2>8. CASE \E s \in Streams : Reader(s)
    BY <2>6, <2>8 DEF Reader, ReaderScans, ReaderEnds, ReaderQueues, ReaderDrops,
                      ReaderRecords
  <2>9. CASE ChildReads \/ ChildExits \/ Consume \/ \E s \in Streams : ChildWrites(s)
    BY <2>6, <2>9 DEF ChildReads, ChildExits, Consume, ChildWrites
  <2> QED
    BY <1>2, <2>2, <2>3, <2>4, <2>5, <2>6, <2>7, <2>8, <2>9 DEF Next, Machine
<1>3. ASSUME NEW c \in Callers, BeginWrite(c) PROVE Stops'
  <2>1. ~stopped
    BY <1>3 DEF BeginWrite, Stops, Lifecycle, TypeOK
  <2> QED
    BY <1>3, <2>1 DEF BeginWrite, Stops, StopHasOneOwner, Winners, TypeOK
<1>4. ASSUME NEW c \in Callers, WriteReturns(c) PROVE Stops'
  BY <1>4 DEF WriteReturns, Stops, StopHasOneOwner, Winners, Lock, TypeOK
<1>5. ASSUME NEW c \in Callers, BeginStop(c) PROVE Stops'
  BY <1>5 DEF BeginStop, Stops, StopHasOneOwner, Winners, TypeOK
<1>6. ASSUME NEW c \in Callers, TryStop(c) PROVE Stops'
  <2>1. StopHasOneOwner'
    BY <1>6, OneOwnerStep
  <2>2. \A d \in Callers : pc'[d] = "stop" => verdict'[d] = "none"
    BY <1>6 DEF TryStop, Stops, TypeOK
  <2>3. CASE stopped
    BY <1>6, <2>1, <2>2, <2>3 DEF TryStop, Stops
  <2>4. CASE ~stopped
    <3>1. start = "new" => ~running
      BY DEF Lifecycle
    <3>2. stdinOpen' = FALSE /\ mu' = NoCaller /\ (start' = "new" => cancelled')
      BY <1>6, <2>4, <3>1 DEF TryStop, doStopLocked
    <3> QED
      BY <2>1, <2>2, <3>2 DEF Stops
  <2> QED
    BY <2>3, <2>4
<1> QED
  BY <1>2, <1>3, <1>4, <1>5, <1>6 DEF Caller, Proceed

(* IInv is an invariant, for any callers and capacities (process.go:365,   *)
(* 476, 754, 793, 858).                                                    *)
THEOREM Invariant == Spec => []IInv
<1>1. Init => IInv
  BY TypeInit, InvInit DEF IInv
<1>2. IInv /\ [Next]_vars => IInv'
  BY TypeStep, LifecycleStep, LockStep, StopsStep DEF IInv
<1> QED
  BY <1>1, <1>2, PTL DEF Spec
-----------------------------------------------------------------------------
(* Output is closed when no reader can send on it any more, and Done after *)
(* it, when the child is gone and IsRunning is false (process.go:483).     *)
THEOREM ShutdownOrderHolds == Spec => []ShutdownOrder
<1>1. IInv => ShutdownOrder
  BY DEF IInv, Lifecycle, ShutdownOrder, outputClosed
<1> QED
  BY <1>1, Invariant, PTL

(* However many goroutines call TryStop, one gets true (process.go:858).   *)
THEOREM StopHasOneOwnerHolds == Spec => []StopHasOneOwner
<1>1. IInv => StopHasOneOwner
  BY DEF IInv, Stops
<1> QED
  BY <1>1, Invariant, PTL

(* Nothing reaches the child's stdin once it has been stopped.             *)
THEOREM NoInputAfterStopHolds == Spec => NoInputAfterStop
<1>1. IInv /\ [Next]_vars => [stopped => stdin' <= stdin]_vars
  <2> SUFFICES ASSUME IInv, [Next]_vars, stopped PROVE stdin' <= stdin
    OBVIOUS
  <2>1. stdin \in Nat
    BY BoundsAssumption DEF IInv, TypeOK
  <2>2. CASE UNCHANGED stdin
    BY <2>1, <2>2
  <2>3. CASE ChildReads
    BY <2>1, <2>3 DEF ChildReads
  <2>4. ASSUME NEW c \in Callers, WriteReturns(c) PROVE FALSE
    BY <2>4, CallersAssumption DEF WriteReturns, IInv, Stops, Lock
  <2>5. ASSUME NEW c \in Callers, Caller(c) PROVE UNCHANGED stdin
    BY <2>4, <2>5 DEF Caller, BeginWrite, BeginStop, Proceed, TryStop
  <2>6. CASE StartSucceeds \/ StartFails
    BY <2>2, <2>6 DEF StartSucceeds, StartFails
  <2>7. CASE \/ ChildExits \/ Consume
             \/ \E s \in Streams : ChildWrites(s) \/ LineTooLong(s)
    BY <2>2, <2>7 DEF ChildExits, Consume, ChildWrites, LineTooLong
  <2>8. CASE Waiter \/ Escalation
    BY <2>2, <2>8 DEF Waiter, WaitReturns, WaiterClearsRunning, WaiterClosesOutput,
                      WaiterClosesDone, Escalation, KillerFires, ChildKilled, ChildExits
  <2>9. CASE \E s \in Streams : Reader(s)
    BY <2>2, <2>9 DEF Reader, ReaderScans, ReaderEnds, ReaderQueues, ReaderDrops,
                      ReaderRecords
  <2> QED
    BY <2>2, <2>3, <2>5, <2>6, <2>7, <2>8, <2>9 DEF Next, Machine
<1> QED
  BY <1>1, Invariant, PTL DEF Spec, NoInputAfterStop
-----------------------------------------------------------------------------
(***************************************************************************)
(* The refinement.  Only five kinds of step are visible to the manager.    *)
(***************************************************************************)

(* The phase depends on Start, the waiter and p.running only.              *)
LEMMA PhaseStays ==
    ASSUME UNCHANGED <<start, waiter, running>> PROVE absPhase' = absPhase
  BY DEF absPhase, doneClosed, outputClosed

(* The owner depends on the results of TryStop only.                       *)
LEMMA OwnerStays == ASSUME UNCHANGED verdict PROVE absOwner' = absOwner
<1>1. Winners' = Winners
  BY DEF Winners
<1> QED
  BY <1>1 DEF absOwner

(* Start: a running child, or an error.                                    *)
LEMMA RefinesStart ==
    ASSUME IInv, StartSucceeds \/ StartFails PROVE Contract!Start
<1>1. absOwner' = absOwner
  BY OwnerStays DEF StartSucceeds, StartFails
<1>2. CASE StartFails
  <2>1. absPhase = "new" /\ absPhase' = "failed"
    BY <1>2 DEF StartFails, absPhase
  <2> QED
    BY <1>1, <2>1 DEF Contract!Start
<1>3. CASE StartSucceeds
  <2>1. absPhase = "new" /\ absPhase' = "running"
    BY <1>3 DEF StartSucceeds, absPhase, doneClosed, outputClosed
  <2> QED
    BY <1>1, <2>1 DEF Contract!Start
<1> QED
  BY <1>2, <1>3

(* The goroutine that waits for the child.                                 *)
LEMMA RefinesWaiter ==
    ASSUME IInv, Waiter
    PROVE  Contract!Exit \/ Contract!CloseOutput \/ Contract!CloseDone
           \/ UNCHANGED Contract!vars
<1>1. absOwner' = absOwner
  BY OwnerStays DEF Waiter, WaitReturns, WaiterClearsRunning, WaiterClosesOutput,
                    WaiterClosesDone
<1>2. start = "started" /\ start' = "started"
  BY DEF Waiter, WaitReturns, WaiterClearsRunning, WaiterClosesOutput,
         WaiterClosesDone, IInv, Lifecycle
<1>3. CASE WaitReturns
  <2>1. absPhase' = absPhase
    BY <1>2, <1>3 DEF WaitReturns, absPhase, doneClosed, outputClosed
  <2> QED
    BY <1>1, <2>1 DEF Contract!vars
<1>4. CASE WaiterClearsRunning
  <2>1. absPhase = "running" /\ absPhase' = "exited"
    BY <1>2, <1>4 DEF WaiterClearsRunning, absPhase, doneClosed, outputClosed,
                      IInv, Lifecycle
  <2> QED
    BY <1>1, <2>1 DEF Contract!Exit
<1>5. CASE WaiterClosesOutput
  <2>1. absPhase = "exited" /\ absPhase' = "closed"
    BY <1>2, <1>5 DEF WaiterClosesOutput, absPhase, doneClosed, outputClosed,
                      IInv, Lifecycle
  <2> QED
    BY <1>1, <2>1 DEF Contract!CloseOutput
<1>6. CASE WaiterClosesDone
  <2>1. absPhase = "closed" /\ absPhase' = "done"
    BY <1>2, <1>6 DEF WaiterClosesDone, absPhase, doneClosed, outputClosed
  <2> QED
    BY <1>1, <2>1 DEF Contract!CloseDone
<1> QED
  BY <1>3, <1>4, <1>5, <1>6 DEF Waiter

(* A caller: TryStop that wins claims the stop.                            *)
LEMMA RefinesCaller ==
    ASSUME IInv, NEW c \in Callers, Caller(c)
    PROVE  Contract!ClaimStop(c) \/ UNCHANGED Contract!vars
<1>1. absPhase' = absPhase
  BY PhaseStays DEF Caller, BeginWrite, BeginStop, Proceed, WriteReturns, TryStop
<1>2. CASE UNCHANGED verdict
  BY <1>1, <1>2, OwnerStays DEF Contract!vars
<1>3. CASE TryStop(c) /\ stopped
  <2>1. verdict' = [verdict EXCEPT ![c] = "lost"]
    BY <1>3 DEF TryStop
  <2>2. Winners' = Winners
    BY <1>3, <2>1 DEF Winners, TryStop, IInv, Stops, TypeOK
  <2>3. absOwner' = absOwner
    BY <2>2 DEF absOwner
  <2> QED
    BY <1>1, <2>3 DEF Contract!vars
<1>4. CASE TryStop(c) /\ ~stopped
  <2>1. verdict' = [verdict EXCEPT ![c] = "won"]
    BY <1>4 DEF TryStop
  <2>2. Winners = {}
    BY <1>4 DEF IInv, Stops, StopHasOneOwner
  <2>3. Winners' = {c}
    BY <2>1, <2>2 DEF Winners, IInv, TypeOK
  <2>4. absOwner = NoCaller /\ absOwner' = c
    BY <2>2, <2>3 DEF absOwner
  <2> QED
    BY <1>1, <2>4 DEF Contract!ClaimStop
<1> QED
  BY <1>2, <1>3, <1>4 DEF Caller, BeginWrite, BeginStop, Proceed, WriteReturns

(* Every step is one of the contract, or invisible to the manager.         *)
LEMMA RefinesStep == IInv /\ [Next]_vars => [Contract!Next]_(Contract!vars)
<1> SUFFICES ASSUME IInv, [Next]_vars PROVE [Contract!Next]_(Contract!vars)
  OBVIOUS
<1>1. CASE StartSucceeds \/ StartFails
  BY <1>1, RefinesStart DEF Contract!Next
<1>2. CASE Waiter
  BY <1>2, RefinesWaiter DEF Contract!Next
<1>3. ASSUME NEW c \in Callers, Caller(c) PROVE [Contract!Next]_(Contract!vars)
  BY <1>3, RefinesCaller DEF Contract!Next
<1>4. CASE UNCHANGED <<start, waiter, running, verdict>>
  BY <1>4, PhaseStays, OwnerStays DEF Contract!vars
<1>5. ASSUME NEW s \in Streams, LineTooLong(s) PROVE [Contract!Next]_(Contract!vars)
  BY <1>4, <1>5 DEF LineTooLong
<1>6. CASE ChildReads \/ ChildExits \/ Consume \/ \E s \in Streams : ChildWrites(s)
  BY <1>4, <1>6 DEF ChildReads, ChildExits, Consume, ChildWrites
<1>7. CASE Escalation
  BY <1>4, <1>7 DEF Escalation, KillerFires, ChildKilled, ChildExits
<1>8. CASE \E s \in Streams : Reader(s)
  BY <1>4, <1>8 DEF Reader, ReaderScans, ReaderEnds, ReaderQueues, ReaderDrops,
                    ReaderRecords
<1> QED
  BY <1>1, <1>2, <1>3, <1>4, <1>5, <1>6, <1>7, <1>8 DEF Next, Machine

(* Every behaviour of the process is, step by step, one the interface      *)
(* ConversationBackend promises (backend.go:25); that it also ends once it *)
(* has been stopped is liveness, and left to the model checker.            *)
THEOREM ContractSteps ==
    Spec => Contract!Init /\ [][Contract!Next]_(Contract!vars)
<1>1. Init => Contract!Init
  <2> SUFFICES ASSUME Init PROVE Contract!Init
    OBVIOUS
  <2>1. Winners = {}
    BY DEF Init, Winners
  <2> QED
    BY <2>1 DEF Init, Contract!Init, absPhase, absOwner
<1> QED
  BY <1>1, RefinesStep, Invariant, PTL DEF Spec
-----------------------------------------------------------------------------
(***************************************************************************)
(* The lines of a stream: those the consumer got, followed by those in the *)
(* channel. What the reader holds is the next.                             *)
(***************************************************************************)
Numbers(q) == [i \in DOMAIN q |-> q[i][2]]
Flow(s) == received[s] \o Numbers(Queued(s))

Flows ==
    \A s \in Streams :
        /\ Increasing(Flow(s))
        /\ \A i \in 1 .. Len(Flow(s)) : Flow(s)[i] + Held(s) <= taken[s]
        /\ taken[s] = Len(Flow(s)) + Held(s) + dropped[s]
        /\ start # "started" => reader[s] = "none"

(* A reader that is through has read everything, or was cut off.           *)
ReadersEnd ==
    \A s \in Streams : reader[s] = "ended" =>
        pipesClosed \/ (child = "exited" /\ taken[s] = emitted[s])

Lines == Streams \X Nat

(* Concatenating sequences of numbers.                                     *)
LEMMA NatConcat ==
  /\ \A a, b \in Seq(Nat) :
       /\ a \o b \in Seq(Nat) /\ Len(a \o b) = Len(a) + Len(b)
       /\ \A i \in 1 .. Len(a) + Len(b) :
            (a \o b)[i] = IF i <= Len(a) THEN a[i] ELSE b[i - Len(a)]
  /\ \A a, b, c \in Seq(Nat) : (a \o b) \o c = a \o (b \o c)
  /\ \A a \in Seq(Nat), n \in Nat : Append(a, n) = a \o <<n>> /\ <<n>> \in Seq(Nat)
<1> DEFINE N == Nat
<1>1. \A n \in N : <<n>> \in Seq(N)
  OBVIOUS
<1> HIDE DEF N
<1>2. \A a, b \in Seq(N) :
        /\ a \o b \in Seq(N) /\ Len(a \o b) = Len(a) + Len(b)
        /\ \A i \in 1 .. Len(a) + Len(b) :
             (a \o b)[i] = IF i <= Len(a) THEN a[i] ELSE b[i - Len(a)]
  BY ConcatProperties
<1>3. \A a, b, c \in Seq(N) : (a \o b) \o c = a \o (b \o c)
  BY ConcatAssociative
<1>4. \A a \in Seq(N), n \in N : Append(a, n) = a \o <<n>> /\ <<n>> \in Seq(N)
  BY <1>1, AppendIsConcat
<1> QED
  BY <1>2, <1>3, <1>4 DEF N

LEMMA NumbersOf ==
  ASSUME NEW q \in Seq(Lines)
  PROVE  /\ Numbers(q) \in Seq(Nat) /\ Len(Numbers(q)) = Len(q) /\ Len(q) \in Nat
         /\ DOMAIN Numbers(q) = 1 .. Len(q)
         /\ \A i \in 1 .. Len(q) : Numbers(q)[i] = q[i][2]
<1>1. DOMAIN q = 1 .. Len(q) /\ Len(q) \in Nat /\ \A i \in 1 .. Len(q) : q[i][2] \in Nat
  BY DEF Lines
<1> QED
  BY <1>1 DEF Numbers

LEMMA NumbersConcat ==
  ASSUME NEW q \in Seq(Lines), NEW r \in Seq(Lines)
  PROVE  Numbers(q \o r) = Numbers(q) \o Numbers(r)
<1> DEFINE a == Numbers(q \o r)
           b == Numbers(q) \o Numbers(r)
<1>1. /\ Len(q) \in Nat /\ Len(r) \in Nat /\ q \o r \in Seq(Lines)
      /\ Len(q \o r) = Len(q) + Len(r)
      /\ \A i \in 1 .. Len(q) + Len(r) : (q \o r)[i] = IF i <= Len(q) THEN q[i] ELSE r[i - Len(q)]
  BY ConcatProperties
<1>2. a \in Seq(Nat) /\ Len(a) = Len(q) + Len(r)
      /\ \A i \in 1 .. Len(q) + Len(r) : a[i] = (q \o r)[i][2]
  BY <1>1, NumbersOf
<1>3. /\ Numbers(q) \in Seq(Nat) /\ Len(Numbers(q)) = Len(q)
      /\ Numbers(r) \in Seq(Nat) /\ Len(Numbers(r)) = Len(r)
      /\ \A i \in 1 .. Len(q) : Numbers(q)[i] = q[i][2]
      /\ \A i \in 1 .. Len(r) : Numbers(r)[i] = r[i][2]
  BY NumbersOf
<1>4. /\ b \in Seq(Nat) /\ Len(b) = Len(q) + Len(r)
      /\ \A i \in 1 .. Len(q) + Len(r) :
           b[i] = IF i <= Len(q) THEN Numbers(q)[i] ELSE Numbers(r)[i - Len(q)]
  <2> DEFINE m == Numbers(q)
             n == Numbers(r)
  <2>1. m \in Seq(Nat) /\ n \in Seq(Nat) /\ Len(m) = Len(q) /\ Len(n) = Len(r)
    BY <1>3
  <2> HIDE DEF m, n
  <2>2. m \in Seq(Nat) /\ n \in Seq(Nat)
    BY <2>1
  <2>3. /\ m \o n \in Seq(Nat) /\ Len(m \o n) = Len(m) + Len(n)
        /\ \A i \in 1 .. Len(m) + Len(n) :
             (m \o n)[i] = IF i <= Len(m) THEN m[i] ELSE n[i - Len(m)]
    BY <2>2, NatConcat
  <2> QED
    BY <2>1, <2>3 DEF m, n
<1> HIDE DEF a, b
<1>5. ASSUME NEW i \in 1 .. Len(q) + Len(r) PROVE a[i] = b[i]
  <2>1. CASE i <= Len(q)
    <3>1. i \in 1 .. Len(q)
      BY <2>1
    <3> QED
      BY <1>1, <1>2, <1>3, <1>4, <2>1, <3>1
  <2>2. CASE ~(i <= Len(q))
    <3>1. i - Len(q) \in 1 .. Len(r)
      BY <1>1, <2>2
    <3> QED
      BY <1>1, <1>2, <1>3, <1>4, <2>2, <3>1
  <2> QED
    BY <2>1, <2>2
<1>6. a = b
  BY <1>1, <1>2, <1>4, <1>5, SeqEqual
<1> QED
  BY <1>6 DEF a, b

LEMMA FlowType ==
  ASSUME TypeOK, NEW s \in Streams
  PROVE  /\ Queued(s) \in Seq(Lines) /\ Numbers(Queued(s)) \in Seq(Nat)
         /\ received[s] \in Seq(Nat) /\ Flow(s) \in Seq(Nat)
         /\ Len(Flow(s)) = Len(received[s]) + Len(Queued(s)) /\ Len(Flow(s)) \in Nat
<1>1. output \in Seq(Lines) /\ received[s] \in Seq(Nat)
  BY DEF TypeOK, Lines
<1>2. Queued(s) \in Seq(Lines)
  BY <1>1, OnlyElements DEF Queued
<1>3. Numbers(Queued(s)) \in Seq(Nat) /\ Len(Numbers(Queued(s))) = Len(Queued(s))
  BY <1>2, NumbersOf
<1>4. /\ received[s] \o Numbers(Queued(s)) \in Seq(Nat)
      /\ Len(received[s] \o Numbers(Queued(s))) = Len(received[s]) + Len(Numbers(Queued(s)))
  BY <1>1, <1>3, NatConcat
<1> QED
  BY <1>1, <1>2, <1>3, <1>4, LenProperties DEF Flow

LEMMA NumbersSingle ==
  ASSUME NEW l \in Lines
  PROVE  Numbers(<<l>>) = <<l[2]>> /\ l[2] \in Nat
  BY DEF Numbers, Lines

(* What the two ends of the channel do to the lines of a stream.           *)
LEMMA QueueFlow ==
  ASSUME TypeOK, NEW s \in Streams, ReaderQueues(s)
  PROVE  /\ Flow(s)' = Append(Flow(s), taken[s])
         /\ \A r \in Streams \ {s} : Flow(r)' = Flow(r)
<1> DEFINE l == <<s, taken[s]>>
<1>1. output' = Append(output, l) /\ received' = received
  BY DEF ReaderQueues
<1>2. output \in Seq(Lines) /\ l \in Lines /\ taken[s] \in Nat
  BY DEF TypeOK, Lines
<1>3. l \in {s} \X Nat /\ \A r \in Streams \ {s} : l \notin {r} \X Nat
  BY <1>2
<1>4. l[2] = taken[s]
  OBVIOUS
<1> HIDE DEF l
<1>5. \A S : Only(output', S) = IF l \in S THEN Append(Only(output, S), l) ELSE Only(output, S)
  BY <1>1, <1>2, OnlyAppend
<1>6. Queued(s)' = Append(Queued(s), l) /\ \A r \in Streams \ {s} : Queued(r)' = Queued(r)
  BY <1>3, <1>5 DEF Queued
<1>7. Numbers(Append(Queued(s), l)) = Numbers(Queued(s)) \o <<taken[s]>>
  <2>1. Queued(s) \in Seq(Lines) /\ <<l>> \in Seq(Lines)
    BY <1>2, FlowType
  <2>2. Append(Queued(s), l) = Queued(s) \o <<l>>
    BY <1>2, <2>1, AppendIsConcat
  <2>3. Numbers(Queued(s) \o <<l>>) = Numbers(Queued(s)) \o Numbers(<<l>>)
    BY <2>1, NumbersConcat
  <2> QED
    BY <1>2, <1>4, <2>2, <2>3, NumbersSingle
<1>8. received[s] \o (Numbers(Queued(s)) \o <<taken[s]>>) = Append(Flow(s), taken[s])
  <2>1. /\ received[s] \in Seq(Nat) /\ Numbers(Queued(s)) \in Seq(Nat) /\ Flow(s) \in Seq(Nat)
        /\ <<taken[s]>> \in Seq(Nat)
    BY <1>2, FlowType
  <2>2. Append(Flow(s), taken[s]) = Flow(s) \o <<taken[s]>>
    BY <1>2, <2>1, AppendIsConcat
  <2> QED
    BY <2>1, <2>2, NatConcat DEF Flow
<1>9. Flow(s)' = received[s] \o Numbers(Append(Queued(s), l))
  BY <1>1, <1>6 DEF Flow
<1>10. \A r \in Streams \ {s} : Flow(r)' = Flow(r)
  BY <1>1, <1>6 DEF Flow
<1> QED
  BY <1>7, <1>8, <1>9, <1>10

LEMMA ConsumeFlow ==
  ASSUME TypeOK, Consume, NEW r \in Streams
  PROVE  Flow(r)' = Flow(r)
<1> DEFINE h == Head(output)
<1>1. output \in Seq(Lines) /\ output # <<>> /\ output' = Tail(output)
  BY DEF Consume, TypeOK, Lines
<1>2. received' = [received EXCEPT ![h[1]] = Append(received[h[1]], h[2])]
  BY DEF Consume
<1>3. h \in Lines /\ Tail(output) \in Seq(Lines)
  BY <1>1, HeadTailProperties
<1>4. Queued(r) = IF h \in {r} \X Nat THEN <<h>> \o Queued(r)' ELSE Queued(r)'
  BY <1>1, OnlyHead DEF Queued
<1>5. Queued(r)' \in Seq(Lines)
  BY <1>1, <1>3, OnlyElements DEF Queued
<1> HIDE DEF h
<1>6. CASE h[1] = r
  <2>1. h \in {r} \X Nat
    BY <1>3, <1>6 DEF Lines
  <2>2. <<h>> \in Seq(Lines)
    BY <1>3
  <2>3. Numbers(Queued(r)) = <<h[2]>> \o Numbers(Queued(r)')
    BY <1>3, <1>4, <1>5, <2>1, <2>2, NumbersConcat, NumbersSingle
  <2>4. received'[r] = Append(received[r], h[2]) /\ received[r] \in Seq(Nat)
    BY <1>2, <1>6 DEF TypeOK
  <2>5. h[2] \in Nat /\ <<h[2]>> \in Seq(Nat) /\ Numbers(Queued(r)') \in Seq(Nat)
    BY <1>3, <1>5, NumbersOf DEF Lines
  <2>6. Append(received[r], h[2]) = received[r] \o <<h[2]>>
    BY <2>4, <2>5, AppendIsConcat
  <2>7. (received[r] \o <<h[2]>>) \o Numbers(Queued(r)') = received[r] \o (<<h[2]>> \o Numbers(Queued(r)'))
    BY <2>4, <2>5, NatConcat
  <2>8. Flow(r)' = received'[r] \o Numbers(Queued(r)')
    BY DEF Flow, Numbers
  <2> QED
    BY <2>3, <2>4, <2>6, <2>7, <2>8 DEF Flow
<1>7. CASE h[1] # r
  <2>1. h \notin {r} \X Nat
    BY <1>7
  <2>2. received'[r] = received[r]
    BY <1>2, <1>7 DEF TypeOK
  <2>3. Queued(r)' = Queued(r)
    BY <1>4, <2>1
  <2> QED
    BY <2>2, <2>3 DEF Flow
<1> QED
  BY <1>6, <1>7

(* No other step than a reader's own and the consumer's touches the lines. *)
LEMMA PipesKept ==
  ASSUME [Next]_vars, ~Consume, ~StartSucceeds,
         \A s \in Streams : ~Reader(s) /\ ~ChildWrites(s) /\ ~LineTooLong(s)
  PROVE  UNCHANGED pipeVars
<1>1. CASE UNCHANGED vars
  BY <1>1
<1>2. CASE StartFails \/ ChildReads \/ ChildExits
  BY <1>2 DEF StartFails, ChildReads, ChildExits
<1>3. CASE Waiter \/ Escalation
  BY <1>3 DEF Waiter, WaitReturns, WaiterClearsRunning, WaiterClosesOutput,
              WaiterClosesDone, Escalation, KillerFires, ChildKilled, ChildExits
<1>4. CASE \E c \in Callers : Caller(c)
  BY <1>4 DEF Caller, BeginWrite, BeginStop, Proceed, TryStop, WriteReturns
<1> QED
  BY <1>1, <1>2, <1>3, <1>4 DEF Next, Machine

StartKept == start = "started" => start' = "started"

LEMMA StartIsFinal == [Next]_vars => StartKept
<1> SUFFICES ASSUME [Next]_vars PROVE StartKept
  OBVIOUS
<1>1. CASE UNCHANGED start
  BY <1>1 DEF StartKept
<1>2. CASE StartSucceeds \/ StartFails
  BY <1>2 DEF StartSucceeds, StartFails, StartKept
<1>3. CASE ChildReads \/ ChildExits \/ Consume
           \/ \E s \in Streams : ChildWrites(s) \/ LineTooLong(s)
  BY <1>1, <1>3 DEF ChildReads, ChildExits, Consume, ChildWrites, LineTooLong
<1>4. CASE Waiter \/ Escalation
  BY <1>1, <1>4 DEF Waiter, WaitReturns, WaiterClearsRunning, WaiterClosesOutput,
              WaiterClosesDone, Escalation, KillerFires, ChildKilled, ChildExits
<1>5. CASE \E s \in Streams : Reader(s)
  BY <1>1, <1>5 DEF Reader, ReaderScans, ReaderEnds, ReaderQueues, ReaderDrops, ReaderRecords
<1>6. CASE \E c \in Callers : Caller(c)
  BY <1>1, <1>6 DEF Caller, BeginWrite, BeginStop, Proceed, TryStop, WriteReturns
<1> QED
  BY <1>1, <1>2, <1>3, <1>4, <1>5, <1>6 DEF Next, Machine

(* The lines of stream s are in order, bounded and counted.                *)
Fine(s) ==
    /\ Increasing(Flow(s))
    /\ \A i \in 1 .. Len(Flow(s)) : Flow(s)[i] + Held(s) <= taken[s]
    /\ taken[s] = Len(Flow(s)) + Held(s) + dropped[s]

LEMMA FineStep ==
  ASSUME TypeOK, Flows, [Next]_vars, NEW s \in Streams
  PROVE  Fine(s)'
<1>1. /\ taken[s] \in Nat /\ dropped[s] \in Nat /\ Flow(s) \in Seq(Nat) /\ Len(Flow(s)) \in Nat
      /\ taken \in [Streams -> Nat] /\ dropped \in [Streams -> Nat]
      /\ reader \in [Streams -> {"none", "scan", "record", "send", "ended", "failed"}]
  BY FlowType DEF TypeOK
<1>2. Fine(s) /\ (start # "started" => reader[s] = "none")
  BY DEF Flows, Fine
<1>3. ASSUME Flow(s)' = Flow(s), Held(s)' = Held(s), taken'[s] = taken[s],
             dropped'[s] = dropped[s]
      PROVE  Fine(s)'
  BY <1>2, <1>3 DEF Fine, Increasing
<1>4. ASSUME UNCHANGED <<received, output>> PROVE Flow(s)' = Flow(s)
  BY <1>4 DEF Flow, Queued
<1>5. CASE UNCHANGED <<received, output, taken, dropped>> /\ Held(s)' = Held(s)
  BY <1>3, <1>4, <1>5
<1>6. CASE UNCHANGED pipeVars
  BY <1>5, <1>6 DEF Held
<1>7. CASE StartSucceeds
  <2>1. Held(s) = 0 /\ Held(s)' = 0
    BY <1>2, <1>7 DEF StartSucceeds, Held
  <2> QED
    BY <1>5, <1>7, <2>1 DEF StartSucceeds
<1>8. CASE Consume
  <2>1. Held(s)' = Held(s) /\ taken' = taken /\ dropped' = dropped
    BY <1>8 DEF Consume, Held
  <2> QED
    BY <1>3, <1>8, <2>1, ConsumeFlow
<1>9. ASSUME NEW r \in Streams, ChildWrites(r) PROVE Fine(s)'
  BY <1>5, <1>9 DEF ChildWrites, Held
<1>10. ASSUME NEW r \in Streams, LineTooLong(r) PROVE Fine(s)'
  BY <1>1, <1>5, <1>10 DEF LineTooLong, Held
<1>11. ASSUME NEW r \in Streams, ReaderEnds(r) PROVE Fine(s)'
  BY <1>1, <1>5, <1>11 DEF ReaderEnds, Held
<1>12. CASE ReaderRecords
  BY <1>1, <1>5, <1>12 DEF ReaderRecords, Held
<1>13. ASSUME NEW r \in Streams, ReaderScans(r) PROVE Fine(s)'
  <2>1. CASE r = s
    <3>1. /\ taken'[s] = taken[s] + 1 /\ dropped' = dropped /\ Held(s) = 0 /\ Held(s)' = 1
      BY <1>1, <1>13, <2>1 DEF ReaderScans, Held
    <3>2. Flow(s)' = Flow(s)
      BY <1>4, <1>13 DEF ReaderScans
    <3>3. \A i \in 1 .. Len(Flow(s)) : Flow(s)[i] \in Nat
      BY <1>1
    <3> QED
      BY <1>1, <1>2, <3>1, <3>2, <3>3 DEF Fine, Increasing
  <2>2. CASE r # s
    BY <1>1, <1>3, <1>4, <1>13, <2>2 DEF ReaderScans, Held
  <2> QED
    BY <2>1, <2>2
<1>14. ASSUME NEW r \in Streams, ReaderDrops(r) PROVE Fine(s)'
  <2>1. CASE r = s
    <3>1. /\ dropped'[s] = dropped[s] + 1 /\ taken' = taken /\ Held(s) = 1 /\ Held(s)' = 0
      BY <1>1, <1>14, <2>1 DEF ReaderDrops, Held
    <3>2. Flow(s)' = Flow(s)
      BY <1>4, <1>14 DEF ReaderDrops
    <3>3. \A i \in 1 .. Len(Flow(s)) : Flow(s)[i] \in Nat
      BY <1>1
    <3> QED
      BY <1>1, <1>2, <3>1, <3>2, <3>3 DEF Fine, Increasing
  <2>2. CASE r # s
    BY <1>1, <1>3, <1>4, <1>14, <2>2 DEF ReaderDrops, Held
  <2> QED
    BY <2>1, <2>2
<1>15. ASSUME NEW r \in Streams, ReaderQueues(r) PROVE Fine(s)'
  <2>1. CASE r = s
    <3>1. dropped' = dropped /\ taken' = taken /\ Held(s) = 1 /\ Held(s)' = 0
      BY <1>1, <1>15, <2>1 DEF ReaderQueues, Held
    <3> DEFINE f == Flow(s)
               g == Append(f, taken[s])
    <3>2. Flow(s)' = g
      BY <1>15, <2>1, QueueFlow
    <3>3. /\ Len(g) = Len(f) + 1 /\ DOMAIN g = 1 .. Len(f) + 1 /\ DOMAIN f = 1 .. Len(f)
          /\ g[Len(f) + 1] = taken[s] /\ \A i \in 1 .. Len(f) : g[i] = f[i] /\ f[i] \in Nat
      BY <1>1
    <3>4. /\ \A i, j \in 1 .. Len(f) : i < j => f[i] < f[j]
          /\ \A i \in 1 .. Len(f) : f[i] + 1 <= taken[s]
          /\ taken[s] = Len(f) + 1 + dropped[s]
      BY <1>2, <3>1, <3>3 DEF Fine, Increasing
    <3> HIDE DEF f, g
    <3>5. Len(f) \in Nat
      BY <1>1 DEF f
    <3>6. ASSUME NEW i \in 1 .. Len(f) + 1, NEW j \in 1 .. Len(f) + 1, i < j
          PROVE  g[i] < g[j]
      <4>1. i \in 1 .. Len(f) /\ (j \in 1 .. Len(f) \/ j = Len(f) + 1)
        BY <3>5, <3>6
      <4> QED
        BY <1>1, <3>3, <3>4, <3>6, <4>1
    <3>7. ASSUME NEW i \in 1 .. Len(f) + 1 PROVE g[i] <= taken[s]
      <4>1. i \in 1 .. Len(f) \/ i = Len(f) + 1
        BY <3>5
      <4> QED
        BY <1>1, <3>3, <3>4, <4>1
    <3>8. Increasing(g)
      BY <3>3, <3>6 DEF Increasing
    <3>9. \A i \in 1 .. Len(g) : g[i] + 0 <= taken[s]
      <4>1. \A i \in 1 .. Len(f) + 1 : g[i] \in Nat
        <5>1. \A i \in 1 .. Len(f) + 1 : i \in 1 .. Len(f) \/ i = Len(f) + 1
          BY <3>5
        <5> QED
          BY <1>1, <3>3, <5>1
      <4> QED
        BY <3>3, <3>7, <4>1
    <3> QED
      BY <1>1, <3>1, <3>2, <3>3, <3>4, <3>8, <3>9 DEF Fine
  <2>2. CASE r # s
    <3>1. Flow(s)' = Flow(s)
      BY <1>15, <2>2, QueueFlow
    <3> QED
      BY <1>1, <1>3, <1>15, <2>2, <3>1 DEF ReaderQueues, Held
  <2> QED
    BY <2>1, <2>2
<1> QED
  BY <1>6, <1>7, <1>8, <1>9, <1>10, <1>11, <1>12, <1>13, <1>14, <1>15, PipesKept DEF Reader

LEMMA FlowStep == TypeOK /\ Flows /\ [Next]_vars => Flows'
<1> SUFFICES ASSUME TypeOK, Flows, [Next]_vars PROVE Flows'
  OBVIOUS
<1>1. \A s \in Streams : Fine(s)'
  BY FineStep
<1>2. ASSUME start' # "started", NEW s \in Streams PROVE reader'[s] = "none"
  <2>1. start # "started" /\ reader[s] = "none" /\ ~StartSucceeds
    BY <1>2, StartIsFinal DEF StartKept, Flows, StartSucceeds
  <2>2. \A r \in Streams : reader[r] = "none"
    BY <2>1 DEF Flows
  <2>3. \A r \in Streams : ~Reader(r) /\ ~LineTooLong(r)
    BY <2>2 DEF Reader, ReaderScans, ReaderEnds, ReaderQueues, ReaderDrops, ReaderRecords,
                LineTooLong, Streams
  <2>4. CASE Consume \/ \E r \in Streams : ChildWrites(r)
    BY <2>1, <2>4 DEF Consume, ChildWrites
  <2> QED
    BY <2>1, <2>3, <2>4, PipesKept
<1> QED
  BY <1>1, <1>2 DEF Flows, Fine

LEMMA ReadersStep == TypeOK /\ Lifecycle /\ ReadersEnd /\ [Next]_vars => ReadersEnd'
<1> SUFFICES ASSUME TypeOK, Lifecycle, ReadersEnd, [Next]_vars, NEW s \in Streams,
                    reader'[s] = "ended"
             PROVE  (pipesClosed \/ (child = "exited" /\ taken[s] = emitted[s]))'
  BY DEF ReadersEnd
<1> DEFINE Cut == pipesClosed
           Whole == child = "exited" /\ taken[s] = emitted[s]
<1>1. reader[s] = "ended" => Cut \/ Whole
  BY DEF ReadersEnd
<1>2. reader \in [Streams -> {"none", "scan", "record", "send", "ended", "failed"}]
  BY DEF TypeOK
<1>3. CASE UNCHANGED <<waiter, child, emitted, taken>> /\ reader[s] = "ended"
  BY <1>1, <1>3 DEF pipesClosed
<1>4. CASE UNCHANGED vars
  BY <1>3, <1>4
<1>5. CASE StartSucceeds \/ StartFails
  BY <1>3, <1>5 DEF StartSucceeds, StartFails
<1>6. CASE ChildReads \/ Consume
  BY <1>3, <1>6 DEF ChildReads, Consume
<1>7. CASE ChildExits
  <2>1. UNCHANGED <<waiter, emitted, taken, reader>> /\ child' = "exited"
    BY <1>7 DEF ChildExits
  <2> QED
    BY <1>1, <2>1 DEF pipesClosed
<1>8. ASSUME NEW r \in Streams, ChildWrites(r)
      PROVE  (pipesClosed \/ (child = "exited" /\ taken[s] = emitted[s]))'
  <2>1. UNCHANGED <<waiter, reader>> /\ child = "alive"
    BY <1>8 DEF ChildWrites
  <2>2. pipesClosed
    BY <1>1, <2>1
  <2> QED
    BY <2>1, <2>2 DEF pipesClosed
<1>9. ASSUME NEW r \in Streams, LineTooLong(r)
      PROVE  (pipesClosed \/ (child = "exited" /\ taken[s] = emitted[s]))'
  BY <1>2, <1>3, <1>9 DEF LineTooLong
<1>10. CASE Waiter
  <2>1. UNCHANGED <<child, emitted, taken, reader>>
    BY <1>10 DEF Waiter, WaitReturns, WaiterClearsRunning, WaiterClosesOutput, WaiterClosesDone
  <2>2. waiter' \notin {"none", "wait"}
    BY <1>10 DEF Waiter, WaitReturns, WaiterClearsRunning, WaiterClosesOutput, WaiterClosesDone
  <2> QED
    BY <2>2 DEF pipesClosed
<1>11. CASE Escalation
  BY <1>3, <1>7, <1>11 DEF Escalation, KillerFires, ChildKilled
<1>12. ASSUME NEW r \in Streams, ReaderEnds(r)
       PROVE  (pipesClosed \/ (child = "exited" /\ taken[s] = emitted[s]))'
  <2>1. UNCHANGED <<waiter, child, emitted, taken>>
    BY <1>12 DEF ReaderEnds
  <2>2. CASE r = s
    BY <1>12, <2>1, <2>2 DEF ReaderEnds, pipesClosed
  <2>3. CASE r # s
    BY <1>2, <1>3, <1>12, <2>1, <2>3 DEF ReaderEnds
  <2> QED
    BY <2>2, <2>3
<1>13. ASSUME NEW r \in Streams, ReaderScans(r) \/ ReaderQueues(r) \/ ReaderDrops(r)
       PROVE  (pipesClosed \/ (child = "exited" /\ taken[s] = emitted[s]))'
  <2>1. UNCHANGED <<waiter, child, emitted>> /\ reader'[r] # "ended"
    BY <1>2, <1>13 DEF ReaderScans, ReaderQueues, ReaderDrops
  <2>2. r # s
    BY <2>1
  <2>3. reader[s] = "ended" /\ taken'[s] = taken[s]
    BY <1>2, <1>13, <2>2 DEF ReaderScans, ReaderQueues, ReaderDrops, TypeOK
  <2> QED
    BY <1>1, <2>1, <2>3 DEF pipesClosed
<1>14. CASE ReaderRecords
  BY <1>2, <1>3, <1>14 DEF ReaderRecords, Streams
<1>15. CASE \E c \in Callers : Caller(c)
  <2>1. UNCHANGED <<waiter, child, emitted, taken, reader>>
    BY <1>15 DEF Caller, BeginWrite, BeginStop, Proceed, TryStop, WriteReturns
  <2> QED
    BY <1>3, <2>1
<1> QED
  BY <1>4, <1>5, <1>6, <1>7, <1>8, <1>9, <1>10, <1>11, <1>12, <1>13, <1>14, <1>15
  DEF Next, Machine, Reader

LEMMA FlowInit == Init => Flows /\ ReadersEnd
<1> SUFFICES ASSUME Init PROVE Flows /\ ReadersEnd
  OBVIOUS
<1>1. ASSUME NEW s \in Streams
      PROVE  /\ Flow(s) = <<>> /\ Held(s) = 0 /\ taken[s] = 0 /\ dropped[s] = 0
             /\ reader[s] = "none"
  <2>1. Queued(s) = <<>>
    BY OnlyEmpty DEF Init, Queued
  <2> DEFINE none == <<>>
  <2>2. Numbers(none) = none /\ none \o none = none
    BY DEF Numbers
  <2> QED
    BY <2>1, <2>2 DEF Init, Flow, Held
<1>2. Increasing(<<>>) /\ Len(<<>>) = 0
  BY DEF Increasing
<1> QED
  BY <1>1, <1>2 DEF Flows, ReadersEnd

(* The inductive invariant of the output of a process (process.go:476).    *)
THEOREM FlowInvariant == Spec => []Flows /\ []ReadersEnd
<1>1. Init => Flows /\ ReadersEnd
  BY FlowInit
<1>2. TypeOK /\ Lifecycle /\ Flows /\ ReadersEnd /\ [Next]_vars => Flows' /\ ReadersEnd'
  BY FlowStep, ReadersStep
<1>3. IInv => TypeOK /\ Lifecycle
  BY DEF IInv
<1> QED
  BY <1>1, <1>2, <1>3, Invariant, PTL DEF Spec

(* A number larger than all of an increasing sequence may follow it.       *)
LEMMA IncreasingAppend ==
  ASSUME NEW f \in Seq(Nat), NEW n \in Nat, Increasing(f),
         \A i \in 1 .. Len(f) : f[i] < n
  PROVE  Increasing(Append(f, n))
<1> DEFINE g == Append(f, n)
<1>1. /\ Len(f) \in Nat /\ DOMAIN g = 1 .. Len(f) + 1 /\ DOMAIN f = 1 .. Len(f)
      /\ g[Len(f) + 1] = n /\ \A i \in 1 .. Len(f) : g[i] = f[i] /\ f[i] \in Nat
  OBVIOUS
<1>2. \A i, j \in 1 .. Len(f) : i < j => f[i] < f[j]
  BY <1>1 DEF Increasing
<1> HIDE DEF g
<1>3. ASSUME NEW i \in 1 .. Len(f) + 1, NEW j \in 1 .. Len(f) + 1, i < j
      PROVE  g[i] < g[j]
  <2>1. i \in 1 .. Len(f) /\ (j \in 1 .. Len(f) \/ j = Len(f) + 1)
    BY <1>1, <1>3
  <2> QED
    BY <1>1, <1>2, <1>3, <2>1
<1> QED
  BY <1>1, <1>3 DEF Increasing, g

(* The lines of a stream arrive in the order the child wrote them, none    *)
(* twice, whatever was dropped in between.                                 *)
THEOREM StreamOrderHolds == Spec => []StreamOrder
<1>1. TypeOK /\ Flows => StreamOrder
  <2> SUFFICES ASSUME TypeOK, Flows, NEW s \in Streams
               PROVE  Increasing(received[s] \o Numbers(Queued(s)) \o
                                 (IF Held(s) = 1 THEN <<taken[s]>> ELSE <<>>))
    BY DEF StreamOrder, Numbers
  <2> DEFINE f == Flow(s)
  <2>1. /\ f \in Seq(Nat) /\ Len(f) \in Nat /\ taken[s] \in Nat
        /\ f = received[s] \o Numbers(Queued(s))
    BY FlowType DEF TypeOK, Flow
  <2>2. Increasing(f) /\ \A i \in 1 .. Len(f) : f[i] + Held(s) <= taken[s]
    BY DEF Flows
  <2> HIDE DEF f
  <2>3. CASE Held(s) = 1
    <3>1. \A i \in 1 .. Len(f) : f[i] < taken[s]
      <4>1. \A i \in 1 .. Len(f) : f[i] \in Nat /\ f[i] + 1 <= taken[s]
        BY <2>1, <2>2, <2>3
      <4> QED
        BY <2>1, <4>1
    <3>2. Increasing(Append(f, taken[s]))
      BY <2>1, <2>2, <3>1, IncreasingAppend
    <3>3. Append(f, taken[s]) = f \o <<taken[s]>>
      BY <2>1, NatConcat
    <3> QED
      BY <2>1, <2>3, <3>2, <3>3
  <2>4. CASE Held(s) # 1
    <3>1. f \o <<>> = f
      BY <2>1
    <3> QED
      BY <2>1, <2>2, <2>4, <3>1
  <2> QED
    BY <2>3, <2>4
<1> QED
  BY <1>1, FlowInvariant, TypeCorrect, PTL

(* Every line that was read was delivered, is on its way or was counted as *)
(* dropped (process.go:540).                                               *)
THEOREM LossIsCountedHolds == Spec => []LossIsCounted
<1>1. TypeOK /\ Flows /\ ReadersEnd => LossIsCounted
  <2> SUFFICES ASSUME TypeOK, Flows, ReadersEnd, NEW s \in Streams
               PROVE  /\ taken[s] = Len(received[s]) + Len(Queued(s)) + Held(s) + dropped[s]
                      /\ reader[s] = "ended" /\ taken[s] < emitted[s] => pipesClosed
    BY DEF LossIsCounted
  <2>1. taken[s] = Len(Flow(s)) + Held(s) + dropped[s]
    BY DEF Flows
  <2>2. Len(Flow(s)) = Len(received[s]) + Len(Queued(s))
    BY FlowType
  <2>3. taken[s] = Len(received[s]) + Len(Queued(s)) + Held(s) + dropped[s]
    BY <2>1, <2>2
  <2>4. reader[s] = "ended" /\ taken[s] < emitted[s] => pipesClosed
    BY DEF ReadersEnd, TypeOK
  <2> QED
    BY <2>3, <2>4
<1> QED
  BY <1>1, FlowInvariant, TypeCorrect, PTL
=============================================================================
