---------------------------- MODULE AgentProcess ----------------------------
(***************************************************************************)
(* One agent-runner child process as src/backend/agent/process.go runs it: *)
(* Start, the two pipe readers, the goroutine that waits for the child,    *)
(* the SIGTERM -> SIGKILL escalation, and the callers that write to its    *)
(* stdin or stop it.  p.mu is a lock only where a critical section can     *)
(* block (the stdin write); every other critical section is one action     *)
(* that needs the lock to be free.                                         *)
(***************************************************************************)
EXTENDS Naturals, Sequences, FiniteSets, Filter

CONSTANTS Callers,    \* goroutines of the manager that send or stop
          NoCaller,   \* p.mu is free
          OutputCap,  \* capacity of the output channel (4000 in the code)
          PipeCap,    \* lines an OS pipe holds before the child blocks
          StdinCap,   \* messages the stdin pipe holds before a write blocks
          MaxLines,   \* bound: lines the child writes, on both streams
          MaxSends    \* bound: messages the callers send

Streams == {"stdout", "stderr"}

ASSUME CallersAssumption == NoCaller \notin Callers
ASSUME BoundsAssumption ==
    /\ OutputCap \in Nat \ {0} /\ PipeCap \in Nat \ {0} /\ StdinCap \in Nat \ {0}
    /\ MaxLines \in Nat /\ MaxSends \in Nat

VARIABLES
    start,      \* whether Start has returned, and what
    child,      \* the operating-system process
    running,    \* p.running
    stopped,    \* p.stopped
    cancelled,  \* p.cancel() was called: SIGKILL, or Start refuses to spawn
    killer,     \* the escalation goroutine of doStopLocked
    waiter,     \* the goroutine that waits for the child and closes channels
    mu,         \* who holds p.mu across a blocking stdin write
    stdinOpen,  \* p.stdin # nil
    stdin,      \* messages in the stdin pipe
    emitted,    \* lines the child has written, per stream
    taken,      \* lines the scanner has returned, per stream
    reader,     \* the reader goroutine of each stream
    output,     \* the output channel: <<stream, line number>>
    dropped,    \* lines dropped after processOutputTimeout, per stream
    received,   \* lines the consumer of Output() got, per stream
    pc,         \* what each caller is doing
    verdict,    \* the result of each caller's TryStop
    sends       \* messages the callers began to write so far

procVars  == <<start, child, running, cancelled, killer, waiter>>
stopVars  == <<stopped, verdict, stdinOpen>>
pipeVars  == <<emitted, taken, reader, output, dropped, received>>
inVars    == <<mu, stdin, pc, sends>>
vars == <<start, child, running, stopped, cancelled, killer, waiter, mu,
          stdinOpen, stdin, emitted, taken, reader, output, dropped, received,
          pc, verdict, sends>>

TypeOK ==
    /\ start \in {"new", "started", "failed"}
    /\ child \in {"none", "alive", "exited"}
    /\ running \in BOOLEAN /\ stopped \in BOOLEAN /\ cancelled \in BOOLEAN
    /\ killer \in {"off", "armed"}
    /\ waiter \in {"none", "wait", "lock", "drain", "close", "finished"}
    /\ mu \in Callers \cup {NoCaller}
    /\ stdinOpen \in BOOLEAN
    /\ stdin \in 0..StdinCap
    /\ emitted \in [Streams -> Nat]
    /\ taken \in [Streams -> Nat]
    /\ reader \in [Streams -> {"none", "scan", "record", "send", "ended", "failed"}]
    /\ output \in Seq(Streams \X Nat)
    /\ Len(output) <= OutputCap
    /\ dropped \in [Streams -> Nat]
    /\ received \in [Streams -> Seq(Nat)]
    /\ pc \in [Callers -> {"idle", "write", "stop"}]
    /\ verdict \in [Callers -> {"none", "won", "lost"}]
    /\ sends \in 0..MaxSends

Init ==
    /\ start = "new" /\ child = "none"
    /\ running = FALSE /\ stopped = FALSE /\ cancelled = FALSE
    /\ killer = "off" /\ waiter = "none" /\ mu = NoCaller
    /\ stdinOpen = FALSE /\ stdin = 0
    /\ emitted = [s \in Streams |-> 0] /\ taken = [s \in Streams |-> 0]
    /\ reader = [s \in Streams |-> "none"]
    /\ output = <<>> /\ dropped = [s \in Streams |-> 0]
    /\ received = [s \in Streams |-> <<>>]
    /\ pc = [c \in Callers |-> "idle"] /\ verdict = [c \in Callers |-> "none"]
    /\ sends = 0

outputClosed == waiter \in {"close", "finished"}
doneClosed   == waiter = "finished"
-----------------------------------------------------------------------------
(* Start holds p.mu throughout.  The process is already in the manager's   *)
(* map when it is called, so another caller may have stopped it before.    *)

(* The pipes and the child, p.running, the two readers and the waiter.     *)
StartSucceeds ==
    /\ start = "new" /\ mu = NoCaller /\ ~cancelled
    /\ start' = "started" /\ child' = "alive" /\ stdinOpen' = TRUE
    /\ running' = TRUE /\ waiter' = "wait"
    /\ reader' = [s \in Streams |-> "scan"]
    /\ UNCHANGED <<cancelled, killer, stopped, verdict,
                   emitted, taken, output, dropped, received, inVars>>

(* A pipe cannot be made, or cmd.Start refuses: always when the context is *)
(* already cancelled, else for the system's reasons.                       *)
StartFails ==
    /\ start = "new" /\ mu = NoCaller
    /\ start' = "failed" /\ stdinOpen' \in {stdinOpen, TRUE}
    /\ UNCHANGED <<child, running, stopped, cancelled, killer, waiter, verdict,
                   pipeVars, inVars>>
-----------------------------------------------------------------------------
(* The child: it writes lines, reads its stdin and exits as it likes; only *)
(* SIGKILL obliges it to exit.                                             *)

ChildWrites(s) ==
    /\ child = "alive" /\ emitted["stdout"] + emitted["stderr"] < MaxLines
    /\ emitted[s] - taken[s] < PipeCap
    /\ emitted' = [emitted EXCEPT ![s] = @ + 1]
    /\ UNCHANGED <<procVars, stopVars, taken, reader, output,
                   dropped, received, inVars>>

ChildReads ==
    /\ child = "alive" /\ stdin > 0
    /\ stdin' = stdin - 1
    /\ UNCHANGED <<procVars, stopVars, pipeVars, mu, pc,
                   sends>>

ChildExits ==
    /\ child = "alive"
    /\ child' = "exited"
    /\ UNCHANGED <<start, running, cancelled, killer, waiter, stopVars, pipeVars, inVars>>

ChildKilled == cancelled /\ ChildExits
-----------------------------------------------------------------------------
(* The pipe readers.                                                       *)

(* The reader goroutine has returned.                                      *)
ReaderOver(s) == reader[s] \in {"ended", "failed"}

(* cmd.Wait has returned: it has closed our ends of the pipes.             *)
pipesClosed == waiter \notin {"none", "wait"}

(* scanner.Scan returns the next line; the stderr reader then records it   *)
(* for crash diagnostics before it forwards it.                            *)
ReaderScans(s) ==
    /\ reader[s] = "scan" /\ taken[s] < emitted[s]
    /\ taken' = [taken EXCEPT ![s] = @ + 1]
    /\ reader' = [reader EXCEPT ![s] = IF s = "stderr" THEN "record" ELSE "send"]
    /\ UNCHANGED <<procVars, stopVars, emitted, output,
                   dropped, received, inVars>>

(* End of file, or a read error because Wait closed the pipe under us.     *)
ReaderEnds(s) ==
    /\ reader[s] = "scan"
    /\ \/ child = "exited" /\ taken[s] = emitted[s]
       \/ pipesClosed
    /\ reader' = [reader EXCEPT ![s] = "ended"]
    /\ UNCHANGED <<procVars, stopVars, emitted, taken, output,
                   dropped, received, inVars>>

(* A line longer than the scanner's buffer ends the reader for good, while *)
(* the child still runs and may block on the pipe nobody reads.            *)
LineTooLong(s) ==
    /\ reader[s] = "scan" /\ taken[s] < emitted[s]
    /\ reader' = [reader EXCEPT ![s] = "failed"]
    /\ UNCHANGED <<procVars, stopVars, emitted, taken, output,
                   dropped, received, inVars>>

(* lastStderrLines is updated under p.mu.                                  *)
ReaderRecords ==
    /\ reader["stderr"] = "record" /\ mu = NoCaller
    /\ reader' = [reader EXCEPT !["stderr"] = "send"]
    /\ UNCHANGED <<procVars, stopVars, emitted, taken, output,
                   dropped, received, inVars>>

(* Mutants of ReaderQueues: the channel has no bound; the line is queued   *)
(* and queued again.                                                       *)
ReaderQueuesUnbounded(s) ==
    /\ reader[s] = "send"
    /\ output' = Append(output, <<s, taken[s]>>)
    /\ reader' = [reader EXCEPT ![s] = "scan"]
    /\ UNCHANGED <<procVars, stopVars, emitted, taken,
                   dropped, received, inVars>>

ReaderQueuesAgain(s) ==
    /\ reader[s] = "send" /\ Len(output) < OutputCap
    /\ output' = Append(output, <<s, taken[s]>>)
    /\ UNCHANGED <<procVars, stopVars, emitted, taken, reader,
                   dropped, received, inVars>>

ReaderQueues(s) ==
    /\ reader[s] = "send" /\ Len(output) < OutputCap
    /\ output' = Append(output, <<s, taken[s]>>)
    /\ reader' = [reader EXCEPT ![s] = "scan"]
    /\ UNCHANGED <<procVars, stopVars, emitted, taken,
                   dropped, received, inVars>>

(* Mutant of ReaderDrops: the drop is not counted.                         *)
ReaderDropsSilently(s) ==
    /\ reader[s] = "send" /\ Len(output) = OutputCap
    /\ reader' = [reader EXCEPT ![s] = "scan"]
    /\ UNCHANGED <<procVars, stopVars, emitted, taken, output, dropped,
                   received, inVars>>

(* processOutputTimeout passed with the channel full.                      *)
ReaderDrops(s) ==
    /\ reader[s] = "send" /\ Len(output) = OutputCap
    /\ dropped' = [dropped EXCEPT ![s] = @ + 1]
    /\ reader' = [reader EXCEPT ![s] = "scan"]
    /\ UNCHANGED <<procVars, stopVars, emitted, taken, output,
                   received, inVars>>

(* Whoever ranges over Output().                                           *)
Consume ==
    /\ output # <<>>
    /\ output' = Tail(output)
    /\ received' = [received EXCEPT ![Head(output)[1]] = Append(@, Head(output)[2])]
    /\ UNCHANGED <<procVars, stopVars, emitted, taken, reader,
                   dropped, inVars>>
-----------------------------------------------------------------------------
(* The goroutine that waits for the child.                                 *)

WaitReturns ==
    /\ waiter = "wait" /\ child = "exited"
    /\ waiter' = "lock"
    /\ UNCHANGED <<start, child, running, cancelled, killer, stopVars, pipeVars, inVars>>

WaiterClearsRunning ==
    /\ waiter = "lock" /\ mu = NoCaller
    /\ waiter' = "drain" /\ running' = FALSE
    /\ UNCHANGED <<start, child, cancelled, killer, stopVars,
                   pipeVars, inVars>>

(* Mutant of WaiterClosesOutput: without outputWg.Wait.                    *)
WaiterClosesOutputEarly ==
    /\ waiter = "drain"
    /\ waiter' = "close"
    /\ UNCHANGED <<start, child, running, cancelled, killer, stopVars, pipeVars, inVars>>

(* outputWg.Wait, then close(output).                                      *)
WaiterClosesOutput ==
    /\ waiter = "drain" /\ \A s \in Streams : ReaderOver(s)
    /\ waiter' = "close"
    /\ UNCHANGED <<start, child, running, cancelled, killer, stopVars, pipeVars, inVars>>

WaiterClosesDone ==
    /\ waiter = "close"
    /\ waiter' = "finished"
    /\ UNCHANGED <<start, child, running, cancelled, killer, stopVars, pipeVars, inVars>>
-----------------------------------------------------------------------------
(* Callers that send.                                                      *)

(* sendInput, for any Send... or Set... call (refused, such a call changes *)
(* nothing here): p.stdin.Write with p.mu held ...                         *)
BeginWrite(c) ==
    /\ pc[c] = "idle" /\ sends < MaxSends
    /\ mu = NoCaller /\ running /\ stdinOpen
    /\ mu' = c /\ pc' = [pc EXCEPT ![c] = "write"] /\ sends' = sends + 1
    /\ UNCHANGED <<procVars, stopVars, pipeVars, stdin>>

(* ... and returns when the pipe has room, or when its reader is gone.     *)
WriteReturns(c) ==
    /\ pc[c] = "write"
    /\ \/ child = "alive" /\ stdin < StdinCap /\ stdin' = stdin + 1
       \/ child = "exited" /\ UNCHANGED stdin
    /\ mu' = NoCaller /\ pc' = [pc EXCEPT ![c] = "idle"]
    /\ UNCHANGED <<procVars, stopVars, pipeVars, sends>>
-----------------------------------------------------------------------------
(* Callers that stop.                                                      *)

BeginStop(c) ==
    /\ pc[c] = "idle" /\ verdict[c] = "none"
    /\ pc' = [pc EXCEPT ![c] = "stop"]
    /\ UNCHANGED <<procVars, stopVars, pipeVars, mu, stdin,
                   sends>>

(* Mutant of doStopLocked: stdin stays open.                               *)
doStopKeepsStdin ==
    /\ UNCHANGED stdinOpen
    /\ IF running THEN killer' = "armed" /\ UNCHANGED cancelled
                  ELSE cancelled' = TRUE /\ UNCHANGED killer

(* Close stdin, then SIGTERM with the escalation armed when the child      *)
(* runs, else cancel the context.                                          *)
doStopLocked ==
    /\ stdinOpen' = FALSE
    /\ IF running THEN killer' = "armed" /\ UNCHANGED cancelled
                  ELSE cancelled' = TRUE /\ UNCHANGED killer

(* Mutant of TryStop: p.stopped is not looked at.                          *)
TryStopUnchecked(c) ==
    /\ pc[c] = "stop" /\ mu = NoCaller
    /\ pc' = [pc EXCEPT ![c] = "idle"]
    /\ stopped' = TRUE
    /\ verdict' = [verdict EXCEPT ![c] = "won"]
    /\ doStopLocked
    /\ UNCHANGED <<start, child, running, waiter, pipeVars, mu, stdin, sends>>

TryStop(c) ==
    /\ pc[c] = "stop" /\ mu = NoCaller
    /\ pc' = [pc EXCEPT ![c] = "idle"]
    /\ \/ /\ stopped /\ verdict' = [verdict EXCEPT ![c] = "lost"]
          /\ UNCHANGED <<stopped, killer, cancelled, stdinOpen>>
       \/ /\ ~stopped /\ stopped' = TRUE
          /\ verdict' = [verdict EXCEPT ![c] = "won"]
          /\ doStopLocked
    /\ UNCHANGED <<start, child, running, waiter, pipeVars, mu, stdin, sends>>

(* Mutant of KillerFires: SIGTERM is all the child ever gets.              *)
KillerGivesUp ==
    /\ killer = "armed"
    /\ killer' = "off"
    /\ UNCHANGED <<start, child, running, cancelled, waiter, stopVars,
                   pipeVars, inVars>>

(* Five seconds after SIGTERM, unless Done has closed first.               *)
KillerFires ==
    /\ killer = "armed"
    /\ killer' = "off"
    /\ cancelled' = (cancelled \/ ~doneClosed)
    /\ UNCHANGED <<start, child, running, waiter, stopVars,
                   pipeVars, inVars>>
-----------------------------------------------------------------------------
Reader(s) ==
    \/ ReaderScans(s) \/ ReaderEnds(s) \/ ReaderQueues(s) \/ ReaderDrops(s)
    \/ s = "stderr" /\ ReaderRecords

Waiter == WaitReturns \/ WaiterClearsRunning \/ WaiterClosesOutput \/ WaiterClosesDone

(* SIGKILL, once decided on, ends the child.                               *)
Escalation == KillerFires \/ ChildKilled

(* Steps the runtime and the system take on their own, as opposed to what  *)
(* the child and the callers decide to do.                                 *)
Machine ==
    \/ Waiter \/ Escalation
    \/ \E s \in Streams : Reader(s)

(* What a caller does once it has made a call, and the calls it may make.  *)
Proceed(c) == WriteReturns(c) \/ TryStop(c)

Caller(c) == BeginWrite(c) \/ BeginStop(c) \/ Proceed(c)

Next ==
    \/ StartSucceeds \/ StartFails \/ ChildReads \/ ChildExits \/ Consume \/ Machine
    \/ \E s \in Streams : ChildWrites(s) \/ LineTooLong(s)
    \/ \E c \in Callers : Caller(c)

(* Every goroutine that can run does; p.mu is handed to whoever waits for  *)
(* it (Go's mutex is starvation-free).  The child and the consumer are     *)
(* under no obligation.                                                    *)
Fairness ==
    /\ SF_vars(Waiter)
    /\ WF_vars(Escalation)
    /\ \A s \in Streams : SF_vars(Reader(s))
    /\ \A c \in Callers : SF_vars(Proceed(c))

Spec == Init /\ [][Next]_vars /\ Fairness
-----------------------------------------------------------------------------
Queued(s) == Only(output, {s} \X Nat)
Held(s)   == IF reader[s] \in {"record", "send"} THEN 1 ELSE 0

(* The callers whose TryStop returned true.                                *)
Winners == {c \in Callers : verdict[c] = "won"}

Increasing(q) == \A i, j \in DOMAIN q : i < j => q[i] < q[j]

(* A reader is never about to send on the closed output channel (a Go      *)
(* panic), and Done is closed only after Output, when the child is gone,   *)
(* both readers have ended and IsRunning is false.                         *)
ShutdownOrder ==
    /\ outputClosed => /\ \A s \in Streams : ReaderOver(s)
                       /\ ~running /\ child = "exited"
    /\ running => waiter \in {"wait", "lock"}

(* The lines of a stream reach the consumer of Output() in the order the   *)
(* child wrote them, none of them twice, whatever was dropped in between.  *)
StreamOrder ==
    \A s \in Streams :
        LET got == received[s]
            que == [i \in DOMAIN Queued(s) |-> Queued(s)[i][2]]
            hold == IF Held(s) = 1 THEN <<taken[s]>> ELSE <<>>
        IN  Increasing(got \o que \o hold)

(* Every line the scanner returned was delivered, is on its way or was     *)
(* counted in droppedMessages; a reader stops with lines unread only when  *)
(* the process has exited, or at a line too long for it.                   *)
LossIsCounted ==
    \A s \in Streams :
        /\ taken[s] = Len(received[s]) + Len(Queued(s)) + Held(s) + dropped[s]
        /\ reader[s] = "ended" /\ taken[s] < emitted[s] => pipesClosed

(* However many goroutines stop the process, exactly one is told that it   *)
(* owns the stop: StopConversation updates the status on that answer.      *)
StopHasOneOwner ==
    /\ \A c, d \in Winners : c = d
    /\ stopped <=> Winners # {}

(* No message is written to the child once it has been stopped.            *)
NoInputAfterStop == [][stopped => stdin' <= stdin]_vars

(* A call to Stop returns (process.go:792: SIGTERM first, then SIGKILL     *)
(* after 5s).  It does not: the write in sendInput holds p.mu.             *)
StopReturns == \A c \in Callers : (pc[c] = "stop") ~> (pc[c] # "stop")

-----------------------------------------------------------------------------
(* AgentProcess implements BackendContract.                                *)
absPhase ==
    CASE start = "failed" -> "failed"
      [] start = "new" -> "new"
      [] OTHER -> CASE doneClosed -> "done"
                    [] outputClosed /\ ~doneClosed -> "closed"
                    [] ~outputClosed /\ ~running -> "exited"
                    [] OTHER -> "running"

absOwner == IF Winners = {} THEN NoCaller ELSE CHOOSE c \in Winners : TRUE

Contract == INSTANCE BackendContract WITH phase <- absPhase, owner <- absOwner

(* The process behaves as the manager expects of any backend; above all, a *)
(* started process that was stopped ends and closes Output and then Done,  *)
(* even if the child ignores SIGTERM, nobody reads Output and the channel  *)
(* and the pipes are full.                                                 *)
ImplementsContract == Contract!Spec
=============================================================================
