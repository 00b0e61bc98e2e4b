--------------------------- MODULE BackendContract ---------------------------
(***************************************************************************)
(* What the conversation manager relies on when it drives a backend        *)
(* (interface ConversationBackend, src/backend/agent/backend.go): the life *)
(* of one backend, seen only through Start, TryStop/Stop, IsRunning,       *)
(* Output and Done.  AgentProcess is shown to implement it.                *)
(***************************************************************************)
CONSTANTS Callers,   \* the goroutines that may stop the backend
          NoCaller   \* not a caller: nobody has claimed the stop

VARIABLES phase,     \* where the backend is in its life
          owner      \* the one caller whose TryStop returned true

vars == <<phase, owner>>

Phases == {"new", "failed", "running", "exited", "closed", "done"}

TypeOK == /\ phase \in Phases
          /\ owner \in Callers \cup {NoCaller}

Init == phase = "new" /\ owner = NoCaller

(* Start either brings the backend up or reports an error; a backend that  *)
(* failed to start never closes Output or Done.                            *)
Start == phase = "new" /\ phase' \in {"running", "failed"} /\ UNCHANGED owner

(* The first stop wins: every later TryStop returns false.                 *)
ClaimStop(c) == owner = NoCaller /\ owner' = c /\ UNCHANGED phase

(* IsRunning turns false, then Output closes, then Done closes.            *)
Exit        == phase = "running" /\ phase' = "exited" /\ UNCHANGED owner
CloseOutput == phase = "exited"  /\ phase' = "closed" /\ UNCHANGED owner
CloseDone   == phase = "closed"  /\ phase' = "done"   /\ UNCHANGED owner

(* What a backend owes its caller once it has been stopped or has exited.  *)
Finish == (owner # NoCaller /\ Exit) \/ CloseOutput \/ CloseDone

Next == Start \/ (\E c \in Callers : ClaimStop(c)) \/ Exit \/ CloseOutput \/ CloseDone

(* A backend nobody stopped may run for ever; a stopped one must end.      *)
Spec == Init /\ [][Next]_vars /\ WF_vars(Finish)
=============================================================================
