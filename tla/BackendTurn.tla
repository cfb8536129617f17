------------------------------ MODULE BackendTurn ------------------------------
(***************************************************************************)
(* What AgentDriverBackend (core/agent-driver-backend.ts) promises to the  *)
(* dispatcher about a turn, whichever provider drives it: the promise of   *)
(* handleInput settles as the run terminal the backend published, a run    *)
(* has one terminal, and a turn that says it was cancelled or completed    *)
(* leaves no native work of its own behind.  PiBackend, AcpBackend,        *)
(* ClaudeBackend and OpenAiBackend implement it.                           *)
(***************************************************************************)
CONSTANT Terminals         \* {"completed", "cancelled", "failed"}

VARIABLES
  working,                 \* a turn is under way
  terminal,                \* the terminal the host received for it, or "none"
  native,                  \* the native side works for a turn
  outcome                  \* of the last turn: none, resolved, cancelled, rejected

turnVars == <<working, terminal, native, outcome>>

TurnInit == working = FALSE /\ terminal = "none" /\ native = FALSE /\ outcome = "none"

(* A rejected turn ends the driver (#runInputCommand).                     *)
Begins ==
  /\ ~working /\ outcome # "rejected"
  /\ working' = TRUE /\ terminal' = "none" /\ outcome' = "none"
  /\ native' \in BOOLEAN

(* The backend may not take the input at all.                              *)
Refuses ==
  /\ ~working /\ outcome' = "rejected" /\ terminal' = "none"
  /\ UNCHANGED <<working, native>>

NativeTurns == native' \in BOOLEAN /\ UNCHANGED <<working, terminal, outcome>>

(* What was under way when a turn was rejected may still be received.      *)
Publishes ==
  /\ working \/ outcome = "rejected"
  /\ terminal = "none"
  /\ terminal' \in Terminals
  /\ UNCHANGED <<working, native, outcome>>

(* resolved is for a completed run, cancelled for a cancelled one.         *)
MayEndAs(o, last) ==
  \/ o = "rejected"
  \/ o = "resolved" /\ last = "completed" /\ ~native'
  \/ o = "cancelled" /\ last = "cancelled" /\ ~native'

(* The terminal may be received in the step that ends the turn.            *)
Ends ==
  /\ working /\ ~working'
  /\ terminal' \in {terminal} \cup (IF terminal = "none" THEN Terminals ELSE {})
  /\ outcome' \in {"resolved", "cancelled", "rejected"}
  /\ native' \in BOOLEAN
  /\ MayEndAs(outcome', terminal')

TurnNext == Begins \/ Refuses \/ NativeTurns \/ Publishes \/ Ends
TurnSpec == TurnInit /\ [][TurnNext]_turnVars
=============================================================================
