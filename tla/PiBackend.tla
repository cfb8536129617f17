------------------------------- MODULE PiBackend -------------------------------
(***************************************************************************)
(* PiDriverBackend (runtimes/pi): one turn at a time over a native process *)
(* that is spoken to by RPC.  The turn, its cancellation, the event        *)
(* deliveries, the permission requests and the stop of the backend are     *)
(* tasks of one thread; the native process is the environment.  The        *)
(* translator is reduced to the items it opened and has to close: the      *)
(* assistant message, a thought of it and a tool call of it.               *)
(***************************************************************************)
EXTENDS Naturals, FiniteSets

VARIABLES
  piPc,                    \* handleInput
  piTurn,                  \* [started, cancelled, admitted, terminal, settled]
  piCancel,                \* turn.cancellation: none, admission, abort, settle, kill, ok, failed
  piAsked,                 \* run.cancel.requested is out: no, open, ok, failed
  piNative,                \* the process: idle, preflight, running, dead, or deaf: not stopped
  piFailure,               \* #failure: none, other, cleanup
  piItems,                 \* the translator: [open, owners, failed]
  piShown,                 \* the items open in the stream of events
  piTask,                  \* #eventTasks and #permissionTasks: see PiNoTask
  piBroken,                \* thoughtDeliveryFailure
  piStop,                  \* stop: none, waiting, draining, ok, failed
  piTold                   \* for BackendTurn: [terminal, outcome]

piVars == <<piPc, piTurn, piCancel, piAsked, piNative, piFailure, piItems, piShown, piTask, piBroken, piStop, piTold>>

NoPiTurn == [started |-> FALSE, cancelled |-> FALSE, admitted |-> FALSE,
             terminal |-> "none", settled |-> "pending"]

(* One task at a time is out (a bound): the delivery of events, with the   *)
(* items they end, or a permission request.                                *)
PiNoTask == {"none"}
PiAsk == {"permission"}
PiNoItems == [open |-> {}, owners |-> {}, failed |-> FALSE]

PiInit ==
  /\ piPc = "idle" /\ piTurn = NoPiTurn
  /\ piCancel = "none" /\ piAsked = "no"
  /\ piNative = "idle" /\ piFailure = "none"
  /\ piItems = PiNoItems /\ piShown = {}
  /\ piTask = PiNoTask /\ piBroken = FALSE
  /\ piStop = "none"
  /\ piTold = [terminal |-> "none", outcome |-> "none"]

PiAborted == piTurn.cancelled \/ piFailure # "none"       \* turn.controller.signal
PiQuiet == piTask = PiNoTask

-----------------------------------------------------------------------------
(* handleInput, as far as nothing is thrown                                *)

PiGoes(pc) == piPc' = pc
PiOtherwise == UNCHANGED <<piCancel, piAsked, piItems, piShown, piTask, piBroken, piStop>>

(* Where an error takes the turn: its cancellation, or its failure.        *)
PiThrows == PiGoes(IF piTurn.cancelled THEN "cancelling" ELSE "failing")

PiBegin ==
  /\ piPc = "idle" /\ piStop = "none" /\ piFailure = "none" /\ piNative = "idle"
  /\ piTold.outcome # "rejected"
  /\ PiGoes("starting")
  /\ piTurn' = NoPiTurn
  /\ piCancel' = "none" /\ piAsked' = "no" /\ piItems' = PiNoItems /\ piBroken' = FALSE /\ piShown' = {}
  /\ piTold' = [terminal |-> "none", outcome |-> "none"]
  /\ UNCHANGED <<piNative, piFailure, piTask, piStop>>

PiStartPushed ==
  /\ piPc = "starting"
  /\ \E ok \in BOOLEAN :
       /\ piTurn' = [piTurn EXCEPT !.started = ok, !.admitted = ok /\ ~piTurn.cancelled]
       /\ IF ok /\ ~piTurn.cancelled THEN PiGoes("admitting") ELSE PiThrows
       /\ piNative' = IF ok /\ ~piTurn.cancelled /\ piNative = "idle" THEN "preflight" ELSE piNative
  /\ UNCHANGED <<piFailure, piTold>> /\ PiOtherwise

(* The response to the prompt, within 30 seconds.                          *)
PiPromptAnswered ==
  /\ piPc = "admitting"
  /\ \/ piNative = "running" /\ PiGoes("settling")
     \/ PiThrows                                  \* rejected, or late
  /\ UNCHANGED <<piTurn, piNative, piFailure, piTold>> /\ PiOtherwise

PiNativeSettled ==
  /\ piPc = "settling" /\ piTurn.settled # "pending"
  /\ IF piTurn.settled = "resolved" THEN PiGoes("draining") ELSE PiThrows
  /\ UNCHANGED <<piTurn, piNative, piFailure, piTold>> /\ PiOtherwise

PiDrained ==
  /\ piPc = "draining" /\ PiQuiet
  /\ IF piTurn.cancelled \/ piItems.failed THEN PiThrows
     ELSE PiGoes("session") \/ (piFailure # "none" /\ PiThrows)
  /\ UNCHANGED <<piTurn, piNative, piFailure, piTold>> /\ PiOtherwise

(* get_state, the resume pointer and the checkpoint of the session file.   *)
PiSessionSaved ==
  /\ piPc = "session"
  /\ IF PiAborted \/ piNative # "idle" THEN PiThrows /\ UNCHANGED piTurn
     ELSE \/ PiThrows /\ UNCHANGED piTurn
          \/ PiGoes("completing") /\ piTurn' = [piTurn EXCEPT !.terminal = "completed"]
  /\ UNCHANGED <<piNative, piFailure, piTold>> /\ PiOtherwise

PiEnd(o, t) ==
  /\ PiGoes("idle")
  /\ piTold' = [terminal |-> t, outcome |-> o]

(* pushTerminal: a cancellation supersedes the terminal or comes too late. *)
PiCompleted ==
  /\ piPc = "completing"
  /\ \/ PiEnd("resolved", "completed") /\ UNCHANGED piTurn
     \/ /\ piTurn.cancelled
        /\ PiGoes("cancelling") /\ piTurn' = [piTurn EXCEPT !.terminal = "none"]
        /\ UNCHANGED piTold
     \/ PiGoes("dying") /\ UNCHANGED <<piTurn, piTold>>
  /\ piFailure' = IF piPc' = "dying" THEN "other" ELSE piFailure
  /\ UNCHANGED piNative /\ PiOtherwise

-----------------------------------------------------------------------------
(* The catch of handleInput                                                *)

(* client.stop, which may time out.                                        *)
PiStopsNative == piNative' = "dead"
PiCannotStop == piNative' = IF piNative = "dead" THEN "dead" ELSE "deaf"

(* A terminal whose delivery failed: the process is stopped, or not.       *)
PiDied ==
  /\ piPc = "dying"
  /\ PiStopsNative \/ PiCannotStop
  /\ PiEnd("rejected", piTold.terminal)
  /\ UNCHANGED <<piTurn, piFailure>> /\ PiOtherwise

(* The cancellation is awaited, and asked for if nobody has yet.           *)
PiCancelAsked ==
  /\ piPc = "cancelling" /\ piCancel = "ok" /\ piAsked = "no" /\ PiQuiet
  /\ piAsked' = "open"
  /\ UNCHANGED <<piPc, piTurn, piCancel, piNative, piFailure, piItems, piShown, piTask, piBroken, piStop, piTold>>

PiCancelJoined == piCancel \in {"ok", "failed"} /\ piAsked \in {"ok", "failed"} /\ PiQuiet
PiCancelFailed == piCancel = "failed" \/ piAsked = "failed" \/ piFailure # "none"

PiCancelled ==
  /\ piPc = "cancelling" /\ PiCancelJoined
  /\ IF PiCancelFailed
     THEN /\ PiGoes("failing") /\ UNCHANGED piTurn
          /\ piFailure' = IF piFailure = "none" THEN "other" ELSE piFailure
     ELSE /\ PiGoes("closing") /\ piTurn' = [piTurn EXCEPT !.terminal = "other"]
          /\ UNCHANGED piFailure
  /\ UNCHANGED <<piNative, piTold>> /\ PiOtherwise

(* #closeItems: whatever the translator has open is closed first.          *)
PiForgetsTools == piItems.open \ {"tool"}      \* bug: only messages and thoughts are closed
PiToClose == piItems.open
PiCancelTerminalPushed ==
  /\ piPc = "closing"
  /\ \/ PiEnd("cancelled", "cancelled") /\ UNCHANGED piFailure
     \/ PiGoes("dying") /\ piFailure' = "other" /\ UNCHANGED piTold
  /\ piItems' = PiNoItems /\ piShown' = piShown \ PiToClose
  /\ UNCHANGED <<piTurn, piNative, piCancel, piAsked, piTask, piBroken, piStop>>

(* Failed admission or delivery must not leave native work running.        *)
PiFails ==
  /\ piPc = "failing"
  /\ \/ PiStopsNative /\ PiGoes("stopped") /\ piFailure' = IF piFailure = "none" THEN "other" ELSE piFailure
     \/ PiCannotStop /\ piNative # "dead" /\ PiGoes("abandoning") /\ piFailure' = "cleanup"
  /\ UNCHANGED <<piTurn, piTold>> /\ PiOtherwise

(* The process could not be stopped: the turn ends without a terminal.     *)
PiAbandoned ==
  /\ piPc = "abandoning" /\ PiQuiet
  /\ PiEnd("rejected", piTold.terminal)
  /\ UNCHANGED <<piTurn, piNative, piFailure>> /\ PiOtherwise

PiFailureDrained ==
  /\ piPc = "stopped" /\ PiQuiet
  /\ \/ PiGoes("reporting") /\ piTurn' = [piTurn EXCEPT !.terminal = "other"] /\ UNCHANGED piTold
     \/ piBroken /\ PiEnd("rejected", piTold.terminal) /\ UNCHANGED piTurn     \* thoughtDeliveryFailure
  /\ UNCHANGED <<piNative, piFailure>> /\ PiOtherwise

PiFailureTerminalPushed ==
  /\ piPc = "reporting"
  /\ \E t \in {"failed", piTold.terminal} : PiEnd("rejected", t)
  /\ piItems' = PiNoItems /\ piShown' = piShown \ PiToClose
  /\ UNCHANGED <<piTurn, piNative, piFailure, piCancel, piAsked, piTask, piBroken, piStop>>

-----------------------------------------------------------------------------
(* cancelActiveTurn                                                        *)

PiBeginsCancel ==
  IF piPc = "idle" \/ piTurn.terminal = "other" \/ piCancel # "none"
  THEN UNCHANGED <<piTurn, piCancel, piAsked>>
  ELSE IF piTurn.terminal = "completed"
  THEN /\ piTurn' = [piTurn EXCEPT !.cancelled = TRUE]
       /\ piCancel' = "ok" /\ UNCHANGED piAsked
  ELSE /\ piTurn' = [piTurn EXCEPT !.cancelled = TRUE,
                                   !.settled = IF @ = "pending" /\ ~piTurn.admitted THEN "resolved" ELSE @]
       /\ piCancel' = IF piTurn.admitted THEN "admission" ELSE "ok"
       /\ piAsked' = "open"

PiCancel ==
  /\ piPc # "idle" /\ piCancel = "none" /\ piTurn.terminal # "other"
  /\ PiBeginsCancel
  /\ UNCHANGED <<piPc, piNative, piFailure, piItems, piShown, piTask, piBroken, piStop,
                 piTold>>

PiSettle(how) == piTurn' = [piTurn EXCEPT !.settled = IF @ = "pending" THEN how ELSE @]
PiCancelRest == <<piPc, piAsked, piItems, piShown, piTask, piBroken, piStop, piTold>>

PiTimesAbortOnly == {"admission", "abort"}      \* bug: the native end is awaited for ever
PiTimed == {"admission", "abort", "settle"}

(* Each step of the native abort has five seconds; the process is stopped  *)
(* if one fails or is late.                                                *)
PiCancelAdvances ==
  /\ \/ piCancel = "admission" /\ piNative # "preflight" /\ piCancel' \in {"abort", "kill"}
     \/ piCancel = "abort" /\ piNative \in {"running", "idle"} /\ piCancel' = "settle"
     \/ piCancel = "settle" /\ piTurn.settled = "resolved" /\ piCancel' = "ok"
     \/ piCancel \in PiTimed /\ piCancel' = "kill"
  /\ UNCHANGED <<piTurn, piNative, piFailure>> /\ UNCHANGED PiCancelRest

PiCancelKills ==
  /\ piCancel = "kill"
  /\ \/ /\ PiStopsNative /\ PiSettle("resolved")
        /\ piCancel' = IF piStop # "none" THEN "ok" ELSE "failed"
        /\ piFailure' = IF piStop # "none" THEN piFailure ELSE "cleanup"
     \/ /\ PiCannotStop /\ piNative # "dead" /\ PiSettle("rejected")
        /\ piCancel' = "failed" /\ piFailure' = "cleanup"
  /\ UNCHANGED PiCancelRest

PiAskedSettles ==
  /\ piAsked = "open"
  /\ \E ok \in BOOLEAN : /\ piAsked' = IF ok THEN "ok" ELSE "failed"
                         /\ IF ok THEN UNCHANGED piTurn ELSE PiSettle("rejected")
  /\ UNCHANGED <<piPc, piCancel, piNative, piFailure, piItems, piShown, piTask, piBroken,
                 piStop, piTold>>

-----------------------------------------------------------------------------
(* #receive and #fail                                                      *)

PiFailsBackend == piFailure' = IF piFailure = "none" THEN "other" ELSE piFailure
PiRecordRest == <<piPc, piCancel, piAsked, piStop, piTold>>

PiTranslates(opened, ended, owners, interrupted) ==
  /\ piNative = "running" /\ piFailure = "none" /\ piTask = PiNoTask
  /\ piItems' = [open |-> piItems.open \cup opened, owners |-> owners, failed |-> interrupted]
  /\ piShown' = (piShown \cup opened) \ ended
  /\ piTask' = ended
  /\ UNCHANGED <<piTurn, piNative, piFailure, piBroken>> /\ UNCHANGED PiRecordRest

PiMessageStarts ==
  "message" \notin piItems.open /\ PiTranslates({"message"}, {}, piItems.owners, piItems.failed)
PiThoughtStarts ==
  /\ "message" \in piItems.open /\ "thought" \notin piItems.open
  /\ PiTranslates({"thought"}, {}, piItems.owners, piItems.failed)
(* A message ends with its thoughts; it names the tool calls to come.      *)
PiMessageEnds ==
  /\ "message" \in piItems.open
  /\ \E calls \in {{}, {"tool"}}, interrupted \in BOOLEAN :
       PiTranslates({}, {"message", "thought"}, piItems.owners \cup calls, interrupted)
PiToolStarts ==
  /\ "tool" \in piItems.owners \ piItems.open
  /\ PiTranslates({"tool"}, {}, piItems.owners, piItems.failed)
PiToolEnds ==
  /\ "tool" \in piItems.open \cap piItems.owners
  /\ PiTranslates({}, {"tool"}, piItems.owners \ {"tool"}, piItems.failed)

(* The host has the events (accept), or the backend fails.                 *)
PiTaskSettles ==
  /\ piTask \notin {PiNoTask, PiAsk}
  /\ piTask' = PiNoTask
  /\ \/ /\ piItems' = [piItems EXCEPT !.open = @ \ piTask]
        /\ UNCHANGED <<piTurn, piFailure, piBroken>>
     \/ /\ PiFailsBackend /\ PiSettle("rejected") /\ UNCHANGED piItems
        /\ piBroken' \in {piBroken, "thought" \in piTask}
  /\ UNCHANGED <<piNative, piShown>> /\ UNCHANGED PiRecordRest

PiPermissionAsked ==
  /\ piNative = "running" /\ piFailure = "none" /\ piTask = PiNoTask
  /\ piTask' = PiAsk
  /\ UNCHANGED <<piTurn, piNative, piFailure, piItems, piShown, piBroken>> /\ UNCHANGED PiRecordRest
PiPermissionAnswered ==
  /\ piTask = PiAsk
  /\ piTask' = PiNoTask
  /\ UNCHANGED <<piTurn, piNative, piFailure, piItems, piShown, piBroken>> /\ UNCHANGED PiRecordRest

-----------------------------------------------------------------------------
(* The native process                                                      *)

PiPreflightEnds ==
  /\ piNative = "preflight"
  /\ piNative' \in {"running", "idle"}
  /\ UNCHANGED <<piTurn, piFailure, piItems, piShown, piTask, piBroken>>
  /\ UNCHANGED PiRecordRest

PiSettlesAtAgentEnd ==                 \* bug: agent_end taken for agent_settled
  /\ piNative = "running" /\ piFailure = "none" /\ PiSettle("resolved")
  /\ UNCHANGED <<piNative, piFailure, piItems, piShown, piTask, piBroken>> /\ UNCHANGED PiRecordRest

(* agent_settled.  A turn that Pi aborts by itself is an error.            *)
PiNativeSettles ==
  /\ piNative = "running" /\ piFailure = "none"
  /\ piNative' = "idle"
  /\ PiSettle("resolved") \/ (~piTurn.cancelled /\ PiSettle("rejected"))
  /\ UNCHANGED <<piFailure, piItems, piShown, piTask, piBroken>> /\ UNCHANGED PiRecordRest

(* The process exits, sends what cannot be read, or its supervision ends.  *)
PiNativeDies ==
  /\ piNative \in {"idle", "preflight", "running"}
  /\ PiStopsNative /\ PiFailsBackend
  /\ IF piPc = "idle" THEN UNCHANGED piTurn ELSE PiSettle("rejected")
  /\ UNCHANGED <<piItems, piShown, piTask, piBroken>> /\ UNCHANGED PiRecordRest

-----------------------------------------------------------------------------
(* stop                                                                    *)

PiStop ==
  /\ piStop \in {"none", "failed"}
  /\ piStop' = "waiting"
  /\ PiBeginsCancel
  /\ UNCHANGED <<piPc, piNative, piFailure, piItems, piShown, piTask, piBroken, piTold>>

PiStopKills ==
  /\ piStop = "waiting"
  /\ \/ PiStopsNative /\ piStop' = "draining"
     \/ PiCannotStop /\ piNative # "dead" /\ piStop' = "failing"
  /\ UNCHANGED <<piPc, piTurn, piCancel, piAsked, piFailure, piItems, piShown, piTask, piBroken, piTold>>

(* The turn, then what it left behind; finishTerminalCleanup may fail.     *)
PiStopEnds ==
  /\ piStop \in {"draining", "failing"} /\ piPc = "idle" /\ PiQuiet
  /\ piStop' \in (IF piStop = "draining" THEN {"ok", "failed"} ELSE {"failed"})
  /\ UNCHANGED <<piPc, piTurn, piCancel, piAsked, piNative, piFailure, piItems, piShown, piTask, piBroken, piTold>>

-----------------------------------------------------------------------------
PiTurnStep ==
  \/ PiStartPushed \/ PiPromptAnswered \/ PiNativeSettled \/ PiDrained \/ PiSessionSaved \/ PiCompleted \/ PiDied
  \/ PiCancelAsked \/ PiCancelled \/ PiCancelTerminalPushed
  \/ PiFails \/ PiAbandoned \/ PiFailureDrained \/ PiFailureTerminalPushed
PiCancelStep == PiCancelAdvances \/ PiCancelKills
PiStopStep == PiStopKills \/ PiStopEnds

PiNext ==
  \/ PiTurnStep \/ PiCancelStep \/ PiAskedSettles \/ PiTaskSettles \/ PiStopStep
  \/ PiBegin \/ PiCancel \/ PiStop
  \/ PiMessageStarts \/ PiThoughtStarts \/ PiMessageEnds \/ PiToolStarts \/ PiToolEnds
  \/ PiPermissionAsked \/ PiPermissionAnswered
  \/ PiPreflightEnds \/ PiNativeSettles \/ PiNativeDies

(* Every RPC, delivery and stop has a timer; the native turn has none.     *)
PiFair ==
  /\ WF_piVars(PiTurnStep) /\ WF_piVars(PiCancelStep) /\ WF_piVars(PiAskedSettles)
  /\ WF_piVars(PiTaskSettles) /\ WF_piVars(PiAborted /\ PiPermissionAnswered) /\ WF_piVars(PiStopStep)
PiSpec == PiInit /\ [][PiNext]_piVars /\ PiFair

-----------------------------------------------------------------------------
PiAsTurn == INSTANCE BackendTurn WITH
  Terminals <- {"completed", "cancelled", "failed"},
  working <- piPc # "idle", terminal <- piTold.terminal, outcome <- piTold.outcome,
  native <- piNative \in {"preflight", "running"}

(* A cancelled turn closes in the stream of events whatever it opened.     *)
PiItemsClosed == piTold.outcome = "cancelled" => piShown = {}

(* A turn that is cancelled ends, and a stop of the backend is answered,   *)
(* whatever the process does.                                              *)
PiAwaited == \/ piTurn.cancelled /\ piPc # "idle"
             \/ piStop \notin {"none", "ok", "failed"}
PiEnds == []<>~PiAwaited
PiRefines == PiAsTurn!TurnSpec
=============================================================================
