------------------------------- MODULE AcpBackend -------------------------------
(***************************************************************************)
(* AcpDriverBackend and AcpTurnController (runtimes/acp): a turn is one    *)
(* prompt request to an agent process.  The agent sends updates of the     *)
(* session, which the inbox applies one by one, and requests of its own:   *)
(* permissions and file writes.  A cancelled turn stops the process and    *)
(* resumes its session in a new one before the turn may end, unless it may *)
(* not be resumed (the run signal's resumeSignal) or the backend stops.    *)
(***************************************************************************)
EXTENDS Naturals, Sequences

CONSTANT AcpMaxUpdates     \* bound of the inbox (MAX_PENDING_UPDATES)
ASSUME AcpAssumption == AcpMaxUpdates \in Nat \ {0}

VARIABLES
  acpPc,                   \* AcpTurnController.handleInput
  acpTurn,                 \* #active: see NoAcpTurn
  acpAgent,                \* the process with its connection: up, closing, down, stuck
  acpNative,               \* it works on the prompt
  acpInbox,                \* AcpSessionUpdateInbox: open, failed, closed
  acpQueue,                \* its pending updates: "opens" or "closes" an item
  acpRequest,              \* a client request: none, permission, writing, committed
  acpShown,                \* an item of the turn is open in the stream of events
  acpStop,                 \* none, draining, killing, ok, failed
  acpTold                  \* for BackendTurn: [terminal, outcome]

acpVars == <<acpPc, acpTurn, acpAgent, acpNative, acpInbox, acpQueue, acpRequest, acpShown, acpStop,
             acpTold>>
acpClient == <<acpInbox, acpQueue, acpRequest, acpShown>>

(* cancelled: cancellationReason; interrupted: promptCancellation; barred: *)
(* resumeCancellation; accepted: promptResponseAccepted; lost: a committed *)
(* file write that could not be reported.                                  *)
NoAcpTurn ==
  [cancelled |-> FALSE, interrupted |-> FALSE, barred |-> FALSE, fatal |-> FALSE, admitted |-> FALSE,
   accepted |-> FALSE, terminal |-> "none", cleanup |-> FALSE, lost |-> FALSE, closes |-> FALSE]

AcpInit ==
  /\ acpPc = "idle" /\ acpTurn = NoAcpTurn
  /\ acpAgent = "up" /\ acpNative = FALSE
  /\ acpInbox = "open" /\ acpQueue = <<>> /\ acpRequest = "none" /\ acpShown = FALSE
  /\ acpStop = "none"
  /\ acpTold = [terminal |-> "none", outcome |-> "none"]

AcpGoes(pc) == acpPc' = pc
AcpSets(field, value) == acpTurn' = [acpTurn EXCEPT ![field] = value]
AcpDelivering == acpPc \in {"delivering", "failing"}       \* terminalStarted

-----------------------------------------------------------------------------
(* handleInput                                                             *)

AcpBegin ==
  /\ acpPc = "idle" /\ acpAgent = "up" /\ acpStop = "none" /\ acpTold.outcome # "rejected"
  /\ ~acpTurn.barred                                       \* the driver stops after it
  /\ acpRequest \notin {"writing", "committed"}            \* openFileWriteIngress
  /\ AcpGoes("starting")
  /\ acpTurn' = NoAcpTurn /\ acpShown' = FALSE
  /\ acpTold' = [terminal |-> "none", outcome |-> "none"]
  /\ UNCHANGED <<acpAgent, acpNative, acpInbox, acpQueue, acpRequest, acpStop>>

(* driver.acp.prompt.started is delivered, or not; then the prompt is sent *)
(* unless the turn was cancelled meanwhile.                                *)
AcpStarted ==
  /\ acpPc = "starting"
  /\ \/ ~acpTurn.cancelled /\ AcpGoes("prompting") /\ AcpSets("admitted", TRUE)
        /\ acpNative' = (acpAgent = "up")
     \/ acpTurn.cancelled /\ AcpGoes("draining") /\ UNCHANGED <<acpTurn, acpNative>>
     \/ AcpGoes("caught") /\ UNCHANGED <<acpTurn, acpNative>>
  /\ UNCHANGED <<acpAgent, acpStop, acpTold>> /\ UNCHANGED acpClient

(* The response to the prompt.  A connection that was lost rejects it; a   *)
(* cancellation by the dispatcher does not wait for it.                    *)
AcpPromptAnswered ==
  /\ acpPc = "prompting" /\ acpAgent = "up" /\ acpNative
  /\ acpNative' = FALSE
  /\ \E reason \in {"end_turn", "max_tokens", "cancelled", "invalid"} :
       IF acpTurn.fatal \/ reason = "invalid"
       THEN AcpGoes("caught") /\ UNCHANGED acpTurn
       ELSE /\ AcpGoes("draining")
            /\ acpTurn' = [acpTurn EXCEPT
                 !.accepted = TRUE, !.cancelled = @ \/ reason = "cancelled",
                 !.terminal = IF reason = "end_turn" THEN "completed" ELSE "failed"]
  /\ UNCHANGED <<acpAgent, acpStop, acpTold>> /\ UNCHANGED acpClient

AcpPromptLost ==
  /\ acpPc = "prompting" /\ (acpAgent # "up" \/ acpTurn.interrupted)
  /\ AcpGoes("caught")
  /\ UNCHANGED <<acpTurn, acpAgent, acpNative, acpStop, acpTold>> /\ UNCHANGED acpClient

(* drainTurnWork: the file writes, the permissions and the updates.        *)
SkipsUpdates == acpRequest = "none"          \* bug: the updates are not drained
AcpQuiet == acpRequest = "none" /\ acpQueue = <<>>
AcpDrainFailed == acpInbox = "failed" \/ acpTurn.lost

AcpDrained ==
  /\ acpPc = "draining" /\ AcpQuiet
  /\ AcpGoes(IF AcpDrainFailed THEN "caught" ELSE IF acpTurn.cancelled THEN "barrier" ELSE "publishing")
  /\ UNCHANGED <<acpTurn, acpAgent, acpNative, acpStop, acpTold>> /\ UNCHANGED acpClient

(* completePrompt and #prepareTerminal, which exports the checkpoint of a  *)
(* completed run; the closures are fixed here.                             *)
AcpPublishes ==
  /\ acpPc = "publishing"
  /\ \/ /\ AcpGoes("delivering")
        /\ acpTurn' = [acpTurn EXCEPT !.closes = acpShown]
     \/ /\ acpTurn.terminal = "completed"
        /\ AcpGoes("caught") /\ UNCHANGED acpTurn
     \/ /\ acpTurn.terminal = "completed"                      \* acp.empty_turn
        /\ AcpGoes("delivering") /\ acpTurn' = [acpTurn EXCEPT !.terminal = "failed", !.closes = acpShown]
  /\ UNCHANGED <<acpAgent, acpNative, acpStop, acpTold>> /\ UNCHANGED acpClient

AcpEnd(outcome, terminal) ==
  /\ AcpGoes("idle")
  /\ acpTold' = [terminal |-> terminal, outcome |-> outcome]

AcpOutcome == CASE acpTurn.terminal = "completed" -> "resolved"
                [] acpTurn.terminal = "cancelled" -> "cancelled"
                [] acpTurn.terminal = "failed" -> "rejected"

AcpDelivered ==
  /\ acpPc = "delivering"
  /\ \/ AcpEnd(AcpOutcome, acpTurn.terminal) /\ acpShown' = (acpShown /\ ~acpTurn.closes)
     \/ AcpEnd("rejected", "none") /\ UNCHANGED acpShown       \* preserveEventState
     \/ /\ acpTurn.terminal = "completed" /\ acpTurn.cancelled   \* superseded
        /\ AcpGoes("caught") /\ UNCHANGED <<acpShown, acpTold>>
  /\ UNCHANGED <<acpTurn, acpAgent, acpNative, acpInbox, acpQueue, acpRequest, acpStop>>

-----------------------------------------------------------------------------
(* The catch of handleInput: it drains again, then a lost agent, a drain   *)
(* or a cleanup that failed go before a cancellation.                      *)

AcpCaught ==
  /\ acpPc = "caught" /\ AcpQuiet
  /\ AcpGoes(IF acpTurn.fatal THEN "cleaning"
             ELSE IF AcpDrainFailed \/ acpTurn.cleanup \/ ~acpTurn.cancelled THEN "failing" ELSE "barrier")
  /\ UNCHANGED <<acpTurn, acpAgent, acpNative, acpStop, acpTold>> /\ UNCHANGED acpClient

AcpCleaned ==
  /\ acpPc = "cleaning" /\ acpAgent # "closing"
  /\ AcpGoes("failing")
  /\ UNCHANGED <<acpTurn, acpAgent, acpNative, acpStop, acpTold>> /\ UNCHANGED acpClient

(* failPrompt                                                              *)
AcpFailed ==
  /\ acpPc = "failing"
  /\ \/ AcpEnd("rejected", "failed") /\ acpShown' = FALSE
     \/ AcpEnd("rejected", "none") /\ UNCHANGED acpShown
  /\ UNCHANGED <<acpTurn, acpAgent, acpNative, acpInbox, acpQueue, acpRequest, acpStop>>

-----------------------------------------------------------------------------
(* #crossCancelledTurnBarrier and #settleCancelledTurn                     *)

AcpCrossed == AcpGoes("publishing") /\ AcpSets("terminal", "cancelled")
AcpNotCrossed == AcpGoes("failing") /\ AcpSets("cleanup", TRUE)
AcpBarrierRest == <<acpStop, acpTold>>

(* The process of a prompt that was sent is to be replaced.                *)
RecyclesAnswered == acpTurn.accepted         \* bug: only one that was answered
AcpRecycles == acpTurn.admitted

AcpBarrier ==
  /\ acpPc = "barrier"
  /\ \/ AcpNotCrossed /\ UNCHANGED acpAgent                     \* stopTurnTerminals
     \/ /\ acpStop # "none"
        /\ AcpGoes("joining") /\ UNCHANGED <<acpTurn, acpAgent>>
     \/ /\ acpStop = "none" /\ (acpTurn.barred \/ ~AcpRecycles)
        /\ AcpCrossed /\ UNCHANGED acpAgent
     \/ /\ acpStop = "none" /\ ~acpTurn.barred /\ AcpRecycles
        /\ IF acpAgent = "up" THEN AcpGoes("recycling") /\ acpAgent' = "closing" /\ UNCHANGED acpTurn
           ELSE AcpNotCrossed /\ UNCHANGED acpAgent
  /\ UNCHANGED acpNative /\ UNCHANGED AcpBarrierRest /\ UNCHANGED acpClient

AcpRecycled ==
  /\ acpPc = "recycling" /\ acpAgent # "closing"
  /\ \/ acpAgent = "stuck" /\ AcpNotCrossed
     \/ acpAgent # "stuck" /\ acpStop # "none" /\ AcpGoes("joining") /\ UNCHANGED acpTurn
     \/ acpAgent # "stuck" /\ acpStop = "none" /\ acpTurn.barred /\ AcpCrossed
     \/ acpAgent # "stuck" /\ acpStop = "none" /\ ~acpTurn.barred /\ AcpGoes("resuming")
        /\ UNCHANGED acpTurn
  /\ UNCHANGED <<acpAgent, acpNative>> /\ UNCHANGED AcpBarrierRest /\ UNCHANGED acpClient

(* #connect with the session to resume: the same session, or it fails.     *)
AcpResumed ==
  /\ acpPc = "resuming"
  /\ \/ acpStop = "none" /\ acpAgent' = "up" /\ AcpCrossed
     \/ acpTurn.barred /\ AcpCrossed /\ UNCHANGED acpAgent
     \/ acpStop # "none" /\ ~acpTurn.barred /\ AcpGoes("joining") /\ UNCHANGED <<acpTurn, acpAgent>>
     \/ acpStop = "none" /\ ~acpTurn.barred /\ AcpNotCrossed /\ UNCHANGED acpAgent
  /\ UNCHANGED acpNative /\ UNCHANGED AcpBarrierRest /\ UNCHANGED acpClient

JoinsSuccess ==                      \* bug: the error of a stop that failed is not passed on
  /\ acpPc = "joining" /\ acpStop = "ok" /\ AcpCrossed
  /\ UNCHANGED <<acpAgent, acpNative>> /\ UNCHANGED AcpBarrierRest /\ UNCHANGED acpClient

(* #joinStop                                                               *)
AcpJoined ==
  /\ acpPc = "joining" /\ acpStop \in {"ok", "failed"}
  /\ IF acpStop = "ok" THEN AcpCrossed ELSE AcpNotCrossed
  /\ UNCHANGED <<acpAgent, acpNative>> /\ UNCHANGED AcpBarrierRest /\ UNCHANGED acpClient

-----------------------------------------------------------------------------
(* Cancellation: the dispatcher aborts the run signal and calls            *)
(* cancelActiveTurn; later it may take the permission to resume back.      *)

AcpCancels(allowed) ==
  IF acpTurn.cancelled \/ acpTurn.fatal \/ ~allowed THEN acpTurn.cancelled ELSE TRUE

AcpCancel ==
  /\ acpPc # "idle" /\ ~acpTurn.interrupted
  /\ \E barred \in BOOLEAN :
       acpTurn' = [acpTurn EXCEPT !.cancelled = AcpCancels(TRUE), !.interrupted = AcpCancels(TRUE),
                                  !.barred = @ \/ barred]
  /\ UNCHANGED <<acpPc, acpAgent, acpNative, acpStop, acpTold>> /\ UNCHANGED acpClient

AcpBars ==
  /\ acpPc # "idle" /\ acpTurn.interrupted /\ ~acpTurn.barred
  /\ AcpSets("barred", TRUE)
  /\ UNCHANGED <<acpPc, acpAgent, acpNative, acpStop, acpTold>> /\ UNCHANGED acpClient

-----------------------------------------------------------------------------
(* The inbox and the client requests                                       *)

(* The connection is closed (connection.close, or the agent's end).  Then  *)
(* #stopOwnedAgent; routeFatal takes it to the turn, if it still can.      *)
AcpCloses ==
  /\ acpAgent' = IF acpAgent = "up" THEN "closing" ELSE acpAgent
  /\ acpTurn' = [acpTurn EXCEPT
       !.fatal = @ \/ (acpAgent = "up" /\ acpStop = "none" /\ acpPc # "idle"
                       /\ ~acpTurn.accepted /\ ~AcpDelivering)]

AcpIngress == acpAgent = "up" /\ acpNative /\ acpPc \in {"starting", "prompting"} /\ acpStop = "none"

AcpFull == Len(acpQueue) = AcpMaxUpdates
AcpUpdate ==
  /\ AcpIngress /\ acpInbox = "open" /\ ~AcpFull
  /\ \E update \in {"opens", "closes"} : acpQueue' = Append(acpQueue, update)
  /\ UNCHANGED <<acpPc, acpTurn, acpAgent, acpNative, acpInbox, acpRequest, acpShown, acpStop, acpTold>>

(* An update of the turn is skipped when no run is active.                 *)
AcpApplied ==
  /\ acpQueue # <<>>
  /\ acpQueue' = Tail(acpQueue)
  /\ acpShown' = IF acpPc = "idle" THEN acpShown ELSE Head(acpQueue) = "opens"
  /\ UNCHANGED <<acpPc, acpTurn, acpAgent, acpNative, acpInbox, acpRequest, acpStop, acpTold>>

(* The update cannot be delivered, or one more does not fit: whatever is   *)
(* pending is rejected and the connection closes.                          *)
AcpInboxFails ==
  /\ acpInbox # "failed"
  /\ acpQueue # <<>> \/ (AcpIngress /\ AcpFull)
  /\ acpInbox' = "failed" /\ acpQueue' = <<>>
  /\ AcpCloses
  /\ UNCHANGED <<acpPc, acpNative, acpRequest, acpShown, acpStop, acpTold>>

(* requestPermission and writeTextFile                                     *)
AcpRequested ==
  /\ AcpIngress /\ acpRequest = "none"
  /\ \/ acpRequest' = "permission" /\ ~acpTurn.cancelled
     \/ acpRequest' = "writing"
  /\ UNCHANGED <<acpPc, acpTurn, acpAgent, acpNative, acpInbox, acpQueue, acpShown, acpStop, acpTold>>

(* The host answers, or the turn's signal does; a write fails, or commits. *)
AcpRequestEnds ==
  /\ \/ acpRequest \in {"permission", "writing", "committed"} /\ acpRequest' = "none"
     \/ acpRequest = "writing" /\ acpRequest' = "committed"
  /\ UNCHANGED <<acpPc, acpTurn, acpAgent, acpNative, acpInbox, acpQueue, acpShown, acpStop, acpTold>>

(* The file is written and the host did not learn of it.                   *)
AcpReportFails ==
  /\ acpRequest = "committed" /\ acpRequest' = "none"
  /\ acpAgent' = IF acpAgent = "up" THEN "closing" ELSE acpAgent
  /\ acpTurn' = [acpTurn EXCEPT
       !.lost = acpPc # "idle",
       !.fatal = @ \/ (acpAgent = "up" /\ acpStop = "none" /\ acpPc # "idle"
                       /\ ~acpTurn.accepted /\ ~AcpDelivering)]
  /\ UNCHANGED <<acpPc, acpNative, acpInbox, acpQueue, acpShown, acpStop, acpTold>>

-----------------------------------------------------------------------------
(* The agent process                                                       *)

AcpAgentLost ==
  /\ acpAgent = "up" /\ acpStop = "none"
  /\ AcpCloses
  /\ UNCHANGED <<acpPc, acpNative, acpStop, acpTold>> /\ UNCHANGED acpClient

(* session/cancel, or an end nobody waits for.                             *)
AcpAgentStops ==
  /\ acpNative /\ acpPc # "prompting"
  /\ acpNative' = FALSE
  /\ UNCHANGED <<acpPc, acpTurn, acpAgent, acpStop, acpTold>> /\ UNCHANGED acpClient

(* #stopOwnedAgent                                                         *)
AcpAgentClosed ==
  /\ acpAgent = "closing"
  /\ \/ acpAgent' = "down" /\ acpNative' = FALSE
     \/ acpAgent' = "stuck" /\ UNCHANGED acpNative
  /\ UNCHANGED <<acpPc, acpTurn, acpStop, acpTold>> /\ UNCHANGED acpClient

-----------------------------------------------------------------------------
(* stop and #performStop: everything it waits for has a share of a budget. *)
(* A turn that waits for an attempt learns of its end before a retry.      *)
AcpStop ==
  /\ acpStop = "none" \/ (acpStop = "failed" /\ acpPc \notin {"joining", "cleaning", "recycling"})
  /\ acpStop' = "draining"
  /\ acpTurn' = IF acpPc = "idle" THEN acpTurn
                ELSE [acpTurn EXCEPT !.barred = TRUE, !.cancelled = AcpCancels(~AcpDelivering)]
  /\ UNCHANGED <<acpPc, acpAgent, acpNative, acpTold>> /\ UNCHANGED acpClient

(* The updates are closed, the transport is.                               *)
AcpStopDrained ==
  /\ acpStop = "draining"
  /\ acpStop' = "killing"
  /\ acpInbox' = IF acpInbox = "open" THEN "closed" ELSE acpInbox
  /\ acpAgent' = IF acpAgent = "up" THEN "closing" ELSE acpAgent
  /\ UNCHANGED <<acpPc, acpTurn, acpNative, acpQueue, acpRequest, acpShown, acpTold>>

AcpStopped ==
  /\ acpStop = "killing" /\ acpAgent # "closing"
  /\ \/ acpAgent = "down" /\ AcpQuiet /\ acpInbox # "failed" /\ acpStop' = "ok"
     \/ acpStop' = "failed"
  /\ acpAgent' = IF acpAgent = "stuck" THEN "up" ELSE acpAgent    \* a retry finds the process again
  /\ UNCHANGED <<acpPc, acpTurn, acpNative, acpTold>> /\ UNCHANGED acpClient

-----------------------------------------------------------------------------
AcpTurnStep ==
  \/ AcpStarted \/ AcpPromptLost \/ AcpDrained \/ AcpPublishes \/ AcpDelivered \/ AcpCaught \/ AcpCleaned
  \/ AcpFailed \/ AcpBarrier \/ AcpRecycled \/ AcpResumed \/ AcpJoined
AcpStopStep == AcpStopDrained \/ AcpStopped
AcpInboxStep == AcpApplied \/ AcpInboxFails
AcpRequestStep == AcpRequestEnds \/ AcpReportFails

AcpNext ==
  \/ AcpTurnStep \/ AcpStopStep \/ AcpInboxStep \/ AcpRequestStep \/ AcpAgentClosed
  \/ AcpBegin \/ AcpPromptAnswered \/ AcpCancel \/ AcpBars \/ AcpUpdate \/ AcpRequested
  \/ AcpAgentLost \/ AcpAgentStops \/ AcpStop

(* The agent need not answer a prompt; everything else has a timer, and a  *)
(* request ends with the turn's signal.                                    *)
AcpAborted == acpTurn.cancelled \/ acpTurn.fatal
AcpFair ==
  /\ WF_acpVars(AcpTurnStep) /\ WF_acpVars(AcpStopStep) /\ WF_acpVars(AcpApplied)
  /\ WF_acpVars(AcpAborted /\ AcpRequestStep) /\ WF_acpVars(AcpAgentClosed)
AcpSpec == AcpInit /\ [][AcpNext]_acpVars /\ AcpFair

-----------------------------------------------------------------------------
(* What may not be resumed is followed by the stop of the backend.         *)
AcpAsTurn == INSTANCE BackendTurn WITH
  Terminals <- {"completed", "cancelled", "failed"},
  working <- acpPc # "idle", terminal <- acpTold.terminal, outcome <- acpTold.outcome,
  native <- acpNative /\ ~acpTurn.barred
AcpRefines == AcpAsTurn!TurnSpec

(* A turn that ends well closed its items, applied every update, reported  *)
(* every file it wrote.                                                    *)
AcpNothingLeft ==
  acpTold.outcome \in {"resolved", "cancelled"} => ~acpShown /\ AcpQuiet /\ ~acpTurn.lost

(* A cancelled turn ends, and a stop of the backend is answered, whatever  *)
(* the agent does.                                                         *)
AcpAwaited == \/ acpTurn.interrupted /\ acpPc # "idle"
              \/ acpStop \notin {"none", "ok", "failed"}
AcpEnds == []<>~AcpAwaited
=============================================================================
