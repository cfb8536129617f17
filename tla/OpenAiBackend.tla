------------------------------ MODULE OpenAiBackend ------------------------------
(***************************************************************************)
(* OpenAiAppServerDriverBackend with its turn tracker, event bridge and    *)
(* client (runtimes/openai/app-server): a turn is a turn/start request     *)
(* to the app-server, whose response names the native turn, and the        *)
(* notifications of that turn.  Both come in on one wire and are processed *)
(* one at a time in wire order; a notification waits for the response that *)
(* says whether it is of this turn.  A cancelled turn closes the client;   *)
(* the next turn starts another and resumes the thread.                    *)
(***************************************************************************)
EXTENDS Naturals, Sequences

CONSTANT OaMaxQueue        \* bound of the messages in hand (MAX_PENDING_SERVER_MESSAGES)
ASSUME OaAssumption == OaMaxQueue \in Nat \ {0}

VARIABLES
  oaPc,                    \* handleInput
  oaTurn,                  \* its fields in the backend: see NoOaTurn
  oaTrack,                 \* OpenAiTurnTracker: see NoOaTrack
  oaClient,                \* #client (none, starting, live), with #clientStopRequested
  oaWire,                  \* the client: [stopping, fatal, kill]
  oaQueue,                 \* its #serverMessageQueue
  oaHead,                  \* what the head of the queue is at: [at, how]
  oaReply,                 \* the turn/start request: none, pending, queued, accepted, rejected
  oaServer,                \* the app-server: [state, started, replied, other]
  oaCancel,                \* #activeCancellationTask: none, start, active, idle, telling
  oaSettle,                \* #pendingCancellationSettlement: none, draining, pushing
  oaStop,                  \* none, cancelling, killing, ok, failed
  oaTold                   \* for BackendTurn: [terminal, outcome, stopped]

oaVars == <<oaPc, oaTurn, oaTrack, oaClient, oaWire, oaQueue, oaHead, oaReply, oaServer, oaCancel,
            oaSettle, oaStop, oaTold>>
oaTasks == <<oaCancel, oaSettle, oaStop>>
oaLine == <<oaQueue, oaHead>>

(* inflight: #turnStartInFlight; owner: #turnStartRunId is set; cancelled: *)
(* #pendingTurnStartCancellationReason is set; tell: ...CancellationEvent; *)
(* cleanup: #pendingTurnStartCleanup; signal: the run signal is aborted;   *)
(* lost: lifecycle.fail was called.                                        *)
NoOaTurn == [inflight |-> FALSE, owner |-> FALSE, cancelled |-> FALSE, tell |-> FALSE,
             cleanup |-> "none", signal |-> FALSE, lost |-> FALSE]
(* adm: the pending root turn: none, unarmed, armed, bound, released; the  *)
(* rest is what the tracker knows of the native turn of the response.      *)
NoOaTrack == [adm |-> "none", active |-> FALSE, settling |-> FALSE, term |-> "none",
              started |-> FALSE, promise |-> "none"]
NoOaWire == [stopping |-> FALSE, fatal |-> "no", kill |-> "no"]
OaNoHead == [at |-> "none", how |-> "none"]
NoOaServer == [state |-> "idle", started |-> FALSE, replied |-> FALSE, other |-> FALSE]

OaInit ==
  /\ oaPc = "idle" /\ oaTurn = NoOaTurn /\ oaTrack = NoOaTrack
  /\ oaClient = [state |-> "live", stopReq |-> FALSE] /\ oaWire = NoOaWire
  /\ oaQueue = <<>> /\ oaHead = OaNoHead /\ oaReply = "none" /\ oaServer = NoOaServer
  /\ oaCancel = "none" /\ oaSettle = "none" /\ oaStop = "none"
  /\ oaTold = [terminal |-> "none", outcome |-> "none", stopped |-> FALSE]

-----------------------------------------------------------------------------
(* The turn tracker                                                        *)

OaHasTerminal == oaTrack.settling \/ oaTrack.term # "none"
(* #recordTerminal settles the promise of a turn that is tracked.          *)
OaRecorded(t, how) ==
  [t EXCEPT !.settling = FALSE, !.term = how, !.started = FALSE, !.active = FALSE,
            !.promise = IF t.active THEN how ELSE @]
OaFinished(t, how) == IF t.settling THEN OaRecorded(t, how) ELSE t       \* finishSettlement
OaRejectsActive(t, how) == IF t.active THEN OaRecorded(t, how) ELSE t    \* rejectActiveTurns
OaClaimed(t) ==                                        \* claimRootTurn, #track
  [t EXCEPT !.adm = "none", !.active = t.term = "none", !.promise = t.term]
OaHoldsBack(t) == t                            \* bug: what waits for the response goes on waiting
OaReleased(t) == [t EXCEPT !.adm = IF @ = "armed" THEN "released" ELSE @]

(* acceptsRootTurn, for what is not held back by an armed admission.       *)
OaAccepts == oaTrack.adm = "bound" \/ oaTrack.active \/ OaHasTerminal

OaDrained == oaQueue = <<>> /\ oaHead = OaNoHead                  \* drainServerMessages

OaUnclaimed(t) ==                                      \* #claimTurnStartResponse
  [t EXCEPT !.inflight = FALSE, !.owner = FALSE, !.cancelled = FALSE, !.tell = FALSE]

(* The driver refuses a second terminal of the run (selectRunTerminal).    *)
OaTells(t) == oaTold.terminal = "none" /\ oaTold' = [oaTold EXCEPT !.terminal = t]
OaEnd(o, t) ==
  /\ oaPc' = "idle"
  /\ t # "none" => oaTold.terminal = "none"
  /\ oaTold' = [oaTold EXCEPT !.outcome = o, !.stopped = oaStop # "none",
                              !.terminal = IF t = "none" THEN @ ELSE t]

(* A turn that a stop cancels publishes no terminal, and one whose failure *)
(* was being published when it was cancelled says that it was cancelled:   *)
(* settleInput (core/driver-terminal-state.ts) counts both as failures.    *)
OaVerdict ==
  IF oaTold.outcome = "cancelled" /\ (oaTold.stopped \/ oaTold.terminal = "failed")
  THEN "rejected" ELSE oaTold.outcome

-----------------------------------------------------------------------------
(* handleInput                                                             *)

(* armTurnAdmission, and turn/start is written unless the client stops.    *)
OaSends ==
  IF oaWire.stopping
  THEN /\ oaPc' = "caught" /\ oaTrack' = [NoOaTrack EXCEPT !.adm = "released"]
       /\ oaReply' = "none" /\ UNCHANGED oaServer
  ELSE /\ oaPc' = "sent" /\ oaTrack' = [NoOaTrack EXCEPT !.adm = "armed"]
       /\ oaReply' = "pending" /\ oaServer' = [NoOaServer EXCEPT !.state = "asked"]

(* A new client, which resumes the thread: the old one is gone, and who    *)
(* waited for that is done.  One whose stop was asked for and has not      *)
(* ended would be stopped first; a turn that ended so is not followed.     *)
OaStarts ==
  /\ oaPc' = "starting"
  /\ oaClient' = [state |-> "starting", stopReq |-> FALSE]
  /\ oaWire' = NoOaWire /\ oaQueue' = <<>> /\ oaCancel' = "none"

(* #ensureClient takes the client there is, or a new one.                  *)
(* What a stopped client had left is processed, without waiting on anyone, *)
(* before the host hands over the next input.  A cancellation still under  *)
(* way knows the native turn it is for, which is over.                     *)
OaBegin ==
  /\ oaPc = "idle" /\ oaStop = "none" /\ OaVerdict # "rejected" /\ ~oaTurn.lost
  /\ oaSettle = "none" /\ (oaWire.stopping => OaDrained)
  /\ oaTurn' = [NoOaTurn EXCEPT !.inflight = TRUE, !.owner = TRUE]
  /\ oaTold' = [terminal |-> "none", outcome |-> "none", stopped |-> FALSE]
  /\ \/ /\ oaClient.state = "live" /\ ~oaClient.stopReq
        /\ OaSends /\ UNCHANGED <<oaClient, oaWire, oaQueue, oaCancel>>
     \/ /\ oaClient.state = "none"
        /\ OaStarts /\ oaTrack' = [NoOaTrack EXCEPT !.adm = "unarmed"]
        /\ oaReply' = "none" /\ UNCHANGED oaServer
  /\ UNCHANGED <<oaHead, oaSettle, oaStop>>

OaStarted ==
  /\ oaPc = "starting" /\ ~oaWire.stopping
  /\ oaClient' = [oaClient EXCEPT !.state = "live"]
  /\ OaSends
  /\ UNCHANGED <<oaTurn, oaWire, oaTold>> /\ UNCHANGED oaLine /\ UNCHANGED oaTasks

(* The stop of the client: what was asked of it is rejected at once.       *)
OaStopsClient(w) == [w EXCEPT !.stopping = TRUE, !.kill = "busy"]
OaRejectsPending ==
  /\ oaReply' = IF oaReply \in {"pending", "queued"} THEN "rejected" ELSE oaReply

(* #cleanupFailedClient, after a start that failed or was aborted.         *)
OaStartFails ==
  /\ oaPc = "starting"
  /\ oaPc' = "cleaning" /\ oaWire' = OaStopsClient(oaWire)
  /\ UNCHANGED <<oaTurn, oaTrack, oaClient, oaReply, oaServer, oaTold>>
  /\ UNCHANGED oaLine /\ UNCHANGED oaTasks
OaStartCleaned ==
  /\ oaPc = "cleaning" /\ oaWire.kill # "busy"
  /\ oaPc' = "caught"
  /\ oaClient' = IF oaWire.kill = "ok" THEN [oaClient EXCEPT !.state = "none"]
                 ELSE [oaClient EXCEPT !.stopReq = TRUE]
  /\ UNCHANGED <<oaTurn, oaTrack, oaWire, oaReply, oaServer, oaTold>>
  /\ UNCHANGED oaLine /\ UNCHANGED oaTasks

OaReplied ==
  /\ oaPc = "sent" /\ oaReply \in {"accepted", "rejected"}
  /\ oaPc' = IF oaReply = "accepted" THEN "waiting" ELSE "caught"
  /\ UNCHANGED <<oaTurn, oaTrack, oaClient, oaWire, oaReply, oaServer, oaTold>>
  /\ UNCHANGED oaLine /\ UNCHANGED oaTasks

(* #failProtocol: it is queued behind what was received before.            *)
OaFailsWire ==
  /\ ~oaWire.stopping /\ oaWire.fatal = "no"
  /\ oaTrack' = OaReleased(oaTrack)
  /\ oaWire' = [oaWire EXCEPT !.fatal = "set"]
  /\ oaQueue' = Append(oaQueue, "failure")

(* The response is a minute late.                                          *)
OaTimesOut ==
  /\ oaPc = "sent" /\ oaReply \in {"pending", "queued"}
  /\ OaFailsWire
  /\ UNCHANGED <<oaPc, oaTurn, oaClient, oaHead, oaReply, oaServer, oaTold>> /\ UNCHANGED oaTasks

OaOutcome(promise) ==
  CASE promise = "completed" -> "resolved" [] promise = "cancelled" -> "cancelled"
    [] promise = "failed" -> "rejected"
OaWaited ==
  /\ oaPc = "waiting" /\ oaTrack.promise # "none"
  /\ OaEnd(OaOutcome(oaTrack.promise), "none")
  /\ UNCHANGED <<oaTurn, oaTrack, oaClient, oaWire, oaReply, oaServer>>
  /\ UNCHANGED oaLine /\ UNCHANGED oaTasks

-----------------------------------------------------------------------------
(* The catch of handleInput                                                *)

OaCaught ==
  /\ oaPc = "caught"
  /\ IF oaTurn.cancelled \/ oaTurn.signal
     THEN /\ oaPc' = "unwinding" /\ UNCHANGED <<oaTrack, oaTold>>
          /\ oaTurn' = [oaTurn EXCEPT !.cancelled = TRUE, !.tell = IF oaTurn.cancelled THEN @ ELSE oaStop = "none"]
     ELSE IF oaTrack.adm = "bound" /\ OaHasTerminal
     THEN /\ oaPc' = "waiting" /\ oaTrack' = OaClaimed(oaTrack) /\ oaTurn' = OaUnclaimed(oaTurn)
          /\ UNCHANGED oaTold
     ELSE IF oaTurn.inflight /\ oaTurn.owner                  \* #failTurnStart
     THEN /\ oaPc' = "failing" /\ oaTurn' = [oaTurn EXCEPT !.owner = FALSE] /\ UNCHANGED <<oaTrack, oaTold>>
     ELSE OaEnd("rejected", "none") /\ oaTrack' = [oaTrack EXCEPT !.adm = "none"] /\ UNCHANGED oaTurn
  /\ UNCHANGED <<oaClient, oaWire, oaReply, oaServer>> /\ UNCHANGED oaLine /\ UNCHANGED oaTasks

OaFailTold ==
  /\ oaPc = "failing"
  /\ \E t \in {"none", "failed"} : OaEnd("rejected", t)
  /\ oaTurn' = [oaTurn EXCEPT !.inflight = FALSE]
  /\ oaTrack' = [oaTrack EXCEPT !.adm = "none"]
  /\ UNCHANGED <<oaClient, oaWire, oaReply, oaServer>> /\ UNCHANGED oaLine /\ UNCHANGED oaTasks

(* #finishPendingTurnStartCancellation: the client is closed, its requests *)
(* are cancelled and its messages processed; any of them may fail.  A turn *)
(* that was admitted meanwhile is cancelled as such.                       *)
OaUnwound ==
  /\ oaPc = "unwinding" /\ oaTurn.cleanup # "busy"
  /\ \/ /\ oaTurn.cleanup = "ok" /\ OaDrained /\ oaWire.fatal = "no"
        /\ oaTrack' = IF oaTrack.adm = "bound" THEN OaClaimed(oaTrack) ELSE [oaTrack EXCEPT !.adm = "none"]
        /\ IF oaTurn.tell /\ (oaTrack.adm = "bound" => ~OaHasTerminal)
           THEN oaPc' = "telling" /\ UNCHANGED oaTold
           ELSE OaEnd("cancelled", "none")
     \/ /\ oaTurn.cleanup = "ok" => OaDrained
        /\ OaEnd("rejected", "none") /\ oaTrack' = [oaTrack EXCEPT !.adm = "none"]
  /\ UNCHANGED <<oaTurn, oaClient, oaWire, oaReply, oaServer>> /\ UNCHANGED oaLine /\ UNCHANGED oaTasks

OaCancelTold ==
  /\ oaPc = "telling"
  /\ \/ OaEnd("cancelled", "cancelled")
     \/ OaEnd("rejected", "none")
  /\ oaTrack' = OaRejectsActive(oaTrack, "cancelled")
  /\ UNCHANGED <<oaTurn, oaClient, oaWire, oaReply, oaServer>> /\ UNCHANGED oaLine /\ UNCHANGED oaTasks

-----------------------------------------------------------------------------
(* The wire: what the app-server writes, as it comes in (#onLine)          *)

OaReads == ~oaWire.stopping /\ oaWire.fatal = "no" /\ oaClient.state = "live" /\ Len(oaQueue) < OaMaxQueue
OaArrives(message) == oaQueue' = Append(oaQueue, message)
OaWireRest == <<oaPc, oaTurn, oaClient, oaWire, oaHead, oaTold>>

OaServerStarts ==
  /\ oaServer.state = "asked" /\ oaServer' = [oaServer EXCEPT !.state = "running"]
  /\ UNCHANGED <<oaTrack, oaQueue, oaReply>> /\ UNCHANGED OaWireRest /\ UNCHANGED oaTasks

(* turn/started, turn/completed, or a notification of another turn.        *)
OaNotified ==
  /\ OaReads
  /\ \/ /\ oaServer.state = "running" /\ ~oaServer.started
        /\ OaArrives("started") /\ oaServer' = [oaServer EXCEPT !.started = TRUE]
     \/ /\ oaServer.state = "running" /\ oaServer.started
        /\ \E s \in {"completed", "failed", "interrupted"} : OaArrives(s)
        /\ oaServer' = [oaServer EXCEPT !.state = "idle"]
     \/ /\ oaServer.state \in {"asked", "running"} /\ ~oaServer.other
        /\ OaArrives("other") /\ oaServer' = [oaServer EXCEPT !.other = TRUE]
  /\ UNCHANGED <<oaTrack, oaReply>> /\ UNCHANGED OaWireRest /\ UNCHANGED oaTasks

(* #onResponse names the native turn at once (bindTurnAdmission), an error *)
(* lets go of what waits for it; the rest is done in wire order.           *)
OaAnswered ==
  /\ OaReads /\ oaReply = "pending" /\ ~oaServer.replied
  /\ oaReply' = "queued" /\ oaServer' = [oaServer EXCEPT !.replied = TRUE, !.state = IF @ = "asked" THEN "idle" ELSE @]
  /\ \/ /\ oaServer.started \/ oaServer.state = "running"
        /\ OaArrives(IF oaServer.state = "idle" THEN "ended" ELSE "response")
        /\ oaTrack' = [oaTrack EXCEPT !.adm = IF @ = "armed" THEN "bound" ELSE @]
     \/ /\ oaServer.state = "asked"
        /\ OaArrives("refusal") /\ oaTrack' = OaReleased(oaTrack)
  /\ UNCHANGED OaWireRest /\ UNCHANGED oaTasks

(* The process exits, its watchdog does, a line is too long or unreadable, *)
(* or one more message does not fit.                                       *)
OaWireFails ==
  /\ oaClient.state = "live" /\ OaFailsWire
  /\ UNCHANGED <<oaPc, oaTurn, oaClient, oaHead, oaReply, oaServer, oaTold>> /\ UNCHANGED oaTasks

-----------------------------------------------------------------------------
(* The head of the queue                                                   *)

OaNextMessage == oaQueue' = Tail(oaQueue) /\ oaHead' = OaNoHead
OaHeads(at, how) == oaHead' = [at |-> at, how |-> how] /\ UNCHANGED oaQueue
OaHeadRest == <<oaPc, oaServer>>
OaEndings == {"completed", "failed", "interrupted"}

(* #failQueuedProtocol: what fails here fails the client in its place.     *)
OaHeadFails(t) ==
  IF oaWire.stopping
  THEN /\ OaNextMessage /\ oaTrack' = t /\ UNCHANGED oaWire
       /\ oaReply' = IF oaReply = "taken" THEN "rejected" ELSE oaReply
  ELSE UNCHANGED oaReply /\ OaHeads("committing", "none") /\ oaTrack' = OaReleased(t)
       /\ oaWire' = [oaWire EXCEPT !.fatal = IF @ = "no" THEN "set" ELSE @]

(* A notification, once it is known whose it is, is taken or dropped.      *)
OaDispatches(m) ==
  IF m = "other" \/ ~OaAccepts \/ OaHasTerminal
  THEN OaNextMessage /\ UNCHANGED <<oaTrack, oaWire, oaReply>>
  ELSE IF m \in OaEndings /\ oaTrack.adm = "bound" /\ ~oaTrack.started
  THEN OaHeadFails(oaTrack)
  ELSE OaHeads(IF m = "started" THEN m ELSE "ending", m) /\ UNCHANGED <<oaTrack, oaWire, oaReply>>

(* awaitRootTurnAdmission holds a notification back, even of a client that *)
(* stops.  A response that is no longer waited for is dropped.             *)
OaTaken ==
  /\ oaHead = OaNoHead /\ oaQueue # <<>>
  /\ LET m == Head(oaQueue)
         response == m \in {"response", "ended", "refusal"}
     IN \/ /\ m = "failure" /\ OaHeads("committing", "none")
           /\ UNCHANGED <<oaTurn, oaTrack, oaWire, oaReply>>
        \/ /\ m # "failure"
           /\ oaWire.stopping \/ (response /\ oaReply # "queued")
           /\ OaNextMessage /\ UNCHANGED <<oaTurn, oaTrack, oaWire, oaReply>>
        \/ /\ response /\ ~oaWire.stopping /\ oaReply = "queued"
           /\ oaTurn' = OaUnclaimed(oaTurn) /\ UNCHANGED oaWire
           /\ oaTrack' = IF m = "refusal" THEN oaTrack ELSE OaClaimed(oaTrack)
           /\ IF m # "refusal" /\ OaHasTerminal THEN OaNextMessage /\ oaReply' = "accepted"
              ELSE OaHeads(m, "none") /\ oaReply' = "taken"
        \/ /\ m \in OaEndings \cup {"started", "other"} /\ ~oaWire.stopping /\ UNCHANGED oaTurn
           /\ IF oaTrack.adm = "armed"
              THEN OaHeads("held", m) /\ UNCHANGED <<oaTrack, oaWire, oaReply>>
              ELSE OaDispatches(m)
  /\ UNCHANGED <<oaClient, oaTold>> /\ UNCHANGED OaHeadRest /\ UNCHANGED oaTasks
OaLetThrough ==
  /\ oaHead.at = "held" /\ oaTrack.adm # "armed"
  /\ OaDispatches(oaHead.how)
  /\ UNCHANGED <<oaTurn, oaClient, oaTold>> /\ UNCHANGED OaHeadRest /\ UNCHANGED oaTasks

(* publishRunStarted, for a notification or for the response.              *)
OaRunStarted ==
  /\ oaHead.at \in {"started", "response", "ended"}
  /\ \/ /\ oaTrack' = [oaTrack EXCEPT !.started = ~OaHasTerminal] /\ UNCHANGED oaWire
        /\ IF oaHead.at = "ended" THEN \E s \in OaEndings : OaHeads("ending", s) ELSE OaNextMessage
        /\ oaReply' = IF oaHead.at = "started" THEN oaReply ELSE "accepted"
     \/ OaHeadFails(oaTrack)
  /\ UNCHANGED <<oaTurn, oaClient, oaTold>> /\ UNCHANGED OaHeadRest /\ UNCHANGED oaTasks

OaRefused ==
  /\ oaHead.at = "refusal"
  /\ \/ OaTells("failed") /\ OaNextMessage /\ oaReply' = "rejected" /\ UNCHANGED <<oaTrack, oaWire>>
     \/ UNCHANGED oaTold /\ OaHeadFails(oaTrack)
  /\ UNCHANGED <<oaTurn, oaClient>> /\ UNCHANGED OaHeadRest /\ UNCHANGED oaTasks

(* #onTurnCompleted: the items are ended, then the turn begins to settle;  *)
(* a turn the provider interrupted closes the client first.                *)
OaCompletes ==
  /\ oaHead.at = "ending"
  /\ \/ /\ OaHasTerminal /\ OaNextMessage
        /\ UNCHANGED <<oaTrack, oaWire, oaClient, oaReply>>
     \/ /\ ~OaHasTerminal /\ oaTrack' = [oaTrack EXCEPT !.settling = TRUE]
        /\ IF oaHead.how = "interrupted"
           THEN /\ OaHeads("closing", "interrupted")
                /\ oaWire' = OaStopsClient(oaWire) /\ OaRejectsPending
                /\ oaClient' = [oaClient EXCEPT !.stopReq = TRUE]
           ELSE OaHeads("pushing", oaHead.how) /\ UNCHANGED <<oaWire, oaClient, oaReply>>
     \/ OaHeadFails(oaTrack) /\ UNCHANGED oaClient
  /\ UNCHANGED <<oaTurn, oaTold>> /\ UNCHANGED OaHeadRest /\ UNCHANGED oaTasks

(* beforeInterruptedTurn *)
OaInterrupted ==
  /\ oaHead.at = "closing" /\ oaWire.kill # "busy"
  /\ \/ /\ oaWire.kill = "ok" /\ OaHeads("pushing", "interrupted") /\ UNCHANGED oaTrack
        /\ oaClient' = [oaClient EXCEPT !.state = "none"]
     \/ OaNextMessage /\ oaTrack' = [oaTrack EXCEPT !.settling = FALSE] /\ UNCHANGED oaClient
  /\ UNCHANGED <<oaTurn, oaWire, oaReply, oaTold>> /\ UNCHANGED OaHeadRest /\ UNCHANGED oaTasks

(* The checkpoint of a completed run, then pushTerminal.  A cancellation   *)
(* gives up the checkpoint and supersedes the terminal unless it is late.  *)
OaAs(how) == IF how = "interrupted" THEN "cancelled" ELSE how
OaCountsSuperseded(t) == OaFinished(t, "completed")        \* bug: a superseded end counts
OaSuperseded(t) == [t EXCEPT !.settling = FALSE]
OaTerminalTold ==
  /\ oaHead.at = "pushing"
  /\ \/ /\ ~(oaHead.how = "completed" /\ oaTurn.signal)
        /\ OaTells(OaAs(oaHead.how)) /\ OaNextMessage
        /\ oaTrack' = OaFinished(oaTrack, OaAs(oaHead.how)) /\ UNCHANGED oaWire
        /\ UNCHANGED oaReply
     \/ /\ oaHead.how = "completed" /\ oaTurn.signal /\ OaNextMessage
        /\ oaTrack' = OaSuperseded(oaTrack) /\ UNCHANGED <<oaWire, oaTold, oaReply>>
     \/ OaHeadFails([oaTrack EXCEPT !.settling = FALSE]) /\ UNCHANGED oaTold
  /\ UNCHANGED <<oaTurn, oaClient>> /\ UNCHANGED OaHeadRest /\ UNCHANGED oaTasks

(* #commitProtocolFailure: the turn that is under way fails, or the driver *)
(* does; then the client stops.                                            *)
OaCommitDone ==
  /\ OaNextMessage
  /\ oaReply' = IF oaReply \in {"pending", "queued", "taken"} THEN "rejected" ELSE oaReply
  /\ oaWire' = IF oaWire.stopping THEN [oaWire EXCEPT !.fatal = "done"]
               ELSE OaStopsClient([oaWire EXCEPT !.fatal = "done"])
OaCommits ==
  /\ oaHead.at = "committing"
  /\ \/ /\ oaWire.fatal = "done" /\ OaNextMessage
        /\ oaReply' = IF oaReply = "taken" THEN "rejected" ELSE oaReply
        /\ UNCHANGED <<oaTurn, oaTrack, oaWire>>
     \/ /\ oaWire.fatal # "done" /\ oaTrack.active /\ ~OaHasTerminal
        /\ oaTrack' = [oaTrack EXCEPT !.settling = TRUE]
        /\ OaHeads("failing", "turn") /\ UNCHANGED <<oaTurn, oaWire, oaReply>>
     \/ /\ oaWire.fatal # "done" /\ ~(oaTrack.active /\ ~OaHasTerminal)
        /\ UNCHANGED oaTrack
        /\ IF oaTurn.inflight /\ oaTurn.owner /\ ~(oaTrack.adm = "bound" /\ OaHasTerminal)
           THEN /\ oaTurn' = [oaTurn EXCEPT !.owner = FALSE]
                /\ OaHeads("failing", "start") /\ UNCHANGED <<oaWire, oaReply>>
           ELSE oaTurn' = [oaTurn EXCEPT !.lost = TRUE] /\ OaCommitDone
  /\ UNCHANGED <<oaClient, oaTold>> /\ UNCHANGED OaHeadRest /\ UNCHANGED oaTasks
OaCommitTold ==
  /\ oaHead.at = "failing"
  /\ \/ OaTells("failed") /\ UNCHANGED oaTurn /\ oaTrack' = OaFinished(oaTrack, "failed")
     \/ /\ UNCHANGED oaTold /\ oaTurn' = [oaTurn EXCEPT !.lost = TRUE]
        /\ oaTrack' = OaRejectsActive(oaTrack, "failed")
  /\ OaCommitDone
  /\ UNCHANGED oaClient /\ UNCHANGED OaHeadRest /\ UNCHANGED oaTasks

-----------------------------------------------------------------------------
(* Cancellation and stop                                                   *)

OaClosesClient ==
  /\ oaWire' = OaStopsClient(oaWire) /\ OaRejectsPending
  /\ oaClient' = [oaClient EXCEPT !.stopReq = TRUE]

(* #cancelActiveTurn: before the response, with a native turn, or without. *)
OaBeginsCancel(t, tell) ==
  \/ /\ oaClient.state = "none"
     /\ oaTurn' = t /\ UNCHANGED <<oaClient, oaWire, oaReply, oaTrack, oaCancel>>
  \/ /\ oaClient.state # "none" /\ t.inflight
     /\ oaTurn' = [t EXCEPT !.cancelled = TRUE, !.tell = tell, !.cleanup = "busy"]
     /\ oaTrack' = OaReleased(oaTrack) /\ OaClosesClient /\ oaCancel' = "start"
  \/ /\ oaClient.state # "none" /\ ~t.inflight /\ oaTrack.active
     /\ oaTurn' = t /\ UNCHANGED oaTrack /\ OaClosesClient /\ oaCancel' = "active"
  \/ /\ oaClient.state # "none" /\ ~t.inflight /\ ~oaTrack.active
     /\ oaTurn' = t /\ UNCHANGED oaTrack
     /\ \/ UNCHANGED <<oaClient, oaWire, oaReply, oaCancel>>         \* thread/backgroundTerminals/clean
        \/ OaClosesClient /\ oaCancel' = "idle"

OaCancel ==
  /\ oaPc # "idle" /\ oaCancel = "none" /\ ~oaTurn.signal /\ oaTold.terminal = "none"
  /\ OaBeginsCancel([oaTurn EXCEPT !.signal = TRUE], TRUE)
  /\ UNCHANGED <<oaPc, oaServer, oaSettle, oaStop, oaTold>> /\ UNCHANGED oaLine

(* #performStop; the requests of the server are given up as well.          *)
OaKilled ==
  /\ oaWire.kill = "busy"
  /\ \/ oaWire' = [oaWire EXCEPT !.kill = "ok"] /\ oaServer' = [oaServer EXCEPT !.state = "idle"]
     \/ oaWire' = [oaWire EXCEPT !.kill = "failed"] /\ UNCHANGED oaServer
  /\ UNCHANGED <<oaPc, oaTurn, oaTrack, oaClient, oaReply, oaTold>>
  /\ UNCHANGED oaLine /\ UNCHANGED oaTasks

OaCancelClosed ==
  /\ oaCancel \in {"start", "active", "idle"} /\ oaWire.kill # "busy"
  /\ \/ /\ oaWire.kill = "ok" /\ UNCHANGED oaTrack
        /\ oaClient' = [oaClient EXCEPT !.state = "none"]
        /\ oaTurn' = [oaTurn EXCEPT !.cleanup = IF oaCancel = "start" THEN "ok" ELSE @]
        /\ oaCancel' = IF oaCancel = "active" THEN "telling" ELSE "none"
        /\ oaSettle' = IF oaCancel = "active" THEN "draining" ELSE oaSettle
     \/ /\ oaWire.kill = "failed" \/ oaCancel = "active"
        /\ oaCancel' = "none" /\ UNCHANGED <<oaClient, oaSettle>>
        /\ oaTurn' = [oaTurn EXCEPT !.cleanup = IF oaCancel = "start" THEN "failed" ELSE @]
        /\ oaTrack' = IF oaCancel = "active" THEN OaRejectsActive(oaTrack, "failed") ELSE oaTrack
  /\ UNCHANGED <<oaPc, oaWire, oaReply, oaServer, oaStop, oaTold>> /\ UNCHANGED oaLine

(* cancelTurn, after the messages that came in before are processed.       *)
OaCancelDrained ==
  /\ oaSettle = "draining" /\ OaDrained
  /\ \/ /\ oaWire.fatal # "no" /\ oaSettle' = "none"
        /\ oaTrack' = OaRejectsActive(oaTrack, "failed")
     \/ /\ oaWire.fatal = "no" /\ oaTrack.active /\ ~OaHasTerminal
        /\ oaSettle' = "pushing" /\ oaTrack' = [oaTrack EXCEPT !.settling = TRUE]
     \/ /\ oaWire.fatal = "no" /\ ~(oaTrack.active /\ ~OaHasTerminal)
        /\ oaSettle' = "none" /\ UNCHANGED oaTrack
  /\ UNCHANGED <<oaPc, oaTurn, oaClient, oaWire, oaReply, oaServer, oaCancel, oaStop, oaTold>>
  /\ UNCHANGED oaLine
OaCancelPublished ==
  /\ oaSettle = "pushing" /\ oaSettle' = "none"
  /\ \/ OaTells("cancelled") /\ oaTrack' = OaFinished(oaTrack, "cancelled")
     \/ UNCHANGED oaTold /\ oaTrack' = OaRejectsActive(oaTrack, "failed")
  /\ UNCHANGED <<oaPc, oaTurn, oaClient, oaWire, oaReply, oaServer, oaCancel, oaStop>>
  /\ UNCHANGED oaLine
(* The event has 250 ms; later its delivery is awaited by stop alone.      *)
OaCancelReturns ==
  /\ oaCancel = "telling" /\ oaCancel' = "none"
  /\ UNCHANGED <<oaPc, oaTurn, oaTrack, oaClient, oaWire, oaReply, oaServer, oaSettle, oaStop, oaTold>>
  /\ UNCHANGED oaLine

OaStop ==
  /\ oaStop \in {"none", "failed"} /\ oaStop' = "cancelling"
  /\ LET t == [oaTurn EXCEPT !.signal = @ \/ (oaPc # "idle" /\ oaTold.terminal = "none")] IN
     IF oaCancel = "none" /\ ~oaClient.stopReq THEN OaBeginsCancel(t, FALSE)
     ELSE oaTurn' = t /\ UNCHANGED <<oaClient, oaWire, oaReply, oaTrack, oaCancel>>
  /\ UNCHANGED <<oaPc, oaServer, oaSettle, oaTold>> /\ UNCHANGED oaLine
OaStopSettles ==
  /\ oaStop = "cancelling" /\ oaCancel = "none" /\ oaSettle = "none"
  /\ oaTrack' = OaReleased(OaRejectsActive(oaTrack, "cancelled"))
  /\ IF oaClient.state = "none" THEN UNCHANGED <<oaWire, oaReply, oaClient>> ELSE OaClosesClient
  /\ oaStop' = "killing"
  /\ UNCHANGED <<oaPc, oaTurn, oaServer, oaCancel, oaSettle, oaTold>> /\ UNCHANGED oaLine
(* clearActiveTurns, and finishTerminalCleanup, which may fail.            *)
OaStopEnds ==
  /\ oaStop = "killing" /\ oaWire.kill # "busy"
  /\ oaTrack' = [NoOaTrack EXCEPT !.promise = oaTrack.promise]
  /\ oaClient' = IF oaWire.kill = "ok" THEN [oaClient EXCEPT !.state = "none"] ELSE oaClient
  /\ oaStop' \in (IF oaWire.kill = "failed" THEN {"failed"} ELSE {"ok", "failed"})
  /\ UNCHANGED <<oaPc, oaTurn, oaWire, oaReply, oaServer, oaCancel, oaSettle, oaTold>>
  /\ UNCHANGED oaLine

-----------------------------------------------------------------------------
OaTurnStep ==
  \/ OaStarted \/ OaStartFails \/ OaStartCleaned \/ OaReplied \/ OaTimesOut \/ OaWaited
  \/ OaCaught \/ OaFailTold \/ OaUnwound \/ OaCancelTold
OaHeadStep ==
  \/ OaTaken \/ OaLetThrough \/ OaRunStarted \/ OaRefused \/ OaCompletes \/ OaInterrupted \/ OaTerminalTold
  \/ OaCommits \/ OaCommitTold
OaCancelStep == OaCancelClosed \/ OaCancelReturns
OaSettleStep == OaCancelDrained \/ OaCancelPublished
OaStopStep == OaStopSettles \/ OaStopEnds

OaTaskStep == OaTurnStep \/ OaHeadStep \/ OaCancelStep
OaNext ==
  \/ OaTaskStep \/ OaSettleStep \/ OaStopStep \/ OaKilled
  \/ OaBegin \/ OaServerStarts \/ OaNotified \/ OaAnswered \/ OaWireFails \/ OaCancel \/ OaStop

(* Only the app-server may be silent: every push and every stop of the     *)
(* client is answered or times out.  Who awaits an attempt to stop it hears*)
(* of that one, although another may follow (SF).                          *)
OaFair ==
  /\ SF_oaVars(OaTaskStep)
  /\ WF_oaVars(OaSettleStep) /\ WF_oaVars(OaStopStep) /\ WF_oaVars(OaKilled)
OaSpec == OaInit /\ [][OaNext]_oaVars /\ OaFair

-----------------------------------------------------------------------------
OaAsTurn == INSTANCE BackendTurn WITH
  Terminals <- {"completed", "cancelled", "failed"},
  working <- oaPc # "idle", terminal <- oaTold.terminal,
  outcome <- OaVerdict,
  native <- oaServer.state # "idle"
OaRefines == OaAsTurn!TurnSpec

(* The end of a turn that the provider interrupted could not be published: *)
(* the client is closed, and nothing is left that could settle the turn.   *)
OaStranded ==
  /\ oaPc = "waiting" /\ oaTrack.promise = "none" /\ OaDrained
  /\ oaWire.stopping /\ oaCancel = "none" /\ oaSettle = "none"

(* A cancelled turn ends, unless it is stranded; a stop ends it in any     *)
(* case, and is answered itself.                                           *)
OaAwaited == \/ oaTurn.signal /\ oaPc # "idle" /\ ~OaStranded
             \/ oaStop # "none" /\ oaPc # "idle"
             \/ oaStop \notin {"none", "ok", "failed"}
OaEnds == []<>~OaAwaited
=============================================================================
