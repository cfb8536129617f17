----------------------------- MODULE DriverProcess -----------------------------
(***************************************************************************)
(* DriverProcess (bin/driver-process.ts): boot, the memoised and retried   *)
(* shutdown, and the finalization that reports how the instance ended.     *)
(* Composed with the runtime state machine (RuntimeState) and with the     *)
(* contract of the backend lifecycle (BackendContract).                    *)
(*                                                                         *)
(* An error is told apart by its message: "other", or the reason of the    *)
(* shutdown attempt that aborted what failed.                              *)
(***************************************************************************)
EXTENDS RuntimeState, BackendContract, FiniteSets

VARIABLES
  pc,                      \* where run() is
  online,                  \* the socket is connected and there is a logger
  lifecycle,               \* #backendLifecycle # null
  attempt,                 \* attempts of runShutdown: [pc, permission]
  current,                 \* #shutdownTask: its attempt or 0
  reason,                  \* #shutdownReason
  abortReason,             \* the reason the shutdown signal carries
  cause,                   \* #terminalCause is set
  pending,                 \* #pendingRunTerminal
  signals,                 \* process signals still listened for
  final,                   \* finalize: [awaited, retrying, failed]
  reported                 \* the terminal handed to the host

processVars == <<pc, online, lifecycle, attempt, current, reason, abortReason, cause, pending,
                 signals, final, reported>>
vars == <<runtimeVars, contractVars, processVars>>
bootVars == <<pc, online, lifecycle>>
runVars == <<runGeneration, activeApprovals, lastGeneration, held>>
endVars == <<signals, final, reported>>

Signals == {"signal.sigint", "signal.sigterm"}
Begun == {k \in Calls : attempt[k].pc # "none"}
NextAttempt == Cardinality(Begun) + 1
IsShuttingDown == status \in ShuttingDown

ProcessInit ==
  /\ RuntimeInit /\ ContractInit
  /\ pc = "created" /\ online = FALSE /\ lifecycle = FALSE
  /\ attempt = [k \in Calls |-> [pc |-> "none", permission |-> "none"]]
  /\ current = 0 /\ reason = "none" /\ abortReason = "none"
  /\ cause = FALSE /\ pending = "none"
  /\ signals = Signals
  /\ final = [awaited |-> 0, retrying |-> FALSE, failed |-> FALSE]
  /\ reported = "none"

-----------------------------------------------------------------------------
(* shutdown and the first turn of runShutdown                              *)

(* rememberPendingRunTerminal: a failure stays.                            *)
RememberLatest(terminal) == terminal       \* bug: the last one wins
Remember(terminal) == IF pending = "failed" THEN "failed" ELSE terminal

BeginsAttempt(why) ==
  /\ NextAttempt \in Calls
  /\ attempt' = [attempt EXCEPT ![NextAttempt].pc = "permission"]
  /\ current' = NextAttempt
  /\ reason' = why
  /\ abortReason' = IF aborted THEN abortReason ELSE why
  /\ pending' = IF runGeneration # 0 /\ why \in Signals THEN Remember("completed") ELSE pending
  /\ aborted' = TRUE
  /\ UNCHANGED <<startup, answer, down>>
JoinsAttempt(why) ==
  IF current # 0
  THEN UNCHANGED <<attempt, current, reason, abortReason, pending, contractVars>>
  ELSE BeginsAttempt(why)
StatusAfterShutdown == IF current # 0 \/ status \in {"failed", "stopped"} THEN status ELSE "stopping"

(* Attempts but the two of finalize are bounded.                           *)
MayRetry == current # 0 \/ NextAttempt + 2 \in Calls

(* A cause: the status becomes failed, and the driver shuts down.          *)
FailsWith(why) ==
  /\ MayRetry
  /\ cause' = TRUE
  /\ status' = IF IsShuttingDown THEN status ELSE "failed"
  /\ JoinsAttempt(why)
  /\ UNCHANGED <<runVars, bootVars, endVars>>

SocketCloses ==
  /\ online /\ reason = "none" /\ pc # "exited"
  /\ FailsWith("socket.closed")

HeartbeatFails ==
  /\ pc = "dispatching" /\ ~aborted /\ ~IsShuttingDown
  /\ FailsWith("runtime.heartbeat.failed")

BackendFails ==
  /\ startup # "none" /\ ~IsShuttingDown
  /\ FailsWith("driver.backend_failed")

SignalArrives ==
  \E why \in signals :
    /\ MayRetry /\ pc \notin {"created", "exited"}
    /\ signals' = signals \ {why}
    /\ status' = StatusAfterShutdown
    /\ JoinsAttempt(why)
    /\ UNCHANGED <<runVars, bootVars, cause, final, reported>>

-----------------------------------------------------------------------------
(* runShutdown                                                             *)

PermissionSettles(k) ==
  /\ attempt[k].pc = "permission"
  /\ \E result \in {"ok", "failed"} :
       attempt' = [attempt EXCEPT ![k] = [pc |-> "backend", permission |-> result]]
  /\ IF lifecycle THEN AskShutdown(k) ELSE UNCHANGED contractVars
  /\ UNCHANGED <<runtimeVars, bootVars, current, reason, abortReason, cause, pending, endVars>>

SucceedsAnyway(k) == attempt[k].permission = "ok"      \* bug: the backend's result is not looked at
Succeeds(k) == attempt[k].permission = "ok" /\ answer[k] \in {"idle", "resolved"}

AttemptEnds(k) ==
  /\ attempt[k].pc = "backend" /\ answer[k] # "waiting"
  /\ IF Succeeds(k)
     THEN /\ attempt' = [attempt EXCEPT ![k].pc = "ok"]
          /\ status' = IF status = "stopping" THEN "stopped" ELSE status
          /\ lifecycle' = FALSE
          /\ UNCHANGED current
     ELSE /\ attempt' = [attempt EXCEPT ![k].pc = "failed"]
          /\ status' = IF status = "stopping" THEN "failed" ELSE status
          /\ current' = 0
          /\ UNCHANGED lifecycle
  /\ UNCHANGED <<runVars, contractVars, pc, online, reason, abortReason, cause, pending, endVars>>

-----------------------------------------------------------------------------
(* run: boot                                                               *)

Goes(place) == pc' = place
Quietly == UNCHANGED <<contractVars, attempt, current, reason, abortReason, endVars>>

(* The error that an abort leaves, or any other.                           *)
Errors == {"other"} \cup (IF aborted THEN {abortReason} ELSE {})
(* An RPC is aborted by the attempt that ends.                             *)
RpcErrors == Errors \cup (IF aborted THEN {reason} ELSE {})

(* The catch of run: the abort of a shutdown is no failure.                *)
ShutdownAbort(error) == aborted /\ ~cause /\ error = reason
Caught(error) ==
  /\ Goes("finalizing")
  /\ IF ShutdownAbort(error)
     THEN UNCHANGED <<cause, pending, status>>
     ELSE /\ cause' = TRUE
          /\ pending' = Remember("failed")
          /\ status' = IF IsShuttingDown THEN status ELSE "failed"
Leaves == IF cause THEN Caught("other") ELSE Goes("finalizing") /\ UNCHANGED <<cause, pending, status>>

Continues(place) ==
  IF IsShuttingDown THEN Leaves ELSE Goes(place) /\ UNCHANGED <<cause, pending, status>>

Boot ==
  /\ pc = "created"
  /\ Goes("connecting")
  /\ Enter("starting")
  /\ Quietly /\ UNCHANGED <<online, lifecycle, cause, pending>>

Connect ==
  /\ pc = "connecting"
  /\ \/ /\ online' = ~aborted
        /\ IF aborted THEN Caught(abortReason) ELSE Goes("hello") /\ UNCHANGED <<cause, pending, status>>
     \/ /\ \E error \in Errors : Caught(error)
        /\ UNCHANGED online
  /\ Quietly /\ UNCHANGED <<runVars, lifecycle>>

Hello ==
  /\ pc = "hello"
  /\ \/ IF aborted THEN Caught(abortReason) ELSE Goes("loading") /\ UNCHANGED <<cause, pending, status>>
     \/ \E error \in RpcErrors : Caught(error)
  /\ Quietly /\ UNCHANGED <<runVars, online, lifecycle>>

(* The backend is loaded; unless the driver shuts down it is started.      *)
Load ==
  /\ pc = "loading"
  /\ IF IsShuttingDown
     THEN Leaves /\ UNCHANGED <<lifecycle, contractVars>>
     ELSE /\ Goes("backend")
          /\ lifecycle' = TRUE
          /\ AskStart
          /\ UNCHANGED <<cause, pending, status>>
  /\ UNCHANGED <<runVars, online, attempt, current, reason, abortReason, endVars>>
LoadFails ==
  /\ pc = "loading"
  /\ Caught("other")
  /\ Quietly /\ UNCHANGED <<runVars, online, lifecycle>>

Started ==
  /\ pc = "backend"
  /\ \/ startup = "resolved" /\ Continues("ready")
     \/ startup = "rejected" /\ \E error \in Errors : Caught(error)
  /\ Quietly /\ UNCHANGED <<runVars, online, lifecycle>>

Ready ==
  /\ pc = "ready"
  /\ \/ IF IsShuttingDown THEN Leaves
        ELSE Goes("dispatching") /\ status' = "ready" /\ UNCHANGED <<cause, pending>>
     \/ \E error \in RpcErrors : Caught(error)
  /\ Quietly /\ UNCHANGED <<runVars, online, lifecycle>>

-----------------------------------------------------------------------------
(* The dispatcher, as the process sees it                                  *)

UnchangedByRuns == UNCHANGED <<contractVars, processVars>>
RunBegins == pc = "dispatching" /\ ~aborted /\ lastGeneration < MaxGeneration /\ EnterRun /\ UnchangedByRuns
RunEnds == \E g \in 1..MaxGeneration : EndRun(g) /\ UnchangedByRuns
ApprovalBegins == runGeneration # 0 /\ held[runGeneration] < MaxHeld /\ BeginApproval /\ UnchangedByRuns
ApprovalEnds == \E g \in 1..MaxGeneration : EndApproval(g) /\ UnchangedByRuns

(* rememberRunFailure; a loop that fails makes the driver fail first.      *)
RunFails ==
  /\ pc = "dispatching"
  /\ cause' = TRUE
  /\ pending' = Remember("failed")
  /\ status' \in {status, IF IsShuttingDown THEN status ELSE "failed"}
  /\ UNCHANGED <<runVars, contractVars, bootVars, attempt, current, reason, abortReason, endVars>>

(* session.stop, and what follows a failure.                               *)
DispatcherShutsDown ==
  /\ pc = "dispatching" /\ MayRetry
  /\ status' = StatusAfterShutdown
  /\ JoinsAttempt("dispatcher")
  /\ UNCHANGED <<runVars, bootVars, cause, endVars>>

(* The loop ends once the driver shuts down, well or not.                  *)
LoopIsOverOnStop == status \in {"stopping", "stopped"}     \* bug: a failed driver keeps polling
LoopIsOver == IsShuttingDown
LoopEnds ==
  /\ pc = "dispatching" /\ LoopIsOver
  /\ Leaves \/ \E error \in Errors : Caught(error)
  /\ Quietly /\ UNCHANGED <<runVars, online, lifecycle>>

-----------------------------------------------------------------------------
(* finalize                                                                *)

(* It awaits the attempt there is or begins one.                           *)
ClosedReason == IF reason = "none" THEN "runtime.socket.closed" ELSE reason
Awaited == IF current # 0 THEN current ELSE NextAttempt
FinalizeBegins ==
  /\ pc = "finalizing" /\ final.awaited = 0
  /\ final' = [final EXCEPT !.awaited = Awaited, !.retrying = (current = 0 /\ aborted)]
  /\ status' = StatusAfterShutdown
  /\ JoinsAttempt(ClosedReason)
  /\ UNCHANGED <<runVars, bootVars, cause, signals, reported>>

FinalizeSettles ==
  /\ pc \in {"finalizing", "retrying"} /\ final.awaited # 0
  /\ attempt[final.awaited].pc = "ok" \/ (attempt[final.awaited].pc = "failed" /\ final.retrying)
  /\ Goes("reporting")
  /\ final' = [final EXCEPT !.failed = (attempt[final.awaited].pc = "failed")]
  /\ UNCHANGED <<runtimeVars, contractVars, online, lifecycle, attempt, current, reason, abortReason,
                 cause, pending, signals, reported>>

(* An attempt that failed is repeated once.                                *)
FinalizeRetries ==
  /\ pc = "finalizing" /\ final.awaited # 0
  /\ attempt[final.awaited].pc = "failed" /\ ~final.retrying
  /\ Goes("retrying")
  /\ final' = [final EXCEPT !.awaited = Awaited, !.retrying = TRUE]
  /\ status' = StatusAfterShutdown
  /\ JoinsAttempt(ClosedReason)
  /\ UNCHANGED <<runVars, online, lifecycle, cause, signals, reported>>

(* The pending terminal goes out only after cleanup; without a logger,     *)
(* that is without a connection, a failure is not reported.                *)
Reports ==
  /\ pc = "reporting"
  /\ Goes("closing")
  /\ reported' = IF final.failed \/ (pending = "failed" /\ ~online) THEN "none" ELSE pending
  /\ reason' = IF reported' = "failed" THEN "driver.runtime_failed" ELSE reason
  /\ UNCHANGED <<runtimeVars, contractVars, online, lifecycle, attempt, current, abortReason, cause,
                 pending, signals, final>>

Exits ==
  /\ pc = "closing"
  /\ Goes("exited")
  /\ signals' = {}
  /\ UNCHANGED <<runtimeVars, contractVars, online, lifecycle, attempt, current, reason, abortReason,
                 cause, pending, final, reported>>

-----------------------------------------------------------------------------
LifecycleStep ==
  /\ AnswerStart \/ GoesDown \/ \E k \in Calls : AnswerShutdown(k)
  /\ UNCHANGED <<runtimeVars, processVars>>
LifecycleAnswers ==
  /\ AnswerStart \/ \E k \in Calls : AnswerShutdown(k)
  /\ UNCHANGED <<runtimeVars, processVars>>

MainStep ==
  \/ Boot \/ Connect \/ Hello \/ Load \/ LoadFails \/ Started \/ Ready \/ LoopEnds
  \/ FinalizeBegins \/ FinalizeSettles \/ FinalizeRetries \/ Reports \/ Exits
ShutdownStep == \E k \in Calls : PermissionSettles(k) \/ AttemptEnds(k)

ProcessNext ==
  \/ Boot \/ Connect \/ Hello \/ Load \/ LoadFails \/ Started \/ Ready \/ LoopEnds
  \/ FinalizeBegins \/ FinalizeSettles \/ FinalizeRetries \/ Reports \/ Exits
  \/ \E k \in Calls : PermissionSettles(k) \/ AttemptEnds(k)
  \/ SocketCloses \/ HeartbeatFails \/ BackendFails \/ SignalArrives
  \/ RunBegins \/ RunEnds \/ ApprovalBegins \/ ApprovalEnds \/ RunFails \/ DispatcherShutsDown
  \/ LifecycleStep

(* Timers bound every RPC, the permission wait and (BackendContract) the   *)
(* lifecycle; a dispatcher whose driver shuts down ends its loop           *)
(* (CommandDispatcher).                                                    *)
ProcessSpec ==
  /\ ProcessInit /\ [][ProcessNext]_vars
  /\ WF_vars(MainStep) /\ WF_vars(ShutdownStep) /\ WF_vars(LifecycleAnswers)

-----------------------------------------------------------------------------
(* Properties                                                              *)

(* The driver says stopped, and reports how its run ended, only after the  *)
(* backend it started is down, however many attempts that took. The report *)
(* is true: completed only if nothing failed, and whatever failed is       *)
(* reported as failed if a report is made at all.                          *)
ReportIsTrue ==
  /\ (status = "stopped" \/ reported # "none") /\ startup # "none" => down
  /\ reported = "completed" => ~cause
  /\ pc \in {"closing", "exited"} /\ cause /\ online /\ ~final.failed => reported = "failed"

(* A driver that shuts down gets to its end, whatever the backend does and *)
(* however often an attempt fails.                                         *)
ShutdownEndsProcess == aborted ~> (pc = "exited")
=============================================================================
