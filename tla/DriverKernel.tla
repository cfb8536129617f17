----------------------------- MODULE DriverKernel -----------------------------
(***************************************************************************)
(* AgentDriverKernelCore (core/agent-driver-kernel.ts), the driver as a    *)
(* library: commands are dispatched in memory and answered by promises,    *)
(* events leave through a bounded queue that is closed at the end, or      *)
(* through a sink of the host.  Composed with the terminal state machine,  *)
(* the runtime state machine and the contract of the backend lifecycle.    *)
(* The dispatcher is reduced to what the kernel sees of it: it takes       *)
(* commands, drives one input at a time and ends when the driver does.     *)
(***************************************************************************)
EXTENDS TerminalState, RuntimeState, BackendContract, Sequences

CONSTANTS
  Inputs,                  \* commands that start a run
  Pushes,                  \* calls of pushEvents with a run terminal
  PushedStatuses,          \* and the statuses they carry
  MaxQueue,                \* KERNEL_QUEUE_MAX_SIZE, for commands
  MaxStops                 \* bound: calls of stop that are not memoised

StopCommand == "session.stop"

ASSUME KernelAssumption ==
  /\ "none" \notin Inputs /\ StopCommand \notin Inputs
  /\ PushedStatuses \subseteq Statuses

KernelCommands == Inputs \cup {StopCommand}

VARIABLES
  custom,                  \* the host gave an event sink of its own
  starting,                \* start: none, backend, cleanup, resolved, rejected
  cause,                   \* #terminalCause is set
  attempt,                 \* shutdown call |-> none, permission, backend, finalize, ok, failed
  current,                 \* #shutdownTask: its call or 0
  deferred,                \* onDeferredStopComplete has run
  queue,                   \* #commands
  promise,                 \* #commandResults: command |-> none, pending, resolved, rejected
  loop,                    \* the dispatcher: none, polling, stopping, ended, threw, failing, settled
  driving,                 \* the input the dispatcher drives, or "none"
  finalizing,              \* #eventFinalizationTask: none, closing, done
  closed,                  \* #events is closed
  emitted,                 \* history: terminals in #events, [revision, status]
  push,                    \* pushEvents call |-> its state
  stop                     \* stop: [pc, awaited, calls]

startVars == <<custom, starting, cause>>
attemptVars == <<attempt, current, deferred>>
loopVars == <<queue, promise, loop, driving>>
endVars == <<finalizing, closed, emitted>>
kernelVars == <<startVars, attemptVars, loopVars, endVars, push, stop>>
vars == <<terminalVars, runtimeVars, contractVars, kernelVars>>
runVars == <<runGeneration, activeApprovals, lastGeneration, held>>
shutdownVars == <<status, shutdown, aborted, attempt, current, queue>>

IsShuttingDown == status \in ShuttingDown
Ticket0 == [revision |-> activeRun.revision, runId |-> activeRun.runId]     \* #runTicket
NoPush == [pc |-> "idle", ticket |-> [revision |-> 0, runId |-> NoRun], status |-> "none", id |-> "none"]
Answered == [NoPush EXCEPT !.pc = "answered"]

KernelInit ==
  /\ TerminalInit /\ RuntimeInit /\ ContractInit
  /\ custom \in BOOLEAN
  /\ starting = "none" /\ cause = FALSE
  /\ attempt = [k \in Calls |-> "none"] /\ current = 0 /\ deferred = FALSE
  /\ queue = << >> /\ promise = [c \in KernelCommands |-> "none"]
  /\ loop = "none" /\ driving = "none"
  /\ finalizing = "none" /\ closed = FALSE /\ emitted = {}
  /\ push = [p \in Pushes |-> NoPush]
  /\ stop = [pc |-> "none", awaited |-> 0, calls |-> 0]

-----------------------------------------------------------------------------
(* Shutdown.  One step of the kernel may enter a status, record a failure  *)
(* and begin an attempt: the operators say what the whole step does.       *)

NextAttempt == CHOOSE k \in Calls : attempt[k] = "none"
CanAttempt == current # 0 \/ \E k \in Calls : attempt[k] = "none"
(* Bound: an attempt is kept for the loop that fails.                      *)
MayAttempt == current # 0 \/ \E k \in Calls : attempt[k] = "none" /\ k < MaxCalls
Requested(s) == IF s = NoShutdown THEN PendingShutdown ELSE s

(* #shutdown: joins the attempt there is or begins one; before is the      *)
(* status and s the shutdown record that the caller leaves.                *)
JoinsShutdown(before, s) ==
  IF current # 0
  THEN status' = before /\ shutdown' = s /\ UNCHANGED <<aborted, attempt, current, queue>>
  ELSE /\ shutdown' = Requested(s)
       /\ current' = NextAttempt
       /\ IF before = "stopped"
          THEN /\ attempt' = [attempt EXCEPT ![NextAttempt] = "finalize"]
               /\ status' = before /\ UNCHANGED <<aborted, queue>>
          ELSE /\ attempt' = [attempt EXCEPT ![NextAttempt] = "permission"]
               /\ status' = IF before = "failed" THEN before ELSE "stopping"
               /\ aborted' = TRUE /\ queue' = << >>
Attempted == IF current # 0 THEN current ELSE NextAttempt

Failed(s) == IF s \in {"failed", "stopped"} THEN s ELSE "failed"
RejectPending == [c \in KernelCommands |-> IF promise[c] = "pending" THEN "rejected" ELSE promise[c]]
TerminalRest == <<activeRun, instanceTerminal, lastOwnedRunId, lastRunTerminal, revision, historyVars>>

(* #runShutdown: the permissions settle, well or not, then the backend.    *)
PermissionSettles(k) ==
  /\ attempt[k] = "permission"
  /\ \E ok \in BOOLEAN : attempt' = [attempt EXCEPT ![k] = IF ok THEN "backend" ELSE "refused"]
  /\ IF startup # "none" /\ shutdown.cleanup # "completed" THEN AskShutdown(k) ELSE UNCHANGED contractVars
  /\ UNCHANGED <<terminalVars, runtimeVars, startVars, current, deferred, loopVars, endVars, push,
                 stop>>

(* #finalizeShutdown begins #finalizeEvents once cleanup is completed and  *)
(* the loop is over; #publishRunFailure runs before anything is awaited.   *)
MayFinalizeEarly(cleanup, l) == cleanup = "completed"     \* bug: the loop may still run
MayFinalize(cleanup, l) == cleanup = "completed" /\ l \in {"none", "settled"}

FailureRun == TerminalRunId(shutdown.runId)
PublishesFailure == shutdown.failed /\ (instanceTerminal.phase = "open" \/ instanceTerminal.terminal.status = "failed")
Finalizes(cleanup, l) ==
  IF MayFinalize(cleanup, l) /\ finalizing = "none"
  THEN /\ finalizing' = "closing"
       /\ IF PublishesFailure /\ instanceTerminal.phase # "acked"
          THEN /\ instanceTerminal' = [phase |-> "acked",
                                       terminal |-> [runId |-> FailureRun, status |-> "failed"]]
               /\ emitted' = IF AcknowledgedRunTerminal(FailureRun) = "null"
                             THEN emitted \cup {[revision |-> revision, status |-> "failed"]} ELSE emitted
          ELSE UNCHANGED <<instanceTerminal, emitted>>
  ELSE UNCHANGED <<finalizing, instanceTerminal, emitted>>

(* #completeShutdown.                                                      *)
CompletesShutdown ==
  /\ status' = IF status = "stopping" THEN "stopped" ELSE status
  /\ shutdown' = [shutdown EXCEPT !.cleanup = "completed"]
  /\ Finalizes("completed", loop)
  /\ UNCHANGED <<activeRun, lastOwnedRunId, lastRunTerminal, revision, historyVars, runVars>>

Succeeds(k) == attempt[k] = "backend" /\ answer[k] # "rejected"

BackendSettles(k) ==
  /\ attempt[k] \in {"backend", "refused"} /\ answer[k] # "waiting"
  /\ IF Succeeds(k)
     THEN CompletesShutdown /\ attempt' = [attempt EXCEPT ![k] = "finalize"] /\ UNCHANGED current
     ELSE /\ attempt' = [attempt EXCEPT ![k] = "failed"]
          /\ current' = 0
          /\ status' = IF status = "stopping" THEN "failed" ELSE status
          /\ UNCHANGED <<terminalVars, runVars, finalizing, emitted>>
  /\ UNCHANGED <<contractVars, startVars, deferred, loopVars, closed, push, stop>>

(* The attempt awaits the closing of the events if that has begun.         *)
AttemptEnds(k) ==
  /\ attempt[k] = "finalize" /\ finalizing # "closing"
  /\ attempt' = [attempt EXCEPT ![k] = "ok"]
  /\ UNCHANGED <<terminalVars, runtimeVars, contractVars, startVars, current, deferred, loopVars,
                 endVars, push, stop>>

(* onDeferredStopComplete: the backend went down after the answer.         *)
DeferredStopCompletes ==
  /\ down /\ ~deferred /\ \E k \in Calls : answer[k] = "rejected"
  /\ deferred' = TRUE
  /\ CompletesShutdown
  /\ UNCHANGED <<contractVars, startVars, attempt, current, loopVars, closed, push, stop>>

(* #closeEventsAfterPermissions.                                           *)
EventsClose ==
  /\ finalizing = "closing"
  /\ finalizing' = "done" /\ closed' = TRUE
  /\ UNCHANGED <<terminalVars, runtimeVars, contractVars, startVars, attemptVars, loopVars,
                 emitted, push, stop>>

-----------------------------------------------------------------------------
(* start                                                                   *)

Start ==
  /\ status = "created"
  /\ starting' = "backend"
  /\ Enter("starting")
  /\ AskStart
  /\ UNCHANGED <<terminalVars, custom, cause, attemptVars, loopVars, endVars, push, stop>>

FactoryThrows ==
  /\ status = "created" /\ MayAttempt
  /\ starting' = "cleanup" /\ cause' = TRUE
  /\ JoinsShutdown("failed", shutdown)
  /\ UNCHANGED <<TerminalRest, runVars, startup, answer, down, custom, deferred, promise, loop,
                 driving, endVars, push, stop>>

StartIsCancelled == aborted /\ ~cause
StartSettles ==
  /\ starting = "backend" /\ startup \in {"resolved", "rejected"}
  /\ IF startup = "resolved" /\ status = "starting"
     THEN /\ Enter("ready") /\ loop' = "polling" /\ starting' = "resolved"
          /\ UNCHANGED <<terminalVars, contractVars, cause, attempt, current, queue, promise>>
     ELSE IF ~cause /\ (startup = "resolved" \/ StartIsCancelled)
     THEN /\ starting' = "resolved"
          /\ UNCHANGED <<terminalVars, runtimeVars, contractVars, loop, cause, attempt, current,
                         queue, promise>>
     ELSE /\ CanAttempt
          /\ starting' = "cleanup" /\ cause' = TRUE
          /\ promise' = RejectPending
          /\ JoinsShutdown(IF status \in ShuttingDown THEN status ELSE "failed", shutdown)
          /\ UNCHANGED <<TerminalRest, runVars, startup, answer, down, loop>>
  /\ UNCHANGED <<custom, deferred, driving, endVars, push, stop>>

StartFails ==
  /\ starting = "cleanup"
  /\ \E k \in Calls : attempt[k] \in {"ok", "failed"}
  /\ starting' = "rejected"
  /\ UNCHANGED <<terminalVars, runtimeVars, contractVars, custom, cause, attemptVars, loopVars,
                 endVars, push, stop>>

(* #onBackendFailure: context.lifecycle.fail.                              *)
BackendFails ==
  /\ startup # "none" /\ ~IsShuttingDown /\ MayAttempt
  /\ cause' = TRUE
  /\ promise' = RejectPending
  /\ JoinsShutdown("failed",
       IF activeRun = NullRun \/ shutdown.failed THEN shutdown
       ELSE [cleanup |-> Requested(shutdown).cleanup, failed |-> TRUE, runId |-> CurrentRunId])
  /\ UNCHANGED <<TerminalRest, runVars, startup, answer, down, custom, starting, deferred, loop,
                 driving, endVars, push, stop>>

-----------------------------------------------------------------------------
(* dispatch, and the dispatcher                                            *)

Accepts == status \notin {"created", "starting"} /\ ~IsShuttingDown
Full == Len(queue) >= MaxQueue
Registers(c) ==
  /\ queue' = Append(queue, c)
  /\ promise' = [promise EXCEPT ![c] = "pending"]

Dispatch(c) ==
  /\ Accepts /\ promise[c] = "none" /\ ~Full
  /\ Registers(c)
  /\ UNCHANGED <<terminalVars, runtimeVars, contractVars, startVars, attemptVars, loop, driving,
                 endVars, push, stop>>

(* commandUpdate with the verdict of a command.                            *)
Settled(c, verdict) == [promise EXCEPT ![c] = IF @ = "pending" THEN verdict ELSE @]

TakesInput ==
  /\ loop = "polling" /\ ~IsShuttingDown /\ queue # << >> /\ Head(queue) # StopCommand
  /\ queue' = Tail(queue)
  /\ IF activeRun = NullRun /\ driving = "none" /\ revision < MaxRevision
     THEN /\ driving' = Head(queue)
          /\ \E run \in Runs : BeginRun(run)
          /\ UNCHANGED promise
     ELSE /\ promise' = Settled(Head(queue), "rejected")
          /\ UNCHANGED <<driving, terminalVars>>
  /\ UNCHANGED <<runtimeVars, contractVars, startVars, attemptVars, loop, endVars, push, stop>>

(* The input settles: its command is answered and its run released.        *)
InputSettles ==
  /\ driving # "none"
  /\ driving' = "none"
  /\ \/ /\ ReleaseRun(Ticket0, "command_acked")
        /\ promise' = Settled(driving, IF activeRun.terminal.value.status = "completed"
                                       THEN "resolved" ELSE "rejected")
        /\ UNCHANGED loop
     \/ /\ activeRun' = NullRun
        /\ lastRunTerminal' = IF activeRun.terminal.phase = "acked"
                              THEN [runId |-> activeRun.runId, status |-> activeRun.terminal.value.status]
                              ELSE NoStatus
        /\ lastOwnedRunId' = activeRun.runId
        /\ shutdown' = IF shutdown.failed THEN shutdown
                       ELSE [cleanup |-> Requested(shutdown).cleanup, failed |-> TRUE, runId |-> activeRun.runId]
        /\ promise' \in {promise, Settled(driving, "rejected")}
        /\ loop' = IF loop \in {"polling", "stopping", "ended"} THEN "threw" ELSE loop
        /\ UNCHANGED <<instanceTerminal, revision, historyVars>>
  /\ UNCHANGED <<runtimeVars, contractVars, startVars, attemptVars, queue, endVars, push, stop>>

(* session.stop: the dispatcher shuts the driver down, then answers.       *)
TakesStop ==
  /\ loop = "polling" /\ ~IsShuttingDown /\ queue # << >> /\ Head(queue) = StopCommand /\ MayAttempt
  /\ loop' = "stopping"
  /\ JoinsShutdown(status, shutdown)
  /\ UNCHANGED <<TerminalRest, runVars, startup, answer, down, startVars, deferred, promise,
                 driving, endVars, push, stop>>
StopHandled ==
  /\ loop = "stopping" /\ driving = "none"
  /\ \E k \in Calls : attempt[k] \in {"ok", "failed"}
  /\ \/ /\ current # 0 /\ attempt[current] = "ok"
        /\ promise' = Settled(StopCommand, "resolved") /\ loop' = "ended"
     \/ promise' = Settled(StopCommand, "rejected") /\ loop' \in {"ended", "threw"}
  /\ UNCHANGED <<terminalVars, runtimeVars, contractVars, startVars, attemptVars, queue, driving,
                 endVars, push, stop>>

(* A loop whose driver shuts down is over; any loop may throw.             *)
LoopEnds ==
  /\ loop = "polling"
  /\ \/ IsShuttingDown /\ loop' \in {"ended", "threw"}
     \/ loop' = "threw"
  /\ UNCHANGED <<terminalVars, runtimeVars, contractVars, startVars, attemptVars, queue, promise,
                 driving, endVars, push, stop>>

(* The catch of #runTask.                                                  *)
LoopCatches ==
  /\ loop = "threw" /\ driving = "none" /\ CanAttempt
  /\ loop' = "failing"
  /\ cause' = TRUE
  /\ promise' = RejectPending
  /\ JoinsShutdown(Failed(status), shutdown)
  /\ UNCHANGED <<TerminalRest, runVars, startup, answer, down, custom, starting, deferred, driving,
                 endVars, push, stop>>

(* Its finally: whatever is pending is rejected, then the events end.      *)
KeepsPending == promise      \* bug: a command taken after the close is forgotten
AtLoopEnd == RejectPending
LoopSettles ==
  /\ driving = "none"
  /\ loop = "ended" \/ (loop = "failing" /\ \E k \in Calls : attempt[k] \in {"ok", "failed"})
  /\ loop' = "settled"
  /\ promise' = AtLoopEnd
  /\ Finalizes(shutdown.cleanup, "settled")
  /\ UNCHANGED <<activeRun, lastOwnedRunId, lastRunTerminal, revision, shutdown, historyVars,
                 runtimeVars, contractVars, startVars, attemptVars, queue, driving, closed, push,
                 stop>>
AwaitsALoop == loop = "settled" /\ finalizing # "closing"    \* bug: a kernel without a loop waits
LoopIsOver == loop = "none" \/ (loop = "settled" /\ finalizing # "closing")

-----------------------------------------------------------------------------
(* pushEvents.  The ticket is read before the barrier and used after it.   *)

SelectedId(p) == IF activeRun # NullRun /\ activeRun.terminal # Null
                 THEN activeRun.terminal.value.sourceEventId ELSE p
PushBegins(p) ==
  /\ push[p].pc = "idle" /\ driving # "none"
  /\ \E status0 \in PushedStatuses :
       push' = [push EXCEPT ![p] = [pc |-> "barrier", ticket |-> Ticket0, status |-> status0,
                                    id |-> SelectedId(p)]]
  /\ UNCHANGED <<terminalVars, runtimeVars, contractVars, startVars, attemptVars, loopVars,
                 endVars, stop>>

PushGoes(p, pc) == push' = [push EXCEPT ![p].pc = pc]
Settles(p) == push' = [push EXCEPT ![p] = Answered]       \* resolved or rejected
TerminalOf(p) == [runId |-> push[p].ticket.runId, status |-> push[p].status, sourceEventId |-> push[p].id]
PushRest == <<runtimeVars, contractVars, custom, starting, cause, attempt, current, deferred, queue,
              promise, loop, driving, finalizing, closed, stop>>

Delivering(id) == \E q \in Pushes : push[q].pc = "delivering" /\ push[q].id = id

(* #pushEvents after the barrier, for a terminal of the ticket's run.      *)
OwnsTicketById(p) == activeRun # NullRun /\ activeRun.runId = push[p].ticket.runId  \* bug: a redriven run
OwnsTicket(p) == RequireRun(push[p].ticket)

(* The kernel's own queue takes the terminal at once; its acknowledgement  *)
(* is the next microtask, and a step here.                                 *)
EmitsTerminal(p) ==
  /\ emitted' = emitted \cup {[revision |-> push[p].ticket.revision, status |-> push[p].status]}
  /\ activeRun' = [activeRun EXCEPT !.terminal = [phase |-> "acked", value |-> TerminalOf(p),
                                                   receipt |-> [eventId |-> push[p].id, seq |-> 1]]]
  /\ published' = published \cup {[revision |-> push[p].ticket.revision, value |-> TerminalOf(p)]}
  /\ UNCHANGED <<instanceTerminal, lastOwnedRunId, lastRunTerminal, revision, shutdown, issued,
                 claims>>
TerminalPasses(p) ==
  /\ push[p].pc = "barrier"
  /\ IF ~OwnsTicket(p)
     THEN Settles(p) /\ UNCHANGED <<terminalVars, emitted>>
     ELSE \/ /\ SelectionResult(TerminalOf(p)) \in {"conflict", "cancelled"}
             /\ Settles(p) /\ UNCHANGED <<terminalVars, emitted>>
          \/ /\ SelectionResult(TerminalOf(p)) = "acked"
             /\ Settles(p) /\ UNCHANGED <<terminalVars, emitted>>
          \/ /\ SelectionResult(TerminalOf(p)) = "pending" /\ Delivering(push[p].id)
             /\ PushGoes(p, "joined") /\ UNCHANGED <<terminalVars, emitted>>
          \/ /\ SelectionResult(TerminalOf(p)) \in {"pending", "selected"}
             /\ SelectionResult(TerminalOf(p)) = "pending" => ~Delivering(push[p].id)
             /\ IF ~custom
                THEN IF closed THEN Settles(p) /\ UNCHANGED <<terminalVars, emitted>>
                               ELSE Settles(p) /\ EmitsTerminal(p)
                ELSE /\ PushGoes(p, "delivering")
                     /\ activeRun' = [activeRun EXCEPT !.terminal =
                                        [phase |-> "selected", value |-> TerminalOf(p)]]
                     /\ UNCHANGED <<instanceTerminal, lastOwnedRunId, lastRunTerminal, revision,
                                    shutdown, historyVars, emitted>>
  /\ UNCHANGED PushRest

(* claimRunCancellation: of turn.cancel, of session.stop or of a shutdown. *)
Cancels ==
  /\ driving # "none" /\ activeRun.claim = "unclaimed"
  /\ ClaimCancellation(Ticket0, "session.stop")
  /\ UNCHANGED <<push, emitted>> /\ UNCHANGED PushRest

(* The delivery ends: an acknowledgement needs the run to be the same.     *)
Joined(q) == {p \in Pushes : push[p].pc = "joined" /\ push[p].id = push[q].id}
PushEnds(q) == push' = [p \in Pushes |-> IF p = q \/ p \in Joined(q) THEN Answered ELSE push[p]]
Delivered(p) ==
  /\ push[p].pc = "delivering"
  /\ IF RequireRun(push[p].ticket)
     THEN AckRunTerminal(push[p].ticket, [eventId |-> push[p].id, seq |-> 1]) /\ PushEnds(p)
     ELSE UNCHANGED terminalVars /\ PushEnds(p)
  /\ UNCHANGED emitted /\ UNCHANGED PushRest
SinkFails(p) ==
  /\ push[p].pc = "delivering" /\ custom
  /\ PushEnds(p)
  /\ UNCHANGED <<terminalVars, emitted>> /\ UNCHANGED PushRest

-----------------------------------------------------------------------------
(* stop                                                                    *)

StopRest == <<TerminalRest, runVars, startup, answer, down, custom, starting, cause, deferred, loop,
              driving, finalizing, closed, emitted, push>>
StopGoes(pc, k) == stop' = [stop EXCEPT !.pc = pc, !.awaited = k]

(* A call of stop while another is under way is given the same promise.    *)
Stop ==
  /\ stop.pc = "none" \/ (stop.pc = "rejected" /\ stop.calls < MaxStops)
  /\ \/ /\ status \in {"failed", "stopping"} /\ MayAttempt
        /\ stop' = [pc |-> "joined", awaited |-> Attempted, calls |-> stop.calls + 1]
        /\ JoinsShutdown(status, shutdown) /\ UNCHANGED promise
     \/ /\ status = "stopped"
        /\ stop' = [pc |-> "resolved", awaited |-> 0, calls |-> stop.calls + 1]
        /\ UNCHANGED shutdownVars /\ UNCHANGED promise
     \/ /\ status \in {"created", "starting"} /\ MayAttempt
        /\ stop' = [pc |-> "early", awaited |-> Attempted, calls |-> stop.calls + 1]
        /\ JoinsShutdown(status, shutdown) /\ UNCHANGED promise
     \/ /\ Accepts /\ ~Full /\ promise[StopCommand] # "pending"
        /\ stop' = [pc |-> "command", awaited |-> 0, calls |-> stop.calls + 1]
        /\ Registers(StopCommand)
        /\ UNCHANGED <<status, shutdown, aborted, attempt, current>>
     \/ /\ Accepts /\ Full /\ MayAttempt
        /\ stop' = [pc |-> "bypass", awaited |-> Attempted, calls |-> stop.calls + 1]
        /\ JoinsShutdown(status, shutdown) /\ UNCHANGED promise
  /\ UNCHANGED StopRest

(* The command was answered, or rejected by a shutdown or a failure.       *)
StopAnswered ==
  /\ stop.pc = "command" /\ promise[StopCommand] # "pending"
  /\ \/ promise[StopCommand] = "resolved" /\ StopGoes("loop", 0)
     \/ /\ promise[StopCommand] = "rejected"
        /\ IF status = "failed" \/ current # 0 THEN StopGoes("rejected", 0)
           ELSE MayAttempt /\ StopGoes("bypass", Attempted)
  /\ IF stop'.pc = "bypass" THEN JoinsShutdown(status, shutdown) ELSE UNCHANGED shutdownVars
  /\ UNCHANGED promise
  /\ UNCHANGED StopRest

StopAwaits ==
  /\ stop.pc \in {"joined", "early", "bypass"} /\ attempt[stop.awaited] \in {"ok", "failed"}
  /\ StopGoes(IF attempt[stop.awaited] = "failed" /\ ~(stop.pc = "joined" /\ cause) THEN "rejected"
              ELSE IF stop.pc = "early" THEN "resolved"
              ELSE IF stop.pc = "bypass" THEN "completes" ELSE "loop", 0)
  /\ UNCHANGED shutdownVars /\ UNCHANGED promise
  /\ UNCHANGED StopRest

(* After the loop: the cause of a failure is thrown; a stop that bypassed  *)
(* its command completes the instance by itself (completeRun).             *)
IgnoresCause == "resolved"                  \* bug: a stop hides why the driver failed
StopOutcome == IF cause THEN "rejected" ELSE "resolved"
StopEnds ==
  /\ stop.pc \in {"loop", "completes"} /\ LoopIsOver
  /\ StopGoes(StopOutcome, 0)
  /\ IF stop.pc = "completes" /\ ~cause /\ instanceTerminal.phase = "open"
     THEN instanceTerminal' = [phase |-> "acked",
                               terminal |-> [runId |-> TerminalRunId(NoRun), status |-> "completed"]]
     ELSE UNCHANGED instanceTerminal
  /\ UNCHANGED <<activeRun, lastOwnedRunId, lastRunTerminal, revision, shutdown, historyVars,
                 runtimeVars, contractVars, startVars, attemptVars, loopVars, endVars, push>>

-----------------------------------------------------------------------------
LifecycleSteps ==
  /\ AnswerStart \/ \E k \in Calls : AnswerShutdown(k)
  /\ UNCHANGED <<terminalVars, runtimeVars, kernelVars>>
BackendGoesDown == GoesDown /\ ~down /\ UNCHANGED <<terminalVars, runtimeVars, kernelVars>>

Proceeds ==
  \/ \E k \in Calls : PermissionSettles(k) \/ BackendSettles(k) \/ AttemptEnds(k)
  \/ EventsClose \/ StartSettles \/ StartFails \/ DeferredStopCompletes
  \/ InputSettles \/ StopHandled \/ LoopCatches \/ LoopSettles
  \/ StopAnswered \/ StopAwaits \/ StopEnds

KernelNext ==
  \/ Start \/ FactoryThrows \/ BackendFails \/ LoopEnds \/ TakesInput \/ TakesStop \/ Stop \/ Cancels
  \/ \E c \in Inputs : Dispatch(c)
  \/ \E p \in Pushes : PushBegins(p) \/ TerminalPasses(p) \/ Delivered(p) \/ SinkFails(p)
  \/ \E k \in Calls : PermissionSettles(k) \/ BackendSettles(k) \/ AttemptEnds(k)
  \/ EventsClose \/ StartSettles \/ StartFails \/ DeferredStopCompletes
  \/ InputSettles \/ StopHandled \/ LoopCatches \/ LoopSettles
  \/ StopAnswered \/ StopAwaits \/ StopEnds
  \/ LifecycleSteps \/ BackendGoesDown

(* The permission wait, the lifecycle and every input have timers of their *)
(* own; a dispatcher takes what it is given and stops with its driver.     *)
KernelSpec ==
  /\ KernelInit /\ [][KernelNext]_vars
  /\ WF_vars(Proceeds) /\ WF_vars(LifecycleSteps)
  /\ WF_vars(TakesInput \/ TakesStop \/ (IsShuttingDown /\ LoopEnds))

-----------------------------------------------------------------------------
(* Properties                                                              *)

(* Nobody waits for a dead driver: once the loop is over no promise of     *)
(* dispatch is left pending, whichever of the close of the queue, the      *)
(* failure and the verdict came first.                                     *)
NothingLeftPending ==
  loop = "settled" => \A c \in KernelCommands : promise[c] # "pending"

(* The failure is told before the stream of events ends, and it is told    *)
(* once: a run has one terminal among the events, however late its own     *)
(* terminal passes the barrier. A stop that resolves tells the truth: the  *)
(* backend is down, and nothing failed unless an earlier stop was rejected.*)
FailureIsTold ==
  /\ closed /\ shutdown.failed => instanceTerminal.phase = "acked"
  /\ closed /\ loop # "none" => loop = "settled"
  /\ \A a, b \in emitted : a.revision = b.revision => a = b
  /\ stop.pc = "resolved" => (startup # "none" => down) /\ (cause => stop.calls > 1)

(* A stop is answered, by whichever of its five ways.                      *)
StopIsAnswered == (stop.pc # "none") ~> (stop.pc \in {"resolved", "rejected"})
=============================================================================
