-------------------------- MODULE CommandDispatcher --------------------------
(***************************************************************************)
(* DriverCommandDispatcher (core/driver-command-dispatcher.ts) composed    *)
(* with the terminal state machine and the runtime state machine.  Its     *)
(* actors share one JavaScript thread, so a step is what runs between two  *)
(* awaits:                                                                 *)
(*   loop   - takes commands one at a time and may hold one for long       *)
(*   input  - the task that drives the active run (#activeRunTask)         *)
(*   pend   - the input queued behind it (#pendingInput)                   *)
(*   mcp    - the MCP commands of the run (#activeMcpCommands)             *)
(*   pub    - the run terminal on its way through the barrier to the host  *)
(*   join   - #cancelActiveWork or #joinActiveWork, awaited by the loop    *)
(* and the shutdown of the process, which any of them and the outside may  *)
(* ask for.  An RPC, a backend call and a timer may each turn out either   *)
(* way.  Commands are records [id, kind, run]; the permission broker is    *)
(* reduced to the outcome of its cancellation barrier.                     *)
(***************************************************************************)
EXTENDS TerminalState, RuntimeState, Sequences, FiniteSets

CONSTANTS
  Commands,                \* the commands of the host: [id, kind, run]
  Redelivered,             \* bound: the commands the host may deliver again
  MaxMcp,                  \* MAX_ACTIVE_MCP_COMMANDS
  MaxShutdowns,            \* bound: the last attempt to shut down succeeds
  Deliveries,              \* how a delivery may end: a subset of {"ok", "failed"}
  Interruptions            \* what ends the driver from outside: {"signal", "failure"}

Kinds == {"input.start", "turn.cancel", "permission.resolve", "mcp.execute", "session.stop"}
Inputs == {c \in Commands : c.kind = "input.start"}
McpCommands == {c \in Commands : c.kind = "mcp.execute"}
NoCommand == [id |-> "none", kind |-> "none", run |-> NoRun]

(* Every command but a stop names its run, and the host begins a run with  *)
(* one input: a run.start of a run that exists is refused                  *)
(* (contract/command-validation.ts:260).  A delivery succeeds or fails.    *)
ASSUME CommandsAssumption ==
  /\ \A c \in Commands :
       /\ c.kind \in Kinds
       /\ c.run \in IF c.kind = "session.stop" THEN {NoRun} ELSE Runs
  /\ \A c, d \in Inputs : c.run = d.run => c = d
ASSUME DeliveriesAssumption == Deliveries \subseteq {"ok", "failed"}

VARIABLES
  loop,                    \* [pc, cmd, admitted, attempt, error]
  tracked,                 \* command |-> "unknown", "none" or its terminal status
  input,                   \* [pc, cmd, revision, generation, cancellation, attempt]
  pend,                    \* [pc, cmd, cancellation, attempt, rejected]
  mcp,                     \* MCP command |-> [pc, aborted]
  pub,                     \* [pc, status]
  join,                    \* [pc, source, run, pending, mcp, cancels, permission, rejected]
  fences,                  \* #terminalRunFences
  mcpFailures,             \* the runs of #mcpRunFailures
  workFailure,             \* #activeWorkFailure: "none", "delivery" or "other"
  fenceFailure,            \* #activeWorkFenceFailure is set
  aborted,                 \* the shutdown signal is aborted
  shutdowns,               \* the attempts to shut down and how they ended
  handled,                 \* history: inputs handed to the backend
  delivered,               \* history: commands whose verdict the host acknowledged
  said,                    \* history: the last verdict sent of a command taken in
  failedMcpRuns            \* history: runs with a failed MCP task or admission

taskVars == <<input, pend, mcp, pub, fences, mcpFailures>>
failureVars == <<workFailure, fenceFailure>>
dispatcherVars == <<terminalVars, runtimeVars, loop, tracked, taskVars, join, failureVars,
                    aborted, shutdowns, handled, delivered, said, failedMcpRuns>>

NoInput == [pc |-> "none", cmd |-> NoCommand, revision |-> 0, generation |-> 0,
            cancellation |-> "none", attempt |-> 0]
NoPending == [pc |-> "none", cmd |-> NoCommand, cancellation |-> "none", attempt |-> 0,
              rejected |-> FALSE]
NoMcp == [pc |-> "none", aborted |-> FALSE]
NoJoin == [pc |-> "idle", source |-> "none", run |-> 0, pending |-> NoCommand, mcp |-> {},
           cancels |-> FALSE, permission |-> "ok", rejected |-> FALSE]
Idle == [pc |-> "poll", cmd |-> NoCommand, admitted |-> FALSE, attempt |-> 0, error |-> "none"]

DispatcherInit ==
  /\ TerminalInit
  /\ status = "ready"
  /\ runGeneration = 0 /\ activeApprovals = 0 /\ lastGeneration = 0
  /\ held = [g \in 1..MaxGeneration |-> 0]
  /\ loop = Idle
  /\ tracked = [c \in Commands |-> "unknown"]
  /\ input = NoInput
  /\ pend = NoPending
  /\ mcp = [c \in McpCommands |-> NoMcp]
  /\ pub = [pc |-> "idle", status |-> "none"]
  /\ join = NoJoin
  /\ fences = {} /\ mcpFailures = {}
  /\ workFailure = "none" /\ fenceFailure = FALSE
  /\ aborted = FALSE
  /\ shutdowns = << >>
  /\ handled = {} /\ delivered = {} /\ failedMcpRuns = {}
  /\ said = [c \in Commands |-> "none"]

-----------------------------------------------------------------------------
(* What the dispatcher reads. *)

IsShuttingDown == status \in ShuttingDown
CurrentTicket == [revision |-> activeRun.revision, runId |-> activeRun.runId]
PendingInput == pend.pc \in {"waiting", "failing", "closing"}      \* #pendingInput # null
Running(m) == {c \in McpCommands : m[c].pc # "none"}
Admission(run) == loop.admitted /\ loop.cmd.run = run
HasWork(run) == Admission(run) \/ \E c \in Running(mcp) : c.run = run

(* #assertCommandRunOwnership, for a first delivery or a replay. *)
MayStartInput(c) ==
  /\ ~PendingInput
  /\ \/ /\ input.pc # "none" /\ CurrentRunId # c.run /\ ~IsShuttingDown
        /\ activeRun.terminal # Null \/ (activeRun = NullRun /\ status = "ready")
     \/ input.pc = "none" /\ activeRun = NullRun /\ status = "ready"

Owned(c, replay) ==
  \/ c.kind = "session.stop"
  \/ /\ c.kind = "input.start"
     /\ \/ replay = "first" /\ MayStartInput(c)
        \/ replay = "active" /\ (CurrentRunId = c.run \/ (PendingInput /\ pend.cmd = c))
        \/ replay = "terminal" /\ CurrentRunId \in {NoRun, c.run}
  \/ c.kind = "turn.cancel" /\ PendingInput /\ pend.cmd.run = c.run
  \/ /\ c.kind \in {"turn.cancel", "permission.resolve", "mcp.execute"}
     /\ (CurrentRunId = c.run \/ (replay = "terminal" /\ CurrentRunId = NoRun))

(* Mutant: every replay is taken for one of a finished command.            *)
ReplayFinished(c) == IF tracked[c] = "unknown" THEN "first" ELSE "terminal"

Replay(c) == CASE tracked[c] = "unknown" -> "first"
               [] tracked[c] = "none"    -> "active"
               [] OTHER                  -> "terminal"

-----------------------------------------------------------------------------
(* Shared steps.  p and m are the pending input and the MCP commands as    *)
(* the rest of the step leaves them.                                       *)

CancelPending(p, source) ==
  IF p.pc = "waiting" /\ (p.cancellation = "none" \/ source # "turn.cancel")
  THEN [p EXCEPT !.cancellation = source] ELSE p

AbortMcp(m) == [c \in McpCommands |-> IF m[c].pc = "none" THEN m[c]
                                      ELSE [m[c] EXCEPT !.aborted = TRUE]]

(* #abortActiveWork: claim the cancellation of the active run and, unless  *)
(* its terminal is already selected, abort its MCP commands.               *)
AbortActiveWork(source, p, m) ==
  /\ pend' = IF source = "turn.cancel" THEN p ELSE CancelPending(p, source)
  /\ IF activeRun = NullRun THEN UNCHANGED terminalVars
                            ELSE ClaimCancellation(CurrentTicket, source)
  /\ mcp' = IF /\ source = "turn.cancel" /\ activeRun # NullRun
               /\ ClaimResult(CurrentTicket) = "terminal_selected"
            THEN m ELSE AbortMcp(m)

(* The status changes, the owner of the driver stays. *)
SetStatus(next) ==
  status' = next /\ UNCHANGED <<runGeneration, activeApprovals, lastGeneration, held>>

ShutdownTask == shutdowns # << >> /\ shutdowns[Len(shutdowns)] # "failed"

ShutdownAttempt == IF ShutdownTask THEN Len(shutdowns) ELSE Len(shutdowns) + 1

(* The process's shutdown, called when the status has become from: it is   *)
(* memoised while it runs and after it succeeded.  The first abort of its  *)
(* signal aborts the active work as long as the loop listens.              *)
Shutdown(from, p, m) ==
  /\ SetStatus(IF ShutdownTask \/ from \in {"failed", "stopped"} THEN from ELSE "stopping")
  /\ shutdowns' = IF ShutdownTask THEN shutdowns ELSE Append(shutdowns, "running")
  /\ aborted' = TRUE
  /\ IF aborted \/ loop.pc = "exited"
     THEN pend' = p /\ mcp' = m /\ UNCHANGED terminalVars
     ELSE AbortActiveWork("shutdown", p, m)

(* Mutant: the last terminal status stays. *)
FinishAgain(c, outcome) == tracked' = [tracked EXCEPT ![c] = outcome]

(* finish, up to its first await: the first terminal status stays. *)
FinishCommand(c, outcome) ==
  tracked' = [tracked EXCEPT ![c] = IF @ = "none" THEN outcome ELSE @]

(* What a call of #joinActiveWork waits for. *)
Snapshot(j) ==
  IF fenceFailure THEN [j EXCEPT !.pc = "failed"]
  ELSE [j EXCEPT !.pc = "waiting",
                 !.run = IF input.pc = "none" THEN 0 ELSE input.revision,
                 !.pending = IF j.source # "turn.cancel" /\ PendingInput
                             THEN pend.cmd ELSE NoCommand,
                 !.mcp = Running(mcp)]

(* cancels: whether backend.cancelActiveTurn was called and may fail. *)
StartJoin(source, cancels) ==
  LET j == [NoJoin EXCEPT !.source = source, !.cancels = cancels] IN
  join' = IF source = "turn.cancel" /\ ~aborted THEN Snapshot(j)
          ELSE [j EXCEPT !.pc = "permissions"]

CancelActiveWork(source) ==
  /\ AbortActiveWork(source, CancelPending(pend, source), mcp)
  /\ StartJoin(source, ~(/\ source = "turn.cancel" /\ activeRun # NullRun
                         /\ ClaimResult(CurrentTicket) = "terminal_selected"))

(* The verdict of a command is sent, whether or not the host receives it.  *)
Says(c) == said' = [said EXCEPT ![c] = tracked[c]]

(* #startInput, which also hands the input to the backend unless it was    *)
(* cancelled while it was pending.                                         *)
BeginCancelledRun(run, source) ==
  /\ activeRun = NullRun /\ instanceTerminal.phase = "open"
  /\ revision' = revision + 1
  /\ lastOwnedRunId' = run
  /\ lastRunTerminal' = NoStatus
  /\ activeRun' = [runId |-> run, revision |-> revision + 1, terminal |-> Null,
                   claim |-> IF source = "turn.cancel" THEN "resumable" ELSE "final"]
  /\ issued' = issued \cup {[revision |-> revision + 1, runId |-> run]}
  /\ claims' = claims \cup {revision + 1}
  /\ UNCHANGED <<instanceTerminal, shutdown, published>>

FirstStepOf(cancellation) == IF cancellation = "none" THEN "backend" ELSE "publishing"

StartInput(c, cancellation) ==
  /\ IF cancellation = "none" THEN BeginRun(c.run) ELSE BeginCancelledRun(c.run, cancellation)
  /\ IF status = "stopping" THEN UNCHANGED runtimeVars ELSE EnterRun
  /\ input' = [pc |-> FirstStepOf(cancellation), cmd |-> c, revision |-> revision + 1,
               generation |-> IF status = "stopping" THEN 0 ELSE lastGeneration + 1,
               cancellation |-> cancellation, attempt |-> 0]
  /\ handled' = IF FirstStepOf(cancellation) = "backend" THEN handled \cup {c} ELSE handled

-----------------------------------------------------------------------------
(* The command loop. *)

(* The loop's catch.  A failure while the driver shuts down only joins the *)
(* work in progress; any other fails the driver.  The admission of the     *)
(* command, if it has one, fails its run.                                  *)
Throw(error) ==
  LET failure == IF workFailure # "none" THEN workFailure ELSE error
      admitted == IF loop.admitted THEN {loop.cmd.run} ELSE {} IN
  /\ AbortActiveWork("shutdown", pend, mcp)
  /\ mcpFailures' = mcpFailures \cup admitted
  /\ fences' = fences \cup admitted
  /\ failedMcpRuns' = failedMcpRuns \cup admitted
  /\ IF failure # "delivery" /\ (aborted \/ IsShuttingDown)
     THEN /\ loop' = [Idle EXCEPT !.pc = "draining"]
          /\ StartJoin("join", FALSE)
          /\ UNCHANGED runtimeVars
     ELSE /\ loop' = [Idle EXCEPT !.pc = "reporting"]
          /\ join' = NoJoin
          /\ SetStatus("failed")
  /\ UNCHANGED <<tracked, input, pub, failureVars, aborted, shutdowns, handled>>

(* nextCommand answers with a command, new or delivered before. *)
Fetch(c) ==
  /\ loop.pc = "poll" /\ ~IsShuttingDown
  /\ tracked[c] = "unknown" \/ c \in Redelivered
  /\ loop' = [Idle EXCEPT !.pc = "fetched", !.cmd = c]
  /\ UNCHANGED <<terminalVars, runtimeVars, tracked, taskVars, join, failureVars, aborted,
                 shutdowns, handled, delivered, said, failedMcpRuns>>

FetchFails ==
  /\ loop.pc = "poll" /\ ~IsShuttingDown /\ "failed" \in Deliveries
  /\ Throw("other")
  /\ UNCHANGED <<delivered, said>>

Admits(c) == c.kind = "mcp.execute" /\ tracked[c] = "unknown"

Granted(c) == (Admits(c) => c.run \notin fences) /\ Owned(c, Replay(c))

(* A command, new or replayed, is refused: reject sends "failed" past what *)
(* is tracked.  Or a replay reports again what is known: the verdict, or   *)
(* that the command was accepted.                                          *)
Answer(c) == CASE ~Granted(c)          -> "refusing"
               [] tracked[c] = "none"  -> "reaccepting"
               [] OTHER                -> "repeating"

HandleWithoutEffect ==
  /\ loop.pc = "fetched"
  /\ tracked[loop.cmd] # "unknown" \/ ~Granted(loop.cmd)
  /\ loop' = [loop EXCEPT !.pc = Answer(loop.cmd),
                          !.admitted = Admits(loop.cmd) /\ loop.cmd.run \notin fences]
  /\ UNCHANGED <<terminalVars, runtimeVars, tracked, taskVars, join, failureVars, aborted,
                 shutdowns, handled, delivered, said, failedMcpRuns>>

(* A new command: what happens before the accepted status is sent. *)
HandleNew ==
  LET c == loop.cmd IN
  /\ loop.pc = "fetched" /\ tracked[c] = "unknown" /\ Granted(c)
  /\ tracked' = [tracked EXCEPT ![c] = "none"]
  /\ loop' = [loop EXCEPT !.pc = "accepting", !.admitted = Admits(c)]
  /\ IF c.kind = "turn.cancel" /\ ~(PendingInput /\ pend.cmd.run = c.run)
     THEN CancelActiveWork("turn.cancel")
     ELSE /\ pend' = CASE c.kind = "turn.cancel"  -> CancelPending(pend, "turn.cancel")
                       [] c.kind = "session.stop" -> CancelPending(pend, "session.stop")
                       [] OTHER                   -> pend
          /\ join' = NoJoin
          /\ UNCHANGED <<terminalVars, mcp>>
  /\ UNCHANGED <<runtimeVars, input, pub, fences, mcpFailures, failureVars, aborted,
                 shutdowns, handled, delivered, said, failedMcpRuns>>

(* A command that was not taken in has no verdict it could contradict.     *)
SaysRefused(c) == said' = [said EXCEPT ![c] = IF tracked[c] = "unknown" THEN @ ELSE "refused"]

SaysAnswer ==
  CASE loop.pc = "refusing"    -> SaysRefused(loop.cmd)
    [] loop.pc = "repeating"   -> Says(loop.cmd)
    [] loop.pc = "reaccepting" -> UNCHANGED said

Answered ==
  /\ loop.pc \in {"refusing", "repeating", "reaccepting"} /\ SaysAnswer
  /\ loop' = Idle
  /\ UNCHANGED <<terminalVars, runtimeVars, tracked, taskVars, join, failureVars, aborted,
                 shutdowns, handled, delivered, failedMcpRuns>>

DeliveryFails ==
  /\ "failed" \in Deliveries
  /\ \/ loop.pc = "accepting" /\ Throw("other") /\ UNCHANGED said
     \/ loop.pc = "reaccepting" /\ Throw("other") /\ SaysAnswer
     \/ loop.pc \in {"refusing", "repeating"} /\ Throw("delivery") /\ SaysAnswer
     \/ loop.pc \in {"finishing", "failing"} /\ Throw("delivery") /\ Says(loop.cmd)
  /\ UNCHANGED delivered

(* #failCommand: a failed stop shuts the driver down first. *)
FailCommand ==
  IF loop.cmd.kind = "session.stop"
  THEN /\ Shutdown(IF status = "stopping" THEN "failed" ELSE status, pend, mcp)
       /\ loop' = [loop EXCEPT !.pc = "failShutdown", !.attempt = ShutdownAttempt]
       /\ UNCHANGED tracked
  ELSE /\ FinishCommand(loop.cmd, "failed")
       /\ loop' = [loop EXCEPT !.pc = "failing"]
       /\ UNCHANGED <<terminalVars, runtimeVars, pend, mcp, aborted, shutdowns>>

FinishLoopCommand ==
  /\ FinishCommand(loop.cmd, "completed")
  /\ loop' = [loop EXCEPT !.pc = "finishing"]

(* The ownership is checked again after the accepted status was received.  *)
MayProceed(c) ==
  CASE c.kind = "mcp.execute"  -> Owned(c, "first") /\ Cardinality(Running(mcp)) < MaxMcp
    [] c.kind = "session.stop" -> MayEnter(status, "stopping")
    [] c.kind = "turn.cancel"  -> TRUE
    [] OTHER                   -> Owned(c, "first")

AcceptedInput ==
  LET c == loop.cmd IN
  /\ loop.pc = "accepting" /\ c.kind = "input.start" /\ MayProceed(c)
  /\ loop' = Idle
  /\ IF input.pc = "none"
     THEN /\ StartInput(c, "none")
          /\ UNCHANGED pend
     ELSE /\ pend' = [NoPending EXCEPT !.pc = "waiting", !.cmd = c]
          /\ UNCHANGED <<terminalVars, runtimeVars, input, handled>>
  /\ UNCHANGED <<tracked, mcp, pub, fences, mcpFailures, join, failureVars, aborted,
                 shutdowns, delivered, said, failedMcpRuns>>

AcceptedMcp ==
  LET c == loop.cmd IN
  /\ loop.pc = "accepting" /\ c.kind = "mcp.execute" /\ MayProceed(c)
  /\ loop' = Idle
  /\ mcp' = [mcp EXCEPT ![c] = [pc |-> "running", aborted |-> FALSE]]
  /\ UNCHANGED <<terminalVars, runtimeVars, tracked, input, pend, pub, fences, mcpFailures,
                 join, failureVars, aborted, shutdowns, handled, delivered, said, failedMcpRuns>>

AcceptedStop ==
  /\ loop.pc = "accepting" /\ loop.cmd.kind = "session.stop" /\ MayProceed(loop.cmd)
  /\ SetStatus("stopping")
  /\ CancelActiveWork("session.stop")
  /\ loop' = [loop EXCEPT !.pc = "cancelling"]
  /\ UNCHANGED <<tracked, input, pub, fences, mcpFailures, failureVars, aborted, shutdowns,
                 handled, delivered, said, failedMcpRuns>>

(* Mutant: a cancellation is reported as soon as it was requested. *)
AwaitsNothing(c) == FALSE

AwaitsCancellation(c) == c.kind = "turn.cancel" /\ join.pc # "idle"

(* A permission is resolved; a cancellation that only had to mark the      *)
(* pending input is done; another is awaited.                              *)
AcceptedOther ==
  LET c == loop.cmd IN
  /\ loop.pc = "accepting" /\ c.kind \in {"permission.resolve", "turn.cancel"} /\ MayProceed(c)
  /\ IF AwaitsCancellation(c)
     THEN loop' = [loop EXCEPT !.pc = "cancelling"] /\ UNCHANGED tracked
     ELSE FinishLoopCommand
  /\ UNCHANGED <<terminalVars, runtimeVars, taskVars, join, failureVars, aborted, shutdowns,
                 handled, delivered, said, failedMcpRuns>>

(* The work to cancel has settled, or the attempt failed. *)
Cancelled ==
  /\ loop.pc = "cancelling" /\ join.pc = "ok"
  /\ IF loop.cmd.kind = "turn.cancel"
     THEN /\ FinishLoopCommand
          /\ UNCHANGED <<terminalVars, runtimeVars, pend, mcp, aborted, shutdowns>>
     ELSE /\ Shutdown(status, pend, mcp)
          /\ loop' = [loop EXCEPT !.pc = "shutdown", !.attempt = ShutdownAttempt]
          /\ UNCHANGED tracked
  /\ join' = NoJoin
  /\ UNCHANGED <<input, pub, fences, mcpFailures, failureVars, handled, delivered, said, failedMcpRuns>>

ShutdownOutcome(k) == shutdowns[k]

StopShutDown ==
  /\ loop.pc = "shutdown" /\ ShutdownOutcome(loop.attempt) = "ok"
  /\ instanceTerminal.phase = "open"
  /\ SelectInstanceTerminal([runId |-> TerminalRunId(CHOOSE r \in Runs : TRUE),
                             status |-> "completed"])
  /\ loop' = [loop EXCEPT !.pc = "terminal"]
  /\ UNCHANGED <<runtimeVars, tracked, taskVars, join, failureVars, aborted, shutdowns,
                 handled, delivered, said, failedMcpRuns>>

StopReported ==
  /\ loop.pc = "terminal"
  /\ AckInstanceTerminal(instanceTerminal.terminal)
  /\ SetStatus(IF status = "stopping" THEN "stopped" ELSE status)
  /\ FinishLoopCommand
  /\ UNCHANGED <<taskVars, join, failureVars, aborted, shutdowns, handled, delivered, said,
                 failedMcpRuns>>

(* Mutant: the failure of a cancellation is swallowed. *)
CancellationFailedNever == FALSE

CancellationFailed == loop.pc = "cancelling" /\ join.pc = "failed"

(* Whatever throws before the command has a terminal. *)
CommandFails ==
  /\ \/ loop.pc = "accepting" /\ ~MayProceed(loop.cmd)
     \/ CancellationFailed
     \/ loop.pc = "shutdown" /\ ShutdownOutcome(loop.attempt) = "failed"
     \/ loop.pc = "terminal" /\ "failed" \in Deliveries
  /\ FailCommand
  /\ join' = NoJoin
  /\ UNCHANGED <<input, pub, fences, mcpFailures, failureVars, handled, delivered, said, failedMcpRuns>>

FailedStopShutDown ==
  /\ loop.pc = "failShutdown" /\ ShutdownOutcome(loop.attempt) # "running"
  /\ FinishCommand(loop.cmd, "failed")
  /\ loop' = [loop EXCEPT !.pc = "failing"]
  /\ UNCHANGED <<terminalVars, runtimeVars, taskVars, join, failureVars, aborted, shutdowns,
                 handled, delivered, said, failedMcpRuns>>

Finished ==
  /\ loop.pc \in {"finishing", "failing"}
  /\ ~(loop.pc = "failing" /\ loop.cmd.kind \in {"input.start", "turn.cancel"})
  /\ loop' = Idle
  /\ delivered' = delivered \cup {loop.cmd} /\ Says(loop.cmd)
  /\ UNCHANGED <<terminalVars, runtimeVars, tracked, taskVars, join, failureVars, aborted,
                 shutdowns, handled, failedMcpRuns>>

(* A fatal command that was reported as failed fails the loop. *)
FatalFinished ==
  /\ loop.pc = "failing" /\ loop.cmd.kind \in {"input.start", "turn.cancel"}
  /\ Throw("other")
  /\ delivered' = delivered \cup {loop.cmd} /\ Says(loop.cmd)

(* The loop ends: it stops the active work and waits for it. *)
Leave ==
  /\ loop.pc = "poll" /\ IsShuttingDown
  /\ AbortActiveWork("shutdown", pend, mcp)
  /\ StartJoin("join", FALSE)
  /\ loop' = [Idle EXCEPT !.pc = "leaving"]
  /\ UNCHANGED <<runtimeVars, tracked, input, pub, fences, mcpFailures, failureVars, aborted,
                 shutdowns, handled, delivered, said, failedMcpRuns>>

(* A failure of the active work is thrown once it has settled. *)
LeaveThrows ==
  /\ loop.pc = "leaving"
  /\ \/ join.pc = "ok" /\ workFailure # "none"
     \/ join.pc = "failed" /\ workFailure = "delivery"
  /\ Throw("other")
  /\ UNCHANGED <<delivered, said>>

Exit ==
  /\ \/ loop.pc = "leaving" /\ join.pc = "ok" /\ workFailure = "none"
     \/ loop.pc = "leaving" /\ join.pc = "failed" /\ workFailure # "delivery"
     \/ loop.pc \in {"draining", "joining"} /\ join.pc \in {"ok", "failed"}
  /\ loop' = [Idle EXCEPT !.pc = "exited",
       !.error = IF loop.pc = "joining" \/ join.pc = "failed" THEN "failed" ELSE "none"]
  /\ join' = NoJoin
  /\ UNCHANGED <<terminalVars, runtimeVars, tracked, taskVars, failureVars, aborted,
                 shutdowns, handled, delivered, said, failedMcpRuns>>

(* A failed loop reports a diagnostic, shuts the driver down and joins. *)
Reported ==
  /\ loop.pc = "reporting"
  /\ Shutdown(status, pend, mcp)
  /\ loop' = [loop EXCEPT !.pc = "crashing", !.attempt = ShutdownAttempt]
  /\ UNCHANGED <<tracked, input, pub, fences, mcpFailures, join, failureVars, handled,
                 delivered, said, failedMcpRuns>>

CrashShutDown ==
  /\ loop.pc = "crashing" /\ ShutdownOutcome(loop.attempt) # "running"
  /\ loop' = [loop EXCEPT !.pc = "joining"]
  /\ StartJoin("join", FALSE)
  /\ UNCHANGED <<terminalVars, runtimeVars, tracked, taskVars, failureVars, aborted,
                 shutdowns, handled, delivered, said, failedMcpRuns>>

-----------------------------------------------------------------------------
(* #cancelActiveWork and #joinActiveWork. *)

JoinPermissions ==
  /\ join.pc = "permissions"
  /\ \E outcome \in Deliveries : join' = Snapshot([join EXCEPT !.permission = outcome])
  /\ UNCHANGED <<terminalVars, runtimeVars, loop, tracked, taskVars, failureVars, aborted,
                 shutdowns, handled, delivered, said, failedMcpRuns>>

(* Mutant: the queued input is not part of the work to join. *)
JoinedWithoutPending ==
  /\ join.run = 0 \/ input.pc = "none" \/ input.revision # join.run
  /\ \A c \in join.mcp : mcp[c].pc = "none"

Joined ==
  /\ join.run = 0 \/ input.pc = "none" \/ input.revision # join.run
  /\ join.pending = NoCommand \/ pend.cmd # join.pending
  /\ \A c \in join.mcp : mcp[c].pc = "none"

JoinDone ==
  /\ join.pc = "waiting" /\ Joined
  /\ \E cancel \in IF join.cancels THEN Deliveries ELSE {"ok"} :
       join' = [join EXCEPT !.pc =
         IF \/ join.permission = "failed" \/ join.rejected \/ cancel = "failed"
            \/ (join.source # "join" /\ workFailure # "none") THEN "failed" ELSE "ok"]
  /\ fenceFailure' = (fenceFailure \/ join.rejected)
  /\ UNCHANGED <<terminalVars, runtimeVars, loop, tracked, taskVars, workFailure, aborted,
                 shutdowns, handled, delivered, said, failedMcpRuns>>

(* Mutant: the join has no deadline. *)
MayTimeOutNever == FALSE

MayTimeOut == join.pc = "waiting" /\ ~Joined

(* ACTIVE_INPUT_SETTLE_GRACE_MS or ACTIVE_MCP_COMMIT_GRACE_MS passes. *)
JoinTimeout ==
  /\ MayTimeOut
  /\ fenceFailure' = TRUE
  /\ join' = [join EXCEPT !.pc = "failed"]
  /\ UNCHANGED <<terminalVars, runtimeVars, loop, tracked, taskVars, workFailure, aborted,
                 shutdowns, handled, delivered, said, failedMcpRuns>>

-----------------------------------------------------------------------------
(* The terminal of the active run: barrier, selection, delivery. *)

inputOnly == <<runtimeVars, loop, tracked, pend, mcp, join, failureVars, aborted, shutdowns,
               handled, delivered, said, failedMcpRuns>>

NoPublication == [pc |-> "idle", status |-> "none"]
Terminal(outcome) == [runId |-> activeRun.runId, status |-> outcome,
                      sourceEventId |-> CHOOSE id \in SourceIds : TRUE]

(* Mutant: the barrier lets new MCP commands in. *)
FencedNone(run) == {}

Fenced(run) == {run}

(* The barrier is registered while the loop runs. *)
Publish(outcome) ==
  /\ pub.pc = "idle"
  /\ input.pc = "backend" \/ (input.pc = "publishing" /\ outcome = "cancelled")
  /\ activeRun.terminal.phase # "acked"
  /\ pub' = [pc |-> IF loop.pc = "exited" THEN "clear" ELSE "barrier", status |-> outcome]
  /\ fences' = IF loop.pc = "exited" THEN fences ELSE fences \cup Fenced(activeRun.runId)
  /\ UNCHANGED <<inputOnly, terminalVars, input, mcpFailures>>

Cleared == pub.pc = "clear" \/ ~HasWork(activeRun.runId)

(* Mutant: a failed MCP task does not block the terminal. *)
BlockedNever == FALSE

Blocked == pub.pc = "barrier" /\ activeRun.runId \in mcpFailures /\ pub.status # "failed"

Select ==
  /\ pub.pc \in {"barrier", "clear"} /\ Cleared /\ ~Blocked
  /\ \/ /\ SelectRunTerminal(CurrentTicket, Terminal(pub.status))
        /\ pub' = [pub EXCEPT !.pc = "sending"]
     \/ /\ SelectionResult(Terminal(pub.status)) = "pending"
        /\ pub' = [pub EXCEPT !.pc = "sending"]
        /\ UNCHANGED terminalVars
  /\ UNCHANGED <<inputOnly, input, fences, mcpFailures>>

(* A blocked or refused terminal, a barrier that timed out, a lost RPC. *)
PublishFails ==
  /\ \/ pub.pc \in {"barrier", "clear"} /\ (Cleared => Blocked
          \/ SelectionResult(Terminal(pub.status)) \in {"conflict", "cancelled"})
     \/ pub.pc = "sending" /\ "failed" \in Deliveries
  /\ pub' = NoPublication
  /\ UNCHANGED <<inputOnly, terminalVars, input, fences, mcpFailures>>

Acknowledge ==
  /\ pub.pc = "sending"
  /\ AckRunTerminal(CurrentTicket, [eventId |-> activeRun.terminal.value.sourceEventId,
                                    seq |-> CHOOSE seq \in Seqs : TRUE])
  /\ pub' = NoPublication
  /\ UNCHANGED <<inputOnly, input, fences, mcpFailures>>

-----------------------------------------------------------------------------
(* The task of the active run. *)

taskOnly == <<loop, pend, mcp, pub, join, fenceFailure, handled, failedMcpRuns>>

(* Mutant: the input settles as the backend says. *)
SettlementUnchecked(outcome) == IF outcome = "rejected" THEN "failed" ELSE outcome

Settlement(outcome) == SettleInput(outcome)

(* The backend settles, or the publication of the cancellation did. *)
InputSettles(outcome) ==
  /\ pub.pc = "idle"
  /\ \/ input.pc = "backend"
     \/ input.pc = "publishing" /\ outcome = "rejected"
     \/ input.pc = "publishing" /\ outcome = "cancelled" /\ activeRun.terminal.phase = "acked"
  /\ LET settled == Settlement(outcome) IN
     /\ FinishCommand(input.cmd, IF settled = "resolved" THEN "completed" ELSE settled)
     /\ input' = [input EXCEPT !.pc = IF settled = "failed" THEN "failing" ELSE "finishing"]
     /\ IF settled = "failed" THEN SetStatus("failed") ELSE UNCHANGED runtimeVars
  /\ UNCHANGED <<taskOnly, terminalVars, fences, mcpFailures, workFailure, aborted, shutdowns,
                 delivered, said>>

(* The finally block: releaseRun, #clearRunMcpState and endRun. *)
EndInput(reason, pc) ==
  LET run == input.cmd.run IN
  /\ ReleaseRun(CurrentTicket, reason)
  /\ fences' = IF HasWork(run) THEN fences ELSE fences \ {run}
  /\ mcpFailures' = IF HasWork(run) THEN mcpFailures ELSE mcpFailures \ {run}
  /\ IF runGeneration # 0 /\ runGeneration = input.generation
     THEN EndRun(input.generation) ELSE UNCHANGED runtimeVars
  /\ input' = [input EXCEPT !.pc = pc]

InputFinished ==
  /\ input.pc = "finishing"
  /\ EndInput("command_acked", "ended")
  /\ delivered' = delivered \cup {input.cmd} /\ Says(input.cmd)
  /\ UNCHANGED <<taskOnly, tracked, workFailure, aborted, shutdowns>>

(* The verdict did not reach the host, or the shutdown failed. *)
InputThrows ==
  /\ \/ /\ input.pc \in {"finishing", "failing"} /\ "failed" \in Deliveries
        /\ Says(input.cmd)
     \/ /\ input.pc = "shutdown" /\ ShutdownOutcome(input.attempt) = "failed"
        /\ UNCHANGED said
  /\ EndInput("driver_failing", IF input.pc = "shutdown" THEN "threw" ELSE "undelivered")
  /\ UNCHANGED <<taskOnly, tracked, workFailure, aborted, shutdowns, delivered>>

InputFailed ==
  /\ input.pc = "failing"
  /\ Shutdown(status, pend, mcp)
  /\ input' = [input EXCEPT !.pc = "shutdown", !.attempt = ShutdownAttempt]
  /\ delivered' = delivered \cup {input.cmd} /\ Says(input.cmd)
  /\ UNCHANGED <<loop, tracked, pub, fences, mcpFailures, join, failureVars, handled,
                 failedMcpRuns>>

InputShutDown ==
  /\ input.pc = "shutdown" /\ ShutdownOutcome(input.attempt) = "ok"
  /\ EndInput("driver_failing", "ended")
  /\ UNCHANGED <<taskOnly, tracked, workFailure, aborted, shutdowns, delivered, said>>

(* #failInputTask *)
InputTaskFails ==
  /\ input.pc \in {"undelivered", "threw"}
  /\ workFailure' = IF workFailure # "none" THEN workFailure
                    ELSE IF input.pc = "undelivered" THEN "delivery" ELSE "other"
  /\ Shutdown(status, pend, mcp)
  /\ input' = [input EXCEPT !.pc = "closing", !.attempt = ShutdownAttempt]
  /\ UNCHANGED <<loop, tracked, pub, fences, mcpFailures, join, fenceFailure, handled,
                 delivered, said, failedMcpRuns>>

InputEnds ==
  /\ \/ input.pc = "ended"
     \/ input.pc = "closing" /\ ShutdownOutcome(input.attempt) # "running"
  /\ input' = NoInput
  /\ UNCHANGED <<taskOnly, terminalVars, runtimeVars, tracked, fences, mcpFailures,
                 workFailure, aborted, shutdowns, delivered, said>>

-----------------------------------------------------------------------------
(* The task of the queued input. *)

MayHandOff ==
  /\ ~aborted /\ ~fenceFailure /\ workFailure = "none"
  /\ activeRun = NullRun
  /\ status = "ready" \/ (status = "stopping" /\ pend.cancellation = "session.stop")

(* Mutant: the handoff waits for the run, not for its task. *)
PreviousReleased == activeRun = NullRun

PreviousSettled == input.pc = "none"

HandOff ==
  /\ pend.pc = "waiting" /\ PreviousSettled /\ MayHandOff
  /\ StartInput(pend.cmd, pend.cancellation)
  /\ pend' = IF pend.cancellation = "none" THEN NoPending ELSE [pend EXCEPT !.pc = "started"]
  /\ UNCHANGED <<loop, tracked, mcp, pub, fences, mcpFailures, join, failureVars, aborted,
                 shutdowns, delivered, said, failedMcpRuns>>

(* The handoff is refused, or the active input did not settle in time: a   *)
(* join that waits for the same input shares its #activeRunSettleTask.     *)
HandOffFails ==
  /\ \/ pend.pc = "waiting" /\ (input.pc = "none" => ~MayHandOff)
     \/ pend.pc = "started" /\ (input.pc # "none" \/ fenceFailure)
  /\ fenceFailure' = (fenceFailure \/ input.pc # "none")
  /\ join' = [join EXCEPT !.rejected =
       @ \/ (input.pc # "none" /\ join.pc = "waiting" /\ join.run = input.revision)]
  /\ SetStatus("failed")
  /\ FinishCommand(pend.cmd, "failed")
  /\ pend' = [pend EXCEPT !.pc = "failing"]
  /\ UNCHANGED <<terminalVars, loop, input, mcp, pub, fences, mcpFailures, workFailure,
                 aborted, shutdowns, handled, delivered, said, failedMcpRuns>>

(* The verdict was delivered or not: #failInputTask. *)
PendingFails ==
  /\ pend.pc = "failing" /\ Says(pend.cmd)
  /\ workFailure' = IF workFailure # "none" THEN workFailure ELSE "other"
  /\ \E outcome \in Deliveries :
       /\ Shutdown(status, [pend EXCEPT !.pc = "closing", !.attempt = ShutdownAttempt,
                                        !.rejected = (outcome = "failed")], mcp)
       /\ delivered' = IF outcome = "ok" THEN delivered \cup {pend.cmd} ELSE delivered
  /\ UNCHANGED <<loop, tracked, input, pub, fences, mcpFailures, join, fenceFailure, handled,
                 failedMcpRuns>>

PendingEnds ==
  /\ \/ pend.pc = "started" /\ input.pc = "none"
     \/ pend.pc = "closing" /\ ShutdownOutcome(pend.attempt) # "running"
  /\ pend' = NoPending
  /\ join' = [join EXCEPT !.rejected =
       @ \/ (pend.rejected /\ join.pc = "waiting" /\ join.pending = pend.cmd)]
  /\ UNCHANGED <<terminalVars, runtimeVars, loop, tracked, input, mcp, pub, fences,
                 mcpFailures, failureVars, aborted, shutdowns, handled, delivered, said,
                 failedMcpRuns>>

-----------------------------------------------------------------------------
(* The MCP commands. *)

(* Its effect is settled and reported: the verdict is on its way. *)
McpSettles(c, outcome) ==
  /\ mcp[c].pc = "running"
  /\ outcome = "cancelled" => mcp[c].aborted
  /\ FinishCommand(c, outcome)
  /\ mcp' = [mcp EXCEPT ![c].pc = "finishing"]
  /\ UNCHANGED <<terminalVars, runtimeVars, loop, input, pend, pub, fences, mcpFailures, join,
                 failureVars, aborted, shutdowns, handled, delivered, said, failedMcpRuns>>

(* #clearRunMcpState once the command is gone, given the failed runs. *)
ClearRun(c, failures) ==
  LET left == CurrentRunId # c.run /\ ~Admission(c.run)
              /\ \A d \in Running(mcp) \ {c} : d.run # c.run IN
  /\ fences' = IF left THEN fences \ {c.run} ELSE fences
  /\ mcpFailures' = IF left THEN failures \ {c.run} ELSE failures

McpFinished(c) ==
  /\ mcp[c].pc = "finishing"
  /\ mcp' = [mcp EXCEPT ![c] = NoMcp]
  /\ ClearRun(c, mcpFailures)
  /\ delivered' = delivered \cup {c} /\ Says(c)
  /\ UNCHANGED <<terminalVars, runtimeVars, loop, tracked, input, pend, pub, join, failureVars,
                 aborted, shutdowns, handled, failedMcpRuns>>

(* The effect is unsettled, an event or the verdict was not delivered. *)
McpFails(c) ==
  /\ mcp[c].pc # "none" /\ "failed" \in Deliveries
  /\ workFailure' = IF workFailure # "none" THEN workFailure
                    ELSE IF mcp[c].pc = "finishing" THEN "delivery" ELSE "other"
  /\ failedMcpRuns' = failedMcpRuns \cup {c.run}
  /\ ClearRun(c, mcpFailures \cup {c.run})
  /\ Shutdown(status, pend, [mcp EXCEPT ![c] = NoMcp])
  /\ IF mcp[c].pc = "finishing" THEN Says(c) ELSE UNCHANGED said
  /\ UNCHANGED <<loop, tracked, input, pub, join, fenceFailure, handled, delivered>>

-----------------------------------------------------------------------------
(* The shutdown of the process and what asks for it from outside. *)

(* The permission barrier and the backend's cleanup settle. *)
ShutdownEnds(outcome) ==
  /\ shutdowns # << >> /\ shutdowns[Len(shutdowns)] = "running"
  /\ outcome = "failed" => Len(shutdowns) < MaxShutdowns
  /\ shutdowns' = [shutdowns EXCEPT ![Len(shutdowns)] = outcome]
  /\ SetStatus(IF status # "stopping" THEN status
               ELSE IF outcome = "ok" THEN "stopped" ELSE "failed")
  /\ UNCHANGED <<terminalVars, loop, tracked, taskVars, join, failureVars, aborted, handled,
                 delivered, said, failedMcpRuns>>

(* A signal, or the failure of the connection, heartbeat or backend. *)
Interrupt(cause) ==
  /\ ~aborted
  /\ Shutdown(IF cause = "failure" /\ ~IsShuttingDown THEN "failed" ELSE status, pend, mcp)
  /\ UNCHANGED <<loop, tracked, input, pub, fences, mcpFailures, join, failureVars, handled,
                 delivered, said, failedMcpRuns>>

-----------------------------------------------------------------------------
LoopStep ==
  \/ HandleWithoutEffect \/ HandleNew \/ Answered \/ DeliveryFails
  \/ AcceptedInput \/ AcceptedMcp \/ AcceptedStop \/ AcceptedOther
  \/ Cancelled \/ StopShutDown \/ StopReported
  \/ CommandFails \/ FailedStopShutDown \/ Finished \/ FatalFinished
  \/ Leave \/ LeaveThrows \/ Exit \/ Reported \/ CrashShutDown

JoinStep == JoinPermissions \/ JoinDone \/ JoinTimeout

PublicationStep == Select \/ PublishFails \/ Acknowledge

BackendStep ==
  \/ \E outcome \in Statuses : Publish(outcome)
  \/ \E outcome \in {"resolved", "cancelled", "rejected"} : InputSettles(outcome)

InputStep ==
  InputFinished \/ InputThrows \/ InputFailed \/ InputShutDown \/ InputTaskFails \/ InputEnds

PendingStep == HandOff \/ HandOffFails \/ PendingFails \/ PendingEnds

McpStep ==
  \E c \in McpCommands :
    \/ \E outcome \in {"completed", "failed", "cancelled"} : McpSettles(c, outcome)
    \/ McpFinished(c)
    \/ McpFails(c)

ShutdownStep == \E outcome \in Deliveries : ShutdownEnds(outcome)

(* The driver has left its loop and nothing of its work is left. *)
Over == loop.pc = "exited" /\ UNCHANGED dispatcherVars

DispatcherNext ==
  \/ \E c \in Commands : Fetch(c)
  \/ FetchFails
  \/ LoopStep \/ JoinStep \/ PublicationStep \/ BackendStep \/ InputStep \/ PendingStep
  \/ McpStep \/ ShutdownStep
  \/ \E cause \in Interruptions : Interrupt(cause)
  \/ Over

(* Promise reactions run, RPCs and waits have deadlines, and the cleanup   *)
(* of the backend is bounded.  The host owes no command, the backend no    *)
(* answer.                                                                 *)
DispatcherFairness ==
  /\ WF_dispatcherVars(LoopStep)
  /\ WF_dispatcherVars(JoinStep)
  /\ WF_dispatcherVars(ShutdownStep)

DispatcherSpec == DispatcherInit /\ [][DispatcherNext]_dispatcherVars /\ DispatcherFairness

-----------------------------------------------------------------------------
(* The next run waits: when an input is with the backend, every input that *)
(* was there before has a verdict the host received and a terminal the     *)
(* host acknowledged, and none of its MCP commands is still at work.       *)
NextRunWaits ==
  input.pc = "backend" =>
    \A c \in handled \ {input.cmd} :
      /\ c \in delivered
      /\ \E p \in published : p.value.runId = c.run
      /\ \A d \in Running(mcp) : d.run # c.run

(* Once the terminal of a run is selected nothing of that run is at work   *)
(* in an MCP command, neither admitted nor executing, as long as the loop  *)
(* keeps its barrier registered.                                           *)
TerminalAfterMcpWork ==
  loop.pc # "exited" /\ activeRun.terminal # Null => ~HasWork(activeRun.runId)

(* A run whose MCP work has failed is not published as completed or        *)
(* cancelled any more while the loop runs: its effect is not settled.      *)
FailedMcpFailsRun ==
  [][loop.pc # "exited" => \A p \in published' \ published :
       p.value.runId \in failedMcpRuns => p.value.status = "failed"]_dispatcherVars

(* Whoever of the loop, the input, the queued input and an MCP command     *)
(* tells the host the verdict of a command, it is the one verdict of the   *)
(* command.  The exception is the "failed" of a refused replay, which      *)
(* reject sends past the verdict, also after "completed".                  *)
SaysItsVerdict ==
  \A c \in Commands :
    said[c] \in {"none", "refused"} \/ (said[c] = tracked[c] /\ tracked[c] \in Statuses)

(* A refused replay is of a command that has its verdict: no input, queued *)
(* or running, no MCP command at work and none of the loop's commands is   *)
(* refused, unless the driver is about to shut down.                       *)
RefusalsSpareWork ==
  loop.pc = "refusing" /\ tracked[loop.cmd] = "none" =>
    aborted \/ input.pc \in {"undelivered", "threw"}

(* The verdict on an input and the published outcome of its run agree.     *)
VerdictMatchesTerminal ==
  \A c \in Inputs : tracked[c] \in {"completed", "cancelled"} =>
    \E p \in published : p.value.runId = c.run /\ p.value.status = tracked[c]

(* A session.stop is reported as completed only after every input and MCP  *)
(* command has ended, the backend was shut down and the host acknowledged  *)
(* the end of the instance.                                                *)
StopCompletesLast ==
  \A c \in Commands : c.kind = "session.stop" /\ tracked[c] = "completed" =>
    /\ input.pc = "none" /\ ~PendingInput /\ Running(mcp) = {}
    /\ activeRun = NullRun
    /\ shutdowns[Len(shutdowns)] = "ok"
    /\ instanceTerminal.phase = "acked"

(* A turn.cancel is reported as completed only when the input of its run   *)
(* has a verdict or can no longer reach the backend.                       *)
CancelTakesEffect ==
  \A c \in Commands, d \in Inputs :
    c.kind = "turn.cancel" /\ tracked[c] = "completed" /\ c.run = d.run
      => tracked[d] # "none" \/ d \notin handled

(* A driver told to shut down leaves its command loop, whatever the        *)
(* backend, the MCP servers and the host do.                               *)
ShutdownEndsLoop == aborted ~> loop.pc = "exited"

(* A cancellation or a stop that the driver took in is answered, or the    *)
(* driver gives up, even if the backend never reacts.                      *)
ControlIsAnswered ==
  \A c \in Commands : c.kind \in {"turn.cancel", "session.stop", "permission.resolve"} =>
    (tracked[c] = "none" ~> tracked[c] # "none" \/ loop.pc = "exited")

(* A command has one verdict, that of an input agrees with the terminal of *)
(* its run, and a completed stop is the last of all.                       *)
VerdictsAreFinal == SaysItsVerdict /\ VerdictMatchesTerminal /\ StopCompletesLast

(* The loop answers the commands that control it, and ends.                *)
ControlEnds == ShutdownEndsLoop /\ ControlIsAnswered
=============================================================================
