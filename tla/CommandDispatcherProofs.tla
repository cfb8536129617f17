------------------------ MODULE CommandDispatcherProofs ------------------------
(***************************************************************************)
(* Proofs about CommandDispatcher, for any commands, any number of runs    *)
(* and whatever the host, the backend and the outside do.  None of the     *)
(* properties is inductive.  The strengthening, DispatcherIndInv,     *)
(* says what each actor may rely on of the others while it awaits:         *)
(*   - an input is with one actor at a time, and has a verdict as soon as  *)
(*     its task has settled (InputsAreKnown); one that the backend had is  *)
(*     with its task, or is over for the host (InputsEnd);                 *)
(*   - the fence of a run stands from before the selection of its terminal *)
(*     to its end, so no MCP command gets past it (BarrierHolds), and the  *)
(*     MCP commands at work are those of the run (McpIsOfTheRun);          *)
(*   - what a stop waits for is all that is at work: what replaces it is   *)
(*     waited for too, or fails the wait (StopsWait);                      *)
(*   - the input a cancellation found has a verdict, can no longer reach   *)
(*     the backend, or is awaited by it (CancelsHold).                     *)
(* VerdictsAreKnown adds what each actor knows of the command whose        *)
(* verdict it is about to tell.                                            *)
(* Most steps only mark the work of the others (Calm): the lemmas say once *)
(* what such a step keeps, and each action adds what it moves itself.      *)
(***************************************************************************)
EXTENDS CommandDispatcher, TLAPS

LoopPlaces == {"poll", "fetched", "refusing", "repeating", "reaccepting", "accepting", "cancelling",
               "shutdown", "terminal", "failShutdown", "finishing", "failing", "leaving", "draining",
               "reporting", "crashing", "joining", "exited"}
DownPlaces == {"leaving", "draining", "reporting", "crashing", "joining", "exited"}
InputPlaces == {"none", "backend", "publishing", "finishing", "failing", "shutdown", "undelivered",
                "threw", "closing", "ended"}
LivePlaces == {"backend", "publishing", "finishing", "failing", "shutdown"}
TrackedStates == {"unknown", "none"} \cup Statuses
Cancellations == {"none"} \cup CancellationSources
Outcomes == {"running", "ok", "failed"}

SentIdentity == [runId : Runs, status : Statuses, sourceEventId : {CHOOSE id \in SourceIds : TRUE}]
SentReceipt == [eventId : {CHOOSE id \in SourceIds : TRUE}, seq : {CHOOSE seq \in Seqs : TRUE}]
SentTerminal == {Null} \cup [phase : {"selected"}, value : SentIdentity]
                       \cup [phase : {"acked"}, value : SentIdentity, receipt : SentReceipt]
DrivenRun == [runId : Runs, revision : Nat, claim : ClaimStates, terminal : SentTerminal]

RunTypeOK ==
  /\ activeRun \in DrivenRun \cup {NullRun}
  /\ revision \in Nat /\ lastGeneration \in Nat
  /\ instanceTerminal.phase \in {"open", "selected", "acked"}
  /\ status \in DriverStatuses
TaskTypeOK ==
  /\ input \in [pc : InputPlaces, cmd : Inputs \cup {NoCommand}, revision : Nat, generation : Int,
                cancellation : Cancellations, attempt : Nat]
  /\ pend \in [pc : {"none", "waiting", "started", "failing", "closing"}, cmd : Inputs \cup {NoCommand},
               cancellation : Cancellations, attempt : Nat, rejected : BOOLEAN]
  /\ mcp \in [McpCommands -> [pc : {"none", "running", "finishing"}, aborted : BOOLEAN]]
  /\ pub \in [pc : {"idle", "barrier", "clear", "sending"}, status : Statuses \cup {"none"}]
LoopTypeOK ==
  /\ loop \in [pc : LoopPlaces, cmd : Commands \cup {NoCommand}, admitted : BOOLEAN, attempt : Nat,
               error : {"none", "failed"}]
  /\ tracked \in [Commands -> TrackedStates]
  /\ join \in [pc : {"idle", "permissions", "waiting", "ok", "failed"},
               source : {"none", "join", "turn.cancel", "session.stop"}, run : Nat,
               pending : Inputs \cup {NoCommand}, mcp : SUBSET McpCommands, cancels : BOOLEAN,
               permission : {"ok", "failed"}, rejected : BOOLEAN]
  /\ workFailure \in {"none", "delivery", "other"} /\ fenceFailure \in BOOLEAN
  /\ aborted \in BOOLEAN
  /\ shutdowns \in Seq(Outcomes)
  /\ handled \subseteq Inputs /\ delivered \subseteq Commands

(* The run that is driven is that of the input task.                       *)
ActiveIsInput ==
  /\ input.pc \in LivePlaces <=> activeRun # NullRun
  /\ input.pc # "none" => /\ input.cmd \in Inputs /\ input.revision = revision
                          /\ input.revision # 0
  /\ activeRun # NullRun => activeRun.runId = input.cmd.run /\ activeRun.revision = revision
  /\ pend.pc # "none" => pend.cmd \in Inputs
  /\ pub.pc # "idle" => input.pc \in {"backend", "publishing"} /\ pub.status \in Statuses

(* Who aborts shuts down, and only the last attempt to shut down has not   *)
(* failed.                                                                 *)
ShutdownIsOrdered ==
  /\ aborted => IsShuttingDown
  /\ shutdowns # << >> => aborted
  /\ \A k \in 1..Len(shutdowns) : k < Len(shutdowns) => shutdowns[k] = "failed"
  /\ loop.pc \in DownPlaces => IsShuttingDown
  /\ input.pc \in {"shutdown", "closing"} => aborted
  /\ pend.pc = "closing" => workFailure # "none"

(* The barrier of the terminal: the fence of the run stands from before    *)
(* the selection to the end of the run, and keeps its MCP work out.        *)
BarrierHolds ==
  /\ pub.pc = "clear" => loop.pc = "exited"
  /\ pub.pc = "sending" => activeRun.terminal # Null
  /\ pub.pc = "barrier" => activeRun.runId \in fences
  /\ activeRun.terminal # Null /\ loop.pc # "exited" =>
       activeRun.runId \in fences /\ ~HasWork(activeRun.runId)
  /\ activeRun.terminal # Null => activeRun.terminal.value.runId = activeRun.runId
  /\ activeRun.terminal.phase = "acked" =>
       [revision |-> activeRun.revision, value |-> activeRun.terminal.value] \in published

(* What the loop holds, and what is known of it.                           *)
LoopIsTrue ==
  /\ loop.pc \in {"fetched", "refusing", "repeating", "reaccepting", "accepting", "cancelling",
                  "shutdown", "terminal", "failShutdown", "finishing", "failing"}
       => loop.cmd \in Commands
  /\ loop.admitted => loop.cmd \in McpCommands
  /\ loop.pc = "fetched" => ~loop.admitted
  /\ loop.pc = "accepting" => IF loop.cmd.kind = "mcp.execute" THEN loop.admitted
                                                              ELSE tracked[loop.cmd] = "none"
  /\ loop.pc = "cancelling" => loop.cmd.kind \in {"turn.cancel", "session.stop"}
  /\ loop.pc \in {"shutdown", "terminal", "failShutdown"} => loop.cmd.kind = "session.stop"

Accepting(c) == loop.pc = "accepting" /\ loop.cmd = c

(* An input is with one actor at a time, and one that was handed to the    *)
(* backend has a verdict as soon as its task settled.                      *)
InputsAreKnown ==
  /\ \A c \in Inputs :
       /\ tracked[c] = "unknown" \/ Accepting(c) =>
            /\ c \notin handled
            /\ input.pc # "none" => input.cmd # c
            /\ pend.pc # "none" => pend.cmd # c
       /\ c \in handled /\ tracked[c] = "none" => input.pc = "backend" /\ input.cmd = c
  /\ pend.pc = "waiting" =>
       /\ tracked[pend.cmd] = "none" /\ pend.cmd \notin handled
       /\ input.pc # "none" => input.cmd # pend.cmd
  /\ pend.pc \in {"failing", "closing"} => tracked[pend.cmd] # "none"
  /\ input.pc \notin {"none", "backend", "publishing"} => tracked[input.cmd] # "none"

(* An input the backend had is with its task, or is over: the host has its *)
(* verdict and its terminal; or the driver shuts down.                     *)
IsOver(c) == c \in delivered /\ \E p \in published : p.value.runId = c.run
InputsEnd ==
  /\ \A c \in handled : \/ input.pc \notin {"none", "ended"} /\ input.cmd = c
                        \/ IsOver(c)
                        \/ aborted
  /\ input.pc = "backend" => \A c \in handled \ {input.cmd} : IsOver(c)
  /\ input.pc = "backend" => input.cmd \in handled
McpIsOfTheRun ==
  /\ \A m \in Running(mcp) : \/ m.run = activeRun.runId
                             \/ IsShuttingDown
                             \/ input.pc \in {"undelivered", "threw"}
  /\ input.pc = "backend" => \A m \in Running(mcp) : m.run = input.cmd.run

(* A stop waits for all that was at work when it began to wait: whatever   *)
(* replaces it is waited for too, or fails the wait.                       *)
Stopping == loop.pc = "cancelling" /\ loop.cmd.kind = "session.stop"
WaitFails == workFailure # "none" \/ join.rejected
Quiet ==
  /\ input.pc = "none" /\ Running(mcp) = {} /\ IsShuttingDown
  /\ \/ pend.pc = "none"
     \/ /\ pend.pc = "started" /\ ~fenceFailure /\ ~join.rejected
        /\ join.pc = "waiting" => join.run = 0 /\ join.pending = NoCommand /\ join.mcp = {}
StopCompleted == \E c \in Commands : c.kind = "session.stop" /\ tracked[c] = "completed"
StopsWait ==
  /\ Stopping =>
       /\ IsShuttingDown
       /\ join.source = "session.stop" /\ join.pc # "idle"
       /\ pend.pc = "waiting" => pend.cancellation # "none"
  /\ Stopping /\ join.pc = "waiting" =>
       /\ Running(mcp) \subseteq join.mcp
       /\ PendingInput => pend.cmd = join.pending \/ WaitFails
       /\ input.pc # "none" => \/ join.run = input.revision
                               \/ pend.pc # "none" /\ pend.cmd = join.pending
                               \/ WaitFails
       /\ fenceFailure => \/ pend.pc = "failing" /\ pend.cmd = join.pending
                          \/ WaitFails
  /\ Stopping /\ join.pc = "ok" => Quiet
  /\ loop.pc \in {"shutdown", "terminal"} \/ StopCompleted => Quiet
  /\ loop.pc = "shutdown" => loop.attempt \in 1..Len(shutdowns)
  /\ loop.pc = "terminal" \/ StopCompleted =>
       shutdowns # << >> /\ shutdowns[Len(shutdowns)] = "ok"
  /\ StopCompleted => instanceTerminal.phase = "acked"

(* An input that a cancellation found can no longer reach the backend, has *)
(* a verdict, or is the one that is awaited.                               *)
Harmless(d) ==
  /\ tracked[d] # "unknown"
  /\ tracked[d] = "none" =>
       /\ d \notin handled /\ ~Accepting(d)
       /\ pend.pc = "waiting" /\ pend.cmd = d => pend.cancellation # "none"
Awaits(d) ==
  /\ input.pc \in {"backend", "publishing"} /\ input.cmd = d
  /\ join.pc \in {"permissions", "waiting", "failed"}
  /\ join.pc = "waiting" => join.run = input.revision
CancelsHold ==
  /\ \A c \in Commands, d \in Inputs :
       c.kind = "turn.cancel" /\ tracked[c] = "completed" /\ c.run = d.run => Harmless(d)
  /\ \A d \in Inputs :
       loop.pc \in {"accepting", "cancelling"} /\ loop.cmd.kind = "turn.cancel" /\ loop.cmd.run = d.run
         => Harmless(d) \/ Awaits(d)

DispatcherIndInv ==
  /\ RunTypeOK /\ TaskTypeOK /\ LoopTypeOK
  /\ ActiveIsInput /\ ShutdownIsOrdered /\ BarrierHolds /\ LoopIsTrue
  /\ InputsAreKnown /\ InputsEnd /\ McpIsOfTheRun
  /\ VerdictMatchesTerminal /\ StopsWait /\ CancelsHold

PendType == [pc : {"none", "waiting", "started", "failing", "closing"}, cmd : Inputs \cup {NoCommand},
             cancellation : Cancellations, attempt : Nat, rejected : BOOLEAN]
McpType == [McpCommands -> [pc : {"none", "running", "finishing"}, aborted : BOOLEAN]]

(* A cancellation leaves the run, the queued input and the MCP commands    *)
(* where they are.                                                         *)
SameRun ==
  /\ activeRun' \in DrivenRun \cup {NullRun}
  /\ activeRun'.runId = activeRun.runId /\ activeRun'.revision = activeRun.revision
  /\ activeRun'.terminal = activeRun.terminal
  /\ activeRun' = NullRun <=> activeRun = NullRun
  /\ revision' = revision /\ published' = published
  /\ instanceTerminal'.phase \in {"open", "selected", "acked"}
  /\ instanceTerminal.phase = "acked" => instanceTerminal'.phase = "acked"
SamePending(p) ==
  /\ pend' \in PendType
  /\ pend'.pc = p.pc /\ pend'.cmd = p.cmd /\ pend'.rejected = p.rejected
  /\ p.cancellation # "none" => pend'.cancellation # "none"
SameMcp(m) ==
  /\ mcp' \in McpType
  /\ \A c \in McpCommands : mcp'[c].pc = m[c].pc

(* The null run is none of the runs that are driven.                       *)
LEMMA NullIsNoRun ==
  /\ NullRun \notin DrivenRun /\ NullRun.terminal = Null /\ NullRun.runId = NoRun
  /\ \A t \in SentTerminal : t # Null => t.value \in SentIdentity /\ t.phase \in {"selected", "acked"}
  /\ Null.phase = "null"
<1>1. NullRun \notin DrivenRun
  BY NoRunAssumption DEF NullRun, DrivenRun
<1>2. ASSUME NEW t \in SentTerminal, t # Null PROVE t.value \in SentIdentity /\ t.phase \in {"selected", "acked"}
  BY <1>2 DEF SentTerminal
<1> QED BY <1>1, <1>2 DEF NullRun, Null

(* What the assumptions say of the commands, by kind.                      *)
LEMMA InputsNamed ==
  /\ Inputs \subseteq Commands /\ McpCommands \subseteq Commands
  /\ \A c \in Commands : c.kind \in Kinds
  /\ \A c \in Inputs : c.kind = "input.start" /\ c.run \in Runs
  /\ \A c \in McpCommands : c.kind = "mcp.execute" /\ c.run \in Runs
  /\ NoCommand \notin Commands
  /\ \A c \in Inputs : c \notin McpCommands
  /\ \A c, d \in Inputs : c.run = d.run => c = d
<1>1. \A c \in Inputs : c.run \in Runs
  BY CommandsAssumption DEF Inputs
<1>2. \A c \in McpCommands : c.run \in Runs
  BY CommandsAssumption DEF McpCommands
<1>3. NoCommand \notin Commands
  BY CommandsAssumption DEF NoCommand, Kinds
<1> QED BY <1>1, <1>2, <1>3, CommandsAssumption DEF Inputs, McpCommands

(* Marking the queued input keeps it where it is.                          *)
LEMMA CancelPendingKeeps ==
  ASSUME NEW p \in PendType, NEW source \in CancellationSources
  PROVE  /\ CancelPending(p, source) \in PendType
         /\ CancelPending(p, source).pc = p.pc /\ CancelPending(p, source).cmd = p.cmd
         /\ CancelPending(p, source).rejected = p.rejected
         /\ p.cancellation # "none" => CancelPending(p, source).cancellation # "none"
         /\ p.pc = "waiting" => CancelPending(p, source).cancellation # "none"
<1>1. source # "none" /\ source \in Cancellations
  BY DEF CancellationSources, Cancellations
<1> QED BY <1>1 DEF CancelPending, PendType

(* Aborting the MCP commands keeps each at its step.                       *)
LEMMA AbortMcpKeeps ==
  ASSUME NEW m \in McpType
  PROVE  /\ AbortMcp(m) \in McpType
         /\ \A c \in McpCommands : AbortMcp(m)[c].pc = m[c].pc
<1>1. ASSUME NEW c \in McpCommands
      PROVE  /\ AbortMcp(m)[c].pc = m[c].pc
             /\ AbortMcp(m)[c] \in [pc : {"none", "running", "finishing"}, aborted : BOOLEAN]
  <2>1. m[c] \in [pc : {"none", "running", "finishing"}, aborted : BOOLEAN]
    BY DEF McpType
  <2>2. AbortMcp(m)[c] = IF m[c].pc = "none" THEN m[c] ELSE [m[c] EXCEPT !.aborted = TRUE]
    BY DEF AbortMcp
  <2> QED BY <2>1, <2>2
<1> QED BY <1>1 DEF AbortMcp, McpType

(* Every call of #abortActiveWork only marks what is at work.              *)
LEMMA AbortSoftens ==
  ASSUME RunTypeOK, NEW source \in CancellationSources, NEW p \in PendType, NEW m \in McpType,
         AbortActiveWork(source, p, m)
  PROVE  SameRun /\ SamePending(p) /\ SameMcp(m)
<1>1. SamePending(p)
  BY CancelPendingKeeps DEF AbortActiveWork, SamePending
<1>2. SameMcp(m)
  BY AbortMcpKeeps DEF AbortActiveWork, SameMcp
<1>3. CASE activeRun = NullRun
  BY <1>1, <1>2, <1>3 DEF AbortActiveWork, SameRun, RunTypeOK, terminalVars, machineVars, historyVars
<1>4. CASE activeRun # NullRun
  <2> DEFINE claim == ClaimAfter(CurrentTicket, source)
  <2>1. activeRun \in DrivenRun
    BY <1>4 DEF RunTypeOK
  <2>2. claim \in ClaimStates
    BY <2>1 DEF ClaimAfter, ClaimStates, DrivenRun
  <2>3. /\ activeRun' = [activeRun EXCEPT !.claim = claim]
        /\ revision' = revision /\ instanceTerminal' = instanceTerminal /\ published' = published
    BY <1>4 DEF AbortActiveWork, ClaimCancellation
  <2> HIDE DEF claim
  <2>4. activeRun' \in DrivenRun /\ activeRun'.terminal = activeRun.terminal
        /\ activeRun'.runId = activeRun.runId /\ activeRun'.revision = activeRun.revision
    BY <2>1, <2>2, <2>3 DEF DrivenRun
  <2> QED BY <1>1, <1>2, <1>4, <2>3, <2>4, NullIsNoRun DEF SameRun, RunTypeOK
<1> QED BY <1>1, <1>2, <1>3, <1>4

(* What a call of shutdown leaves, and that the driver has been asked to.  *)
ShutdownAsked ==
  /\ aborted' = TRUE /\ status' \in DriverStatuses /\ IsShuttingDown'
  /\ lastGeneration' = lastGeneration
  /\ shutdowns' \in Seq(Outcomes) /\ shutdowns' # << >>
  /\ \A k \in 1..Len(shutdowns') : k < Len(shutdowns') => shutdowns'[k] = "failed"
  /\ ShutdownAttempt \in 1..Len(shutdowns')
  /\ shutdowns # << >> /\ shutdowns[Len(shutdowns)] = "ok" => shutdowns' = shutdowns

(* So does every call of the process's shutdown.                           *)
LEMMA ShutdownSoftens ==
  ASSUME RunTypeOK, LoopTypeOK, ShutdownIsOrdered, NEW from \in {status, "failed"},
         NEW p \in PendType, NEW m \in McpType, Shutdown(from, p, m)
  PROVE  SameRun /\ SamePending(p) /\ SameMcp(m) /\ ShutdownAsked
<1>1. SameRun /\ SamePending(p) /\ SameMcp(m)
  <2>1. CASE aborted \/ loop.pc = "exited"
    BY <2>1 DEF Shutdown, SameRun, SamePending, SameMcp, RunTypeOK, terminalVars, machineVars, historyVars
  <2>2. CASE ~(aborted \/ loop.pc = "exited")
    BY <2>2, AbortSoftens DEF Shutdown, CancellationSources
  <2> QED BY <2>1, <2>2
<1>2. ShutdownTask => aborted /\ IsShuttingDown
  BY DEF ShutdownTask, ShutdownIsOrdered
<1>3. status' \in DriverStatuses /\ IsShuttingDown' /\ aborted' = TRUE /\ lastGeneration' = lastGeneration
  BY <1>2 DEF Shutdown, SetStatus, IsShuttingDown, ShuttingDown, DriverStatuses, RunTypeOK
<1>4. shutdowns \in Seq(Outcomes) /\ "running" \in Outcomes
  BY DEF LoopTypeOK, Outcomes
<1>5. CASE ShutdownTask
  <2>1. shutdowns' = shutdowns /\ shutdowns # << >> /\ ShutdownAttempt = Len(shutdowns)
    BY <1>5 DEF Shutdown, ShutdownTask, ShutdownAttempt
  <2>2. Len(shutdowns) \in 1..Len(shutdowns)
    BY <1>4, <2>1
  <2> QED BY <1>1, <1>3, <1>4, <2>1, <2>2 DEF ShutdownAsked, ShutdownIsOrdered
<1>6. CASE ~ShutdownTask
  <2>1. shutdowns' = Append(shutdowns, "running") /\ ShutdownAttempt = Len(shutdowns) + 1
    BY <1>6 DEF Shutdown, ShutdownAttempt
  <2>2. shutdowns' \in Seq(Outcomes) /\ Len(shutdowns') = Len(shutdowns) + 1 /\ shutdowns' # << >>
        /\ \A k \in 1..Len(shutdowns) : shutdowns'[k] = shutdowns[k]
    BY <1>4, <2>1
  <2>3. shutdowns # << >> => shutdowns[Len(shutdowns)] = "failed" /\ Len(shutdowns) \in 1..Len(shutdowns)
    BY <1>4, <1>6 DEF ShutdownTask
  <2>4. \A k \in 1..Len(shutdowns) : shutdowns[k] = "failed"
    BY <1>4, <2>3 DEF ShutdownIsOrdered
  <2>5. \A k \in 1..Len(shutdowns') : k < Len(shutdowns') => shutdowns'[k] = "failed"
    BY <1>4, <2>2, <2>4
  <2>6. ShutdownAttempt \in 1..Len(shutdowns')
    BY <1>4, <2>1, <2>2
  <2> QED BY <1>1, <1>3, <2>2, <2>3, <2>5, <2>6 DEF ShutdownAsked
<1> QED BY <1>5, <1>6
(* The loop's steps leave the work of the run alone but for cancellations. *)
Calm ==
  /\ SameRun /\ SamePending(pend) /\ SameMcp(mcp)
  /\ input' = input /\ pub' = pub /\ handled' = handled
  /\ delivered \subseteq delivered' /\ delivered' \subseteq Commands
  /\ status' \in DriverStatuses /\ (IsShuttingDown => IsShuttingDown')
  /\ lastGeneration' = lastGeneration
  /\ aborted' \in BOOLEAN /\ (aborted => aborted')

(* A calm step keeps the run, its tasks and their types.                   *)
LEMMA CalmRun ==
  ASSUME DispatcherIndInv, Calm
  PROVE  /\ RunTypeOK' /\ TaskTypeOK' /\ ActiveIsInput'
         /\ Running(mcp)' = Running(mcp) /\ CurrentRunId' = CurrentRunId
<1>1. RunTypeOK' /\ TaskTypeOK'
  BY DEF DispatcherIndInv, RunTypeOK, TaskTypeOK, Calm, SameRun, SamePending, SameMcp, PendType, McpType
<1>2. ActiveIsInput'
  BY DEF DispatcherIndInv, ActiveIsInput, Calm, SameRun, SamePending
<1>3. Running(mcp)' = Running(mcp)
  BY DEF Running, Calm, SameMcp
<1> QED BY <1>1, <1>2, <1>3 DEF CurrentRunId, Calm, SameRun

(* It keeps what has ended, and whose the MCP commands are.                *)
LEMMA CalmEnds ==
  ASSUME DispatcherIndInv, Calm
  PROVE  InputsEnd' /\ McpIsOfTheRun'
<1>1. \A c : IsOver(c) => IsOver(c)'
  BY DEF IsOver, Calm, SameRun
<1>2. Running(mcp)' = Running(mcp)
  BY CalmRun
<1>3. InputsEnd'
  BY <1>1 DEF DispatcherIndInv, InputsEnd, Calm
<1>4. McpIsOfTheRun'
  BY <1>2 DEF DispatcherIndInv, McpIsOfTheRun, Calm, SameRun
<1> QED BY <1>3, <1>4

(* The barrier stands as long as no fence of the run is taken down and no  *)
(* MCP command is admitted past it.                                        *)
LEMMA BarrierKept ==
  ASSUME DispatcherIndInv, SameRun, NEW past \in SUBSET Runs,
         \A m \in McpCommands : mcp'[m].pc # "none" => mcp[m].pc # "none" \/ m.run \in past,
         pub' = pub \/ pub'.pc = "idle",
         activeRun.runId \in fences => activeRun.runId \in fences',
         loop.pc = "exited" => loop'.pc = "exited",
         \A r \in past : r \notin fences \/ HasWork(r),
         loop'.admitted => loop'.cmd.run \in past
  PROVE  BarrierHolds'
<1> USE DEF DispatcherIndInv
<1>1. ASSUME activeRun.terminal # Null, loop.pc # "exited", HasWork(activeRun.runId)' PROVE FALSE
  <2>1. activeRun.runId \in fences /\ ~HasWork(activeRun.runId)
    BY <1>1 DEF BarrierHolds
  <2>2. CASE loop'.admitted /\ loop'.cmd.run = activeRun.runId
    BY <2>1, <2>2
  <2>3. ASSUME NEW m \in McpCommands, mcp'[m].pc # "none", m.run = activeRun.runId PROVE FALSE
    BY <2>1, <2>3 DEF HasWork, Running
  <2> QED BY <1>1, <2>2, <2>3 DEF HasWork, Admission, Running, SameRun
<1> QED BY <1>1 DEF BarrierHolds, SameRun
(* What is known of the commands changes by a verdict only.                *)
Told ==
  /\ tracked' \in [Commands -> TrackedStates]
  /\ \A c \in Commands : \/ tracked'[c] = tracked[c]
                         \/ tracked[c] = "none" /\ tracked'[c] \in Statuses
NobodyAccepted == \A c \in Commands : Accepting(c)' => Accepting(c)

(* What is known of the inputs, as long as each change is a verdict.       *)
LEMMA KnownKept ==
  ASSUME DispatcherIndInv, Told, NobodyAccepted, handled' = handled,
         input'.cmd = input.cmd \/ input'.pc = "none",
         input'.pc = input.pc \/ tracked'[input.cmd] # "none" \/ input'.pc = "none",
         input'.pc # "none" => input.pc # "none",
         input.pc = "backend" /\ input'.pc # "backend" => tracked'[input.cmd] # "none",
         pend'.cmd = pend.cmd \/ pend'.pc = "none", pend'.pc # "none" => pend.pc # "none",
         pend'.pc = "waiting" => pend.pc = "waiting" /\ tracked'[pend.cmd] = tracked[pend.cmd],
         pend'.pc \in {"failing", "closing"} =>
           pend.pc \in {"failing", "closing"} \/ tracked'[pend.cmd] # "none"
  PROVE  InputsAreKnown'
<1> USE DEF DispatcherIndInv
<1>1. ASSUME NEW c \in Inputs
      PROVE  /\ tracked'[c] = "unknown" \/ Accepting(c)' =>
                  /\ c \notin handled' /\ (input'.pc # "none" => input'.cmd # c)
                  /\ (pend'.pc # "none" => pend'.cmd # c)
             /\ c \in handled' /\ tracked'[c] = "none" => input'.pc = "backend" /\ input'.cmd = c
  <2>1. c \in Commands
    BY InputsNamed
  <2>2. tracked'[c] = "unknown" => tracked[c] = "unknown"
    BY <2>1 DEF Told, Statuses
  <2>3. tracked'[c] = "none" => tracked[c] = "none"
    BY <2>1 DEF Told, Statuses
  <2>4. Accepting(c)' => Accepting(c)
    BY <2>1 DEF NobodyAccepted
  <2> QED BY <2>2, <2>3, <2>4 DEF InputsAreKnown
<1>2. input.pc # "none" => input.cmd \in Commands
  BY InputsNamed DEF ActiveIsInput
<1>3. pend.pc # "none" => pend.cmd \in Commands
  BY InputsNamed DEF ActiveIsInput
<1>4. \A c \in Commands : tracked[c] # "none" => tracked'[c] # "none"
  BY DEF Told, Statuses
<1>5. pend'.pc = "waiting" =>
        /\ tracked'[pend'.cmd] = "none" /\ pend'.cmd \notin handled'
        /\ input'.pc # "none" => input'.cmd # pend'.cmd
  BY DEF InputsAreKnown
<1>6. pend'.pc \in {"failing", "closing"} => tracked'[pend'.cmd] # "none"
  BY <1>3, <1>4 DEF InputsAreKnown
<1>7. input'.pc \notin {"none", "backend", "publishing"} => tracked'[input'.cmd] # "none"
  BY <1>2, <1>4 DEF InputsAreKnown
<1> HIDE DEF DispatcherIndInv
<1> QED BY <1>1, <1>5, <1>6, <1>7 DEF InputsAreKnown

(* Verdicts stay true: what was published stays published.                 *)
LEMMA VerdictsKept ==
  ASSUME DispatcherIndInv, published \subseteq published',
         \A c \in Inputs : tracked'[c] \in {"completed", "cancelled"} => tracked'[c] = tracked[c]
  PROVE  VerdictMatchesTerminal'
BY DEF DispatcherIndInv, VerdictMatchesTerminal

(* An input that is harmless to its cancellation stays so.                 *)
LEMMA HarmlessKept ==
  ASSUME DispatcherIndInv, Told, NobodyAccepted, NEW d \in Inputs, Harmless(d),
         d \in handled' => d \in handled,
         pend'.pc = "waiting" /\ pend'.cmd = d =>
           /\ pend.pc = "waiting" /\ pend.cmd = d
           /\ pend.cancellation # "none" => pend'.cancellation # "none"
  PROVE  Harmless(d)'
<1>1. d \in Commands
  BY InputsNamed
<1>2. tracked'[d] = tracked[d] \/ (tracked[d] = "none" /\ tracked'[d] \in Statuses)
  BY <1>1 DEF Told
<1>3. Accepting(d)' => Accepting(d)
  BY <1>1 DEF NobodyAccepted
<1> QED BY <1>2, <1>3 DEF Harmless, Statuses

(* Quiet lasts: nothing new begins once the driver shuts down.             *)
LEMMA QuietKept ==
  ASSUME DispatcherIndInv, Quiet, input'.pc = "none", IsShuttingDown',
         \A m \in McpCommands : mcp'[m].pc # "none" => mcp[m].pc # "none",
         pend'.pc = pend.pc \/ pend'.pc = "none",
         pend.pc = "started" => /\ fenceFailure' = fenceFailure
                                /\ \/ join'.pc # "waiting" /\ ~join'.rejected
                                   \/ join' = join
                                   \/ /\ join'.run = 0 /\ join'.pending = NoCommand
                                      /\ join'.mcp = {} /\ ~join'.rejected
  PROVE  Quiet'
BY DEF Quiet, Running

(* A step of the loop to a place where nothing is awaited any more.        *)
RestPlaces == {"poll", "fetched", "refusing", "repeating", "reaccepting", "failShutdown", "finishing",
               "failing"} \cup DownPlaces
LoopRests ==
  /\ Calm /\ Told
  /\ loop'.pc \in RestPlaces
  /\ \A c \in Inputs : tracked'[c] # tracked[c] => Accepting(c) /\ tracked'[c] = "failed"
  /\ \A c \in Commands : tracked'[c] = "completed" => tracked[c] = "completed"
  /\ \/ join'.pc # "waiting" /\ ~join'.rejected
     \/ join' = join
  /\ fenceFailure' = fenceFailure
  /\ shutdowns # << >> /\ shutdowns[Len(shutdowns)] = "ok" => shutdowns' = shutdowns

(* A step of the loop to a place of rest keeps all but its own part.       *)
LEMMA RestKeeps ==
  ASSUME DispatcherIndInv, LoopRests
  PROVE  /\ RunTypeOK' /\ TaskTypeOK' /\ ActiveIsInput' /\ InputsEnd' /\ McpIsOfTheRun'
         /\ InputsAreKnown' /\ VerdictMatchesTerminal' /\ StopsWait' /\ CancelsHold'
<1>1. Calm /\ Told /\ NobodyAccepted
  BY DEF LoopRests, NobodyAccepted, Accepting, RestPlaces, DownPlaces
<1>2. RunTypeOK' /\ TaskTypeOK' /\ ActiveIsInput' /\ InputsEnd' /\ McpIsOfTheRun'
  BY <1>1, CalmRun, CalmEnds
<1>3. input' = input /\ handled' = handled /\ pend'.pc = pend.pc /\ pend'.cmd = pend.cmd
      /\ (pend.cancellation # "none" => pend'.cancellation # "none")
  BY <1>1 DEF Calm, SamePending
<1>4. InputsAreKnown'
  <2>1. ASSUME pend.pc = "waiting" PROVE tracked'[pend.cmd] = tracked[pend.cmd]
    <3>1. pend.cmd \in Inputs /\ ~Accepting(pend.cmd)
      BY <2>1 DEF DispatcherIndInv, ActiveIsInput, InputsAreKnown
    <3> QED BY <3>1 DEF LoopRests
  <2> QED BY <1>1, <1>3, <2>1, KnownKept
<1>5. VerdictMatchesTerminal'
  <2>1. \A c \in Inputs : tracked'[c] \in {"completed", "cancelled"} => tracked'[c] = tracked[c]
    BY DEF LoopRests
  <2> QED BY <1>1, <2>1, VerdictsKept DEF Calm, SameRun
<1>6. StopsWait'
  <2>1. StopCompleted' => StopCompleted
    BY DEF StopCompleted, LoopRests
  <2>2. loop'.pc \notin {"cancelling", "shutdown", "terminal"}
    BY DEF LoopRests, RestPlaces, DownPlaces
  <2>3. ASSUME StopCompleted PROVE Quiet'
    <3>1. Quiet /\ IsShuttingDown'
      BY <1>1, <2>3 DEF DispatcherIndInv, StopsWait, Quiet, Calm
    <3>2. \A m \in McpCommands : mcp'[m].pc # "none" => mcp[m].pc # "none"
      BY <1>1 DEF Calm, SameMcp
    <3> QED BY <1>3, <3>1, <3>2, QuietKept DEF Quiet, LoopRests
  <2>4. StopCompleted => /\ shutdowns' # << >> /\ shutdowns'[Len(shutdowns')] = "ok"
                         /\ instanceTerminal'.phase = "acked"
    BY <1>1 DEF DispatcherIndInv, StopsWait, LoopRests, Calm, SameRun
  <2> QED BY <2>1, <2>2, <2>3, <2>4 DEF StopsWait, Stopping
<1>7. CancelsHold'
  <2>1. loop'.pc \notin {"accepting", "cancelling"}
    BY DEF LoopRests, RestPlaces, DownPlaces
  <2>2. ASSUME NEW d \in Inputs, Harmless(d) PROVE Harmless(d)'
    BY <1>1, <1>3, <2>2, HarmlessKept
  <2>3. \A c \in Commands : tracked'[c] = "completed" => tracked[c] = "completed"
    BY DEF LoopRests
  <2> QED BY <2>1, <2>2, <2>3 DEF DispatcherIndInv, CancelsHold
<1> QED BY <1>2, <1>4, <1>5, <1>6, <1>7

LoopType == [pc : LoopPlaces, cmd : Commands \cup {NoCommand}, admitted : BOOLEAN, attempt : Nat,
             error : {"none", "failed"}]
JoinType == [pc : {"idle", "permissions", "waiting", "ok", "failed"},
             source : {"none", "join", "turn.cancel", "session.stop"}, run : Nat,
             pending : Inputs \cup {NoCommand}, mcp : SUBSET McpCommands, cancels : BOOLEAN,
             permission : {"ok", "failed"}, rejected : BOOLEAN]

LEMMA RestHolds ==
  ASSUME DispatcherIndInv, LoopRests, LoopTypeOK', ShutdownIsOrdered', BarrierHolds', LoopIsTrue'
  PROVE  DispatcherIndInv'
BY RestKeeps DEF DispatcherIndInv

(* A step of the loop that moves nothing but itself and the join it awaits. *)
Unmoved == UNCHANGED <<terminalVars, runtimeVars, taskVars, failureVars, aborted, shutdowns, handled>>

(* A step that moves only the loop is calm.                                *)
LEMMA UnmovedIsCalm ==
  ASSUME DispatcherIndInv, Unmoved, delivered \subseteq delivered', delivered' \subseteq Commands
  PROVE  Calm
<1>1. SameRun
  BY DEF SameRun, Unmoved, terminalVars, machineVars, historyVars, DispatcherIndInv, RunTypeOK
<1>2. SamePending(pend) /\ SameMcp(mcp)
  BY DEF SamePending, SameMcp, Unmoved, taskVars, DispatcherIndInv, TaskTypeOK, PendType, McpType
<1>3. status' = status /\ lastGeneration' = lastGeneration /\ status \in DriverStatuses /\ IsShuttingDown' = IsShuttingDown
  BY DEF Unmoved, runtimeVars, DispatcherIndInv, RunTypeOK, IsShuttingDown
<1>4. aborted' = aborted /\ aborted \in BOOLEAN
  BY DEF Unmoved, DispatcherIndInv, LoopTypeOK
<1> QED BY <1>1, <1>2, <1>3, <1>4 DEF Calm, Unmoved, taskVars

LEMMA UnmovedTyped ==
  ASSUME DispatcherIndInv, Unmoved, Told, delivered' \subseteq Commands,
         loop' \in LoopType, join' \in JoinType
  PROVE  LoopTypeOK'
BY DEF DispatcherIndInv, LoopTypeOK, Unmoved, Told, LoopType, JoinType, failureVars

LEMMA UnmovedOrdered ==
  ASSUME DispatcherIndInv, Unmoved, loop'.pc \in DownPlaces => IsShuttingDown
  PROVE  ShutdownIsOrdered'
BY DEF DispatcherIndInv, ShutdownIsOrdered, Unmoved, IsShuttingDown, runtimeVars, taskVars, failureVars

(* The barrier, when at most the command of the loop is admitted.          *)
LEMMA AdmittedBarrier ==
  ASSUME DispatcherIndInv, SameRun, SameMcp(mcp), pub' = pub, fences \subseteq fences',
         loop.pc = "exited" => loop'.pc = "exited",
         loop'.admitted => /\ loop'.cmd \in McpCommands
                           /\ loop'.cmd.run \notin fences \/ HasWork(loop'.cmd.run)
  PROVE  BarrierHolds'
<1> DEFINE past == IF loop'.admitted THEN {loop'.cmd.run} ELSE {}
<1>1. past \in SUBSET Runs
  BY InputsNamed
<1>2. \A m \in McpCommands : mcp'[m].pc # "none" => mcp[m].pc # "none" \/ m.run \in past
  BY DEF SameMcp
<1> QED BY <1>1, <1>2, BarrierKept

LEMMA UnmovedHolds ==
  ASSUME DispatcherIndInv, Unmoved, Told, delivered \subseteq delivered', delivered' \subseteq Commands,
         loop' \in LoopType, loop'.pc \in RestPlaces, join' \in JoinType,
         \A c \in Inputs : tracked'[c] # tracked[c] => Accepting(c) /\ tracked'[c] = "failed",
         \A c \in Commands : tracked'[c] = "completed" => tracked[c] = "completed",
         (join'.pc # "waiting" /\ ~join'.rejected) \/ join' = join,
         loop.pc = "exited" => loop'.pc = "exited",
         loop'.pc \in DownPlaces => IsShuttingDown,
         loop'.admitted => /\ loop'.cmd \in McpCommands
                           /\ loop'.cmd.run \notin fences \/ HasWork(loop'.cmd.run),
         LoopIsTrue'
  PROVE  DispatcherIndInv'
<1>1. Calm
  BY UnmovedIsCalm
<1>2. LoopRests
  BY <1>1 DEF LoopRests, Unmoved, failureVars
<1>3. LoopTypeOK' /\ ShutdownIsOrdered'
  BY UnmovedTyped, UnmovedOrdered
<1>4. fences' = fences /\ pub' = pub
  BY DEF Unmoved, taskVars
<1>5. BarrierHolds'
  BY <1>1, <1>4, AdmittedBarrier DEF Calm
<1> QED BY <1>2, <1>3, <1>5, RestHolds

(* A verdict is told once: the first one stays.                            *)
LEMMA FinishTells ==
  ASSUME DispatcherIndInv, NEW c \in Commands, NEW outcome \in Statuses, FinishCommand(c, outcome)
  PROVE  /\ Told
         /\ tracked'[c] # "none"
         /\ \A d \in Commands : tracked'[d] # tracked[d] => /\ d = c /\ tracked[c] = "none"
                                                            /\ tracked'[c] = outcome
<1>1. tracked \in [Commands -> TrackedStates] /\ outcome \in TrackedStates /\ "none" \notin Statuses
  BY DEF DispatcherIndInv, LoopTypeOK, TrackedStates, Statuses
<1>2. tracked' = [tracked EXCEPT ![c] = IF @ = "none" THEN outcome ELSE @]
  BY DEF FinishCommand
<1>3. tracked' \in [Commands -> TrackedStates]
  BY <1>1, <1>2
<1>4. \A d \in Commands : tracked'[d] = IF d = c /\ tracked[d] = "none" THEN outcome ELSE tracked[d]
  BY <1>1, <1>2
<1> QED BY <1>1, <1>3, <1>4 DEF Told

LEMMA SilenceTells ==
  ASSUME DispatcherIndInv, tracked' = tracked
  PROVE  Told
BY DEF DispatcherIndInv, LoopTypeOK, Told

(* The joins the loop awaits.                                              *)
LEMMA NoJoinTyped == NoJoin \in JoinType /\ NoJoin.pc # "waiting" /\ ~NoJoin.rejected
BY DEF NoJoin, JoinType

LEMMA JoinTyped ==
  ASSUME DispatcherIndInv
  PROVE  join \in JoinType /\ loop \in LoopType
BY DEF DispatcherIndInv, LoopTypeOK, JoinType, LoopType

LEMMA LastJoin ==
  ASSUME StartJoin("join", FALSE)
  PROVE  join' \in JoinType /\ join'.pc # "waiting" /\ ~join'.rejected
<1>1. join' = [[NoJoin EXCEPT !.source = "join", !.cancels = FALSE] EXCEPT !.pc = "permissions"]
  BY DEF StartJoin
<1> QED BY <1>1 DEF NoJoin, JoinType

(* The steps of the loop that end at a place of rest.                      *)
LEMMA FetchHolds ==
  ASSUME DispatcherIndInv, NEW c \in Commands, Fetch(c)
  PROVE  DispatcherIndInv'
<1>1. Unmoved /\ tracked' = tracked /\ join' = join /\ delivered' = delivered
  BY DEF Fetch, Unmoved
<1>2. loop' = [Idle EXCEPT !.pc = "fetched", !.cmd = c] /\ loop.pc = "poll"
  BY DEF Fetch
<1>3. loop' \in LoopType /\ loop'.pc = "fetched" /\ loop'.cmd = c /\ ~loop'.admitted
  BY <1>2 DEF Idle, LoopType, LoopPlaces
<1>4. LoopIsTrue'
  BY <1>3 DEF LoopIsTrue
<1>5. Told /\ join \in JoinType
  BY <1>1, SilenceTells, JoinTyped
<1>6. delivered \subseteq Commands
  BY DEF DispatcherIndInv, LoopTypeOK
<1> QED BY <1>1, <1>2, <1>3, <1>4, <1>5, <1>6, UnmovedHolds DEF RestPlaces, DownPlaces

LEMMA HandleWithoutEffectHolds ==
  ASSUME DispatcherIndInv, HandleWithoutEffect
  PROVE  DispatcherIndInv'
<1> DEFINE admits == Admits(loop.cmd) /\ loop.cmd.run \notin fences
<1>1. Unmoved /\ tracked' = tracked /\ join' = join /\ delivered' = delivered
  BY DEF HandleWithoutEffect, Unmoved
<1> DEFINE answer == Answer(loop.cmd)
<1>2. loop' = [loop EXCEPT !.pc = answer, !.admitted = admits] /\ loop.pc = "fetched"
  BY DEF HandleWithoutEffect
<1>3. loop \in LoopType /\ loop.cmd \in Commands
  BY <1>2, JoinTyped DEF DispatcherIndInv, LoopIsTrue
<1>4. admits \in BOOLEAN
  BY DEF Admits
<1>5. admits => loop.cmd \in McpCommands /\ loop.cmd.run \notin fences
  BY <1>3 DEF Admits, McpCommands
<1>10. answer \in {"refusing", "repeating", "reaccepting"}
  BY DEF Answer
<1> HIDE DEF admits, answer
<1>6. loop' \in LoopType /\ loop'.pc = answer /\ loop'.cmd = loop.cmd /\ loop'.admitted = admits
  BY <1>2, <1>3, <1>4, <1>10 DEF LoopType, LoopPlaces
<1>7. LoopIsTrue'
  BY <1>3, <1>5, <1>6, <1>10 DEF LoopIsTrue
<1>8. Told /\ join \in JoinType
  BY <1>1, SilenceTells, JoinTyped
<1>9. delivered \subseteq Commands
  BY DEF DispatcherIndInv, LoopTypeOK
<1> QED BY <1>1, <1>2, <1>5, <1>6, <1>7, <1>8, <1>9, <1>10, UnmovedHolds DEF RestPlaces, DownPlaces

(* The steps after which the loop asks for its next command.               *)
LEMMA IdleHolds ==
  ASSUME DispatcherIndInv, Unmoved, tracked' = tracked, join' = join, loop' = Idle, loop.pc # "exited",
         delivered \subseteq delivered', delivered' \subseteq Commands
  PROVE  DispatcherIndInv'
<1>1. loop' \in LoopType /\ loop'.pc = "poll" /\ ~loop'.admitted
  BY DEF Idle, LoopType, LoopPlaces
<1>2. LoopIsTrue'
  BY <1>1 DEF LoopIsTrue
<1>3. Told /\ join \in JoinType
  BY SilenceTells, JoinTyped
<1> QED BY <1>1, <1>2, <1>3, UnmovedHolds DEF RestPlaces, DownPlaces

LEMMA AnsweredHolds ==
  ASSUME DispatcherIndInv, Answered
  PROVE  DispatcherIndInv'
<1>1. Unmoved /\ delivered' = delivered /\ delivered \subseteq Commands
  BY DEF Answered, Unmoved, DispatcherIndInv, LoopTypeOK
<1> QED BY <1>1, IdleHolds DEF Answered

LEMMA FinishedHolds ==
  ASSUME DispatcherIndInv, Finished
  PROVE  DispatcherIndInv'
<1>1. Unmoved /\ delivered' = delivered \cup {loop.cmd} /\ delivered \subseteq Commands
  BY DEF Finished, Unmoved, DispatcherIndInv, LoopTypeOK
<1>2. loop.cmd \in Commands
  BY DEF Finished, DispatcherIndInv, LoopIsTrue
<1> QED BY <1>1, <1>2, IdleHolds DEF Finished

LEMMA ExitHolds ==
  ASSUME DispatcherIndInv, Exit
  PROVE  DispatcherIndInv'
<1>1. Unmoved /\ tracked' = tracked /\ join' = NoJoin /\ delivered' = delivered
  BY DEF Exit, Unmoved
<1>2. loop.pc \in DownPlaces /\ loop.pc # "exited"
  BY DEF Exit, DownPlaces
<1>3. PICK error \in {"none", "failed"} : loop' = [Idle EXCEPT !.pc = "exited", !.error = error]
  BY DEF Exit
<1>4. loop' \in LoopType /\ loop'.pc = "exited" /\ ~loop'.admitted
  BY <1>3 DEF Idle, LoopType, LoopPlaces
<1>5. LoopIsTrue'
  BY <1>4 DEF LoopIsTrue
<1>6. Told /\ delivered \subseteq Commands /\ IsShuttingDown
  BY <1>1, <1>2, SilenceTells DEF DispatcherIndInv, LoopTypeOK, ShutdownIsOrdered
<1> QED BY <1>1, <1>2, <1>4, <1>5, <1>6, NoJoinTyped, UnmovedHolds DEF RestPlaces, DownPlaces

LEMMA CrashShutDownHolds ==
  ASSUME DispatcherIndInv, CrashShutDown
  PROVE  DispatcherIndInv'
<1>1. Unmoved /\ tracked' = tracked /\ delivered' = delivered /\ StartJoin("join", FALSE)
  BY DEF CrashShutDown, Unmoved
<1>2. loop.pc = "crashing" /\ loop' = [loop EXCEPT !.pc = "joining"] /\ loop \in LoopType
  BY JoinTyped DEF CrashShutDown
<1>3. loop' \in LoopType /\ loop'.pc = "joining" /\ loop'.admitted = loop.admitted /\ loop'.cmd = loop.cmd
  BY <1>2 DEF LoopType, LoopPlaces
<1>4. LoopIsTrue'
  BY <1>2, <1>3 DEF DispatcherIndInv, LoopIsTrue
<1>5. Told /\ delivered \subseteq Commands /\ IsShuttingDown
  BY <1>1, <1>2, SilenceTells DEF DispatcherIndInv, LoopTypeOK, ShutdownIsOrdered, DownPlaces
<1>6. loop.admitted => loop.cmd \in McpCommands /\ HasWork(loop.cmd.run)
  BY DEF DispatcherIndInv, LoopIsTrue, HasWork, Admission
<1> QED BY <1>1, <1>2, <1>3, <1>4, <1>5, <1>6, LastJoin, UnmovedHolds DEF RestPlaces, DownPlaces

(* A command that is no stop is marked failed: what it awaited is dropped. *)
LEMMA FailedHolds ==
  ASSUME DispatcherIndInv, Unmoved, loop.cmd \in Commands, loop.pc # "exited",
         FinishCommand(loop.cmd, "failed"), loop' = [loop EXCEPT !.pc = "failing"],
         join' \in JoinType, (join'.pc # "waiting" /\ ~join'.rejected) \/ join' = join,
         delivered' = delivered, loop.pc = "accepting" \/ loop.cmd.kind # "input.start"
  PROVE  DispatcherIndInv'
<1>1. loop' \in LoopType /\ loop'.pc = "failing" /\ loop'.admitted = loop.admitted /\ loop'.cmd = loop.cmd
  BY JoinTyped DEF LoopType, LoopPlaces
<1>2. LoopIsTrue'
  BY <1>1 DEF DispatcherIndInv, LoopIsTrue
<1>3. /\ Told
      /\ \A d \in Commands : tracked'[d] # tracked[d] => d = loop.cmd /\ tracked'[d] = "failed"
  BY FinishTells DEF Statuses
<1>4. delivered \subseteq Commands
  BY DEF DispatcherIndInv, LoopTypeOK
<1>5. loop.admitted => loop.cmd \in McpCommands /\ HasWork(loop.cmd.run)
  BY DEF DispatcherIndInv, LoopIsTrue, HasWork, Admission
<1>6. \A c \in Inputs : tracked'[c] # tracked[c] => Accepting(c) /\ tracked'[c] = "failed"
  BY <1>3, InputsNamed DEF Accepting
<1>7. \A c \in Commands : tracked'[c] = "completed" => tracked[c] = "completed"
  BY <1>3
<1> QED BY <1>1, <1>2, <1>3, <1>4, <1>5, <1>6, <1>7, UnmovedHolds DEF RestPlaces, DownPlaces

LEMMA FailedStopShutDownHolds ==
  ASSUME DispatcherIndInv, FailedStopShutDown
  PROVE  DispatcherIndInv'
<1>1. Unmoved /\ join' = join /\ join \in JoinType
  BY JoinTyped DEF FailedStopShutDown, Unmoved
<1>2. loop.cmd \in Commands /\ loop.cmd.kind = "session.stop"
  BY DEF FailedStopShutDown, DispatcherIndInv, LoopIsTrue
<1> QED BY <1>1, <1>2, FailedHolds DEF FailedStopShutDown

(* The loop throws: the work of the run is cancelled, not ended.           *)
LEMMA ThrowHolds ==
  ASSUME DispatcherIndInv, NEW error, Throw(error), loop.pc # "exited",
         delivered \subseteq delivered', delivered' \subseteq Commands
  PROVE  DispatcherIndInv'
<1>1. RunTypeOK /\ pend \in PendType /\ mcp \in McpType /\ loop \in LoopType
  BY JoinTyped DEF DispatcherIndInv, TaskTypeOK, PendType, McpType
<1>2. SameRun /\ SamePending(pend) /\ SameMcp(mcp)
  BY <1>1, AbortSoftens DEF Throw, CancellationSources
<1>3. /\ tracked' = tracked /\ input' = input /\ pub' = pub /\ handled' = handled
      /\ workFailure' = workFailure /\ fenceFailure' = fenceFailure
      /\ aborted' = aborted /\ shutdowns' = shutdowns /\ fences \subseteq fences'
  BY DEF Throw, failureVars
<1>4. /\ loop' \in LoopType /\ loop'.pc \in {"draining", "reporting"} /\ ~loop'.admitted
      /\ join' \in JoinType /\ join'.pc # "waiting" /\ ~join'.rejected
      /\ status' \in DriverStatuses /\ IsShuttingDown' /\ lastGeneration' = lastGeneration
  <2>1. [Idle EXCEPT !.pc = "draining"] \in LoopType /\ ~[Idle EXCEPT !.pc = "draining"].admitted
        /\ [Idle EXCEPT !.pc = "draining"].pc = "draining"
    BY DEF Idle, LoopType, LoopPlaces
  <2>2. [Idle EXCEPT !.pc = "reporting"] \in LoopType /\ ~[Idle EXCEPT !.pc = "reporting"].admitted
        /\ [Idle EXCEPT !.pc = "reporting"].pc = "reporting"
    BY DEF Idle, LoopType, LoopPlaces
  <2>3. CASE loop' = [Idle EXCEPT !.pc = "draining"] /\ StartJoin("join", FALSE)
             /\ UNCHANGED runtimeVars /\ (aborted \/ IsShuttingDown)
    <3>1. IsShuttingDown' /\ status' \in DriverStatuses /\ lastGeneration' = lastGeneration
      BY <2>3, <1>1 DEF DispatcherIndInv, ShutdownIsOrdered, IsShuttingDown, runtimeVars, RunTypeOK
    <3> QED BY <2>1, <2>3, <3>1, LastJoin
  <2>4. CASE loop' = [Idle EXCEPT !.pc = "reporting"] /\ join' = NoJoin /\ SetStatus("failed")
    BY <2>2, <2>4, NoJoinTyped DEF SetStatus, IsShuttingDown, ShuttingDown, DriverStatuses
  <2> QED BY <2>3, <2>4 DEF Throw
<1>5. Calm
  BY <1>2, <1>3, <1>4 DEF Calm, DispatcherIndInv, LoopTypeOK
<1>6. Told
  BY <1>3, SilenceTells
<1>7. LoopRests
  BY <1>3, <1>4, <1>5, <1>6 DEF LoopRests, RestPlaces, DownPlaces
<1>8. LoopTypeOK'
  BY <1>3, <1>4, <1>6 DEF DispatcherIndInv, LoopTypeOK, Told, LoopType, JoinType
<1>9. ShutdownIsOrdered'
  BY <1>2, <1>3, <1>4 DEF DispatcherIndInv, ShutdownIsOrdered, SamePending
<1>10. BarrierHolds'
  BY <1>2, <1>3, <1>4, AdmittedBarrier
<1>11. LoopIsTrue'
  BY <1>4 DEF LoopIsTrue
<1> QED BY <1>7, <1>8, <1>9, <1>10, <1>11, RestHolds

(* The failures of the loop.                                               *)
LEMMA LoopThrows ==
  ASSUME DispatcherIndInv, FetchFails \/ DeliveryFails \/ FatalFinished \/ LeaveThrows
  PROVE  DispatcherIndInv'
<1>1. delivered \subseteq Commands
  BY DEF DispatcherIndInv, LoopTypeOK
<1>2. CASE FetchFails
  BY <1>1, <1>2, ThrowHolds DEF FetchFails
<1>3. CASE DeliveryFails
  BY <1>1, <1>3, ThrowHolds DEF DeliveryFails
<1>4. CASE FatalFinished
  <2>1. loop.cmd \in Commands
    BY <1>4 DEF FatalFinished, DispatcherIndInv, LoopIsTrue
  <2> QED BY <1>1, <1>4, <2>1, ThrowHolds DEF FatalFinished
<1>5. CASE LeaveThrows
  BY <1>1, <1>5, ThrowHolds DEF LeaveThrows
<1> QED BY <1>2, <1>3, <1>4, <1>5

(* The loop asks for the shutdown and rests.                               *)
LEMMA LoopShutsDown ==
  ASSUME DispatcherIndInv, NEW from \in {status, "failed"}, Shutdown(from, pend, mcp), loop.pc # "exited",
         UNCHANGED <<tracked, input, pub, fences, mcpFailures, failureVars, handled, delivered>>,
         loop' \in LoopType, loop'.pc \in RestPlaces, LoopIsTrue',
         loop'.admitted => loop.admitted /\ loop'.cmd = loop.cmd,
         join' \in JoinType, (join'.pc # "waiting" /\ ~join'.rejected) \/ join' = join
  PROVE  DispatcherIndInv'
<1>1. RunTypeOK /\ LoopTypeOK /\ ShutdownIsOrdered /\ pend \in PendType /\ mcp \in McpType
  BY DEF DispatcherIndInv, TaskTypeOK, PendType, McpType
<1>2. SameRun /\ SamePending(pend) /\ SameMcp(mcp) /\ ShutdownAsked
  BY <1>1, ShutdownSoftens
<1>3. Calm /\ Told
  BY <1>1, <1>2, SilenceTells DEF Calm, ShutdownAsked, LoopTypeOK
<1>4. LoopRests
  BY <1>2, <1>3 DEF LoopRests, ShutdownAsked, failureVars
<1>5. LoopTypeOK'
  BY <1>1, <1>2, <1>3 DEF LoopTypeOK, Told, LoopType, JoinType, ShutdownAsked, failureVars
<1>6. ShutdownIsOrdered'
  BY <1>1, <1>2 DEF ShutdownIsOrdered, SamePending, ShutdownAsked, failureVars
<1>7. loop.admitted => loop.cmd \in McpCommands /\ HasWork(loop.cmd.run)
  BY DEF DispatcherIndInv, LoopIsTrue, HasWork, Admission
<1>8. BarrierHolds'
  BY <1>2, <1>7, AdmittedBarrier
<1> QED BY <1>4, <1>5, <1>6, <1>8, RestHolds

LEMMA AttemptTyped ==
  ASSUME DispatcherIndInv
  PROVE  ShutdownAttempt \in Nat
<1>1. shutdowns \in Seq(Outcomes)
  BY DEF DispatcherIndInv, LoopTypeOK
<1>2. Len(shutdowns) \in Nat
  BY <1>1
<1> QED BY <1>2 DEF ShutdownAttempt

LEMMA ReportedHolds ==
  ASSUME DispatcherIndInv, Reported
  PROVE  DispatcherIndInv'
<1>1. loop' = [loop EXCEPT !.pc = "crashing", !.attempt = ShutdownAttempt] /\ loop.pc = "reporting"
      /\ join' = join /\ Shutdown(status, pend, mcp)
      /\ UNCHANGED <<tracked, input, pub, fences, mcpFailures, failureVars, handled, delivered>>
  BY DEF Reported
<1>2. loop \in LoopType /\ join \in JoinType /\ ShutdownAttempt \in Nat
  BY JoinTyped, AttemptTyped
<1>3. /\ loop' \in LoopType /\ loop'.pc = "crashing"
      /\ loop'.admitted = loop.admitted /\ loop'.cmd = loop.cmd
  BY <1>1, <1>2 DEF LoopType, LoopPlaces
<1>4. LoopIsTrue'
  BY <1>1, <1>3 DEF DispatcherIndInv, LoopIsTrue
<1> QED BY <1>1, <1>2, <1>3, <1>4, LoopShutsDown DEF RestPlaces, DownPlaces

LEMMA CommandFailsHolds ==
  ASSUME DispatcherIndInv, CommandFails
  PROVE  DispatcherIndInv'
<1>1. /\ join' = NoJoin /\ FailCommand
      /\ loop.pc \in {"accepting", "cancelling", "shutdown", "terminal"}
      /\ UNCHANGED <<input, pub, fences, mcpFailures, failureVars, handled, delivered>>
  BY DEF CommandFails, CancellationFailed
<1>2. /\ loop \in LoopType /\ ShutdownAttempt \in Nat /\ loop.cmd \in Commands
      /\ loop.pc # "accepting" => loop.cmd.kind \in {"turn.cancel", "session.stop"}
  BY <1>1, JoinTyped, AttemptTyped DEF DispatcherIndInv, LoopIsTrue
<1>3. CASE loop.cmd.kind = "session.stop"
  <2>1. PICK from \in {status, "failed"} : Shutdown(from, pend, mcp)
    BY <1>1, <1>3 DEF FailCommand
  <2>2. loop' = [loop EXCEPT !.pc = "failShutdown", !.attempt = ShutdownAttempt] /\ tracked' = tracked
    BY <1>1, <1>3 DEF FailCommand
  <2>3. ~loop.admitted
    BY <1>3, InputsNamed DEF DispatcherIndInv, LoopIsTrue
  <2>4. loop' \in LoopType /\ loop'.pc = "failShutdown" /\ ~loop'.admitted /\ loop'.cmd = loop.cmd
    BY <1>2, <2>2, <2>3 DEF LoopType, LoopPlaces
  <2>5. LoopIsTrue'
    BY <1>2, <1>3, <2>4 DEF LoopIsTrue
  <2> QED BY <1>1, <2>1, <2>2, <2>4, <2>5, NoJoinTyped, LoopShutsDown DEF RestPlaces, DownPlaces
<1>4. CASE loop.cmd.kind # "session.stop"
  <2>1. Unmoved
    BY <1>1, <1>4 DEF FailCommand, Unmoved, taskVars
  <2> QED BY <1>1, <1>2, <1>4, <2>1, NoJoinTyped, FailedHolds DEF FailCommand
<1> QED BY <1>3, <1>4

LEMMA LeaveHolds ==
  ASSUME DispatcherIndInv, Leave
  PROVE  DispatcherIndInv'
<1>1. RunTypeOK /\ pend \in PendType /\ mcp \in McpType
  BY DEF DispatcherIndInv, TaskTypeOK, PendType, McpType
<1>2. SameRun /\ SamePending(pend) /\ SameMcp(mcp)
  BY <1>1, AbortSoftens DEF Leave, CancellationSources
<1>3. /\ tracked' = tracked /\ input' = input /\ pub' = pub /\ handled' = handled
      /\ workFailure' = workFailure /\ fenceFailure' = fenceFailure /\ delivered' = delivered
      /\ aborted' = aborted /\ shutdowns' = shutdowns /\ fences' = fences /\ status' = status
      /\ lastGeneration' = lastGeneration
      /\ StartJoin("join", FALSE) /\ loop.pc = "poll" /\ IsShuttingDown
      /\ loop' = [Idle EXCEPT !.pc = "leaving"]
  BY DEF Leave, failureVars, runtimeVars
<1>4. /\ loop' \in LoopType /\ loop'.pc = "leaving" /\ ~loop'.admitted
      /\ join' \in JoinType /\ join'.pc # "waiting" /\ ~join'.rejected
  BY <1>3, LastJoin DEF Idle, LoopType, LoopPlaces
<1>5. status' \in DriverStatuses /\ IsShuttingDown'
  BY <1>1, <1>3 DEF RunTypeOK, IsShuttingDown
<1>6. Calm /\ Told
  BY <1>2, <1>3, <1>5, SilenceTells DEF Calm, DispatcherIndInv, LoopTypeOK
<1>7. LoopRests
  BY <1>3, <1>4, <1>6 DEF LoopRests, RestPlaces, DownPlaces
<1>8. LoopTypeOK'
  BY <1>3, <1>4, <1>6 DEF DispatcherIndInv, LoopTypeOK, Told, LoopType, JoinType
<1>9. ShutdownIsOrdered'
  BY <1>2, <1>3, <1>5 DEF DispatcherIndInv, ShutdownIsOrdered, SamePending
<1>10. BarrierHolds'
  BY <1>2, <1>3, <1>4, AdmittedBarrier
<1>11. LoopIsTrue'
  BY <1>4 DEF LoopIsTrue
<1> QED BY <1>7, <1>8, <1>9, <1>10, <1>11, RestHolds

Taken(j, source) ==
  /\ j \in JoinType /\ j.source = source /\ j.pc \in {"permissions", "waiting", "failed"}
  /\ j.pc = "waiting" => /\ j.run = IF input.pc = "none" THEN 0 ELSE input.revision
                         /\ j.mcp = Running(mcp)
                         /\ j.pending = IF source # "turn.cancel" /\ PendingInput
                                        THEN pend.cmd ELSE NoCommand
Snapped(j, source) == Taken(j, source) /\ ~j.rejected

(* What a join takes down is what is at work when it begins to wait.       *)
LEMMA SnapshotIs ==
  ASSUME DispatcherIndInv, NEW j \in JoinType
  PROVE  /\ Taken(Snapshot(j), j.source) /\ Snapshot(j).rejected = j.rejected
         /\ Snapshot(j).pc = IF fenceFailure THEN "failed" ELSE "waiting"
<1>1. input.revision \in Nat /\ pend.cmd \in Inputs \cup {NoCommand} /\ Running(mcp) \in SUBSET McpCommands
  BY DEF DispatcherIndInv, TaskTypeOK, Running
<1>2. CASE fenceFailure
  <2>1. Snapshot(j) = [j EXCEPT !.pc = "failed"]
    BY <1>2 DEF Snapshot
  <2> QED BY <1>2, <2>1 DEF Taken, JoinType
<1>3. CASE ~fenceFailure
  <2> DEFINE run == IF input.pc = "none" THEN 0 ELSE input.revision
             pending == IF j.source # "turn.cancel" /\ PendingInput THEN pend.cmd ELSE NoCommand
  <2>1. Snapshot(j) = [j EXCEPT !.pc = "waiting", !.run = run, !.pending = pending, !.mcp = Running(mcp)]
    BY <1>3 DEF Snapshot
  <2>2. run \in Nat /\ pending \in Inputs \cup {NoCommand}
    BY <1>1
  <2> HIDE DEF run, pending
  <2>3. /\ Snapshot(j) \in JoinType /\ Snapshot(j).rejected = j.rejected /\ Snapshot(j).source = j.source
        /\ Snapshot(j).pc = "waiting" /\ Snapshot(j).run = run /\ Snapshot(j).pending = pending
        /\ Snapshot(j).mcp = Running(mcp)
    BY <1>1, <2>1, <2>2 DEF JoinType
  <2> QED BY <1>3, <2>3 DEF Taken, run, pending
<1> QED BY <1>2, <1>3

LEMMA StartJoinIs ==
  ASSUME DispatcherIndInv, NEW source \in {"join", "turn.cancel", "session.stop"},
         NEW cancels \in BOOLEAN, StartJoin(source, cancels)
  PROVE  Snapped(join', source) /\ (source # "turn.cancel" => join'.pc = "permissions")
<1> DEFINE j == [NoJoin EXCEPT !.source = source, !.cancels = cancels]
<1>1. j \in JoinType /\ ~j.rejected /\ j.source = source
  BY DEF NoJoin, JoinType
<1>2. join' = IF source = "turn.cancel" /\ ~aborted THEN Snapshot(j) ELSE [j EXCEPT !.pc = "permissions"]
  BY DEF StartJoin
<1> HIDE DEF j
<1>3. [j EXCEPT !.pc = "permissions"] \in JoinType /\ [j EXCEPT !.pc = "permissions"].pc = "permissions"
      /\ ~[j EXCEPT !.pc = "permissions"].rejected /\ [j EXCEPT !.pc = "permissions"].source = source
  BY <1>1 DEF JoinType
<1>4. Snapped([j EXCEPT !.pc = "permissions"], source)
  BY <1>3 DEF Snapped, Taken
<1>5. Snapped(Snapshot(j), source)
  BY <1>1, SnapshotIs DEF Snapped
<1> QED BY <1>2, <1>3, <1>4, <1>5

(* CancelActiveWork marks the queued input and what runs.                  *)
LEMMA CancelIs ==
  ASSUME DispatcherIndInv, NEW source \in {"turn.cancel", "session.stop"}, CancelActiveWork(source)
  PROVE  /\ SameRun /\ SamePending(pend) /\ SameMcp(mcp)
         /\ pend.pc = "waiting" => pend'.cancellation # "none"
         /\ Snapped(join', source) /\ (source # "turn.cancel" => join'.pc = "permissions")
<1>1. RunTypeOK /\ pend \in PendType /\ mcp \in McpType /\ source \in CancellationSources
  BY DEF DispatcherIndInv, TaskTypeOK, PendType, McpType, CancellationSources
<1> DEFINE p == CancelPending(pend, source)
<1>2. /\ p \in PendType /\ p.pc = pend.pc /\ p.cmd = pend.cmd /\ p.rejected = pend.rejected
      /\ pend.cancellation # "none" => p.cancellation # "none"
      /\ pend.pc = "waiting" => p.cancellation # "none"
  BY <1>1, CancelPendingKeeps
<1>3. AbortActiveWork(source, p, mcp)
  BY DEF CancelActiveWork
<1> HIDE DEF p
<1>4. SameRun /\ SamePending(p) /\ SameMcp(mcp)
  BY <1>1, <1>2, <1>3, AbortSoftens
<1>5. SamePending(pend) /\ (pend.pc = "waiting" => pend'.cancellation # "none")
  BY <1>2, <1>4 DEF SamePending
<1>6. Snapped(join', source) /\ (source # "turn.cancel" => join'.pc = "permissions")
  BY StartJoinIs DEF CancelActiveWork
<1> QED BY <1>4, <1>5, <1>6

(* Loop steps that keep the run calm: what each has to show of itself.     *)
LEMMA CalmTyped ==
  ASSUME DispatcherIndInv, Calm, tracked' \in [Commands -> TrackedStates],
         UNCHANGED <<failureVars, aborted, shutdowns>>,
         loop' \in LoopType, join' \in JoinType
  PROVE  LoopTypeOK'
BY DEF DispatcherIndInv, LoopTypeOK, Calm, LoopType, JoinType, failureVars

LEMMA CalmOrdered ==
  ASSUME DispatcherIndInv, Calm, UNCHANGED <<failureVars, aborted, shutdowns>>,
         loop'.pc \in DownPlaces => IsShuttingDown'
  PROVE  ShutdownIsOrdered'
BY DEF DispatcherIndInv, ShutdownIsOrdered, Calm, SamePending, failureVars

(* A command is taken in.                                                  *)
TakesIn(c) ==
  /\ Calm
  /\ c \in Commands /\ tracked[c] = "unknown" /\ tracked' = [tracked EXCEPT ![c] = "none"]
  /\ loop.pc = "fetched" /\ loop.cmd = c
  /\ loop' = [loop EXCEPT !.pc = "accepting", !.admitted = Admits(c)]
  /\ c.kind = "mcp.execute" => c.run \notin fences
  /\ UNCHANGED <<runtimeVars, fences, failureVars, aborted, shutdowns, delivered>>
  /\ join' = NoJoin \/ Snapped(join', "turn.cancel")
  /\ c.kind = "turn.cancel" =>
       \/ /\ PendingInput /\ pend.cmd.run = c.run
          /\ pend.pc = "waiting" => pend'.cancellation # "none"
       \/ CurrentRunId = c.run /\ Snapped(join', "turn.cancel")

(* A new command is taken in.                                              *)
LEMMA HandleNewTakesIn ==
  ASSUME DispatcherIndInv, HandleNew
  PROVE  TakesIn(loop.cmd)
<1> DEFINE c == loop.cmd
<1>1. c \in Commands /\ tracked[c] = "unknown" /\ loop.pc = "fetched"
  BY DEF HandleNew, DispatcherIndInv, LoopIsTrue
<1>2. tracked' = [tracked EXCEPT ![c] = "none"] /\ loop' = [loop EXCEPT !.pc = "accepting", !.admitted = Admits(c)]
  BY DEF HandleNew
<1>3. UNCHANGED <<runtimeVars, input, pub, fences, failureVars, aborted, shutdowns, handled, delivered>>
  BY DEF HandleNew
<1>4. c.kind = "mcp.execute" => c.run \notin fences
  BY <1>1 DEF HandleNew, Granted, Admits
<1>5. c.kind = "turn.cancel" => (PendingInput /\ pend.cmd.run = c.run) \/ CurrentRunId = c.run
  BY <1>1 DEF HandleNew, Granted, Owned, Replay
<1>6. RunTypeOK /\ pend \in PendType /\ mcp \in McpType
  BY DEF DispatcherIndInv, TaskTypeOK, PendType, McpType
<1>7. SameRun /\ SamePending(pend) /\ SameMcp(mcp) => Calm
  BY <1>3 DEF Calm, IsShuttingDown, runtimeVars, DispatcherIndInv, RunTypeOK, LoopTypeOK
<1>8. CASE c.kind = "turn.cancel" /\ ~(PendingInput /\ pend.cmd.run = c.run)
  <2>1. CancelActiveWork("turn.cancel")
    BY <1>8 DEF HandleNew
  <2>2. SameRun /\ SamePending(pend) /\ SameMcp(mcp) /\ Snapped(join', "turn.cancel")
    BY <2>1, CancelIs
  <2> QED BY <1>1, <1>2, <1>3, <1>4, <1>5, <1>7, <1>8, <2>2 DEF TakesIn
<1>9. CASE ~(c.kind = "turn.cancel" /\ ~(PendingInput /\ pend.cmd.run = c.run))
  <2>1. /\ join' = NoJoin /\ UNCHANGED <<terminalVars, mcp>>
        /\ pend' = CASE c.kind = "turn.cancel"  -> CancelPending(pend, "turn.cancel")
                     [] c.kind = "session.stop" -> CancelPending(pend, "session.stop")
                     [] OTHER                   -> pend
    BY <1>9 DEF HandleNew
  <2>2. SameRun /\ SameMcp(mcp)
    BY <2>1, <1>6 DEF SameRun, SameMcp, RunTypeOK, terminalVars, machineVars, historyVars
  <2>3. SamePending(pend) /\ (c.kind = "turn.cancel" /\ pend.pc = "waiting" => pend'.cancellation # "none")
    <3>1. CASE c.kind \in {"turn.cancel", "session.stop"}
      <4>1. pend' = CancelPending(pend, c.kind)
        BY <2>1, <3>1
      <4> QED BY <1>6, <3>1, <4>1, CancelPendingKeeps DEF SamePending, CancellationSources
    <3>2. CASE c.kind \notin {"turn.cancel", "session.stop"}
      BY <1>6, <2>1, <3>2 DEF SamePending
    <3> QED BY <3>1, <3>2
  <2> QED BY <1>1, <1>2, <1>3, <1>4, <1>7, <1>9, <2>1, <2>2, <2>3 DEF TakesIn
<1> QED BY <1>8, <1>9

LEMMA TakenIn ==
  ASSUME DispatcherIndInv, NEW c, TakesIn(c)
  PROVE  /\ loop' \in LoopType /\ loop'.pc = "accepting" /\ loop'.cmd = c /\ loop'.admitted = Admits(c)
         /\ tracked' \in [Commands -> TrackedStates] /\ tracked'[c] = "none" /\ c \in Commands
         /\ \A d \in Commands : d # c => tracked'[d] = tracked[d]
         /\ c \in Inputs => /\ c \notin handled /\ (input.pc # "none" => input.cmd # c)
                            /\ (pend.pc # "none" => pend.cmd # c)
<1>1. loop \in LoopType /\ tracked \in [Commands -> TrackedStates] /\ Admits(c) \in BOOLEAN
      /\ "none" \in TrackedStates
  BY JoinTyped DEF DispatcherIndInv, LoopTypeOK, Admits, TrackedStates
<1>2. c \in Commands /\ tracked[c] = "unknown" /\ loop.cmd = c
  BY DEF TakesIn
<1>3. tracked' = [tracked EXCEPT ![c] = "none"] /\ loop' = [loop EXCEPT !.pc = "accepting", !.admitted = Admits(c)]
  BY DEF TakesIn
<1>4. loop' \in LoopType /\ loop'.pc = "accepting" /\ loop'.cmd = c /\ loop'.admitted = Admits(c)
  BY <1>1, <1>2, <1>3 DEF LoopType, LoopPlaces
<1>5. /\ tracked' \in [Commands -> TrackedStates] /\ tracked'[c] = "none"
      /\ \A d \in Commands : d # c => tracked'[d] = tracked[d]
  BY <1>1, <1>2, <1>3
<1>6. c \in Inputs => /\ c \notin handled /\ (input.pc # "none" => input.cmd # c)
                      /\ (pend.pc # "none" => pend.cmd # c)
  BY <1>2 DEF DispatcherIndInv, InputsAreKnown
<1> QED BY <1>2, <1>4, <1>5, <1>6

LEMMA TakesInKnown ==
  ASSUME DispatcherIndInv, NEW c, TakesIn(c)
  PROVE  InputsAreKnown'
<1>1. /\ loop'.cmd = c /\ tracked'[c] = "none" /\ c \in Commands
      /\ \A d \in Commands : d # c => tracked'[d] = tracked[d]
      /\ c \in Inputs => /\ c \notin handled /\ (input.pc # "none" => input.cmd # c)
                         /\ (pend.pc # "none" => pend.cmd # c)
  BY TakenIn
<1>2. /\ input' = input /\ handled' = handled /\ pend'.pc = pend.pc /\ pend'.cmd = pend.cmd
      /\ input.pc # "none" => input.cmd \in Inputs
      /\ pend.pc # "none" => pend.cmd \in Inputs
  BY DEF TakesIn, Calm, SamePending, DispatcherIndInv, ActiveIsInput
<1>3. /\ input.pc # "none" => tracked'[input.cmd] = tracked[input.cmd]
      /\ pend.pc # "none" => tracked'[pend.cmd] = tracked[pend.cmd]
  BY <1>1, <1>2, InputsNamed
<1>4. ASSUME NEW d \in Inputs
      PROVE  /\ tracked'[d] = "unknown" \/ Accepting(d)' =>
                  /\ d \notin handled' /\ (input'.pc # "none" => input'.cmd # d)
                  /\ (pend'.pc # "none" => pend'.cmd # d)
             /\ d \in handled' /\ tracked'[d] = "none" => input'.pc = "backend" /\ input'.cmd = d
  <2>1. CASE d = c
    BY <1>1, <1>2, <2>1
  <2>2. CASE d # c
    <3>1. tracked'[d] = tracked[d] /\ ~Accepting(d)'
      BY <1>1, <2>2, InputsNamed DEF Accepting
    <3> QED BY <1>2, <3>1 DEF DispatcherIndInv, InputsAreKnown
  <2> QED BY <2>1, <2>2
<1>5. InputsAreKnown
  BY DEF DispatcherIndInv
<1> QED BY <1>2, <1>3, <1>4, <1>5 DEF InputsAreKnown

LEMMA TakesInCancels ==
  ASSUME DispatcherIndInv, NEW c, TakesIn(c)
  PROVE  CancelsHold'
<1>1. /\ loop'.pc = "accepting" /\ loop'.cmd = c /\ tracked'[c] = "none" /\ c \in Commands
      /\ \A d \in Commands : d # c => tracked'[d] = tracked[d]
      /\ c \in Inputs => c \notin handled
  BY TakenIn
<1>2. /\ input' = input /\ handled' = handled /\ pend'.pc = pend.pc /\ pend'.cmd = pend.cmd
      /\ pend.cancellation # "none" => pend'.cancellation # "none"
  BY DEF TakesIn, Calm, SamePending
<1>3. ASSUME NEW d \in Inputs, Harmless(d) PROVE Harmless(d)'
  <2>1. d # c
    BY <1>3 DEF Harmless, TakesIn
  <2>2. tracked'[d] = tracked[d] /\ ~Accepting(d)'
    BY <1>1, <2>1, InputsNamed DEF Accepting
  <2> QED BY <1>2, <1>3, <2>2 DEF Harmless
<1>4. ASSUME NEW d \in Inputs, c.kind = "turn.cancel", c.run = d.run PROVE Harmless(d)' \/ Awaits(d)'
  <2>1. d # c /\ d \in Commands /\ tracked'[d] = tracked[d] /\ ~Accepting(d)' /\ d.run \in Runs
    BY <1>1, <1>4, InputsNamed DEF Accepting
  <2>2. CASE PendingInput /\ pend.cmd.run = c.run /\ (pend.pc = "waiting" => pend'.cancellation # "none")
    <3>1. pend.cmd = d /\ pend.pc # "none"
      BY <1>4, <2>2, InputsNamed DEF PendingInput, DispatcherIndInv, ActiveIsInput
    <3>2. tracked[d] # "unknown" /\ (tracked[d] = "none" => d \notin handled)
      BY <2>2, <3>1 DEF PendingInput, DispatcherIndInv, InputsAreKnown
    <3> QED BY <1>2, <2>1, <2>2, <3>1, <3>2 DEF Harmless
  <2>3. CASE CurrentRunId = c.run /\ Snapped(join', "turn.cancel")
    <3>1. activeRun # NullRun
      BY <1>4, <2>1, <2>3, NullIsNoRun, NoRunAssumption DEF CurrentRunId
    <3>2. input.pc \in LivePlaces /\ input.cmd = d
      BY <1>4, <2>3, <3>1, InputsNamed DEF DispatcherIndInv, ActiveIsInput, CurrentRunId, LivePlaces
    <3>3. CASE input.pc \in {"backend", "publishing"}
      BY <1>2, <2>3, <3>2, <3>3 DEF Awaits, Snapped, Taken
    <3>4. CASE input.pc \notin {"backend", "publishing"}
      <4>1. tracked[d] \notin {"unknown", "none"}
        BY <3>2, <3>4 DEF DispatcherIndInv, InputsAreKnown, LivePlaces
      <4> QED BY <2>1, <4>1 DEF Harmless
    <3> QED BY <3>3, <3>4
  <2> QED BY <1>4, <2>2, <2>3 DEF TakesIn
<1>5. \A x \in Commands : tracked'[x] = "completed" => tracked[x] = "completed"
  BY <1>1
<1> QED BY <1>1, <1>3, <1>4, <1>5 DEF DispatcherIndInv, CancelsHold

LEMMA HandleNewHolds ==
  ASSUME DispatcherIndInv, HandleNew
  PROVE  DispatcherIndInv'
<1> DEFINE c == loop.cmd
<1>1. TakesIn(c)
  BY HandleNewTakesIn
<1> HIDE DEF c
<1>2. /\ loop' \in LoopType /\ loop'.pc = "accepting" /\ loop'.cmd = c /\ loop'.admitted = Admits(c)
      /\ tracked' \in [Commands -> TrackedStates] /\ tracked'[c] = "none" /\ c \in Commands
      /\ \A d \in Commands : d # c => tracked'[d] = tracked[d]
  BY <1>1, TakenIn
<1>3. Calm /\ UNCHANGED <<failureVars, aborted, shutdowns>>
  BY <1>1 DEF TakesIn
<1>4. RunTypeOK' /\ TaskTypeOK' /\ ActiveIsInput' /\ InputsEnd' /\ McpIsOfTheRun'
  BY <1>3, CalmRun, CalmEnds
<1>5. join' \in JoinType /\ ~join'.rejected
  BY <1>1, NoJoinTyped DEF TakesIn, Snapped, Taken
<1>6. LoopTypeOK' /\ ShutdownIsOrdered'
  BY <1>2, <1>3, <1>5, CalmTyped, CalmOrdered DEF DownPlaces
<1>7. BarrierHolds'
  <2>1. loop'.admitted => loop'.cmd \in McpCommands /\ loop'.cmd.run \notin fences
    BY <1>1, <1>2 DEF TakesIn, Admits, McpCommands
  <2>2. SameRun /\ SameMcp(mcp) /\ pub' = pub /\ fences' = fences /\ loop.pc = "fetched"
    BY <1>1, <1>3 DEF TakesIn, Calm
  <2> QED BY <2>1, <2>2, AdmittedBarrier
<1>8. LoopIsTrue'
  BY <1>1, <1>2 DEF LoopIsTrue, TakesIn, Admits, McpCommands
<1>9. InputsAreKnown' /\ CancelsHold'
  BY <1>1, TakesInKnown, TakesInCancels
<1>10. VerdictMatchesTerminal'
  <2>1. \A d \in Inputs : tracked'[d] \in {"completed", "cancelled"} => tracked'[d] = tracked[d]
    BY <1>2, InputsNamed
  <2> QED BY <1>3, <2>1, VerdictsKept DEF Calm, SameRun
<1>11. StopsWait'
  <2>1. StopCompleted' => StopCompleted
    BY <1>2 DEF StopCompleted
  <2>2. ASSUME StopCompleted PROVE Quiet'
    <3>1. Quiet /\ IsShuttingDown'
      BY <1>3, <2>2 DEF DispatcherIndInv, StopsWait, Quiet, Calm
    <3>2. /\ \A m \in McpCommands : mcp'[m].pc # "none" => mcp[m].pc # "none"
          /\ pend'.pc = pend.pc /\ input' = input /\ fenceFailure' = fenceFailure
      BY <1>3 DEF Calm, SameMcp, SamePending, failureVars
    <3>3. \/ join'.pc # "waiting"
          \/ join'.run = 0 /\ join'.pending = NoCommand /\ join'.mcp = {}
      BY <1>1, <3>1, NoJoinTyped DEF TakesIn, Snapped, Taken, Quiet
    <3> QED BY <1>5, <3>1, <3>2, <3>3, QuietKept DEF Quiet
  <2>3. StopCompleted => /\ shutdowns' # << >> /\ shutdowns'[Len(shutdowns')] = "ok"
                         /\ instanceTerminal'.phase = "acked"
    BY <1>3 DEF DispatcherIndInv, StopsWait, Calm, SameRun
  <2> QED BY <1>2, <2>1, <2>2, <2>3 DEF StopsWait, Stopping
<1> QED BY <1>4, <1>6, <1>7, <1>8, <1>9, <1>10, <1>11 DEF DispatcherIndInv

(* A calm step that tells no verdict on an input.                          *)
LEMMA CalmKnown ==
  ASSUME DispatcherIndInv, Calm, Told, NobodyAccepted, \A c \in Inputs : tracked'[c] = tracked[c]
  PROVE  /\ RunTypeOK' /\ TaskTypeOK' /\ ActiveIsInput' /\ InputsEnd' /\ McpIsOfTheRun'
         /\ InputsAreKnown' /\ VerdictMatchesTerminal'
         /\ \A d \in Inputs : Harmless(d) => Harmless(d)'
<1>1. /\ input' = input /\ handled' = handled /\ pend'.pc = pend.pc /\ pend'.cmd = pend.cmd
      /\ pend.cancellation # "none" => pend'.cancellation # "none"
  BY DEF Calm, SamePending
<1>2. RunTypeOK' /\ TaskTypeOK' /\ ActiveIsInput' /\ InputsEnd' /\ McpIsOfTheRun'
  BY CalmRun, CalmEnds
<1>3. InputsAreKnown'
  <2>1. pend.pc = "waiting" => tracked'[pend.cmd] = tracked[pend.cmd]
    BY DEF DispatcherIndInv, ActiveIsInput
  <2> QED BY <1>1, <2>1, KnownKept
<1>4. VerdictMatchesTerminal'
  BY VerdictsKept DEF Calm, SameRun
<1>5. ASSUME NEW d \in Inputs, Harmless(d) PROVE Harmless(d)'
  BY <1>1, <1>5, HarmlessKept
<1> QED BY <1>2, <1>3, <1>4, <1>5

(* A stop is taken up: it begins to wait.                                  *)
LEMMA AcceptedStopHolds ==
  ASSUME DispatcherIndInv, AcceptedStop
  PROVE  DispatcherIndInv'
<1>1. /\ loop.pc = "accepting" /\ loop.cmd.kind = "session.stop" /\ loop.cmd \in Commands
      /\ loop' = [loop EXCEPT !.pc = "cancelling"] /\ loop \in LoopType /\ ~loop.admitted
  BY InputsNamed, JoinTyped DEF AcceptedStop, DispatcherIndInv, LoopIsTrue
<1>2. UNCHANGED <<tracked, input, pub, fences, mcpFailures, failureVars, aborted, shutdowns,
                  handled, delivered>>
  BY DEF AcceptedStop
<1>3. /\ SameRun /\ SamePending(pend) /\ SameMcp(mcp)
      /\ pend.pc = "waiting" => pend'.cancellation # "none"
      /\ Snapped(join', "session.stop") /\ join'.pc = "permissions"
  BY CancelIs DEF AcceptedStop
<1>4. status' = "stopping" /\ lastGeneration' = lastGeneration
  BY DEF AcceptedStop, SetStatus
<1>5. status' \in DriverStatuses /\ IsShuttingDown'
  BY <1>4 DEF DriverStatuses, IsShuttingDown, ShuttingDown
<1>6. Calm
  BY <1>2, <1>3, <1>4, <1>5 DEF Calm, DispatcherIndInv, LoopTypeOK
<1>7. /\ loop' \in LoopType /\ loop'.pc = "cancelling" /\ ~loop'.admitted /\ loop'.cmd = loop.cmd
  BY <1>1 DEF LoopType, LoopPlaces
<1>8. Told /\ NobodyAccepted /\ tracked' \in [Commands -> TrackedStates]
  BY <1>2, <1>7, SilenceTells DEF NobodyAccepted, Accepting, Told
<1>9. join' \in JoinType /\ ~join'.rejected /\ join'.source = "session.stop"
  BY <1>3 DEF Snapped, Taken
<1>10. LoopTypeOK' /\ ShutdownIsOrdered'
  BY <1>2, <1>5, <1>6, <1>7, <1>8, <1>9, CalmTyped, CalmOrdered
<1>11. BarrierHolds'
  BY <1>1, <1>2, <1>3, <1>7, AdmittedBarrier
<1>12. LoopIsTrue'
  BY <1>1, <1>7 DEF LoopIsTrue
<1>13. /\ RunTypeOK' /\ TaskTypeOK' /\ ActiveIsInput' /\ InputsEnd' /\ McpIsOfTheRun'
       /\ InputsAreKnown' /\ VerdictMatchesTerminal'
       /\ \A d \in Inputs : Harmless(d) => Harmless(d)'
  BY <1>2, <1>6, <1>8, CalmKnown
<1>14. CancelsHold'
  BY <1>1, <1>2, <1>7, <1>13 DEF DispatcherIndInv, CancelsHold
<1>15. StopsWait'
  <2>1. StopCompleted' = StopCompleted
    BY <1>2 DEF StopCompleted
  <2>2. ASSUME StopCompleted PROVE Quiet'
    <3>1. Quiet /\ fenceFailure' = fenceFailure
      BY <1>2, <2>2 DEF DispatcherIndInv, StopsWait, failureVars
    <3>2. /\ \A m \in McpCommands : mcp'[m].pc # "none" => mcp[m].pc # "none"
          /\ pend'.pc = pend.pc
      BY <1>3 DEF SameMcp, SamePending
    <3> QED BY <1>2, <1>3, <1>5, <1>9, <3>1, <3>2, QuietKept DEF Quiet
  <2>3. StopCompleted => /\ shutdowns' # << >> /\ shutdowns'[Len(shutdowns')] = "ok"
                         /\ instanceTerminal'.phase = "acked"
    BY <1>2, <1>3 DEF DispatcherIndInv, StopsWait, SameRun
  <2>4. pend'.pc = "waiting" => pend'.cancellation # "none"
    BY <1>3 DEF SamePending
  <2> QED BY <1>3, <1>5, <1>7, <1>9, <2>1, <2>2, <2>3, <2>4 DEF StopsWait
<1> QED BY <1>10, <1>11, <1>12, <1>13, <1>14, <1>15 DEF DispatcherIndInv

(* A cancellation that has nothing to await any more, or a permission, is  *)
(* completed.                                                              *)
LEMMA CompletesHolds ==
  ASSUME DispatcherIndInv, Unmoved, delivered' = delivered, loop.cmd \in Commands,
         loop.pc \in {"accepting", "cancelling"}, loop.cmd.kind \in {"permission.resolve", "turn.cancel"},
         FinishLoopCommand, join' \in JoinType,
         (join'.pc # "waiting" /\ ~join'.rejected) \/ join' = join,
         loop.cmd.kind = "turn.cancel" => join.pc \in {"idle", "ok"}
  PROVE  DispatcherIndInv'
<1> DEFINE c == loop.cmd
<1>1. /\ loop' \in LoopType /\ loop'.pc = "finishing" /\ loop'.admitted = loop.admitted
      /\ loop'.cmd = c
  BY JoinTyped DEF FinishLoopCommand, LoopType, LoopPlaces
<1>2. /\ Told
      /\ \A d \in Commands : tracked'[d] # tracked[d] => d = c /\ tracked'[d] = "completed"
  BY FinishTells DEF FinishLoopCommand, Statuses
<1>3. Calm /\ delivered \subseteq Commands
  BY UnmovedIsCalm DEF DispatcherIndInv, LoopTypeOK
<1>4. NobodyAccepted /\ tracked' \in [Commands -> TrackedStates]
  BY <1>1, <1>2 DEF NobodyAccepted, Accepting, Told
<1>5. UNCHANGED <<failureVars, aborted, shutdowns, fences, pub, mcp, pend, input, handled>> /\ status' = status
  BY DEF Unmoved, taskVars, runtimeVars
<1>6. LoopTypeOK' /\ ShutdownIsOrdered'
  BY <1>1, <1>3, <1>4, <1>5, CalmTyped, CalmOrdered DEF DownPlaces
<1>7. loop.admitted => loop.cmd \in McpCommands /\ HasWork(loop.cmd.run)
  BY DEF DispatcherIndInv, LoopIsTrue, HasWork, Admission
<1>8. BarrierHolds'
  BY <1>1, <1>3, <1>5, <1>7, AdmittedBarrier DEF Calm
<1>9. LoopIsTrue'
  BY <1>1, <1>7 DEF LoopIsTrue
<1>10. \A d \in Inputs : tracked'[d] = tracked[d]
  BY <1>2, InputsNamed
<1>11. /\ RunTypeOK' /\ TaskTypeOK' /\ ActiveIsInput' /\ InputsEnd' /\ McpIsOfTheRun'
       /\ InputsAreKnown' /\ VerdictMatchesTerminal'
       /\ \A d \in Inputs : Harmless(d) => Harmless(d)'
  BY <1>2, <1>3, <1>4, <1>10, CalmKnown
<1>12. CancelsHold'
  <2>1. ASSUME NEW d \in Inputs, c.kind = "turn.cancel", c.run = d.run PROVE Harmless(d)
    BY <2>1 DEF DispatcherIndInv, CancelsHold, Awaits
  <2>2. \A x \in Commands, d \in Inputs :
          x.kind = "turn.cancel" /\ tracked[x] = "completed" /\ x.run = d.run => Harmless(d)
    BY DEF DispatcherIndInv, CancelsHold
  <2>3. \A x \in Commands, d \in Inputs :
          x.kind = "turn.cancel" /\ tracked'[x] = "completed" /\ x.run = d.run => Harmless(d)
    BY <1>2, <2>1, <2>2
  <2> QED BY <1>1, <1>11, <2>3 DEF CancelsHold
<1>13. StopsWait'
  <2>1. StopCompleted' => StopCompleted
    BY <1>2 DEF StopCompleted
  <2>2. ASSUME StopCompleted PROVE Quiet'
    <3>1. Quiet /\ fenceFailure' = fenceFailure /\ IsShuttingDown' = IsShuttingDown
      BY <1>5, <2>2 DEF DispatcherIndInv, StopsWait, failureVars, IsShuttingDown
    <3> QED BY <1>5, <3>1, QuietKept DEF Quiet
  <2>3. StopCompleted => /\ shutdowns' # << >> /\ shutdowns'[Len(shutdowns')] = "ok"
                         /\ instanceTerminal'.phase = "acked"
    BY <1>3, <1>5 DEF DispatcherIndInv, StopsWait, Calm, SameRun
  <2> QED BY <1>1, <2>1, <2>2, <2>3 DEF StopsWait, Stopping
<1> QED BY <1>6, <1>8, <1>9, <1>11, <1>12, <1>13 DEF DispatcherIndInv

LEMMA AcceptedOtherHolds ==
  ASSUME DispatcherIndInv, AcceptedOther
  PROVE  DispatcherIndInv'
<1>1. /\ loop.pc = "accepting" /\ loop.cmd \in Commands /\ loop \in LoopType /\ join \in JoinType
      /\ loop.cmd.kind \in {"permission.resolve", "turn.cancel"}
  BY JoinTyped DEF AcceptedOther, DispatcherIndInv, LoopIsTrue
<1>2. Unmoved /\ join' = join /\ delivered' = delivered
  BY DEF AcceptedOther, Unmoved
<1>3. CASE AwaitsCancellation(loop.cmd)
  <2>1. loop' = [loop EXCEPT !.pc = "cancelling"] /\ tracked' = tracked /\ loop.cmd.kind = "turn.cancel"
    BY <1>3 DEF AcceptedOther, AwaitsCancellation
  <2>2. /\ loop' \in LoopType /\ loop'.pc = "cancelling" /\ loop'.admitted = loop.admitted
        /\ loop'.cmd = loop.cmd
    BY <1>1, <2>1 DEF LoopType, LoopPlaces
  <2>3. Calm /\ delivered \subseteq Commands
    BY <1>2, UnmovedIsCalm DEF DispatcherIndInv, LoopTypeOK
  <2>4. Told /\ NobodyAccepted /\ tracked' \in [Commands -> TrackedStates]
    BY <2>1, <2>2, SilenceTells DEF NobodyAccepted, Accepting, Told
  <2>5. UNCHANGED <<failureVars, aborted, shutdowns, fences, pub, mcp, pend, input, handled>> /\ status' = status
    BY <1>2 DEF Unmoved, taskVars, runtimeVars
  <2>6. LoopTypeOK' /\ ShutdownIsOrdered'
    BY <1>1, <1>2, <2>2, <2>3, <2>4, <2>5, CalmTyped, CalmOrdered DEF DownPlaces
  <2>7. loop.admitted => loop.cmd \in McpCommands /\ HasWork(loop.cmd.run)
    BY DEF DispatcherIndInv, LoopIsTrue, HasWork, Admission
  <2>8. BarrierHolds'
    BY <1>1, <2>2, <2>3, <2>5, <2>7, AdmittedBarrier DEF Calm
  <2>9. LoopIsTrue'
    BY <1>1, <2>1, <2>2, <2>7 DEF LoopIsTrue
  <2>10. /\ RunTypeOK' /\ TaskTypeOK' /\ ActiveIsInput' /\ InputsEnd' /\ McpIsOfTheRun'
         /\ InputsAreKnown' /\ VerdictMatchesTerminal'
         /\ \A d \in Inputs : Harmless(d) => Harmless(d)'
    BY <2>1, <2>3, <2>4, CalmKnown
  <2>11. \A d \in Inputs : Awaits(d)' = Awaits(d)
    BY <1>2, <2>5 DEF Awaits
  <2>12. CancelsHold'
    <3>1. ASSUME NEW d \in Inputs, loop.cmd.run = d.run PROVE Harmless(d)' \/ Awaits(d)'
      BY <1>1, <2>1, <2>10, <2>11, <3>1 DEF DispatcherIndInv, CancelsHold
    <3>2. ASSUME NEW x \in Commands, NEW d \in Inputs,
                 x.kind = "turn.cancel", tracked[x] = "completed", x.run = d.run PROVE Harmless(d)'
      BY <2>10, <3>2 DEF DispatcherIndInv, CancelsHold
    <3> QED BY <2>1, <2>2, <3>1, <3>2 DEF CancelsHold
  <2>13. StopsWait'
    <3>1. StopCompleted' = StopCompleted /\ Quiet' = Quiet
      BY <1>2, <2>1, <2>5 DEF StopCompleted, Quiet, Running, IsShuttingDown, failureVars
    <3>2. StopCompleted => /\ shutdowns' # << >> /\ shutdowns'[Len(shutdowns')] = "ok"
                           /\ instanceTerminal'.phase = "acked"
      BY <2>3, <2>5 DEF DispatcherIndInv, StopsWait, Calm, SameRun
    <3> QED BY <2>1, <2>2, <3>1, <3>2 DEF StopsWait, Stopping, DispatcherIndInv
  <2> QED BY <2>6, <2>8, <2>9, <2>10, <2>12, <2>13 DEF DispatcherIndInv
<1>4. CASE ~AwaitsCancellation(loop.cmd)
  <2>1. FinishLoopCommand /\ (loop.cmd.kind = "turn.cancel" => join.pc = "idle")
    BY <1>4 DEF AcceptedOther, AwaitsCancellation
  <2> QED BY <1>1, <1>2, <2>1, CompletesHolds
<1> QED BY <1>3, <1>4

(* A stop has waited: all is quiet, and the driver shuts down.             *)
LEMMA CancelledHolds ==
  ASSUME DispatcherIndInv, Cancelled
  PROVE  DispatcherIndInv'
<1>1. /\ loop.pc = "cancelling" /\ join.pc = "ok" /\ join' = NoJoin
      /\ loop.cmd \in Commands /\ loop \in LoopType
      /\ loop.cmd.kind \in {"turn.cancel", "session.stop"}
      /\ UNCHANGED <<input, pub, fences, mcpFailures, failureVars, handled, delivered>>
  BY JoinTyped DEF Cancelled, DispatcherIndInv, LoopIsTrue
<1>2. CASE loop.cmd.kind = "turn.cancel"
  <2>1. Unmoved /\ FinishLoopCommand
    BY <1>1, <1>2 DEF Cancelled, Unmoved, taskVars
  <2> QED BY <1>1, <1>2, <2>1, NoJoinTyped, CompletesHolds
<1>3. CASE loop.cmd.kind = "session.stop"
  <2>1. /\ Shutdown(status, pend, mcp) /\ tracked' = tracked
        /\ loop' = [loop EXCEPT !.pc = "shutdown", !.attempt = ShutdownAttempt]
    BY <1>1, <1>3 DEF Cancelled
  <2>2. RunTypeOK /\ LoopTypeOK /\ ShutdownIsOrdered /\ pend \in PendType /\ mcp \in McpType
    BY DEF DispatcherIndInv, TaskTypeOK, PendType, McpType
  <2>3. SameRun /\ SamePending(pend) /\ SameMcp(mcp) /\ ShutdownAsked
    BY <2>1, <2>2, ShutdownSoftens
  <2>4. /\ loop' \in LoopType /\ loop'.pc = "shutdown" /\ loop'.admitted = loop.admitted
        /\ loop'.cmd = loop.cmd /\ loop'.attempt = ShutdownAttempt
    BY <1>1, <2>1, AttemptTyped DEF LoopType, LoopPlaces
  <2>5. Calm /\ Told /\ NobodyAccepted
    BY <1>1, <2>1, <2>2, <2>3, <2>4, SilenceTells
    DEF Calm, ShutdownAsked, LoopTypeOK, NobodyAccepted, Accepting
  <2>6. LoopTypeOK'
    BY <1>1, <2>2, <2>3, <2>4, <2>5, NoJoinTyped
    DEF LoopTypeOK, Told, LoopType, JoinType, ShutdownAsked, failureVars
  <2>7. ShutdownIsOrdered'
    BY <1>1, <2>2, <2>3 DEF ShutdownIsOrdered, SamePending, ShutdownAsked, failureVars
  <2>8. ~loop.admitted
    BY <1>3, InputsNamed DEF DispatcherIndInv, LoopIsTrue
  <2>9. BarrierHolds'
    BY <1>1, <2>3, <2>4, <2>8, AdmittedBarrier
  <2>10. LoopIsTrue'
    BY <1>1, <1>3, <2>4, <2>8 DEF LoopIsTrue
  <2>11. /\ RunTypeOK' /\ TaskTypeOK' /\ ActiveIsInput' /\ InputsEnd' /\ McpIsOfTheRun'
         /\ InputsAreKnown' /\ VerdictMatchesTerminal'
         /\ \A d \in Inputs : Harmless(d) => Harmless(d)'
    BY <2>1, <2>5, CalmKnown
  <2>12. CancelsHold'
    BY <2>1, <2>4, <2>11 DEF DispatcherIndInv, CancelsHold
  <2>13. StopsWait'
    <3>1. Quiet
      BY <1>1, <1>3 DEF DispatcherIndInv, StopsWait, Stopping
    <3>2. Quiet'
      <4>1. /\ \A m \in McpCommands : mcp'[m].pc # "none" => mcp[m].pc # "none"
            /\ pend'.pc = pend.pc /\ fenceFailure' = fenceFailure /\ IsShuttingDown'
        BY <1>1, <2>3 DEF SameMcp, SamePending, ShutdownAsked, failureVars
      <4> QED BY <1>1, <3>1, <4>1, NoJoinTyped, QuietKept DEF Quiet
    <3>3. StopCompleted' = StopCompleted
      BY <2>1 DEF StopCompleted
    <3>4. StopCompleted => /\ shutdowns' # << >> /\ shutdowns'[Len(shutdowns')] = "ok"
                           /\ instanceTerminal'.phase = "acked"
      BY <2>3 DEF DispatcherIndInv, StopsWait, ShutdownAsked, SameRun
    <3>5. loop'.attempt \in 1..Len(shutdowns')
      BY <2>3, <2>4 DEF ShutdownAsked
    <3> QED BY <2>4, <3>2, <3>3, <3>4, <3>5 DEF StopsWait, Stopping
  <2> QED BY <2>6, <2>7, <2>9, <2>10, <2>11, <2>12, <2>13 DEF DispatcherIndInv
<1> QED BY <1>1, <1>2, <1>3

(* The end of the instance is selected and reported after that.            *)
EndsInstance ==
  /\ SameRun
  /\ UNCHANGED <<lastGeneration, taskVars, join, failureVars, aborted, shutdowns, handled, delivered>>
  /\ status' \in DriverStatuses /\ (IsShuttingDown => IsShuttingDown')
  /\ loop.cmd \in Commands /\ loop.cmd.kind = "session.stop" /\ ~loop.admitted
  /\ loop' \in LoopType /\ loop'.cmd = loop.cmd /\ ~loop'.admitted /\ loop'.pc \in {"terminal", "finishing"}
  /\ loop.pc \in {"shutdown", "terminal"}
  /\ Told /\ (\A c \in Commands : tracked'[c] # tracked[c] => c = loop.cmd)

(* The end of the instance: the stop is reported, or the loop leaves.      *)
LEMMA EndsInstanceHolds ==
  ASSUME DispatcherIndInv, EndsInstance, shutdowns # << >>, shutdowns[Len(shutdowns)] = "ok",
         StopCompleted' => instanceTerminal'.phase = "acked"
  PROVE  DispatcherIndInv'
<1>1. SamePending(pend) /\ SameMcp(mcp)
  BY DEF EndsInstance, taskVars, SamePending, SameMcp, DispatcherIndInv, TaskTypeOK, PendType, McpType
<1>2. Calm
  BY <1>1 DEF EndsInstance, Calm, taskVars, DispatcherIndInv, LoopTypeOK
<1>3. Told /\ NobodyAccepted /\ tracked' \in [Commands -> TrackedStates]
  BY DEF EndsInstance, NobodyAccepted, Accepting, Told
<1>4. \A c \in Inputs : tracked'[c] = tracked[c]
  BY InputsNamed DEF EndsInstance
<1>5. /\ RunTypeOK' /\ TaskTypeOK' /\ ActiveIsInput' /\ InputsEnd' /\ McpIsOfTheRun'
      /\ InputsAreKnown' /\ VerdictMatchesTerminal'
      /\ \A d \in Inputs : Harmless(d) => Harmless(d)'
  BY <1>2, <1>3, <1>4, CalmKnown
<1>6. LoopTypeOK' /\ ShutdownIsOrdered'
  BY <1>2, <1>3, JoinTyped, CalmTyped, CalmOrdered DEF EndsInstance, DownPlaces
<1>7. BarrierHolds'
  BY <1>1, AdmittedBarrier DEF EndsInstance, taskVars
<1>8. LoopIsTrue'
  BY DEF EndsInstance, LoopIsTrue
<1>9. CancelsHold'
  <2>1. \A x \in Commands : x.kind = "turn.cancel" => tracked'[x] = tracked[x]
    BY DEF EndsInstance
  <2>2. loop'.pc \notin {"accepting", "cancelling"}
    BY DEF EndsInstance
  <2> QED BY <1>5, <2>1, <2>2 DEF DispatcherIndInv, CancelsHold
<1>10. StopsWait'
  <2>1. Quiet'
    <3>1. Quiet
      BY DEF DispatcherIndInv, StopsWait, EndsInstance
    <3>2. IsShuttingDown' /\ UNCHANGED <<input, mcp, pend, fenceFailure, join>>
      BY <3>1 DEF Quiet, EndsInstance, taskVars, failureVars
    <3> QED BY <3>1, <3>2, QuietKept DEF Quiet
  <2>2. shutdowns' = shutdowns
    BY DEF EndsInstance
  <2> QED BY <2>1, <2>2 DEF StopsWait, Stopping, EndsInstance
<1> QED BY <1>5, <1>6, <1>7, <1>8, <1>9, <1>10 DEF DispatcherIndInv

LEMMA StopShutDownHolds ==
  ASSUME DispatcherIndInv, StopShutDown
  PROVE  DispatcherIndInv'
<1>1. /\ loop.pc = "shutdown" /\ loop.cmd \in Commands /\ loop.cmd.kind = "session.stop"
      /\ ~loop.admitted /\ loop \in LoopType
      /\ loop' = [loop EXCEPT !.pc = "terminal"] /\ tracked' = tracked
  BY InputsNamed, JoinTyped DEF StopShutDown, DispatcherIndInv, LoopIsTrue
<1>2. shutdowns # << >> /\ shutdowns[Len(shutdowns)] = "ok"
  <2>1. loop.attempt \in 1..Len(shutdowns) /\ shutdowns[loop.attempt] = "ok" /\ shutdowns \in Seq(Outcomes)
    BY <1>1 DEF StopShutDown, ShutdownOutcome, DispatcherIndInv, StopsWait, LoopTypeOK
  <2>2. ~(loop.attempt < Len(shutdowns))
    BY <2>1 DEF DispatcherIndInv, ShutdownIsOrdered
  <2>3. Len(shutdowns) \in Nat
    BY <2>1
  <2>4. loop.attempt = Len(shutdowns)
    BY <2>1, <2>2, <2>3
  <2> QED BY <2>1, <2>3, <2>4
<1>3. instanceTerminal.phase = "open" /\ instanceTerminal'.phase = "selected"
  BY DEF StopShutDown, SelectInstanceTerminal
<1>4. UNCHANGED <<activeRun, revision, published>>
  BY DEF StopShutDown, SelectInstanceTerminal, historyVars
<1>5. SameRun
  BY <1>3, <1>4 DEF SameRun, DispatcherIndInv, RunTypeOK
<1>6. loop' \in LoopType /\ loop'.pc = "terminal" /\ loop'.cmd = loop.cmd /\ ~loop'.admitted
  BY <1>1 DEF LoopType, LoopPlaces
<1>7. UNCHANGED <<lastGeneration, taskVars, join, failureVars, aborted, shutdowns, handled, delivered>>
      /\ status' = status /\ status \in DriverStatuses
  BY DEF StopShutDown, runtimeVars, DispatcherIndInv, RunTypeOK
<1>8. EndsInstance
  BY <1>1, <1>5, <1>6, <1>7, SilenceTells DEF EndsInstance, IsShuttingDown
<1>9. ~StopCompleted'
  BY <1>1, <1>3 DEF StopCompleted, DispatcherIndInv, StopsWait
<1> QED BY <1>2, <1>8, <1>9, EndsInstanceHolds

LEMMA StopReportedHolds ==
  ASSUME DispatcherIndInv, StopReported
  PROVE  DispatcherIndInv'
<1>1. /\ loop.pc = "terminal" /\ loop.cmd \in Commands /\ loop.cmd.kind = "session.stop"
      /\ ~loop.admitted /\ loop \in LoopType
      /\ loop' = [loop EXCEPT !.pc = "finishing"] /\ FinishCommand(loop.cmd, "completed")
  BY InputsNamed, JoinTyped DEF StopReported, FinishLoopCommand, DispatcherIndInv, LoopIsTrue
<1>2. shutdowns # << >> /\ shutdowns[Len(shutdowns)] = "ok"
  BY <1>1 DEF DispatcherIndInv, StopsWait
<1>3. instanceTerminal'.phase = "acked" /\ UNCHANGED <<activeRun, revision, published>>
  BY DEF StopReported, AckInstanceTerminal, historyVars
<1>4. SameRun
  BY <1>3 DEF SameRun, DispatcherIndInv, RunTypeOK
<1>5. loop' \in LoopType /\ loop'.pc = "finishing" /\ loop'.cmd = loop.cmd /\ ~loop'.admitted
  BY <1>1 DEF LoopType, LoopPlaces
<1>6. UNCHANGED <<lastGeneration, taskVars, join, failureVars, aborted, shutdowns, handled, delivered>>
  BY DEF StopReported, SetStatus
<1>7. status' \in DriverStatuses /\ (IsShuttingDown => IsShuttingDown')
  BY DEF StopReported, SetStatus, DispatcherIndInv, RunTypeOK, IsShuttingDown, ShuttingDown, DriverStatuses
<1>8. Told /\ \A c \in Commands : tracked'[c] # tracked[c] => c = loop.cmd
  BY <1>1, FinishTells DEF Statuses
<1>9. EndsInstance
  BY <1>1, <1>4, <1>5, <1>6, <1>7, <1>8 DEF EndsInstance
<1> QED BY <1>2, <1>3, <1>9, EndsInstanceHolds

(* An input starts: its run is the one that is driven.                     *)
InputType == [pc : InputPlaces, cmd : Inputs \cup {NoCommand}, revision : Nat, generation : Int,
              cancellation : Cancellations, attempt : Nat]
Starts(c, cancellation) ==
  /\ activeRun' \in DrivenRun /\ activeRun'.runId = c.run /\ activeRun'.revision = revision'
  /\ activeRun'.terminal = Null
  /\ revision' \in Nat /\ revision' # 0
  /\ published' = published /\ instanceTerminal' = instanceTerminal
  /\ status' \in DriverStatuses /\ (IsShuttingDown => IsShuttingDown') /\ lastGeneration' \in Nat
  /\ input' \in InputType /\ input'.cmd = c /\ input'.revision = revision'
  /\ input'.pc = IF cancellation = "none" THEN "backend" ELSE "publishing"
  /\ handled' = IF cancellation = "none" THEN handled \cup {c} ELSE handled

(* #startInput, on either of its ways.                                     *)
LEMMA StartInputStarts ==
  ASSUME DispatcherIndInv, NEW c \in Inputs, NEW cancellation \in Cancellations,
         StartInput(c, cancellation)
  PROVE  Starts(c, cancellation)
<1>1. revision \in Nat /\ lastGeneration \in Nat /\ c.run \in Runs /\ status \in DriverStatuses
  BY InputsNamed DEF DispatcherIndInv, RunTypeOK
<1>2. PICK claim \in ClaimStates :
        /\ activeRun' = [runId |-> c.run, revision |-> revision + 1, claim |-> claim, terminal |-> Null]
        /\ revision' = revision + 1 /\ published' = published /\ instanceTerminal' = instanceTerminal
  <2>1. CASE cancellation = "none"
    BY <2>1 DEF StartInput, BeginRun, ClaimStates
  <2>2. CASE cancellation # "none"
    BY <2>2 DEF StartInput, BeginCancelledRun, ClaimStates
  <2> QED BY <2>1, <2>2
<1>3. activeRun' \in DrivenRun /\ activeRun'.runId = c.run /\ activeRun'.revision = revision'
      /\ activeRun'.terminal = Null
  BY <1>1, <1>2 DEF DrivenRun, SentTerminal
<1>4. /\ status' \in DriverStatuses /\ (IsShuttingDown => IsShuttingDown') /\ lastGeneration' \in Nat
  <2>1. CASE status = "stopping"
    BY <1>1, <2>1 DEF StartInput, runtimeVars, IsShuttingDown
  <2>2. CASE status # "stopping"
    <3>1. EnterRun
      BY <2>2 DEF StartInput
    <3>2. status' = "running" /\ lastGeneration' = lastGeneration + 1 /\ MayEnter(status, "running")
      BY <3>1 DEF EnterRun
    <3>3. ~IsShuttingDown
      BY <2>2, <3>2 DEF MayEnter, Transitions, IsShuttingDown, ShuttingDown
    <3> QED BY <1>1, <3>2, <3>3 DEF DriverStatuses
  <2> QED BY <2>1, <2>2
<1>5. PICK generation \in Int :
        input' = [pc |-> IF cancellation = "none" THEN "backend" ELSE "publishing", cmd |-> c,
                  revision |-> revision + 1, generation |-> generation,
                  cancellation |-> cancellation, attempt |-> 0]
  <2>1. lastGeneration + 1 \in Int /\ 0 \in Int
    BY <1>1
  <2> QED BY <2>1 DEF StartInput, FirstStepOf
<1>6. /\ input' \in InputType /\ input'.cmd = c /\ input'.revision = revision'
      /\ input'.pc = IF cancellation = "none" THEN "backend" ELSE "publishing"
  BY <1>1, <1>2, <1>5 DEF InputType, InputPlaces
<1>7. handled' = IF cancellation = "none" THEN handled \cup {c} ELSE handled
  BY DEF StartInput, FirstStepOf
<1>8. revision' \in Nat /\ revision' # 0
  BY <1>1, <1>2
<1> QED BY <1>2, <1>3, <1>4, <1>6, <1>7, <1>8 DEF Starts

(* It starts when nothing of an earlier run is left.                       *)
LEMMA StartsAlone ==
  ASSUME DispatcherIndInv, input.pc = "none"
  PROVE  /\ activeRun = NullRun /\ pub.pc = "idle"
         /\ \A d \in handled : tracked[d] # "none" /\ (IsOver(d) \/ aborted)
         /\ Running(mcp) # {} => IsShuttingDown
         /\ \A d \in Inputs : ~Awaits(d)
<1>1. activeRun = NullRun /\ pub.pc = "idle"
  BY DEF DispatcherIndInv, ActiveIsInput, LivePlaces
<1>2. \A d \in handled : tracked[d] # "none" /\ (IsOver(d) \/ aborted)
  BY DEF DispatcherIndInv, InputsAreKnown, InputsEnd, LoopTypeOK
<1>3. ASSUME NEW m \in Running(mcp) PROVE IsShuttingDown
  <2>1. m.run # activeRun.runId
    BY <1>1, InputsNamed, NullIsNoRun, NoRunAssumption DEF Running
  <2> QED BY <2>1 DEF DispatcherIndInv, McpIsOfTheRun
<1> QED BY <1>1, <1>2, <1>3 DEF Awaits

(* What does not depend on where the input came from.                      *)
LEMMA StartedHolds ==
  ASSUME DispatcherIndInv, NEW c \in Inputs, NEW cancellation \in Cancellations,
         Starts(c, cancellation), input.pc = "none", ~aborted,
         UNCHANGED <<tracked, mcp, pub, fences, join, failureVars, aborted, shutdowns, delivered>>,
         pend' \in PendType, pend'.pc \notin {"waiting", "failing", "closing"},
         pend'.pc # "none" => pend'.cmd \in Inputs,
         cancellation = "none" => ~IsShuttingDown
  PROVE  /\ RunTypeOK' /\ TaskTypeOK' /\ ActiveIsInput' /\ BarrierHolds' /\ InputsEnd' /\ McpIsOfTheRun'
         /\ VerdictMatchesTerminal'
<1>1. /\ activeRun = NullRun /\ pub.pc = "idle"
      /\ \A d \in handled : tracked[d] # "none" /\ IsOver(d)
      /\ Running(mcp) # {} => IsShuttingDown
  BY StartsAlone
<1>2. activeRun' \in DrivenRun /\ activeRun' # NullRun
  BY NullIsNoRun DEF Starts
<1>3. RunTypeOK'
  BY <1>1, <1>2 DEF Starts, RunTypeOK, DispatcherIndInv
<1>4. TaskTypeOK'
  BY DEF Starts, TaskTypeOK, DispatcherIndInv, PendType, InputType
<1>5. ActiveIsInput'
  BY <1>1, <1>2 DEF Starts, ActiveIsInput, LivePlaces
<1>6. BarrierHolds'
  BY <1>1, NullIsNoRun DEF Starts, BarrierHolds
<1>7. InputsEnd'
  <2>1. \A d : IsOver(d)' = IsOver(d)
    BY DEF IsOver, Starts
  <2> QED BY <1>1, <2>1 DEF Starts, InputsEnd
<1>8. McpIsOfTheRun'
  <2>1. Running(mcp)' = Running(mcp)
    BY DEF Running
  <2> QED BY <1>1, <2>1 DEF Starts, McpIsOfTheRun
<1>9. VerdictMatchesTerminal'
  BY VerdictsKept DEF Starts
<1> QED BY <1>3, <1>4, <1>5, <1>6, <1>7, <1>8, <1>9

LEMMA IdleLoop ==
  ASSUME loop' = Idle
  PROVE  /\ loop' \in LoopType /\ loop'.pc = "poll" /\ ~loop'.admitted
         /\ LoopIsTrue' /\ NobodyAccepted /\ \A c : ~Accepting(c)'
<1>1. loop' \in LoopType /\ loop'.pc = "poll" /\ ~loop'.admitted
  BY DEF Idle, LoopType, LoopPlaces
<1> QED BY <1>1 DEF LoopIsTrue, NobodyAccepted, Accepting

(* The input and the MCP command that were accepted begin.                 *)
LEMMA AcceptedInputHolds ==
  ASSUME DispatcherIndInv, AcceptedInput
  PROVE  DispatcherIndInv'
<1> DEFINE c == loop.cmd
<1>1. /\ c \in Inputs /\ tracked[c] = "none" /\ Accepting(c) /\ MayStartInput(c)
      /\ c \notin handled /\ (input.pc # "none" => input.cmd # c) /\ (pend.pc # "none" => pend.cmd # c)
  <2>1. c \in Inputs /\ tracked[c] = "none" /\ Accepting(c)
    BY DEF AcceptedInput, DispatcherIndInv, LoopIsTrue, Inputs, Accepting
  <2>2. MayStartInput(c)
    BY DEF AcceptedInput, MayProceed, Owned
  <2> QED BY <2>1, <2>2 DEF DispatcherIndInv, InputsAreKnown
<1>2. /\ loop' = Idle
      /\ UNCHANGED <<tracked, mcp, pub, fences, mcpFailures, join, failureVars, aborted, shutdowns,
                     delivered>>
  BY DEF AcceptedInput
<1> HIDE DEF c
<1>3. /\ loop' \in LoopType /\ loop'.pc = "poll" /\ ~loop'.admitted
      /\ LoopIsTrue' /\ NobodyAccepted /\ \A x : ~Accepting(x)'
  BY <1>2, IdleLoop
<1>4. Told /\ tracked' \in [Commands -> TrackedStates]
  BY <1>2, SilenceTells DEF Told
<1>5. ~IsShuttingDown
  BY <1>1 DEF MayStartInput, IsShuttingDown, ShuttingDown
<1>6. ~aborted /\ ~StopCompleted' /\ ~PendingInput
  <2>1. ~StopCompleted
    BY <1>5 DEF DispatcherIndInv, StopsWait, Quiet
  <2>2. StopCompleted' = StopCompleted
    BY <1>2 DEF StopCompleted
  <2> QED BY <1>1, <1>5, <2>1, <2>2 DEF DispatcherIndInv, ShutdownIsOrdered, MayStartInput
<1>7. StopsWait'
  BY <1>3, <1>6 DEF StopsWait, Stopping
<1>8. \A d \in Inputs : Harmless(d) => d # c
  BY <1>1 DEF Harmless
<1>9. LoopTypeOK
  BY DEF DispatcherIndInv
<1>10. CASE input.pc = "none"
  <2>1. StartInput(c, "none") /\ pend' = pend /\ "none" \in Cancellations
    BY <1>10 DEF AcceptedInput, c, Cancellations
  <2>2. Starts(c, "none")
    BY <1>1, <2>1, StartInputStarts
  <2>3. pend \in PendType /\ pend.pc \notin {"waiting", "failing", "closing"}
        /\ (pend.pc # "none" => pend.cmd \in Inputs)
    BY <1>6 DEF PendingInput, DispatcherIndInv, TaskTypeOK, PendType, ActiveIsInput
  <2>4. /\ RunTypeOK' /\ TaskTypeOK' /\ ActiveIsInput' /\ BarrierHolds' /\ InputsEnd' /\ McpIsOfTheRun'
        /\ VerdictMatchesTerminal'
    BY <1>1, <1>2, <1>5, <1>6, <1>10, <2>1, <2>2, <2>3, StartedHolds
  <2>5. handled' = handled \cup {c} /\ input'.pc = "backend" /\ input'.cmd = c
    BY <2>2 DEF Starts
  <2>6. LoopTypeOK'
    <3>1. join \in JoinType /\ handled' \subseteq Inputs
      BY <1>1, <1>9, <2>5, JoinTyped DEF LoopTypeOK
    <3> QED BY <1>2, <1>3, <1>4, <1>9, <3>1 DEF LoopTypeOK, LoopType, failureVars
  <2>7. ShutdownIsOrdered'
    <3>1. shutdowns = << >>
      BY <1>6 DEF DispatcherIndInv, ShutdownIsOrdered
    <3> QED BY <1>2, <1>3, <1>6, <2>1, <2>3, <2>5, <3>1 DEF ShutdownIsOrdered, DownPlaces
  <2>8. InputsAreKnown'
    <3>1. \A d \in handled : tracked[d] # "none"
      BY <1>10, StartsAlone
    <3>2. \A d \in Inputs : tracked[d] = "unknown" =>
            d # c /\ d \notin handled /\ (pend.pc # "none" => pend.cmd # d)
      BY <1>1 DEF DispatcherIndInv, InputsAreKnown
    <3> QED BY <1>2, <1>3, <2>1, <2>3, <2>5, <3>1, <3>2 DEF InputsAreKnown
  <2>9. CancelsHold'
    <3>1. \A d \in Inputs : Harmless(d) => Harmless(d)'
      BY <1>2, <1>3, <1>8, <2>1, <2>5 DEF Harmless
    <3> QED BY <1>2, <1>3, <3>1 DEF DispatcherIndInv, CancelsHold
  <2> QED BY <1>3, <1>7, <2>4, <2>6, <2>7, <2>8, <2>9 DEF DispatcherIndInv
<1>11. CASE input.pc # "none"
  <2>1. /\ pend' = [NoPending EXCEPT !.pc = "waiting", !.cmd = c]
        /\ UNCHANGED <<terminalVars, runtimeVars, input, handled>>
    BY <1>11 DEF AcceptedInput, c
  <2>2. /\ pend' \in PendType /\ pend'.pc = "waiting" /\ pend'.cmd = c
    BY <1>1, <2>1 DEF NoPending, PendType, Cancellations
  <2>3. SameRun /\ SameMcp(mcp) /\ activeRun' = activeRun /\ published' = published
    BY <1>2, <2>1 DEF terminalVars, machineVars, historyVars, SameRun, SameMcp, DispatcherIndInv,
                      RunTypeOK, TaskTypeOK, McpType
  <2>4. status' = status /\ lastGeneration' = lastGeneration
    BY <2>1 DEF runtimeVars
  <2>5. RunTypeOK'
    BY <2>3, <2>4 DEF SameRun, RunTypeOK, DispatcherIndInv
  <2>6. TaskTypeOK'
    BY <1>2, <2>1, <2>2 DEF TaskTypeOK, DispatcherIndInv, PendType
  <2>7. ActiveIsInput'
    BY <1>1, <1>2, <2>1, <2>2, <2>3 DEF ActiveIsInput, DispatcherIndInv, SameRun
  <2>8. LoopTypeOK'
    BY <1>2, <1>3, <1>4, <1>9, <2>1 DEF LoopTypeOK, LoopType, failureVars
  <2>9. ShutdownIsOrdered'
    BY <1>2, <1>3, <2>1, <2>2, <2>4 DEF DispatcherIndInv, ShutdownIsOrdered, DownPlaces, IsShuttingDown
  <2>10. BarrierHolds'
    BY <1>1, <1>2, <1>3, <2>3, AdmittedBarrier DEF Accepting
  <2>11. InputsAreKnown'
    BY <1>1, <1>2, <1>3, <2>1, <2>2 DEF InputsAreKnown, DispatcherIndInv
  <2>12. InputsEnd' /\ McpIsOfTheRun'
    BY <1>2, <2>1, <2>3, <2>4 DEF InputsEnd, McpIsOfTheRun, DispatcherIndInv, IsOver, Running, IsShuttingDown
  <2>13. VerdictMatchesTerminal'
    BY <1>2, <2>3, VerdictsKept
  <2>14. CancelsHold'
    <3>1. \A d \in Inputs : Harmless(d) => Harmless(d)'
      BY <1>2, <1>3, <1>8, <2>1, <2>2 DEF Harmless
    <3> QED BY <1>2, <1>3, <3>1 DEF DispatcherIndInv, CancelsHold
  <2> QED BY <1>3, <1>7, <2>5, <2>6, <2>7, <2>8, <2>9, <2>10, <2>11, <2>12, <2>13, <2>14
          DEF DispatcherIndInv
<1> QED BY <1>10, <1>11

LEMMA AcceptedMcpHolds ==
  ASSUME DispatcherIndInv, AcceptedMcp
  PROVE  DispatcherIndInv'
<1> DEFINE c == loop.cmd
<1>1. /\ c \in McpCommands /\ c.run = CurrentRunId /\ c.run \in Runs /\ HasWork(c.run)
      /\ loop.pc = "accepting"
  <2>1. c \in McpCommands /\ loop.admitted
    BY DEF AcceptedMcp, DispatcherIndInv, LoopIsTrue, McpCommands
  <2>2. Owned(c, "first")
    BY DEF AcceptedMcp, MayProceed
  <2> QED BY <2>1, <2>2, InputsNamed DEF AcceptedMcp, Owned, HasWork, Admission
<1>2. /\ loop' = Idle /\ mcp' = [mcp EXCEPT ![c] = [pc |-> "running", aborted |-> FALSE]]
      /\ UNCHANGED <<terminalVars, runtimeVars, tracked, input, pend, pub, fences, mcpFailures,
                     join, failureVars, aborted, shutdowns, handled, delivered>>
  BY DEF AcceptedMcp
<1> HIDE DEF c
<1>3. /\ loop' \in LoopType /\ loop'.pc = "poll" /\ ~loop'.admitted
      /\ LoopIsTrue' /\ NobodyAccepted /\ \A x : ~Accepting(x)'
  BY <1>2, IdleLoop
<1>4. Told /\ tracked' \in [Commands -> TrackedStates]
  BY <1>2, SilenceTells DEF Told
<1>5. /\ mcp' \in McpType
      /\ \A m \in McpCommands : mcp'[m].pc # "none" => mcp[m].pc # "none" \/ m = c
  BY <1>1, <1>2 DEF DispatcherIndInv, TaskTypeOK, McpType
<1>6. SameRun /\ activeRun' = activeRun /\ published' = published
  BY <1>2 DEF terminalVars, machineVars, historyVars, SameRun, DispatcherIndInv, RunTypeOK
<1>7. activeRun # NullRun /\ input.pc # "none"
  BY <1>1, NullIsNoRun, NoRunAssumption DEF CurrentRunId, DispatcherIndInv, ActiveIsInput, LivePlaces
<1>8. RunTypeOK'
  BY <1>2, <1>6 DEF SameRun, RunTypeOK, DispatcherIndInv, runtimeVars
<1>9. TaskTypeOK'
  BY <1>2, <1>5 DEF TaskTypeOK, DispatcherIndInv, McpType
<1>10. ActiveIsInput'
  BY <1>2, <1>6 DEF ActiveIsInput, DispatcherIndInv, SameRun
<1>11. LoopTypeOK'
  BY <1>2, <1>3, <1>4 DEF DispatcherIndInv, LoopTypeOK, LoopType, failureVars
<1>12. ShutdownIsOrdered'
  BY <1>2, <1>3 DEF DispatcherIndInv, ShutdownIsOrdered, DownPlaces, IsShuttingDown, runtimeVars, failureVars
<1>13. BarrierHolds'
  <2>1. {c.run} \in SUBSET Runs
    BY <1>1
  <2> QED BY <1>1, <1>2, <1>3, <1>5, <1>6, <2>1, BarrierKept
<1>14. InputsAreKnown'
  BY <1>2, <1>3, <1>4, KnownKept
<1>15. InputsEnd'
  BY <1>2, <1>6 DEF InputsEnd, DispatcherIndInv, IsOver
<1>16. McpIsOfTheRun'
  <2>1. \A m \in Running(mcp)' : m \in Running(mcp) \/ m.run = activeRun.runId
    BY <1>1, <1>5 DEF Running, CurrentRunId
  <2> QED BY <1>2, <1>6, <1>7, <2>1 DEF McpIsOfTheRun, DispatcherIndInv, IsShuttingDown, runtimeVars, ActiveIsInput
<1>17. VerdictMatchesTerminal'
  BY <1>2, <1>6, VerdictsKept
<1>18. StopsWait'
  <2>1. ~StopCompleted'
    BY <1>2, <1>7 DEF StopCompleted, DispatcherIndInv, StopsWait, Quiet
  <2> QED BY <1>3, <2>1 DEF StopsWait, Stopping
<1>19. CancelsHold'
  <2>1. \A d \in Inputs : Harmless(d) => Harmless(d)'
    BY <1>2, <1>3 DEF Harmless
  <2> QED BY <1>2, <1>3, <2>1 DEF DispatcherIndInv, CancelsHold
<1> QED BY <1>3, <1>8, <1>9, <1>10, <1>11, <1>12, <1>13, <1>14, <1>15, <1>16, <1>17, <1>18, <1>19
        DEF DispatcherIndInv

(* A step of what the loop awaits.                                         *)
OnlyJoin == UNCHANGED <<terminalVars, runtimeVars, loop, tracked, taskVars, workFailure, aborted,
                        shutdowns, handled, delivered>>

(* A step of a join moves the join, the fence failure and the loop.        *)
LEMMA OnlyJoinKeeps ==
  ASSUME DispatcherIndInv, OnlyJoin, join' \in JoinType, fenceFailure' \in BOOLEAN,
         StopsWait', CancelsHold'
  PROVE  DispatcherIndInv'
<1>1. SameRun
  BY DEF SameRun, OnlyJoin, terminalVars, machineVars, historyVars, DispatcherIndInv, RunTypeOK
<1>2. SamePending(pend) /\ SameMcp(mcp)
  BY DEF SamePending, SameMcp, OnlyJoin, taskVars, DispatcherIndInv, TaskTypeOK, PendType, McpType
<1>3. UNCHANGED <<status, lastGeneration, loop, tracked, input, pub, fences, handled, delivered,
                  workFailure, aborted, shutdowns, pend>>
  BY DEF OnlyJoin, runtimeVars, taskVars
<1>4. Calm
  BY <1>1, <1>2, <1>3 DEF Calm, DispatcherIndInv, RunTypeOK, LoopTypeOK, IsShuttingDown
<1>5. Told /\ NobodyAccepted
  BY <1>3, SilenceTells DEF NobodyAccepted, Accepting
<1>6. /\ RunTypeOK' /\ TaskTypeOK' /\ ActiveIsInput' /\ InputsEnd' /\ McpIsOfTheRun'
      /\ InputsAreKnown' /\ VerdictMatchesTerminal'
  BY <1>3, <1>4, <1>5, CalmKnown
<1>7. LoopTypeOK'
  BY <1>3, JoinTyped DEF DispatcherIndInv, LoopTypeOK, LoopType, JoinType
<1>8. ShutdownIsOrdered'
  BY <1>3 DEF DispatcherIndInv, ShutdownIsOrdered, IsShuttingDown
<1>9. loop.admitted => loop.cmd \in McpCommands /\ HasWork(loop.cmd.run)
  BY DEF DispatcherIndInv, LoopIsTrue, HasWork, Admission
<1>10. BarrierHolds'
  BY <1>1, <1>2, <1>3, <1>9, AdmittedBarrier
<1>11. LoopIsTrue'
  BY <1>3 DEF DispatcherIndInv, LoopIsTrue
<1> QED BY <1>6, <1>7, <1>8, <1>10, <1>11 DEF DispatcherIndInv

LEMMA OnlyJoinHolds ==
  ASSUME DispatcherIndInv, OnlyJoin, join' \in JoinType, fenceFailure' \in BOOLEAN,
         join.pc # "idle", join'.pc \in {"waiting", "ok", "failed"}, join'.source = join.source,
         Quiet => Quiet',
         Stopping /\ join'.pc = "ok" => Quiet',
         join'.pc = "waiting" => Taken(join', join.source) /\ ~fenceFailure',
         \A d \in Inputs : Awaits(d) => Awaits(d)'
  PROVE  DispatcherIndInv'
<1>1. UNCHANGED <<status, loop, tracked, input, handled, shutdowns, pend, mcp, instanceTerminal>>
  BY DEF OnlyJoin, runtimeVars, taskVars, terminalVars, machineVars
<1>2. StopsWait'
  <2>1. StopCompleted' = StopCompleted /\ Stopping' = Stopping /\ IsShuttingDown' = IsShuttingDown
    BY <1>1 DEF StopCompleted, Stopping, IsShuttingDown
  <2>2. PendingInput' = PendingInput /\ Running(mcp)' = Running(mcp)
    BY <1>1 DEF PendingInput, Running
  <2>3. ASSUME Stopping, join'.pc = "waiting"
        PROVE  /\ Running(mcp)' \subseteq join'.mcp
               /\ PendingInput' => pend'.cmd = join'.pending
               /\ input'.pc # "none" => join'.run = input'.revision
               /\ ~fenceFailure'
    <3>1. join.source = "session.stop" /\ Taken(join', "session.stop") /\ ~fenceFailure'
      BY <2>3 DEF DispatcherIndInv, StopsWait
    <3> QED BY <1>1, <2>2, <2>3, <3>1 DEF Taken
  <2>4. StopsWait
    BY DEF DispatcherIndInv
  <2>5. Stopping => /\ IsShuttingDown /\ join'.source = "session.stop" /\ join'.pc # "idle"
                    /\ pend.pc = "waiting" => pend.cancellation # "none"
    BY <2>4 DEF StopsWait
  <2>6. loop.pc \in {"shutdown", "terminal"} \/ StopCompleted => Quiet'
    BY <2>4 DEF StopsWait
  <2>7. /\ loop.pc = "shutdown" => loop.attempt \in 1..Len(shutdowns)
        /\ loop.pc = "terminal" \/ StopCompleted =>
             shutdowns # << >> /\ shutdowns[Len(shutdowns)] = "ok"
        /\ StopCompleted => instanceTerminal.phase = "acked"
    BY <2>4 DEF StopsWait
  <2> QED BY <1>1, <2>1, <2>3, <2>5, <2>6, <2>7 DEF StopsWait
<1>3. CancelsHold'
  <2>1. \A d \in Inputs : Harmless(d)' = Harmless(d)
    BY <1>1 DEF Harmless, Accepting
  <2> QED BY <1>1, <2>1 DEF DispatcherIndInv, CancelsHold
<1> QED BY <1>2, <1>3, OnlyJoinKeeps

LEMMA JoinPermissionsHolds ==
  ASSUME DispatcherIndInv, JoinPermissions
  PROVE  DispatcherIndInv'
<1>1. OnlyJoin /\ fenceFailure' = fenceFailure /\ join.pc = "permissions"
  BY DEF JoinPermissions, OnlyJoin, failureVars
<1>2. PICK outcome \in {"ok", "failed"} : join' = Snapshot([join EXCEPT !.permission = outcome])
  BY DeliveriesAssumption DEF JoinPermissions
<1> DEFINE j == [join EXCEPT !.permission = outcome]
<1>3. j \in JoinType /\ j.rejected = join.rejected /\ j.source = join.source
  BY JoinTyped DEF JoinType
<1> HIDE DEF j
<1>4. /\ Taken(join', join.source) /\ join'.rejected = join.rejected
      /\ join'.pc = IF fenceFailure THEN "failed" ELSE "waiting"
  BY <1>2, <1>3, SnapshotIs DEF j
<1>5. UNCHANGED <<status, input, pend, mcp>>
  BY <1>1 DEF OnlyJoin, runtimeVars, taskVars
<1>6. join' \in JoinType /\ join'.source = join.source /\ fenceFailure \in BOOLEAN
  BY <1>4 DEF Taken, DispatcherIndInv, LoopTypeOK
<1>7. Quiet => Quiet'
  <2>1. ASSUME Quiet, pend.pc = "started", join'.pc = "waiting"
        PROVE  join'.run = 0 /\ join'.pending = NoCommand /\ join'.mcp = {}
    BY <1>4, <2>1 DEF Quiet, Taken, PendingInput
  <2> QED BY <1>1, <1>4, <1>5, <2>1 DEF Quiet, Running, IsShuttingDown
<1>8. \A d \in Inputs : Awaits(d) => Awaits(d)'
  BY <1>4, <1>5 DEF Awaits, Taken
<1> QED BY <1>1, <1>4, <1>6, <1>7, <1>8, OnlyJoinHolds

(* All that was waited for has ended.                                      *)
Rested ==
  /\ input.pc = "none" /\ Running(mcp) = {} /\ IsShuttingDown
  /\ pend.pc \in {"none", "started"} /\ ~fenceFailure /\ ~join.rejected

(* A join that is over waited for all that was at work.                    *)
LEMMA JoinedEnds ==
  ASSUME DispatcherIndInv, join.pc = "waiting", Joined
  PROVE  /\ \A d \in Inputs : ~Awaits(d)
         /\ Stopping /\ ~WaitFails => Rested
<1>1. input.pc # "none" => input.revision # 0
  BY DEF DispatcherIndInv, ActiveIsInput
<1>2. \A d \in Inputs : ~Awaits(d)
  BY <1>1 DEF Awaits, Joined
<1>3. ASSUME Stopping, ~WaitFails PROVE Rested
  <2>1. /\ Running(mcp) \subseteq join.mcp
        /\ PendingInput => pend.cmd = join.pending
        /\ input.pc # "none" => join.run = input.revision \/ (pend.pc # "none" /\ pend.cmd = join.pending)
        /\ fenceFailure => pend.pc = "failing" /\ pend.cmd = join.pending
        /\ IsShuttingDown
    BY <1>3 DEF DispatcherIndInv, StopsWait
  <2>2. pend.pc # "none" => pend.cmd \in Inputs /\ pend.cmd # NoCommand
    BY InputsNamed DEF DispatcherIndInv, ActiveIsInput
  <2>3. pend.pc # "none" => pend.cmd # join.pending
    BY <2>2 DEF Joined
  <2>4. ~PendingInput /\ ~fenceFailure /\ input.pc = "none"
    BY <1>1, <2>1, <2>3 DEF Joined, PendingInput
  <2>5. Running(mcp) = {}
    BY <2>1 DEF Joined, Running
  <2>6. pend.pc \in {"none", "started"}
    BY <2>4 DEF PendingInput, DispatcherIndInv, TaskTypeOK
  <2> QED BY <1>3, <2>1, <2>4, <2>5, <2>6 DEF Rested, WaitFails
<1> QED BY <1>2, <1>3

LEMMA JoinDoneHolds ==
  ASSUME DispatcherIndInv, JoinDone
  PROVE  DispatcherIndInv'
<1>1. OnlyJoin /\ fenceFailure' = (fenceFailure \/ join.rejected) /\ join.pc = "waiting" /\ Joined
  BY DEF JoinDone, OnlyJoin
<1>2. join \in JoinType /\ fenceFailure \in BOOLEAN
  BY JoinTyped DEF DispatcherIndInv, LoopTypeOK
<1>3. PICK pc \in {"failed", "ok"} :
        /\ join' = [join EXCEPT !.pc = pc]
        /\ pc = "ok" => ~join.rejected /\ (join.source # "join" => workFailure = "none")
  BY DEF JoinDone
<1>4. /\ join' \in JoinType /\ join'.pc = pc /\ join'.source = join.source /\ join'.rejected = join.rejected
  BY <1>2, <1>3 DEF JoinType
<1>5. UNCHANGED <<status, input, pend, mcp>>
  BY <1>1 DEF OnlyJoin, runtimeVars, taskVars
<1>6. fenceFailure' \in BOOLEAN
  BY <1>1, <1>2 DEF JoinType
<1>7. Quiet => Quiet'
  BY <1>1, <1>3, <1>4, <1>5 DEF Quiet, Running, IsShuttingDown
<1>8. Stopping /\ join'.pc = "ok" => Quiet'
  <2>1. ASSUME Stopping, join'.pc = "ok" PROVE Rested
    <3>1. join.source = "session.stop"
      BY <2>1 DEF DispatcherIndInv, StopsWait
    <3> QED BY <1>1, <1>3, <1>4, <2>1, <3>1, JoinedEnds DEF WaitFails
  <2> QED BY <1>1, <1>4, <1>5, <2>1 DEF Rested, Quiet, Running, IsShuttingDown
<1>9. \A d \in Inputs : ~Awaits(d)
  BY <1>1, JoinedEnds
<1> QED BY <1>1, <1>3, <1>4, <1>6, <1>7, <1>8, <1>9, OnlyJoinHolds

LEMMA JoinTimeoutHolds ==
  ASSUME DispatcherIndInv, JoinTimeout
  PROVE  DispatcherIndInv'
<1>1. OnlyJoin /\ fenceFailure' = TRUE /\ join.pc = "waiting" /\ ~Joined
      /\ join' = [join EXCEPT !.pc = "failed"]
  BY DEF JoinTimeout, MayTimeOut, OnlyJoin
<1>2. /\ join' \in JoinType /\ join'.pc = "failed" /\ join'.source = join.source /\ join'.rejected = join.rejected
  BY <1>1, JoinTyped DEF JoinType
<1>3. UNCHANGED <<status, input, pend, mcp>>
  BY <1>1 DEF OnlyJoin, runtimeVars, taskVars
<1>4. Quiet => Quiet'
  BY <1>1, <1>2, <1>3 DEF Quiet, Running, IsShuttingDown, Joined
<1>5. \A d \in Inputs : Awaits(d) => Awaits(d)'
  BY <1>2, <1>3 DEF Awaits
<1> QED BY <1>1, <1>2, <1>4, <1>5, OnlyJoinHolds

(* A step of the publication changes the run's terminal and nothing else.  *)
LEMMA RunMoves ==
  ASSUME DispatcherIndInv, UNCHANGED <<inputOnly, input, revision, instanceTerminal>>,
         activeRun' = activeRun \/ (activeRun # NullRun /\ activeRun' \in DrivenRun),
         activeRun'.runId = activeRun.runId, activeRun'.revision = activeRun.revision,
         published \subseteq published',
         pub' \in [pc : {"idle", "barrier", "clear", "sending"}, status : Statuses \cup {"none"}],
         pub'.pc # "idle" => input.pc \in {"backend", "publishing"} /\ pub'.status \in Statuses,
         BarrierHolds'
  PROVE  DispatcherIndInv'
<1>1. UNCHANGED <<runtimeVars, loop, tracked, pend, mcp, join, workFailure, fenceFailure, aborted, shutdowns,
                  handled, delivered, status, lastGeneration>>
  BY DEF inputOnly, failureVars, runtimeVars
<1>2. RunTypeOK' /\ (activeRun' = NullRun <=> activeRun = NullRun)
  BY <1>1, NullIsNoRun DEF DispatcherIndInv, RunTypeOK
<1>3. TaskTypeOK'
  BY <1>1 DEF DispatcherIndInv, TaskTypeOK
<1>4. LoopTypeOK'
  BY <1>1 DEF DispatcherIndInv, LoopTypeOK
<1>5. ActiveIsInput'
  BY <1>1, <1>2 DEF DispatcherIndInv, ActiveIsInput
<1>6. ShutdownIsOrdered' /\ LoopIsTrue'
  BY <1>1 DEF DispatcherIndInv, ShutdownIsOrdered, LoopIsTrue, IsShuttingDown
<1>7. InputsAreKnown'
  BY <1>1 DEF DispatcherIndInv, InputsAreKnown, Accepting
<1>8. InputsEnd'
  <2>1. \A c : IsOver(c) => IsOver(c)'
    BY <1>1 DEF IsOver
  <2> QED BY <1>1, <2>1 DEF DispatcherIndInv, InputsEnd
<1>9. McpIsOfTheRun'
  BY <1>1 DEF DispatcherIndInv, McpIsOfTheRun, Running, IsShuttingDown
<1>10. VerdictMatchesTerminal'
  BY <1>1, VerdictsKept
<1>11. StopsWait'
  <2>1. Quiet' = Quiet /\ StopCompleted' = StopCompleted /\ Stopping' = Stopping /\ WaitFails' = WaitFails
        /\ PendingInput' = PendingInput /\ IsShuttingDown' = IsShuttingDown /\ Running(mcp)' = Running(mcp)
    BY <1>1 DEF Quiet, StopCompleted, Stopping, WaitFails, PendingInput, IsShuttingDown, Running
  <2> QED BY <1>1, <2>1 DEF DispatcherIndInv, StopsWait
<1>12. CancelsHold'
  <2>1. \A d : Harmless(d)' = Harmless(d) /\ Awaits(d)' = Awaits(d)
    BY <1>1 DEF Harmless, Awaits, Accepting
  <2> QED BY <1>1, <2>1 DEF DispatcherIndInv, CancelsHold
<1> QED BY <1>2, <1>3, <1>4, <1>5, <1>6, <1>7, <1>8, <1>9, <1>10, <1>11, <1>12 DEF DispatcherIndInv

(* The work of the run stays, so what waits for it goes on waiting.        *)
LEMMA WorkStays ==
  ASSUME UNCHANGED inputOnly
  PROVE  loop' = loop /\ \A run : HasWork(run)' = HasWork(run)
<1>1. loop' = loop /\ mcp' = mcp
  BY DEF inputOnly
<1> QED BY <1>1 DEF HasWork, Admission, Running

(* The publication of a terminal, from the barrier to the receipt.         *)
LEMMA PublishHolds ==
  ASSUME DispatcherIndInv, NEW outcome \in Statuses, Publish(outcome)
  PROVE  DispatcherIndInv'
<1>1. UNCHANGED <<inputOnly, input, revision, instanceTerminal>> /\ activeRun' = activeRun
      /\ published' = published
  BY DEF Publish, terminalVars, machineVars, historyVars
<1>2. /\ pub' \in [pc : {"idle", "barrier", "clear", "sending"}, status : Statuses \cup {"none"}]
      /\ pub'.status \in Statuses /\ input.pc \in {"backend", "publishing"}
      /\ pub'.pc = IF loop.pc = "exited" THEN "clear" ELSE "barrier"
      /\ fences \subseteq fences' /\ (loop.pc # "exited" => activeRun.runId \in fences')
  BY DEF Publish, Fenced
<1>3. BarrierHolds'
  BY <1>1, <1>2, WorkStays DEF BarrierHolds, DispatcherIndInv
<1> QED BY <1>1, <1>2, <1>3, RunMoves

LEMMA PublishFailsHolds ==
  ASSUME DispatcherIndInv, PublishFails
  PROVE  DispatcherIndInv'
<1>1. UNCHANGED <<inputOnly, input, revision, instanceTerminal>> /\ activeRun' = activeRun
      /\ published' = published /\ fences' = fences
  BY DEF PublishFails, terminalVars, machineVars, historyVars
<1>2. /\ pub' \in [pc : {"idle", "barrier", "clear", "sending"}, status : Statuses \cup {"none"}]
      /\ pub'.pc = "idle"
  BY DEF PublishFails, NoPublication
<1>3. BarrierHolds'
  BY <1>1, <1>2, WorkStays DEF BarrierHolds, DispatcherIndInv
<1> QED BY <1>1, <1>2, <1>3, RunMoves

LEMMA SelectHolds ==
  ASSUME DispatcherIndInv, Select
  PROVE  DispatcherIndInv'
<1>1. UNCHANGED <<inputOnly, input, fences>> /\ pub.pc \in {"barrier", "clear"} /\ Cleared
      /\ pub' = [pub EXCEPT !.pc = "sending"]
  BY DEF Select
<1>2. input.pc \in LivePlaces /\ pub.status \in Statuses /\ activeRun \in DrivenRun
      /\ activeRun.runId \in Runs
  <2>1. input.pc \in {"backend", "publishing"} /\ pub.status \in Statuses
    BY <1>1 DEF DispatcherIndInv, ActiveIsInput
  <2>2. activeRun # NullRun
    BY <2>1 DEF DispatcherIndInv, ActiveIsInput, LivePlaces
  <2>3. activeRun \in DrivenRun
    BY <2>2 DEF DispatcherIndInv, RunTypeOK
  <2> QED BY <2>1, <2>3 DEF DrivenRun, LivePlaces
<1>3. /\ pub' \in [pc : {"idle", "barrier", "clear", "sending"}, status : Statuses \cup {"none"}]
      /\ pub'.pc = "sending" /\ pub'.status = pub.status
  BY <1>1 DEF DispatcherIndInv, TaskTypeOK
<1>4. loop.pc # "exited" => activeRun.runId \in fences /\ ~HasWork(activeRun.runId)
  BY <1>1 DEF Cleared, DispatcherIndInv, BarrierHolds
<1>5. CASE SelectionResult(Terminal(pub.status)) = "pending" /\ UNCHANGED terminalVars
  <2>1. UNCHANGED <<activeRun, revision, instanceTerminal, published>>
    BY <1>5 DEF terminalVars, machineVars, historyVars
  <2>2. activeRun.terminal # Null
    BY <1>5 DEF SelectionResult
  <2>3. BarrierHolds'
    BY <1>1, <1>3, <2>1, <2>2, WorkStays DEF BarrierHolds, DispatcherIndInv
  <2> QED BY <1>1, <1>2, <1>3, <2>1, <2>3, RunMoves DEF DispatcherIndInv, ActiveIsInput
<1>6. CASE SelectRunTerminal(CurrentTicket, Terminal(pub.status))
  <2> DEFINE t == [phase |-> "selected", value |-> Terminal(pub.status)]
  <2>1. /\ activeRun # NullRun /\ activeRun' = [activeRun EXCEPT !.terminal = t]
        /\ UNCHANGED <<revision, instanceTerminal, published>>
    BY <1>6 DEF SelectRunTerminal, RequireRun, historyVars
  <2>2. t \in SentTerminal /\ t # Null /\ t.phase = "selected" /\ t.value.runId = activeRun.runId
    BY <1>2 DEF SentTerminal, SentIdentity, Terminal, Null
  <2> HIDE DEF t
  <2>3. /\ activeRun' \in DrivenRun /\ activeRun'.terminal = t
        /\ activeRun'.runId = activeRun.runId /\ activeRun'.revision = activeRun.revision
    BY <1>2, <2>1, <2>2 DEF DrivenRun
  <2>4. BarrierHolds'
    BY <1>1, <1>3, <1>4, <2>2, <2>3, WorkStays DEF BarrierHolds
  <2> QED BY <1>1, <1>2, <1>3, <2>1, <2>3, <2>4, RunMoves DEF DispatcherIndInv, ActiveIsInput
<1> QED BY <1>5, <1>6 DEF Select

LEMMA AcknowledgeHolds ==
  ASSUME DispatcherIndInv, Acknowledge
  PROVE  DispatcherIndInv'
<1> DEFINE receipt == [eventId |-> activeRun.terminal.value.sourceEventId, seq |-> CHOOSE seq \in Seqs : TRUE]
           t == [phase |-> "acked", value |-> activeRun.terminal.value, receipt |-> receipt]
<1>1. /\ UNCHANGED <<inputOnly, input, fences>> /\ pub' = NoPublication
      /\ AckRunTerminal(CurrentTicket, receipt)
  BY DEF Acknowledge
<1>2. /\ activeRun # NullRun /\ activeRun.terminal.phase = "selected"
      /\ activeRun' = [activeRun EXCEPT !.terminal = t]
      /\ published' = published \cup {[revision |-> activeRun.revision, value |-> activeRun.terminal.value]}
      /\ UNCHANGED <<revision, instanceTerminal>>
  BY <1>1 DEF AckRunTerminal, RequireRun, CurrentTicket
<1>3. activeRun \in DrivenRun
  BY <1>2 DEF DispatcherIndInv, RunTypeOK
<1>4. activeRun.terminal \in SentTerminal /\ activeRun.terminal # Null /\ activeRun.terminal.value \in SentIdentity
  BY <1>2, <1>3, NullIsNoRun DEF DrivenRun
<1>5. t \in SentTerminal
  <2>1. receipt \in SentReceipt
    BY <1>4 DEF SentReceipt, SentIdentity
  <2> HIDE DEF receipt
  <2> QED BY <1>4, <2>1 DEF SentTerminal
<1>6. t # Null /\ t.value = activeRun.terminal.value
  BY DEF Null
<1> HIDE DEF t
<1>7. /\ activeRun' \in DrivenRun /\ activeRun'.terminal = t
      /\ activeRun'.runId = activeRun.runId /\ activeRun'.revision = activeRun.revision
  BY <1>2, <1>3, <1>5 DEF DrivenRun
<1>8. /\ pub' \in [pc : {"idle", "barrier", "clear", "sending"}, status : Statuses \cup {"none"}]
      /\ pub'.pc = "idle"
  BY <1>1 DEF NoPublication
<1>9. BarrierHolds'
  BY <1>1, <1>2, <1>4, <1>6, <1>7, <1>8, WorkStays DEF BarrierHolds, DispatcherIndInv
<1> QED BY <1>1, <1>2, <1>7, <1>8, <1>9, RunMoves

(* A step of the task of the active run.                                   *)
InputMoves ==
  /\ input.pc # "none"
  /\ UNCHANGED <<loop, join, fenceFailure, handled, pub, published, revision, instanceTerminal, lastGeneration>>
  /\ SamePending(pend) /\ SameMcp(mcp)
  /\ Told /\ (\A c \in Commands : tracked'[c] # tracked[c] => c = input.cmd)
  /\ input.pc \in {"backend", "publishing"} => tracked'[input.cmd] # "none" /\ pub.pc = "idle"
  /\ delivered \subseteq delivered' /\ delivered' \subseteq Commands
  /\ status' \in DriverStatuses /\ (IsShuttingDown => IsShuttingDown')
  /\ aborted' \in BOOLEAN /\ (aborted => aborted')
  /\ workFailure' \in {"none", "delivery", "other"} /\ (workFailure # "none" => workFailure' # "none")
  /\ shutdowns' \in Seq(Outcomes)
  /\ input' \in InputType /\ input'.pc \notin {"backend", "publishing"}
  /\ input'.pc # "none" => input'.cmd = input.cmd /\ input'.revision = input.revision

(* What such a step keeps.                                                 *)
LEMMA InputMovesKeeps ==
  ASSUME DispatcherIndInv, InputMoves
  PROVE  /\ TaskTypeOK' /\ LoopTypeOK' /\ LoopIsTrue' /\ InputsAreKnown' /\ StopsWait' /\ CancelsHold'
         /\ pub'.pc = "idle" /\ Running(mcp)' = Running(mcp)
         /\ input.cmd \in Inputs /\ \A c : IsOver(c) => IsOver(c)'
<1>1. /\ UNCHANGED <<loop, join, fenceFailure, handled, pub, published>>
      /\ pend'.pc = pend.pc /\ pend'.cmd = pend.cmd
      /\ pend.cancellation # "none" => pend'.cancellation # "none"
      /\ input.cmd \in Inputs /\ input.cmd \in Commands
  BY InputsNamed DEF InputMoves, SamePending, DispatcherIndInv, ActiveIsInput
<1>2. TaskTypeOK'
  BY DEF InputMoves, InputType, SamePending, SameMcp, PendType, McpType, DispatcherIndInv, TaskTypeOK
<1>3. LoopTypeOK'
  BY DEF InputMoves, Told, DispatcherIndInv, LoopTypeOK
<1>4. NobodyAccepted /\ LoopIsTrue'
  <2>1. loop.pc = "accepting" => loop.cmd \in Commands /\ tracked'[loop.cmd] = tracked[loop.cmd]
    BY <1>1 DEF InputMoves, DispatcherIndInv, LoopIsTrue, InputsAreKnown, Accepting
  <2>2. UNCHANGED loop
    BY DEF InputMoves
  <2> QED BY <2>1, <2>2 DEF NobodyAccepted, Accepting, DispatcherIndInv, LoopIsTrue
<1>5. /\ pub'.pc = "idle" /\ (input.pc \in {"backend", "publishing"} => tracked'[input.cmd] # "none")
  BY DEF InputMoves, DispatcherIndInv, ActiveIsInput
<1>6. tracked[input.cmd] # "unknown" /\ (tracked[input.cmd] # "none" => tracked'[input.cmd] # "none")
      /\ tracked'[input.cmd] # "unknown"
  <2>1. tracked[input.cmd] # "unknown"
    BY <1>1 DEF InputMoves, DispatcherIndInv, InputsAreKnown
  <2> QED BY <1>1, <2>1 DEF InputMoves, Told, Statuses
<1>7. input.pc \notin {"backend", "publishing"} => tracked[input.cmd] # "none"
  BY DEF InputMoves, DispatcherIndInv, InputsAreKnown
<1>8. tracked'[input.cmd] # "none"
  BY <1>5, <1>6, <1>7
<1>9. Running(mcp)' = Running(mcp)
  BY DEF InputMoves, SameMcp, Running
<1>10. InputsAreKnown'
  <2>1. pend.pc = "waiting" => tracked'[pend.cmd] = tracked[pend.cmd]
    <3>1. pend.pc = "waiting" => pend.cmd \in Commands /\ pend.cmd # input.cmd
      BY InputsNamed DEF InputMoves, DispatcherIndInv, ActiveIsInput, InputsAreKnown
    <3> QED BY <3>1 DEF InputMoves
  <2> QED BY <1>1, <1>4, <1>8, <2>1, KnownKept DEF InputMoves
<1>11. StopsWait'
  <2>1. ~Quiet
    BY DEF Quiet, InputMoves
  <2>2. /\ loop.pc \notin {"shutdown", "terminal"} /\ ~StopCompleted /\ ~(Stopping /\ join.pc = "ok")
    BY <2>1 DEF DispatcherIndInv, StopsWait
  <2>3. ~StopCompleted'
    <3>1. \A c \in Commands : c.kind = "session.stop" => tracked'[c] = tracked[c]
      BY <1>1, InputsNamed DEF InputMoves
    <3> QED BY <2>2, <3>1 DEF StopCompleted
  <2>4. Stopping' = Stopping /\ PendingInput' = PendingInput /\ (WaitFails => WaitFails')
        /\ (IsShuttingDown => IsShuttingDown')
    BY <1>1 DEF InputMoves, Stopping, PendingInput, WaitFails
  <2>5. input'.pc # "none" => input'.revision = input.revision
    BY DEF InputMoves
  <2>6. input.pc # "none"
    BY DEF InputMoves
  <2>7. StopsWait
    BY DEF DispatcherIndInv
  <2> QED BY <1>1, <1>9, <2>2, <2>3, <2>4, <2>5, <2>6, <2>7 DEF StopsWait
<1>12. CancelsHold'
  <2>1. ASSUME NEW d \in Inputs, Harmless(d) PROVE Harmless(d)'
    BY <1>1, <1>4, <2>1, HarmlessKept DEF InputMoves
  <2>2. ASSUME NEW d \in Inputs, Awaits(d) PROVE Harmless(d)'
    BY <1>6, <1>8, <2>2 DEF Awaits, Harmless
  <2>3. \A c \in Commands : c.kind = "turn.cancel" => tracked'[c] = tracked[c]
    BY <1>1, InputsNamed DEF InputMoves
  <2> QED BY <1>1, <2>1, <2>2, <2>3 DEF DispatcherIndInv, CancelsHold
<1>13. \A c : IsOver(c) => IsOver(c)'
  BY DEF IsOver, InputMoves
<1> QED BY <1>1, <1>2, <1>3, <1>4, <1>5, <1>9, <1>10, <1>11, <1>12, <1>13

(* A verdict other than failed needs the receipt of the terminal.          *)
LEMMA SettlesVerdict ==
  ASSUME NEW outcome \in {"resolved", "cancelled", "rejected"}
  PROVE  /\ Settlement(outcome) \in {"failed", "cancelled", "resolved"}
         /\ Settlement(outcome) \in {"cancelled", "resolved"} =>
              /\ activeRun.terminal.phase = "acked"
              /\ activeRun.terminal.value.status = IF Settlement(outcome) = "resolved"
                                                   THEN "completed" ELSE "cancelled"
BY DEF Settlement, SettleInput

(* The backend settles: the verdict is decided.                            *)
LEMMA InputSettlesHolds ==
  ASSUME DispatcherIndInv, NEW outcome \in {"resolved", "cancelled", "rejected"}, InputSettles(outcome)
  PROVE  DispatcherIndInv'
<1> DEFINE settled == Settlement(outcome)
           verdict == IF settled = "resolved" THEN "completed" ELSE settled
           place == IF settled = "failed" THEN "failing" ELSE "finishing"
<1>1. /\ pub.pc = "idle" /\ input.pc \in {"backend", "publishing"} /\ input.cmd \in Inputs
      /\ FinishCommand(input.cmd, verdict) /\ input' = [input EXCEPT !.pc = place]
      /\ UNCHANGED <<taskOnly, terminalVars, fences, mcpFailures, workFailure, aborted, shutdowns, delivered>>
      /\ status' \in {"failed", status} /\ lastGeneration' = lastGeneration
  BY DEF InputSettles, DispatcherIndInv, ActiveIsInput, SetStatus, runtimeVars
<1>2. verdict \in Statuses /\ place \in {"failing", "finishing"}
  BY SettlesVerdict DEF Statuses
<1>3. verdict \in {"completed", "cancelled"} =>
        activeRun.terminal.phase = "acked" /\ activeRun.terminal.value.status = verdict
  BY SettlesVerdict
<1> HIDE DEF settled, verdict, place
<1>4. Told /\ tracked'[input.cmd] # "none"
      /\ \A c \in Commands : tracked'[c] # tracked[c] => c = input.cmd /\ tracked'[c] = verdict
  BY <1>1, <1>2, InputsNamed, FinishTells
<1>5. /\ input' \in InputType /\ input'.pc = place /\ input'.cmd = input.cmd /\ input'.revision = input.revision
  BY <1>1, <1>2 DEF DispatcherIndInv, TaskTypeOK, InputType, InputPlaces
<1>6. UNCHANGED <<loop, pend, mcp, pub, join, fenceFailure, handled, activeRun, revision, published,
                  instanceTerminal>>
  BY <1>1 DEF taskOnly, terminalVars, machineVars, historyVars
<1>7. SamePending(pend) /\ SameMcp(mcp)
  BY <1>6 DEF SamePending, SameMcp, PendType, McpType, DispatcherIndInv, TaskTypeOK
<1>8. status' \in DriverStatuses /\ (IsShuttingDown => IsShuttingDown')
  BY <1>1 DEF DispatcherIndInv, RunTypeOK, DriverStatuses, IsShuttingDown, ShuttingDown
<1>9. InputMoves
  BY <1>1, <1>2, <1>4, <1>5, <1>6, <1>7, <1>8 DEF InputMoves, DispatcherIndInv, LoopTypeOK
<1>10. /\ TaskTypeOK' /\ LoopTypeOK' /\ LoopIsTrue' /\ InputsAreKnown' /\ StopsWait' /\ CancelsHold'
       /\ pub'.pc = "idle" /\ Running(mcp)' = Running(mcp)
       /\ \A c : IsOver(c) => IsOver(c)'
  BY <1>9, InputMovesKeeps
<1>11. RunTypeOK'
  BY <1>1, <1>6, <1>8 DEF DispatcherIndInv, RunTypeOK
<1>12. ActiveIsInput'
  BY <1>1, <1>2, <1>5, <1>6 DEF DispatcherIndInv, ActiveIsInput, LivePlaces
<1>13. ShutdownIsOrdered'
  BY <1>1, <1>2, <1>5, <1>6, <1>8 DEF DispatcherIndInv, ShutdownIsOrdered
<1>14. BarrierHolds'
  BY <1>1, <1>6 DEF DispatcherIndInv, BarrierHolds, HasWork, Admission, Running
<1>15. InputsEnd'
  BY <1>1, <1>2, <1>5, <1>6, <1>10 DEF DispatcherIndInv, InputsEnd
<1>16. McpIsOfTheRun'
  BY <1>1, <1>2, <1>5, <1>6, <1>8, <1>10 DEF DispatcherIndInv, McpIsOfTheRun
<1>17. VerdictMatchesTerminal'
  <2>1. ASSUME verdict \in {"completed", "cancelled"}
        PROVE  \E p \in published : p.value.runId = input.cmd.run /\ p.value.status = verdict
    <3>1. activeRun # NullRun /\ activeRun.terminal # Null
      BY <1>3, <2>1, NullIsNoRun
    <3>2. activeRun.terminal.value.runId = input.cmd.run
      BY <3>1 DEF DispatcherIndInv, ActiveIsInput, BarrierHolds
    <3>3. [revision |-> activeRun.revision, value |-> activeRun.terminal.value] \in published
      BY <1>3, <2>1 DEF DispatcherIndInv, BarrierHolds
    <3> QED BY <1>3, <2>1, <3>2, <3>3
  <2> QED BY <1>4, <1>6, <2>1, InputsNamed DEF DispatcherIndInv, VerdictMatchesTerminal
<1> QED BY <1>10, <1>11, <1>12, <1>13, <1>14, <1>15, <1>16, <1>17 DEF DispatcherIndInv

(* The finally block of the task: the run is over.                         *)
LEMMA EndInputHolds ==
  ASSUME DispatcherIndInv, NEW reason, NEW pc \in {"ended", "threw", "undelivered"},
         input.pc \in {"finishing", "failing", "shutdown"}, EndInput(reason, pc),
         UNCHANGED <<taskOnly, tracked, workFailure, aborted, shutdowns>>,
         delivered \subseteq delivered', delivered' \subseteq Commands,
         pc = "ended" => aborted \/ (activeRun.terminal.phase = "acked" /\ input.cmd \in delivered')
  PROVE  DispatcherIndInv'
<1>1. /\ activeRun' = NullRun /\ input' = [input EXCEPT !.pc = pc]
      /\ UNCHANGED <<revision, instanceTerminal, published>>
  BY DEF EndInput, ReleaseRun, historyVars
<1>2. UNCHANGED <<loop, pend, mcp, pub, join, fenceFailure, handled>>
  BY DEF taskOnly
<1>3. /\ input' \in InputType /\ input'.pc = pc /\ input'.cmd = input.cmd /\ input'.revision = input.revision
  BY <1>1 DEF DispatcherIndInv, TaskTypeOK, InputType, InputPlaces
<1>4. /\ status' \in DriverStatuses /\ (IsShuttingDown => IsShuttingDown') /\ lastGeneration' = lastGeneration
  <2>1. status' \in {status, "ready"} /\ lastGeneration' = lastGeneration
        /\ (status' # status => status \in {"running", "needs_approval"})
    BY DEF EndInput, EndRun, runtimeVars
  <2> QED BY <2>1 DEF IsShuttingDown, ShuttingDown, DriverStatuses, DispatcherIndInv, RunTypeOK
<1>5. SamePending(pend) /\ SameMcp(mcp)
  BY <1>2 DEF SamePending, SameMcp, PendType, McpType, DispatcherIndInv, TaskTypeOK
<1>6. InputMoves
  BY <1>1, <1>2, <1>3, <1>4, <1>5, SilenceTells DEF InputMoves, DispatcherIndInv, LoopTypeOK
<1>7. /\ TaskTypeOK' /\ LoopTypeOK' /\ LoopIsTrue' /\ InputsAreKnown' /\ StopsWait' /\ CancelsHold'
      /\ pub'.pc = "idle" /\ Running(mcp)' = Running(mcp) /\ input.cmd \in Inputs
      /\ \A c : IsOver(c) => IsOver(c)'
  BY <1>6, InputMovesKeeps
<1>8. RunTypeOK'
  BY <1>1, <1>4 DEF DispatcherIndInv, RunTypeOK
<1>9. ActiveIsInput'
  BY <1>1, <1>2, <1>3, <1>7 DEF DispatcherIndInv, ActiveIsInput, LivePlaces
<1>10. ShutdownIsOrdered'
  BY <1>2, <1>3, <1>4 DEF DispatcherIndInv, ShutdownIsOrdered
<1>11. BarrierHolds'
  BY <1>1, <1>7, NullIsNoRun DEF BarrierHolds
<1>12. input.pc \in LivePlaces /\ activeRun.runId = input.cmd.run /\ activeRun # NullRun
  BY DEF DispatcherIndInv, ActiveIsInput, LivePlaces
<1>13. activeRun.terminal.phase = "acked" => \E p \in published : p.value.runId = input.cmd.run
  <2>1. ASSUME activeRun.terminal.phase = "acked"
        PROVE  /\ [revision |-> activeRun.revision, value |-> activeRun.terminal.value] \in published
               /\ activeRun.terminal.value.runId = activeRun.runId
    BY <2>1, NullIsNoRun DEF DispatcherIndInv, BarrierHolds
  <2> QED BY <1>12, <2>1
<1>14. InputsEnd'
  <2>1. pc = "ended" => IsOver(input.cmd)' \/ aborted'
    BY <1>1, <1>13 DEF IsOver
  <2> QED BY <1>2, <1>3, <1>7, <2>1 DEF DispatcherIndInv, InputsEnd
<1>15. McpIsOfTheRun'
  <2>1. ASSUME NEW m \in Running(mcp), ~IsShuttingDown, pc = "ended" PROVE FALSE
    <3>1. ~aborted /\ loop.pc # "exited"
      BY <2>1 DEF DispatcherIndInv, ShutdownIsOrdered, DownPlaces
    <3>2. activeRun.terminal # Null
      BY <2>1, <3>1, NullIsNoRun
    <3>3. ~HasWork(activeRun.runId)
      BY <3>1, <3>2 DEF DispatcherIndInv, BarrierHolds
    <3>4. m.run = activeRun.runId
      BY <2>1 DEF DispatcherIndInv, McpIsOfTheRun
    <3> QED BY <2>1, <3>3, <3>4 DEF HasWork
  <2> QED BY <1>3, <1>4, <1>7, <2>1 DEF McpIsOfTheRun
<1>16. VerdictMatchesTerminal'
  BY <1>1, VerdictsKept
<1> QED BY <1>7, <1>8, <1>9, <1>10, <1>11, <1>14, <1>15, <1>16 DEF DispatcherIndInv

LEMMA InputEndsItsRun ==
  ASSUME DispatcherIndInv, InputFinished \/ InputThrows \/ InputShutDown
  PROVE  DispatcherIndInv'
<1>1. delivered \subseteq Commands
  BY DEF DispatcherIndInv, LoopTypeOK
<1>2. CASE InputFinished
  <2>1. input.cmd \in Commands
    BY <1>2, InputsNamed DEF InputFinished, DispatcherIndInv, ActiveIsInput
  <2>2. delivered' = delivered \cup {input.cmd} /\ activeRun.terminal.phase = "acked"
    BY <1>2 DEF InputFinished, EndInput, ReleaseRun
  <2> QED BY <1>1, <1>2, <2>1, <2>2, EndInputHolds DEF InputFinished
<1>3. CASE InputThrows
  <2>1. PICK pc \in {"threw", "undelivered"} : EndInput("driver_failing", pc)
    BY <1>3 DEF InputThrows
  <2> QED BY <1>1, <1>3, <2>1, EndInputHolds DEF InputThrows
<1>4. CASE InputShutDown
  <2>1. aborted
    BY <1>4 DEF InputShutDown, DispatcherIndInv, ShutdownIsOrdered
  <2> QED BY <1>1, <1>4, <2>1, EndInputHolds DEF InputShutDown
<1> QED BY <1>2, <1>3, <1>4

(* The task asks for the shutdown.                                         *)
LEMMA InputShutsDown ==
  ASSUME DispatcherIndInv, NEW pc \in {"shutdown", "closing"},
         pc = "shutdown" => input.pc = "failing", pc = "closing" => input.pc \in {"undelivered", "threw"},
         Shutdown(status, pend, mcp), input' = [input EXCEPT !.pc = pc, !.attempt = ShutdownAttempt],
         UNCHANGED <<loop, tracked, pub, fences, join, fenceFailure, handled>>,
         delivered \subseteq delivered', delivered' \subseteq Commands,
         workFailure' \in {"none", "delivery", "other"}, workFailure # "none" => workFailure' # "none"
  PROVE  DispatcherIndInv'
<1>1. RunTypeOK /\ LoopTypeOK /\ ShutdownIsOrdered /\ pend \in PendType /\ mcp \in McpType
  BY DEF DispatcherIndInv, TaskTypeOK, PendType, McpType
<1>2. SamePending(pend) /\ SameMcp(mcp) /\ ShutdownAsked
  BY <1>1, ShutdownSoftens
<1>3. SameRun /\ instanceTerminal' = instanceTerminal
  <2>1. SameRun
    BY <1>1, ShutdownSoftens
  <2>2. instanceTerminal' = instanceTerminal
    BY DEF Shutdown, AbortActiveWork, ClaimCancellation, terminalVars, machineVars
  <2> QED BY <2>1, <2>2
<1>4. /\ input' \in InputType /\ input'.pc = pc /\ input'.cmd = input.cmd /\ input'.revision = input.revision
  BY AttemptTyped DEF DispatcherIndInv, TaskTypeOK, InputType, InputPlaces
<1>5. InputMoves
  BY <1>1, <1>2, <1>3, <1>4, SilenceTells DEF InputMoves, ShutdownAsked, SameRun, LoopTypeOK
<1>6. /\ TaskTypeOK' /\ LoopTypeOK' /\ LoopIsTrue' /\ InputsAreKnown' /\ StopsWait' /\ CancelsHold'
      /\ pub'.pc = "idle" /\ Running(mcp)' = Running(mcp)
      /\ \A c : IsOver(c) => IsOver(c)'
  BY <1>5, InputMovesKeeps
<1>7. RunTypeOK'
  BY <1>1, <1>2, <1>3 DEF RunTypeOK, SameRun, ShutdownAsked
<1>8. ActiveIsInput'
  BY <1>2, <1>3, <1>4, <1>6 DEF DispatcherIndInv, ActiveIsInput, LivePlaces, SameRun, SamePending
<1>9. ShutdownIsOrdered'
  BY <1>1, <1>2 DEF ShutdownIsOrdered, ShutdownAsked, SamePending
<1>10. BarrierHolds'
  BY <1>2, <1>3, AdmittedBarrier DEF DispatcherIndInv, LoopIsTrue, HasWork, Admission
<1>11. InputsEnd'
  BY <1>2, <1>4 DEF InputsEnd, ShutdownAsked
<1>12. McpIsOfTheRun'
  BY <1>2, <1>4 DEF McpIsOfTheRun, ShutdownAsked
<1>13. VerdictMatchesTerminal'
  BY <1>3, VerdictsKept DEF SameRun
<1> QED BY <1>6, <1>7, <1>8, <1>9, <1>10, <1>11, <1>12, <1>13 DEF DispatcherIndInv

LEMMA InputFailsHolds ==
  ASSUME DispatcherIndInv, InputFailed \/ InputTaskFails
  PROVE  DispatcherIndInv'
<1>1. delivered \subseteq Commands /\ workFailure \in {"none", "delivery", "other"}
  BY DEF DispatcherIndInv, LoopTypeOK
<1>2. CASE InputFailed
  <2>1. input.cmd \in Commands
    BY <1>2, InputsNamed DEF InputFailed, DispatcherIndInv, ActiveIsInput
  <2> QED BY <1>1, <1>2, <2>1, InputShutsDown DEF InputFailed, failureVars
<1>3. CASE InputTaskFails
  BY <1>1, <1>3, InputShutsDown DEF InputTaskFails
<1> QED BY <1>2, <1>3

LEMMA InputEndsHolds ==
  ASSUME DispatcherIndInv, InputEnds
  PROVE  DispatcherIndInv'
<1>1. /\ input.pc \in {"ended", "closing"} /\ input' = NoInput
      /\ UNCHANGED <<taskOnly, terminalVars, runtimeVars, tracked, fences, mcpFailures, workFailure,
                     aborted, shutdowns, delivered>>
  BY DEF InputEnds
<1>2. UNCHANGED <<loop, pend, mcp, pub, join, fenceFailure, handled, activeRun, revision, published,
                  instanceTerminal, status, lastGeneration>>
  BY <1>1 DEF taskOnly, terminalVars, machineVars, historyVars, runtimeVars
<1>3. input' \in InputType /\ input'.pc = "none"
  BY <1>1 DEF NoInput, InputType, InputPlaces, Cancellations
<1>4. SamePending(pend) /\ SameMcp(mcp)
  BY <1>2 DEF SamePending, SameMcp, PendType, McpType, DispatcherIndInv, TaskTypeOK
<1>5. InputMoves
  BY <1>1, <1>2, <1>3, <1>4, SilenceTells DEF InputMoves, DispatcherIndInv, LoopTypeOK, RunTypeOK, IsShuttingDown
<1>6. /\ TaskTypeOK' /\ LoopTypeOK' /\ LoopIsTrue' /\ InputsAreKnown' /\ StopsWait' /\ CancelsHold'
      /\ pub'.pc = "idle" /\ Running(mcp)' = Running(mcp)
      /\ \A c : IsOver(c) => IsOver(c)'
  BY <1>5, InputMovesKeeps
<1>7. RunTypeOK'
  BY <1>2 DEF DispatcherIndInv, RunTypeOK
<1>8. activeRun = NullRun
  BY <1>1 DEF DispatcherIndInv, ActiveIsInput, LivePlaces
<1>9. ActiveIsInput'
  BY <1>2, <1>3, <1>6, <1>8 DEF DispatcherIndInv, ActiveIsInput, LivePlaces
<1>10. ShutdownIsOrdered'
  BY <1>1, <1>2, <1>3 DEF DispatcherIndInv, ShutdownIsOrdered, IsShuttingDown
<1>11. BarrierHolds'
  BY <1>2, <1>6, <1>8, NullIsNoRun DEF BarrierHolds
<1>12. InputsEnd'
  <2>1. input.pc = "closing" => aborted
    BY DEF DispatcherIndInv, ShutdownIsOrdered
  <2> QED BY <1>1, <1>2, <1>3, <1>6, <2>1 DEF DispatcherIndInv, InputsEnd
<1>13. McpIsOfTheRun'
  <2>1. input.pc = "closing" => IsShuttingDown
    BY DEF DispatcherIndInv, ShutdownIsOrdered
  <2> QED BY <1>1, <1>2, <1>3, <1>6 DEF DispatcherIndInv, McpIsOfTheRun, IsShuttingDown
<1>14. VerdictMatchesTerminal'
  BY <1>1, <1>2, VerdictsKept
<1> QED BY <1>6, <1>7, <1>9, <1>10, <1>11, <1>12, <1>13, <1>14 DEF DispatcherIndInv

(* The queued input starts: no cancellation that found it is forgotten.     *)
LEMMA HandOffHolds ==
  ASSUME DispatcherIndInv, HandOff
  PROVE  DispatcherIndInv'
<1> DEFINE c == pend.cmd
           cancellation == pend.cancellation
<1>1. /\ pend.pc = "waiting" /\ input.pc = "none" /\ ~aborted /\ ~fenceFailure
      /\ StartInput(c, cancellation)
      /\ UNCHANGED <<loop, tracked, mcp, pub, fences, mcpFailures, join, failureVars, aborted,
                     shutdowns, delivered>>
  BY DEF HandOff, PreviousSettled, MayHandOff
<1>2. c \in Inputs /\ cancellation \in Cancellations /\ tracked[c] = "none" /\ c \notin handled
  BY <1>1 DEF DispatcherIndInv, ActiveIsInput, TaskTypeOK, InputsAreKnown
<1>3. Starts(c, cancellation)
  BY <1>1, <1>2, StartInputStarts
<1>4. pend' \in PendType /\ pend'.pc \in {"none", "started"} /\ (pend'.pc # "none" => pend'.cmd = c)
      /\ (cancellation # "none" => pend'.pc = "started")
  <2>1. NoPending \in PendType /\ NoPending.pc = "none"
    BY DEF NoPending, PendType, Cancellations
  <2>2. pend \in PendType
    BY DEF DispatcherIndInv, TaskTypeOK, PendType
  <2>3. [pend EXCEPT !.pc = "started"] \in PendType /\ [pend EXCEPT !.pc = "started"].pc = "started"
        /\ [pend EXCEPT !.pc = "started"].cmd = c
    BY <2>2 DEF PendType
  <2> QED BY <2>1, <2>3 DEF HandOff
<1>5. IsShuttingDown => cancellation # "none"
  BY DEF HandOff, MayHandOff, IsShuttingDown, ShuttingDown
<1> HIDE DEF c, cancellation
<1>6. /\ RunTypeOK' /\ TaskTypeOK' /\ ActiveIsInput' /\ BarrierHolds' /\ InputsEnd' /\ McpIsOfTheRun'
      /\ VerdictMatchesTerminal'
  <2>1. pend'.pc \notin {"waiting", "failing", "closing"} /\ (pend'.pc # "none" => pend'.cmd \in Inputs)
    BY <1>2, <1>4
  <2> QED BY <1>1, <1>2, <1>3, <1>4, <1>5, <2>1, StartedHolds
<1>7. /\ \A d \in handled : tracked[d] # "none"
      /\ \A d \in Inputs : ~Awaits(d)
  BY <1>1, StartsAlone
<1>8. /\ input'.pc \in {"backend", "publishing"} /\ input'.cmd = c
      /\ handled' \subseteq handled \cup {c} /\ handled \subseteq handled'
      /\ (c \in handled' => input'.pc = "backend" /\ cancellation = "none")
      /\ (IsShuttingDown => IsShuttingDown')
  BY <1>2, <1>3 DEF Starts
<1>9. LoopTypeOK' /\ LoopIsTrue'
  <2>1. handled' \subseteq Inputs
    BY <1>2, <1>8 DEF DispatcherIndInv, LoopTypeOK
  <2> QED BY <1>1, <2>1 DEF DispatcherIndInv, LoopTypeOK, LoopIsTrue, failureVars
<1>10. ShutdownIsOrdered'
  BY <1>1, <1>4, <1>8 DEF DispatcherIndInv, ShutdownIsOrdered
<1>11. InputsAreKnown'
  <2>1. ASSUME NEW d \in Inputs
        PROVE  /\ tracked'[d] = "unknown" \/ Accepting(d)' =>
                    /\ d \notin handled' /\ (input'.pc # "none" => input'.cmd # d)
                    /\ (pend'.pc # "none" => pend'.cmd # d)
               /\ d \in handled' /\ tracked'[d] = "none" => input'.pc = "backend" /\ input'.cmd = d
    <3>1. tracked[d] = "unknown" \/ Accepting(d) => d \notin handled /\ d # c
      BY <1>1 DEF DispatcherIndInv, InputsAreKnown, c
    <3>2. Accepting(d)' = Accepting(d) /\ tracked'[d] = tracked[d]
      BY <1>1 DEF Accepting
    <3> QED BY <1>4, <1>7, <1>8, <3>1, <3>2
  <2> QED BY <1>4, <1>8, <2>1 DEF InputsAreKnown
<1>12. StopsWait'
  <2>1. ~Quiet
    BY <1>1 DEF Quiet
  <2>2. loop.pc \notin {"shutdown", "terminal"} /\ ~StopCompleted /\ ~(Stopping /\ join.pc = "ok")
    BY <2>1 DEF DispatcherIndInv, StopsWait
  <2>3. StopCompleted' = StopCompleted /\ Stopping' = Stopping /\ (WaitFails => WaitFails')
        /\ Running(mcp)' = Running(mcp)
    BY <1>1 DEF StopCompleted, Stopping, WaitFails, Running, failureVars
  <2>4. PendingInput /\ (Stopping => pend'.pc = "started" /\ pend'.cmd = pend.cmd)
    BY <1>1, <1>4, <1>5 DEF PendingInput, DispatcherIndInv, StopsWait, c
  <2>5. StopsWait
    BY DEF DispatcherIndInv
  <2>6. fenceFailure' = FALSE /\ join' = join /\ loop' = loop
    BY <1>1 DEF failureVars
  <2>7. Stopping => ~PendingInput'
    BY <2>4 DEF PendingInput
  <2>8. Stopping => IsShuttingDown'
    BY <1>8, <2>5 DEF StopsWait
  <2> QED BY <2>2, <2>3, <2>4, <2>5, <2>6, <2>7, <2>8 DEF StopsWait
<1>13. CancelsHold'
  <2>1. Told /\ NobodyAccepted
    BY <1>1, SilenceTells DEF NobodyAccepted, Accepting
  <2>2. ASSUME NEW d \in Inputs, Harmless(d) PROVE Harmless(d)'
    <3>1. d = c => cancellation # "none"
      BY <1>1, <1>2, <2>2 DEF Harmless, c, cancellation
    <3>2. d \in handled' => d \in handled
      BY <1>8, <3>1
    <3> QED BY <1>4, <2>1, <2>2, <3>2, HarmlessKept
  <2> QED BY <1>1, <1>7, <2>2 DEF DispatcherIndInv, CancelsHold
<1> QED BY <1>6, <1>9, <1>10, <1>11, <1>12, <1>13 DEF DispatcherIndInv

(* A step of the task of the queued input that does not start it.          *)
PendingMoves ==
  /\ pend.pc # "none"
  /\ UNCHANGED <<loop, input, pub, fences, handled>>
  /\ SameRun /\ SameMcp(mcp)
  /\ Told /\ (\A c \in Commands : tracked'[c] # tracked[c] => c = pend.cmd /\ tracked'[c] = "failed")
  /\ pend' \in PendType /\ pend'.pc \in {"none", "failing", "closing"}
  /\ pend'.pc # "none" => pend'.cmd = pend.cmd /\ tracked'[pend.cmd] # "none"
  /\ delivered \subseteq delivered' /\ delivered' \subseteq Commands
  /\ status' \in DriverStatuses /\ (IsShuttingDown => IsShuttingDown') /\ lastGeneration' = lastGeneration
  /\ aborted' \in BOOLEAN /\ (aborted => aborted')
  /\ workFailure' \in {"none", "delivery", "other"} /\ fenceFailure' \in BOOLEAN
  /\ shutdowns' \in Seq(Outcomes)
  /\ join' \in JoinType /\ join'.pc = join.pc /\ join'.run = join.run /\ join'.source = join.source
  /\ join'.pending = join.pending /\ join'.mcp = join.mcp

(* What such a step keeps.                                                 *)
LEMMA PendingMovesKeeps ==
  ASSUME DispatcherIndInv, PendingMoves
  PROVE  /\ RunTypeOK' /\ TaskTypeOK' /\ LoopTypeOK' /\ ActiveIsInput' /\ BarrierHolds' /\ LoopIsTrue'
         /\ InputsAreKnown' /\ InputsEnd' /\ McpIsOfTheRun' /\ VerdictMatchesTerminal' /\ CancelsHold'
         /\ StopCompleted' = StopCompleted /\ Running(mcp)' = Running(mcp) /\ Stopping' = Stopping
<1>1. /\ UNCHANGED <<loop, input, pub, fences, handled>> /\ SameRun /\ SameMcp(mcp) /\ Told
      /\ pend.pc # "none" /\ pend.cmd \in Inputs /\ pend.cmd \in Commands
      /\ pend'.pc # "waiting" /\ (pend'.pc # "none" => pend'.cmd = pend.cmd /\ tracked'[pend.cmd] # "none")
  BY InputsNamed DEF PendingMoves, DispatcherIndInv, ActiveIsInput
<1>2. /\ \A c \in Commands : tracked'[c] # tracked[c] => c = pend.cmd /\ tracked'[c] = "failed"
      /\ \A c \in Commands : c.kind # "input.start" => tracked'[c] = tracked[c]
  BY <1>1, InputsNamed DEF PendingMoves
<1>3. RunTypeOK'
  BY DEF PendingMoves, SameRun, DispatcherIndInv, RunTypeOK
<1>4. TaskTypeOK'
  BY DEF PendingMoves, PendType, SameMcp, McpType, DispatcherIndInv, TaskTypeOK
<1>5. LoopTypeOK'
  BY DEF PendingMoves, Told, JoinType, DispatcherIndInv, LoopTypeOK
<1>6. ActiveIsInput'
  BY <1>1 DEF DispatcherIndInv, ActiveIsInput, SameRun
<1>7. Running(mcp)' = Running(mcp)
  BY <1>1 DEF SameMcp, Running
<1>8. BarrierHolds'
  <2>1. loop.admitted => loop.cmd \in McpCommands /\ HasWork(loop.cmd.run)
    BY DEF DispatcherIndInv, LoopIsTrue, HasWork, Admission
  <2> QED BY <1>1, <2>1, AdmittedBarrier
<1>9. NobodyAccepted
  BY <1>1 DEF NobodyAccepted, Accepting
<1>10. LoopIsTrue'
  <2>1. loop.pc = "accepting" => loop.cmd \in Commands /\ tracked'[loop.cmd] = tracked[loop.cmd]
    BY <1>1, <1>2 DEF DispatcherIndInv, LoopIsTrue, InputsAreKnown, Accepting
  <2> QED BY <1>1, <2>1 DEF DispatcherIndInv, LoopIsTrue
<1>11. InputsAreKnown'
  BY <1>1, <1>9, KnownKept
<1>12. InputsEnd'
  <2>1. \A c : IsOver(c) => IsOver(c)'
    BY DEF IsOver, PendingMoves, SameRun
  <2> QED BY <1>1, <2>1 DEF PendingMoves, DispatcherIndInv, InputsEnd
<1>13. McpIsOfTheRun'
  BY <1>1, <1>7 DEF PendingMoves, SameRun, DispatcherIndInv, McpIsOfTheRun
<1>14. VerdictMatchesTerminal'
  <2>1. \A c \in Inputs : tracked'[c] \in {"completed", "cancelled"} => tracked'[c] = tracked[c]
    BY <1>2, InputsNamed
  <2> QED BY <1>1, <2>1, VerdictsKept DEF SameRun
<1>15. StopCompleted' = StopCompleted /\ Stopping' = Stopping
  <2>1. \A c \in Commands : c.kind = "session.stop" => tracked'[c] = tracked[c]
    BY <1>2
  <2> QED BY <1>1, <2>1 DEF StopCompleted, Stopping
<1>16. CancelsHold'
  <2>1. ASSUME NEW d \in Inputs, Harmless(d) PROVE Harmless(d)'
    BY <1>1, <1>9, <2>1, HarmlessKept
  <2>2. ASSUME NEW d \in Inputs, Awaits(d) PROVE Awaits(d)'
    BY <1>1, <2>2 DEF Awaits, PendingMoves
  <2>3. \A c \in Commands : c.kind = "turn.cancel" => tracked'[c] = tracked[c]
    BY <1>2
  <2> QED BY <1>1, <2>1, <2>2, <2>3 DEF DispatcherIndInv, CancelsHold
<1> QED BY <1>3, <1>4, <1>5, <1>6, <1>7, <1>8, <1>10, <1>11, <1>12, <1>13, <1>14, <1>15, <1>16

LEMMA RejectedTyped ==
  ASSUME NEW j \in JoinType, NEW rejected \in BOOLEAN
  PROVE  /\ [j EXCEPT !.rejected = rejected] \in JoinType
         /\ [j EXCEPT !.rejected = rejected].rejected = rejected
         /\ [j EXCEPT !.rejected = rejected].pc = j.pc /\ [j EXCEPT !.rejected = rejected].run = j.run
         /\ [j EXCEPT !.rejected = rejected].source = j.source
         /\ [j EXCEPT !.rejected = rejected].pending = j.pending
         /\ [j EXCEPT !.rejected = rejected].mcp = j.mcp
BY DEF JoinType

(* A part that is left alone.                                              *)
LEMMA UnmovedRun ==
  ASSUME DispatcherIndInv, UNCHANGED terminalVars
  PROVE  SameRun
BY DEF SameRun, terminalVars, machineVars, historyVars, DispatcherIndInv, RunTypeOK

LEMMA UnmovedMcp ==
  ASSUME DispatcherIndInv, UNCHANGED mcp
  PROVE  SameMcp(mcp)
BY DEF SameMcp, DispatcherIndInv, TaskTypeOK, McpType

(* The handoff is refused: what waits for the input is told.               *)
LEMMA HandOffFailsHolds ==
  ASSUME DispatcherIndInv, HandOffFails
  PROVE  DispatcherIndInv'
<1> DEFINE late == input.pc # "none" /\ join.pc = "waiting" /\ join.run = input.revision
<1>1. /\ pend.pc \in {"waiting", "started"} /\ (pend.pc = "started" => input.pc # "none" \/ fenceFailure)
      /\ fenceFailure' = (fenceFailure \/ input.pc # "none")
      /\ join' = [join EXCEPT !.rejected = join.rejected \/ late]
      /\ FinishCommand(pend.cmd, "failed") /\ pend' = [pend EXCEPT !.pc = "failing"]
      /\ UNCHANGED <<terminalVars, loop, input, mcp, pub, fences, mcpFailures, workFailure, aborted,
                     shutdowns, handled, delivered>>
      /\ status' = "failed" /\ lastGeneration' = lastGeneration
  BY DEF HandOffFails, SetStatus
<1>2. /\ pend.cmd \in Inputs /\ pend.cmd \in Commands /\ pend \in PendType /\ join \in JoinType
      /\ fenceFailure \in BOOLEAN
  BY <1>1, InputsNamed, JoinTyped DEF DispatcherIndInv, ActiveIsInput, TaskTypeOK, PendType, LoopTypeOK
<1>3. /\ Told /\ tracked'[pend.cmd] # "none"
      /\ \A c \in Commands : tracked'[c] # tracked[c] => c = pend.cmd /\ tracked'[c] = "failed"
  BY <1>1, <1>2, FinishTells DEF Statuses
<1>4. pend' \in PendType /\ pend'.pc = "failing" /\ pend'.cmd = pend.cmd
  BY <1>1, <1>2 DEF PendType
<1>5. (join.rejected \/ late) \in BOOLEAN
  BY <1>2 DEF JoinType
<1>6. /\ join' \in JoinType /\ join'.pc = join.pc /\ join'.run = join.run /\ join'.source = join.source
      /\ join'.pending = join.pending /\ join'.mcp = join.mcp /\ join'.rejected = (join.rejected \/ late)
  BY <1>1, <1>2, <1>5, RejectedTyped
<1>7. status' \in DriverStatuses /\ IsShuttingDown'
  BY <1>1 DEF DriverStatuses, IsShuttingDown, ShuttingDown
<1>8. PendingMoves
  BY <1>1, <1>2, <1>3, <1>4, <1>6, <1>7, UnmovedRun, UnmovedMcp DEF PendingMoves, DispatcherIndInv, LoopTypeOK
<1>9. /\ RunTypeOK' /\ TaskTypeOK' /\ LoopTypeOK' /\ ActiveIsInput' /\ BarrierHolds' /\ LoopIsTrue'
      /\ InputsAreKnown' /\ InputsEnd' /\ McpIsOfTheRun' /\ VerdictMatchesTerminal' /\ CancelsHold'
      /\ StopCompleted' = StopCompleted /\ Running(mcp)' = Running(mcp) /\ Stopping' = Stopping
  BY <1>8, PendingMovesKeeps
<1>10. ShutdownIsOrdered'
  BY <1>1, <1>4, <1>7 DEF DispatcherIndInv, ShutdownIsOrdered
<1>11. StopsWait'
  <2>1. ~Quiet
    BY <1>1 DEF Quiet
  <2>2. loop.pc \notin {"shutdown", "terminal"} /\ ~StopCompleted /\ ~(Stopping /\ join.pc = "ok")
    BY <2>1 DEF DispatcherIndInv, StopsWait
  <2>3. ASSUME Stopping, join.pc = "waiting"
        PROVE  pend.cmd = join.pending \/ workFailure # "none" \/ join'.rejected
    <3>1. CASE pend.pc = "waiting"
      BY <1>6, <2>3, <3>1 DEF DispatcherIndInv, StopsWait, PendingInput, WaitFails
    <3>2. CASE pend.pc = "started" /\ input.pc # "none"
      BY <1>6, <2>3, <3>2 DEF DispatcherIndInv, StopsWait, WaitFails
    <3>3. CASE pend.pc = "started" /\ fenceFailure
      BY <1>6, <2>3, <3>3 DEF DispatcherIndInv, StopsWait, WaitFails
    <3> QED BY <1>1, <3>1, <3>2, <3>3
  <2>4. loop' = loop /\ input' = input /\ workFailure' = workFailure
    BY <1>1
  <2>5. Stopping => join.source = "session.stop" /\ join.pc # "idle"
    BY DEF DispatcherIndInv, StopsWait
  <2>6. Stopping /\ join.pc = "waiting" => Running(mcp) \subseteq join.mcp
    BY DEF DispatcherIndInv, StopsWait
  <2> QED BY <1>4, <1>6, <1>7, <1>9, <2>2, <2>3, <2>4, <2>5, <2>6 DEF StopsWait, WaitFails
<1> QED BY <1>9, <1>10, <1>11 DEF DispatcherIndInv

LEMMA PendingFailsHolds ==
  ASSUME DispatcherIndInv, PendingFails
  PROVE  DispatcherIndInv'
<1>1. /\ pend.pc = "failing" /\ workFailure' # "none" /\ workFailure' \in {"none", "delivery", "other"}
      /\ UNCHANGED <<loop, tracked, input, pub, fences, mcpFailures, join, fenceFailure, handled>>
  BY DEF PendingFails, DispatcherIndInv, LoopTypeOK
<1>2. /\ pend.cmd \in Inputs /\ pend.cmd \in Commands /\ pend \in PendType /\ join \in JoinType
      /\ tracked[pend.cmd] # "none" /\ ShutdownAttempt \in Nat /\ mcp \in McpType
  BY <1>1, InputsNamed, JoinTyped, AttemptTyped
     DEF DispatcherIndInv, ActiveIsInput, TaskTypeOK, PendType, McpType, InputsAreKnown
<1>3. PICK outcome \in Deliveries :
        /\ Shutdown(status, [pend EXCEPT !.pc = "closing", !.attempt = ShutdownAttempt,
                                         !.rejected = (outcome = "failed")], mcp)
        /\ delivered' = IF outcome = "ok" THEN delivered \cup {pend.cmd} ELSE delivered
  BY DEF PendingFails
<1> DEFINE p == [pend EXCEPT !.pc = "closing", !.attempt = ShutdownAttempt, !.rejected = (outcome = "failed")]
<1>4. p \in PendType /\ p.pc = "closing" /\ p.cmd = pend.cmd
  BY <1>2 DEF PendType
<1>5. Shutdown(status, p, mcp)
  BY <1>3
<1> HIDE DEF p
<1>6. RunTypeOK /\ LoopTypeOK /\ ShutdownIsOrdered
  BY DEF DispatcherIndInv
<1>7. SameRun /\ SamePending(p) /\ SameMcp(mcp) /\ ShutdownAsked
  BY <1>2, <1>4, <1>5, <1>6, ShutdownSoftens
<1>8. pend' \in PendType /\ pend'.pc = "closing" /\ pend'.cmd = pend.cmd
  BY <1>4, <1>7 DEF SamePending
<1>9. delivered \subseteq delivered' /\ delivered' \subseteq Commands
  BY <1>2, <1>3, <1>6 DEF LoopTypeOK
<1>10. PendingMoves
  BY <1>1, <1>2, <1>6, <1>7, <1>8, <1>9, SilenceTells DEF PendingMoves, ShutdownAsked, LoopTypeOK
<1>11. /\ RunTypeOK' /\ TaskTypeOK' /\ LoopTypeOK' /\ ActiveIsInput' /\ BarrierHolds' /\ LoopIsTrue'
       /\ InputsAreKnown' /\ InputsEnd' /\ McpIsOfTheRun' /\ VerdictMatchesTerminal' /\ CancelsHold'
       /\ StopCompleted' = StopCompleted /\ Running(mcp)' = Running(mcp) /\ Stopping' = Stopping
  BY <1>10, PendingMovesKeeps
<1>12. ShutdownIsOrdered'
  BY <1>1, <1>6, <1>7 DEF ShutdownIsOrdered, ShutdownAsked
<1>13. StopsWait'
  <2>1. ~Quiet
    BY <1>1 DEF Quiet
  <2>2. loop.pc \notin {"shutdown", "terminal"} /\ ~StopCompleted /\ ~(Stopping /\ join.pc = "ok")
    BY <2>1 DEF DispatcherIndInv, StopsWait
  <2>3. Stopping => join.source = "session.stop" /\ join.pc # "idle"
    BY DEF DispatcherIndInv, StopsWait
  <2>4. Stopping /\ join.pc = "waiting" => Running(mcp) \subseteq join.mcp
    BY DEF DispatcherIndInv, StopsWait
  <2> QED BY <1>1, <1>7, <1>8, <1>11, <2>2, <2>3, <2>4 DEF StopsWait, WaitFails, ShutdownAsked
<1> QED BY <1>11, <1>12, <1>13 DEF DispatcherIndInv

LEMMA PendingEndsHolds ==
  ASSUME DispatcherIndInv, PendingEnds
  PROVE  DispatcherIndInv'
<1> DEFINE rejects == pend.rejected /\ join.pc = "waiting" /\ join.pending = pend.cmd
<1>1. /\ (pend.pc = "started" /\ input.pc = "none") \/ pend.pc = "closing"
      /\ pend' = NoPending /\ join' = [join EXCEPT !.rejected = join.rejected \/ rejects]
      /\ UNCHANGED <<terminalVars, runtimeVars, loop, tracked, input, mcp, pub, fences, mcpFailures,
                     failureVars, aborted, shutdowns, handled, delivered>>
  BY DEF PendingEnds
<1>2. join \in JoinType /\ (join.rejected \/ rejects) \in BOOLEAN
  <2>1. join \in JoinType /\ pend \in PendType
    BY JoinTyped DEF DispatcherIndInv, TaskTypeOK, PendType
  <2> QED BY <2>1 DEF JoinType, PendType
<1>3. /\ join' \in JoinType /\ join'.pc = join.pc /\ join'.run = join.run /\ join'.source = join.source
      /\ join'.pending = join.pending /\ join'.mcp = join.mcp /\ join'.rejected = (join.rejected \/ rejects)
  BY <1>1, <1>2, RejectedTyped
<1>4. pend' \in PendType /\ pend'.pc = "none"
  BY <1>1 DEF NoPending, PendType, Cancellations
<1>5. /\ status' = status /\ lastGeneration' = lastGeneration /\ workFailure' = workFailure
      /\ fenceFailure' = fenceFailure
  BY <1>1 DEF runtimeVars, failureVars
<1>6. PendingMoves
  BY <1>1, <1>3, <1>4, <1>5, SilenceTells, UnmovedRun, UnmovedMcp
     DEF PendingMoves, DispatcherIndInv, LoopTypeOK, RunTypeOK, IsShuttingDown
<1>7. /\ RunTypeOK' /\ TaskTypeOK' /\ LoopTypeOK' /\ ActiveIsInput' /\ BarrierHolds' /\ LoopIsTrue'
      /\ InputsAreKnown' /\ InputsEnd' /\ McpIsOfTheRun' /\ VerdictMatchesTerminal' /\ CancelsHold'
      /\ StopCompleted' = StopCompleted /\ Running(mcp)' = Running(mcp) /\ Stopping' = Stopping
  BY <1>6, PendingMovesKeeps
<1>8. ShutdownIsOrdered'
  BY <1>1, <1>4, <1>5 DEF DispatcherIndInv, ShutdownIsOrdered, IsShuttingDown
<1>9. StopsWait'
  <2>1. pend.pc = "closing" => workFailure # "none"
    BY DEF DispatcherIndInv, ShutdownIsOrdered
  <2>2. Quiet => Quiet'
    BY <1>1, <1>4, <1>5, <1>7 DEF Quiet, IsShuttingDown
  <2>3. ~PendingInput' /\ IsShuttingDown' = IsShuttingDown
    BY <1>4, <1>5 DEF PendingInput, IsShuttingDown
  <2>4. StopsWait
    BY DEF DispatcherIndInv
  <2>5. UNCHANGED <<loop, input, shutdowns, instanceTerminal>>
    BY <1>1 DEF terminalVars, machineVars
  <2>6. Stopping => IsShuttingDown' /\ join'.source = "session.stop" /\ join'.pc # "idle"
    BY <1>3, <2>3, <2>4 DEF StopsWait
  <2>7. WaitFails => WaitFails'
    BY <1>3, <1>5 DEF WaitFails
  <2>8. ASSUME Stopping, join.pc = "waiting"
        PROVE  /\ input.pc # "none" => join.run = input.revision \/ WaitFails'
               /\ fenceFailure => WaitFails'
    <3>1. CASE pend.pc = "closing"
      BY <1>5, <2>1, <3>1 DEF WaitFails
    <3>2. CASE pend.pc = "started" /\ input.pc = "none"
      BY <2>4, <2>7, <2>8, <3>2 DEF StopsWait
    <3> QED BY <1>1, <3>1, <3>2
  <2>9. Stopping /\ join.pc = "waiting" => Running(mcp) \subseteq join.mcp
    BY <2>4 DEF StopsWait
  <2>10. /\ Stopping' /\ join'.pc = "waiting" =>
              /\ Running(mcp)' \subseteq join'.mcp
              /\ PendingInput' => pend'.cmd = join'.pending \/ WaitFails'
              /\ input'.pc # "none" => \/ join'.run = input'.revision
                                       \/ pend'.pc # "none" /\ pend'.cmd = join'.pending
                                       \/ WaitFails'
              /\ fenceFailure' => \/ pend'.pc = "failing" /\ pend'.cmd = join'.pending
                                  \/ WaitFails'
    BY <1>3, <1>5, <1>7, <2>3, <2>5, <2>8, <2>9
  <2>11. /\ Stopping' /\ join'.pc = "ok" => Quiet'
         /\ loop'.pc \in {"shutdown", "terminal"} \/ StopCompleted' => Quiet'
         /\ loop'.pc = "shutdown" => loop'.attempt \in 1..Len(shutdowns')
         /\ loop'.pc = "terminal" \/ StopCompleted' =>
              shutdowns' # << >> /\ shutdowns'[Len(shutdowns')] = "ok"
         /\ StopCompleted' => instanceTerminal'.phase = "acked"
    BY <1>3, <1>7, <2>2, <2>4, <2>5 DEF StopsWait
  <2> QED BY <1>4, <1>7, <2>6, <2>10, <2>11 DEF StopsWait
<1> QED BY <1>7, <1>8, <1>9 DEF DispatcherIndInv

(* A step of an MCP command.                                               *)
McpMoves ==
  /\ UNCHANGED <<loop, input, pub, join, fenceFailure, handled>>
  /\ SameRun /\ SamePending(pend)
  /\ Running(mcp) # {} /\ mcp' \in McpType /\ Running(mcp)' \subseteq Running(mcp)
  /\ Told /\ (\A c \in Commands : tracked'[c] # tracked[c] => c \in McpCommands)
  /\ activeRun.runId \in fences => activeRun.runId \in fences'
  /\ delivered \subseteq delivered' /\ delivered' \subseteq Commands
  /\ status' \in DriverStatuses /\ (IsShuttingDown => IsShuttingDown') /\ lastGeneration' = lastGeneration
  /\ aborted' \in BOOLEAN /\ (aborted => aborted')
  /\ workFailure' \in {"none", "delivery", "other"} /\ (workFailure # "none" => workFailure' # "none")
  /\ shutdowns' \in Seq(Outcomes)

(* Such a step keeps the invariant.                                        *)
LEMMA McpMovesHolds ==
  ASSUME DispatcherIndInv, McpMoves, ShutdownIsOrdered'
  PROVE  DispatcherIndInv'
<1>1. /\ UNCHANGED <<loop, input, pub, join, fenceFailure, handled>> /\ SameRun /\ Told
      /\ pend' \in PendType /\ pend'.pc = pend.pc /\ pend'.cmd = pend.cmd
      /\ pend.cancellation # "none" => pend'.cancellation # "none"
  BY DEF McpMoves, SamePending
<1>2. /\ \A c \in Inputs : tracked'[c] = tracked[c]
      /\ \A c \in Commands : c.kind # "mcp.execute" => tracked'[c] = tracked[c]
  BY InputsNamed DEF McpMoves
<1>3. RunTypeOK'
  BY DEF McpMoves, SameRun, DispatcherIndInv, RunTypeOK
<1>4. TaskTypeOK'
  BY <1>1 DEF McpMoves, PendType, McpType, DispatcherIndInv, TaskTypeOK
<1>5. LoopTypeOK'
  BY DEF McpMoves, Told, DispatcherIndInv, LoopTypeOK
<1>6. ActiveIsInput'
  BY <1>1 DEF DispatcherIndInv, ActiveIsInput, SameRun
<1>7. BarrierHolds'
  <2> DEFINE past == IF loop.admitted THEN {loop.cmd.run} ELSE {}
  <2>1. past \in SUBSET Runs /\ \A r \in past : HasWork(r)
    BY InputsNamed DEF DispatcherIndInv, LoopIsTrue, HasWork, Admission
  <2>2. \A m \in McpCommands : mcp'[m].pc # "none" => mcp[m].pc # "none"
    BY DEF McpMoves, Running
  <2>3. activeRun.runId \in fences => activeRun.runId \in fences'
    BY DEF McpMoves
  <2> QED BY <1>1, <2>1, <2>2, <2>3, BarrierKept
<1>8. NobodyAccepted
  BY <1>1 DEF NobodyAccepted, Accepting
<1>9. LoopIsTrue'
  <2>1. loop.pc = "accepting" /\ loop.cmd.kind # "mcp.execute" => tracked'[loop.cmd] = tracked[loop.cmd]
    BY <1>2 DEF DispatcherIndInv, LoopIsTrue
  <2> QED BY <1>1, <2>1 DEF DispatcherIndInv, LoopIsTrue
<1>10. InputsAreKnown'
  <2>1. pend.pc # "none" => tracked'[pend.cmd] = tracked[pend.cmd]
    BY <1>2 DEF DispatcherIndInv, ActiveIsInput
  <2> QED BY <1>1, <1>8, <2>1, KnownKept
<1>11. InputsEnd'
  <2>1. \A c : IsOver(c) => IsOver(c)'
    BY DEF IsOver, McpMoves, SameRun
  <2> QED BY <1>1, <2>1 DEF McpMoves, DispatcherIndInv, InputsEnd
<1>12. McpIsOfTheRun'
  BY <1>1 DEF McpMoves, SameRun, DispatcherIndInv, McpIsOfTheRun
<1>13. VerdictMatchesTerminal'
  BY <1>1, <1>2, VerdictsKept DEF SameRun
<1>14. StopsWait'
  <2>1. ~Quiet
    BY DEF Quiet, McpMoves
  <2>2. loop.pc \notin {"shutdown", "terminal"} /\ ~StopCompleted /\ ~(Stopping /\ join.pc = "ok")
    BY <2>1 DEF DispatcherIndInv, StopsWait
  <2>3. StopCompleted' = StopCompleted /\ Stopping' = Stopping /\ PendingInput' = PendingInput
        /\ (WaitFails => WaitFails')
    BY <1>1, <1>2 DEF StopCompleted, Stopping, PendingInput, WaitFails, McpMoves
  <2>4. /\ Running(mcp)' \subseteq Running(mcp) /\ (IsShuttingDown => IsShuttingDown')
    BY DEF McpMoves
  <2>5. StopsWait
    BY DEF DispatcherIndInv
  <2>6. fenceFailure' = fenceFailure /\ join' = join /\ input' = input
    BY <1>1
  <2> QED BY <1>1, <2>2, <2>3, <2>4, <2>5, <2>6 DEF StopsWait
<1>15. CancelsHold'
  <2>1. ASSUME NEW d \in Inputs, Harmless(d) PROVE Harmless(d)'
    BY <1>1, <1>8, <2>1, HarmlessKept
  <2>2. ASSUME NEW d \in Inputs, Awaits(d) PROVE Awaits(d)'
    BY <1>1, <2>2 DEF Awaits
  <2> QED BY <1>1, <1>2, <2>1, <2>2 DEF DispatcherIndInv, CancelsHold
<1> QED BY <1>3, <1>4, <1>5, <1>6, <1>7, <1>9, <1>10, <1>11, <1>12, <1>13, <1>14, <1>15 DEF DispatcherIndInv

(* The fence of the current run is never taken down.                       *)
LEMMA ClearRunKeeps ==
  ASSUME DispatcherIndInv, NEW c \in McpCommands, NEW failures, ClearRun(c, failures)
  PROVE  activeRun.runId \in fences => activeRun.runId \in fences'
BY DEF ClearRun, CurrentRunId

(* An entry of the table of MCP commands is replaced.                      *)
LEMMA McpReplaced ==
  ASSUME NEW m \in McpType, NEW c \in McpCommands,
         NEW e \in [pc : {"none", "running", "finishing"}, aborted : BOOLEAN]
  PROVE  /\ [m EXCEPT ![c] = e] \in McpType
         /\ \A d \in McpCommands : [m EXCEPT ![c] = e][d] = IF d = c THEN e ELSE m[d]
BY DEF McpType

LEMMA UnmovedPending ==
  ASSUME DispatcherIndInv, UNCHANGED pend
  PROVE  SamePending(pend)
BY DEF SamePending, PendType, DispatcherIndInv, TaskTypeOK

(* The three ends of an MCP command.                                       *)
LEMMA McpSettlesHolds ==
  ASSUME DispatcherIndInv, NEW c \in McpCommands, NEW outcome \in {"completed", "failed", "cancelled"},
         McpSettles(c, outcome)
  PROVE  DispatcherIndInv'
<1> DEFINE e == [mcp[c] EXCEPT !.pc = "finishing"]
<1>1. /\ mcp[c].pc = "running" /\ mcp' = [mcp EXCEPT ![c] = e] /\ FinishCommand(c, outcome)
      /\ UNCHANGED <<terminalVars, runtimeVars, loop, input, pend, pub, fences, mcpFailures, join,
                     failureVars, aborted, shutdowns, handled, delivered, failedMcpRuns>>
  BY DEF McpSettles
<1>2. mcp \in McpType /\ mcp[c] \in [pc : {"none", "running", "finishing"}, aborted : BOOLEAN]
  BY DEF DispatcherIndInv, TaskTypeOK, McpType
<1>3. e \in [pc : {"none", "running", "finishing"}, aborted : BOOLEAN]
  BY <1>2
<1> HIDE DEF e
<1>4. mcp' \in McpType /\ \A d \in McpCommands : mcp'[d] = IF d = c THEN e ELSE mcp[d]
  <2>1. /\ [mcp EXCEPT ![c] = e] \in McpType
        /\ \A d \in McpCommands : [mcp EXCEPT ![c] = e][d] = IF d = c THEN e ELSE mcp[d]
    BY <1>2, <1>3, McpReplaced
  <2>2. mcp' = [mcp EXCEPT ![c] = e]
    BY <1>1
  <2> QED BY <2>1, <2>2
<1>5. Running(mcp) # {} /\ Running(mcp)' \subseteq Running(mcp)
  BY <1>1, <1>4 DEF Running
<1>6. /\ Told /\ \A d \in Commands : tracked'[d] # tracked[d] => d = c
  BY <1>1, InputsNamed, FinishTells DEF Statuses
<1>7. status' = status /\ lastGeneration' = lastGeneration /\ workFailure' = workFailure
      /\ fenceFailure' = fenceFailure
  BY <1>1 DEF runtimeVars, failureVars
<1>8. McpMoves
  BY <1>1, <1>4, <1>5, <1>6, <1>7, UnmovedRun, UnmovedPending
     DEF McpMoves, DispatcherIndInv, LoopTypeOK, RunTypeOK, IsShuttingDown
<1>9. ShutdownIsOrdered'
  BY <1>1, <1>7 DEF DispatcherIndInv, ShutdownIsOrdered, IsShuttingDown
<1> QED BY <1>8, <1>9, McpMovesHolds

LEMMA NoMcpTyped == NoMcp \in [pc : {"none", "running", "finishing"}, aborted : BOOLEAN] /\ NoMcp.pc = "none"
BY DEF NoMcp

LEMMA McpFinishedHolds ==
  ASSUME DispatcherIndInv, NEW c \in McpCommands, McpFinished(c)
  PROVE  DispatcherIndInv'
<1>1. /\ mcp[c].pc = "finishing" /\ mcp' = [mcp EXCEPT ![c] = NoMcp] /\ ClearRun(c, mcpFailures)
      /\ delivered' = delivered \cup {c}
      /\ UNCHANGED <<terminalVars, runtimeVars, loop, tracked, input, pend, pub, join, failureVars,
                     aborted, shutdowns, handled, failedMcpRuns>>
  BY DEF McpFinished
<1>2. mcp \in McpType /\ c \in Commands
  BY InputsNamed DEF DispatcherIndInv, TaskTypeOK, McpType
<1>3. mcp' \in McpType /\ \A d \in McpCommands : mcp'[d] = IF d = c THEN NoMcp ELSE mcp[d]
  <2>1. /\ [mcp EXCEPT ![c] = NoMcp] \in McpType
        /\ \A d \in McpCommands : [mcp EXCEPT ![c] = NoMcp][d] = IF d = c THEN NoMcp ELSE mcp[d]
    BY <1>2, NoMcpTyped, McpReplaced
  <2>2. mcp' = [mcp EXCEPT ![c] = NoMcp]
    BY <1>1
  <2> QED BY <2>1, <2>2
<1>4. Running(mcp) # {} /\ Running(mcp)' \subseteq Running(mcp)
  BY <1>1, <1>3, NoMcpTyped DEF Running
<1>5. status' = status /\ lastGeneration' = lastGeneration /\ workFailure' = workFailure
      /\ fenceFailure' = fenceFailure
  BY <1>1 DEF runtimeVars, failureVars
<1>6. McpMoves
  BY <1>1, <1>2, <1>3, <1>4, <1>5, UnmovedRun, UnmovedPending, SilenceTells, ClearRunKeeps
     DEF McpMoves, DispatcherIndInv, LoopTypeOK, RunTypeOK, IsShuttingDown
<1>7. ShutdownIsOrdered'
  BY <1>1, <1>5 DEF DispatcherIndInv, ShutdownIsOrdered, IsShuttingDown
<1> QED BY <1>6, <1>7, McpMovesHolds

LEMMA McpFailsHolds ==
  ASSUME DispatcherIndInv, NEW c \in McpCommands, McpFails(c)
  PROVE  DispatcherIndInv'
<1> DEFINE m == [mcp EXCEPT ![c] = NoMcp]
<1>1. /\ mcp[c].pc # "none" /\ ClearRun(c, mcpFailures \cup {c.run}) /\ Shutdown(status, pend, m)
      /\ workFailure' # "none"
      /\ UNCHANGED <<loop, tracked, input, pub, join, fenceFailure, handled, delivered>>
  BY DEF McpFails
<1>2. /\ mcp \in McpType /\ pend \in PendType /\ RunTypeOK /\ LoopTypeOK /\ ShutdownIsOrdered
      /\ workFailure' \in {"none", "delivery", "other"}
  <2>1. workFailure' \in {workFailure, "delivery", "other"}
    BY DEF McpFails
  <2> QED BY <2>1 DEF DispatcherIndInv, TaskTypeOK, McpType, PendType, LoopTypeOK
<1>3. m \in McpType /\ \A d \in McpCommands : m[d] = IF d = c THEN NoMcp ELSE mcp[d]
  BY <1>2, NoMcpTyped, McpReplaced
<1> HIDE DEF m
<1>4. SameRun /\ SamePending(pend) /\ SameMcp(m) /\ ShutdownAsked
  BY <1>1, <1>2, <1>3, ShutdownSoftens
<1>5. mcp' \in McpType /\ Running(mcp) # {} /\ Running(mcp)' \subseteq Running(mcp)
  BY <1>1, <1>3, <1>4, NoMcpTyped DEF SameMcp, Running
<1>6. McpMoves
  BY <1>1, <1>2, <1>4, <1>5, SilenceTells, ClearRunKeeps DEF McpMoves, ShutdownAsked, LoopTypeOK
<1>7. ShutdownIsOrdered'
  BY <1>1, <1>2, <1>4 DEF ShutdownIsOrdered, ShutdownAsked, SamePending
<1> QED BY <1>6, <1>7, McpMovesHolds

(* A step from outside: nothing moves but the shutdown.                    *)
OutsideMoves ==
  /\ Calm /\ tracked' = tracked /\ UNCHANGED <<loop, join, fences, failureVars, delivered>>
  /\ shutdowns' \in Seq(Outcomes)

(* Such a step keeps the invariant, given what it says of the attempts.    *)
LEMMA OutsideMovesHolds ==
  ASSUME DispatcherIndInv, OutsideMoves, ShutdownIsOrdered', Quiet => Quiet',
         loop.pc = "shutdown" => loop.attempt \in 1..Len(shutdowns'),
         loop.pc = "terminal" \/ StopCompleted =>
           shutdowns' # << >> /\ shutdowns'[Len(shutdowns')] = "ok"
  PROVE  DispatcherIndInv'
<1>1. /\ Calm /\ tracked' = tracked /\ UNCHANGED <<loop, join, fences, fenceFailure, workFailure, delivered, input, pub>>
      /\ SameMcp(mcp) /\ SameRun
      /\ pend'.pc = pend.pc /\ pend'.cmd = pend.cmd
      /\ pend.cancellation # "none" => pend'.cancellation # "none"
      /\ IsShuttingDown => IsShuttingDown'
  BY DEF OutsideMoves, Calm, SamePending, failureVars
<1>2. Told /\ NobodyAccepted
  BY <1>1, SilenceTells DEF NobodyAccepted, Accepting
<1>3. /\ RunTypeOK' /\ TaskTypeOK' /\ ActiveIsInput' /\ InputsEnd' /\ McpIsOfTheRun'
      /\ InputsAreKnown' /\ VerdictMatchesTerminal' /\ Running(mcp)' = Running(mcp)
      /\ \A d \in Inputs : Harmless(d) => Harmless(d)'
  BY <1>1, <1>2, CalmKnown, CalmRun
<1>4. LoopTypeOK'
  BY <1>1 DEF OutsideMoves, Calm, DispatcherIndInv, LoopTypeOK
<1>5. LoopIsTrue'
  BY <1>1 DEF DispatcherIndInv, LoopIsTrue
<1>6. BarrierHolds'
  <2>1. loop.admitted => loop.cmd \in McpCommands /\ HasWork(loop.cmd.run)
    BY DEF DispatcherIndInv, LoopIsTrue, HasWork, Admission
  <2> QED BY <1>1, <2>1, AdmittedBarrier
<1>7. StopsWait'
  <2>1. /\ StopCompleted' = StopCompleted /\ Stopping' = Stopping /\ PendingInput' = PendingInput
        /\ WaitFails' = WaitFails
    BY <1>1 DEF StopCompleted, Stopping, PendingInput, WaitFails
  <2>2. StopsWait
    BY DEF DispatcherIndInv
  <2>3. instanceTerminal.phase = "acked" => instanceTerminal'.phase = "acked"
    BY <1>1 DEF SameRun
  <2>4. Stopping /\ join.pc = "ok" => Quiet'
    BY <2>2 DEF StopsWait
  <2>5. loop.pc \in {"shutdown", "terminal"} \/ StopCompleted => Quiet'
    BY <2>2 DEF StopsWait
  <2> QED BY <1>1, <1>3, <2>1, <2>2, <2>3, <2>4, <2>5 DEF StopsWait
<1>8. CancelsHold'
  <2>1. ASSUME NEW d \in Inputs, Awaits(d) PROVE Awaits(d)'
    BY <1>1, <2>1 DEF Awaits
  <2> QED BY <1>1, <1>3, <2>1 DEF DispatcherIndInv, CancelsHold
<1> QED BY <1>3, <1>4, <1>5, <1>6, <1>7, <1>8 DEF DispatcherIndInv

(* The shutdown ends, and is asked for from outside.                       *)
LEMMA ShutdownEndsHolds ==
  ASSUME DispatcherIndInv, NEW outcome \in Deliveries, ShutdownEnds(outcome)
  PROVE  DispatcherIndInv'
<1>1. /\ shutdowns # << >> /\ shutdowns[Len(shutdowns)] = "running"
      /\ shutdowns' = [shutdowns EXCEPT ![Len(shutdowns)] = outcome]
      /\ UNCHANGED <<terminalVars, loop, tracked, taskVars, join, failureVars, aborted, handled,
                     delivered, failedMcpRuns>>
      /\ lastGeneration' = lastGeneration
      /\ status' = status \/ (status = "stopping" /\ status' \in {"stopped", "failed"})
  BY DEF ShutdownEnds, SetStatus
<1>2. shutdowns \in Seq(Outcomes) /\ outcome \in Outcomes
  BY DeliveriesAssumption DEF DispatcherIndInv, LoopTypeOK, Outcomes
<1>3. /\ shutdowns' \in Seq(Outcomes) /\ Len(shutdowns') = Len(shutdowns) /\ shutdowns' # << >>
      /\ \A k \in 1..Len(shutdowns) : k < Len(shutdowns) => shutdowns'[k] = shutdowns[k]
  <2>1. Len(shutdowns) \in Nat
    BY <1>2
  <2>2. Len(shutdowns) \in 1..Len(shutdowns)
    BY <1>1, <1>2
  <2> QED BY <1>1, <1>2, <2>1, <2>2
<1>4. /\ status' \in DriverStatuses /\ (IsShuttingDown => IsShuttingDown')
  BY <1>1 DEF IsShuttingDown, ShuttingDown, DriverStatuses, DispatcherIndInv, RunTypeOK
<1>5. UNCHANGED <<input, pend, mcp, pub, fences>>
  BY <1>1 DEF taskVars
<1>6. Calm
  BY <1>1, <1>4, <1>5, UnmovedRun, UnmovedPending, UnmovedMcp DEF Calm, DispatcherIndInv, LoopTypeOK
<1>7. OutsideMoves
  BY <1>1, <1>3, <1>5, <1>6 DEF OutsideMoves
<1>8. ShutdownIsOrdered'
  <2>1. \A k \in 1..Len(shutdowns') : k < Len(shutdowns') => shutdowns'[k] = "failed"
    BY <1>3 DEF DispatcherIndInv, ShutdownIsOrdered
  <2>2. aborted /\ UNCHANGED <<loop, input, pend, aborted, workFailure>>
    BY <1>1, <1>5 DEF DispatcherIndInv, ShutdownIsOrdered, failureVars
  <2> QED BY <1>4, <2>1, <2>2 DEF DispatcherIndInv, ShutdownIsOrdered
<1>9. Quiet => Quiet'
  BY <1>1, <1>4, <1>5 DEF Quiet, Running, failureVars
<1>10. loop.pc # "terminal" /\ ~StopCompleted
  BY <1>1 DEF DispatcherIndInv, StopsWait
<1>11. loop.pc = "shutdown" => loop.attempt \in 1..Len(shutdowns')
  BY <1>3 DEF DispatcherIndInv, StopsWait
<1> QED BY <1>7, <1>8, <1>9, <1>10, <1>11, OutsideMovesHolds

LEMMA InterruptHolds ==
  ASSUME DispatcherIndInv, NEW cause, Interrupt(cause)
  PROVE  DispatcherIndInv'
<1>1. /\ RunTypeOK /\ LoopTypeOK /\ ShutdownIsOrdered /\ pend \in PendType /\ mcp \in McpType
      /\ ~aborted /\ shutdowns = << >>
  BY DEF Interrupt, DispatcherIndInv, TaskTypeOK, PendType, McpType, ShutdownIsOrdered
<1>2. UNCHANGED <<loop, tracked, input, pub, fences, join, failureVars, handled, delivered>>
  BY DEF Interrupt
<1>3. PICK from \in {status, "failed"} : Shutdown(from, pend, mcp)
  BY DEF Interrupt
<1>4. SameRun /\ SamePending(pend) /\ SameMcp(mcp) /\ ShutdownAsked
  BY <1>1, <1>3, ShutdownSoftens
<1>5. Calm
  BY <1>1, <1>2, <1>4 DEF Calm, ShutdownAsked, LoopTypeOK
<1>6. OutsideMoves
  BY <1>2, <1>4, <1>5 DEF OutsideMoves, ShutdownAsked
<1>7. ShutdownIsOrdered'
  BY <1>1, <1>2, <1>4 DEF ShutdownIsOrdered, ShutdownAsked, SamePending, failureVars
<1>8. Quiet => Quiet'
  BY <1>2, <1>4 DEF Quiet, Running, SamePending, SameMcp, ShutdownAsked, failureVars
<1>9. loop.pc \notin {"shutdown", "terminal"} /\ ~StopCompleted
  <2>1. Len(shutdowns) = 0
    BY <1>1
  <2>2. 1..0 = {}
    OBVIOUS
  <2> QED BY <1>1, <2>1, <2>2 DEF DispatcherIndInv, StopsWait
<1> QED BY <1>6, <1>7, <1>8, <1>9, OutsideMovesHolds

LEMMA StutterHolds ==
  ASSUME DispatcherIndInv, UNCHANGED dispatcherVars
  PROVE  DispatcherIndInv'
<1>1. UNCHANGED <<terminalVars, runtimeVars, taskVars, failureVars, loop, tracked, join, aborted, shutdowns,
                  handled, delivered>>
  BY DEF dispatcherVars
<1>2. UNCHANGED <<input, pend, mcp, pub, fences>>
  BY <1>1 DEF taskVars
<1>3. status' = status /\ IsShuttingDown' = IsShuttingDown /\ lastGeneration' = lastGeneration
  BY <1>1 DEF runtimeVars, IsShuttingDown
<1>4. Calm
  BY <1>1, <1>2, <1>3, UnmovedRun, UnmovedPending, UnmovedMcp DEF Calm, DispatcherIndInv, LoopTypeOK, RunTypeOK
<1>5. OutsideMoves
  BY <1>1, <1>2, <1>4 DEF OutsideMoves, DispatcherIndInv, LoopTypeOK
<1>6. ShutdownIsOrdered'
  BY <1>1, <1>2, <1>3 DEF DispatcherIndInv, ShutdownIsOrdered, failureVars
<1>7. Quiet => Quiet'
  BY <1>1, <1>2, <1>3 DEF Quiet, Running, failureVars
<1> QED BY <1>1, <1>5, <1>6, <1>7, OutsideMovesHolds DEF DispatcherIndInv, StopsWait

(* The invariant holds at the start and is kept by every step.             *)
LEMMA DispatcherStarts == DispatcherInit => DispatcherIndInv
<1> SUFFICES ASSUME DispatcherInit PROVE DispatcherIndInv
  OBVIOUS
<1>1. /\ activeRun = NullRun /\ revision = 0 /\ instanceTerminal = [phase |-> "open"] /\ published = {}
      /\ status = "ready" /\ lastGeneration = 0 /\ loop = Idle /\ tracked = [c \in Commands |-> "unknown"]
      /\ input = NoInput /\ pend = NoPending /\ mcp = [c \in McpCommands |-> NoMcp]
      /\ pub = [pc |-> "idle", status |-> "none"] /\ join = NoJoin /\ fences = {}
      /\ workFailure = "none" /\ fenceFailure = FALSE /\ aborted = FALSE /\ shutdowns = << >>
      /\ handled = {} /\ delivered = {}
  BY DEF DispatcherInit, TerminalInit
<1>2. /\ loop \in LoopType /\ loop.pc = "poll" /\ ~loop.admitted
      /\ input \in InputType /\ input.pc = "none" /\ pend \in PendType /\ pend.pc = "none"
  BY <1>1 DEF Idle, LoopType, LoopPlaces, NoInput, InputType, InputPlaces, NoPending, PendType, Cancellations
<1>3. Running(mcp) = {} /\ mcp \in McpType
  BY <1>1, NoMcpTyped DEF Running, McpType
<1>4. \A c \in Commands : tracked[c] = "unknown"
  BY <1>1
<1>5. RunTypeOK
  BY <1>1 DEF RunTypeOK, DriverStatuses
<1>6. TaskTypeOK
  BY <1>1, <1>2, <1>3 DEF TaskTypeOK, InputType, PendType, McpType
<1>7. LoopTypeOK
  <2>1. shutdowns \in Seq(Outcomes)
    BY <1>1
  <2>2. tracked \in [Commands -> TrackedStates]
    BY <1>1 DEF TrackedStates
  <2> QED BY <1>1, <1>2, <2>1, <2>2, NoJoinTyped DEF LoopTypeOK, LoopType, JoinType
<1>8. ActiveIsInput
  BY <1>1, <1>2 DEF ActiveIsInput, LivePlaces
<1>9. ShutdownIsOrdered
  <2>1. Len(shutdowns) = 0
    BY <1>1
  <2>2. 1..0 = {}
    OBVIOUS
  <2> QED BY <1>1, <1>2, <2>1, <2>2 DEF ShutdownIsOrdered, DownPlaces
<1>10. BarrierHolds
  BY <1>1, NullIsNoRun DEF BarrierHolds
<1>11. LoopIsTrue
  BY <1>2 DEF LoopIsTrue
<1>12. InputsAreKnown
  BY <1>1, <1>2 DEF InputsAreKnown
<1>13. InputsEnd /\ McpIsOfTheRun
  BY <1>1, <1>2, <1>3 DEF InputsEnd, McpIsOfTheRun
<1>14. VerdictMatchesTerminal
  BY <1>4, InputsNamed DEF VerdictMatchesTerminal
<1>15. StopsWait
  BY <1>2, <1>4 DEF StopsWait, Stopping, StopCompleted
<1>16. CancelsHold
  BY <1>2, <1>4 DEF CancelsHold
<1> QED BY <1>5, <1>6, <1>7, <1>8, <1>9, <1>10, <1>11, <1>12, <1>13, <1>14, <1>15, <1>16 DEF DispatcherIndInv

(* One case per action of the next-state relation.                         *)
LEMMA DispatcherInductive ==
  DispatcherIndInv /\ [DispatcherNext]_dispatcherVars => DispatcherIndInv'
<1> SUFFICES ASSUME DispatcherIndInv, [DispatcherNext]_dispatcherVars PROVE DispatcherIndInv'
  OBVIOUS
<1>1. CASE \E c \in Commands : Fetch(c)
  BY <1>1, FetchHolds
<1>2. CASE FetchFails
  BY <1>2, LoopThrows
<1>3. CASE LoopStep
  <2>1. CASE HandleWithoutEffect \/ HandleNew \/ Answered
    BY <2>1, HandleWithoutEffectHolds, HandleNewHolds, AnsweredHolds
  <2>2. CASE DeliveryFails \/ FatalFinished \/ LeaveThrows
    BY <2>2, LoopThrows
  <2>3. CASE AcceptedInput \/ AcceptedMcp \/ AcceptedStop \/ AcceptedOther
    BY <2>3, AcceptedInputHolds, AcceptedMcpHolds, AcceptedStopHolds, AcceptedOtherHolds
  <2>4. CASE Cancelled \/ StopShutDown \/ StopReported
    BY <2>4, CancelledHolds, StopShutDownHolds, StopReportedHolds
  <2>5. CASE CommandFails \/ FailedStopShutDown \/ Finished
    BY <2>5, CommandFailsHolds, FailedStopShutDownHolds, FinishedHolds
  <2>6. CASE Leave \/ Exit \/ Reported \/ CrashShutDown
    BY <2>6, LeaveHolds, ExitHolds, ReportedHolds, CrashShutDownHolds
  <2> QED BY <1>3, <2>1, <2>2, <2>3, <2>4, <2>5, <2>6 DEF LoopStep
<1>4. CASE JoinStep
  BY <1>4, JoinPermissionsHolds, JoinDoneHolds, JoinTimeoutHolds DEF JoinStep
<1>5. CASE PublicationStep
  BY <1>5, SelectHolds, PublishFailsHolds, AcknowledgeHolds DEF PublicationStep
<1>6. CASE BackendStep
  BY <1>6, PublishHolds, InputSettlesHolds DEF BackendStep
<1>7. CASE InputStep
  BY <1>7, InputEndsItsRun, InputFailsHolds, InputEndsHolds DEF InputStep
<1>8. CASE PendingStep
  BY <1>8, HandOffHolds, HandOffFailsHolds, PendingFailsHolds, PendingEndsHolds DEF PendingStep
<1>9. CASE McpStep
  BY <1>9, McpSettlesHolds, McpFinishedHolds, McpFailsHolds DEF McpStep
<1>10. CASE ShutdownStep
  BY <1>10, ShutdownEndsHolds DEF ShutdownStep
<1>11. CASE \E cause \in Interruptions : Interrupt(cause)
  BY <1>11, InterruptHolds
<1>12. CASE Over \/ UNCHANGED dispatcherVars
  BY <1>12, StutterHolds DEF Over
<1> QED BY <1>1, <1>2, <1>3, <1>4, <1>5, <1>6, <1>7, <1>8, <1>9, <1>10, <1>11, <1>12 DEF DispatcherNext

(* The invariant holds in every reachable state.                           *)
LEMMA DispatcherIsSound == DispatcherSpec => []DispatcherIndInv
BY DispatcherStarts, DispatcherInductive, PTL DEF DispatcherSpec

-----------------------------------------------------------------------------
(* What the host is told: whoever tells it a verdict knows the verdict.     *)
HeldPlaces == {"accepting", "cancelling", "shutdown", "terminal", "failShutdown"}
TellingPlaces == {"repeating", "finishing", "failing"}

LoopKnows ==
  /\ loop.pc \in HeldPlaces => tracked[loop.cmd] # "unknown"
  /\ loop.pc \in TellingPlaces => tracked[loop.cmd] \in Statuses
McpKnows ==
  \A m \in McpCommands : /\ mcp[m].pc # "none" => tracked[m] # "unknown"
                         /\ mcp[m].pc = "finishing" => tracked[m] \in Statuses
VerdictsAreKnown ==
  /\ said \in [Commands -> {"none", "refused"} \cup Statuses]
  /\ SaysItsVerdict /\ LoopKnows /\ McpKnows

(* What is known of a command only grows, and only verdicts are told.      *)
Learns ==
  /\ tracked' \in [Commands -> TrackedStates]
  /\ \A c \in Commands : /\ tracked[c] \in Statuses => tracked'[c] = tracked[c]
                         /\ tracked[c] # "unknown" => tracked'[c] # "unknown"
Tells ==
  \/ said' = said
  \/ \E c \in Commands : \/ SaysRefused(c)
                         \/ Says(c) /\ tracked[c] \in Statuses

LEMMA ToldLearns ==
  ASSUME Told
  PROVE  Learns
BY DEF Told, Learns, Statuses

LEMMA SilenceLearns ==
  ASSUME DispatcherIndInv, tracked' = tracked
  PROVE  Learns
BY SilenceTells, ToldLearns

LEMMA FinishLearns ==
  ASSUME DispatcherIndInv, NEW c \in Commands, NEW outcome \in Statuses, FinishCommand(c, outcome)
  PROVE  Learns /\ (tracked[c] # "unknown" => tracked'[c] \in Statuses)
<1>1. Told /\ tracked'[c] # "none"
  BY FinishTells
<1> QED BY <1>1, ToldLearns DEF Told, TrackedStates

(* What is told stays true.                                                *)
LEMMA TellsTruth ==
  ASSUME VerdictsAreKnown, Learns, Tells
  PROVE  said' \in [Commands -> {"none", "refused"} \cup Statuses] /\ SaysItsVerdict'
<1>1. said \in [Commands -> {"none", "refused"} \cup Statuses] /\ SaysItsVerdict
  BY DEF VerdictsAreKnown
<1>2. CASE said' = said
  BY <1>1, <1>2 DEF SaysItsVerdict, Learns
<1>3. ASSUME NEW c \in Commands, SaysRefused(c)
      PROVE  said' \in [Commands -> {"none", "refused"} \cup Statuses] /\ SaysItsVerdict'
  <2>1. said' \in [Commands -> {"none", "refused"} \cup Statuses]
    BY <1>1, <1>3 DEF SaysRefused
  <2>2. \A d \in Commands : said'[d] = said[d] \/ said'[d] = "refused"
    BY <1>1, <1>3 DEF SaysRefused
  <2> QED BY <1>1, <2>1, <2>2 DEF SaysItsVerdict, Learns
<1>4. ASSUME NEW c \in Commands, Says(c), tracked[c] \in Statuses
      PROVE  said' \in [Commands -> {"none", "refused"} \cup Statuses] /\ SaysItsVerdict'
  <2>1. said' \in [Commands -> {"none", "refused"} \cup Statuses]
    BY <1>1, <1>4 DEF Says
  <2>2. \A d \in Commands : said'[d] = said[d] \/ (d = c /\ said'[d] = tracked[d])
    BY <1>1, <1>4 DEF Says
  <2> QED BY <1>1, <1>4, <2>1, <2>2 DEF SaysItsVerdict, Learns
<1> QED BY <1>2, <1>3, <1>4 DEF Tells

(* The loop stays where it was, or holds nothing of which it will tell.    *)
LEMMA LoopStillKnows ==
  ASSUME DispatcherIndInv, VerdictsAreKnown, Learns,
         loop'.pc \in HeldPlaces \cup TellingPlaces =>
           loop'.pc = loop.pc /\ loop'.cmd = loop.cmd
  PROVE  LoopKnows'
<1>1. loop.pc \in HeldPlaces \cup TellingPlaces => loop.cmd \in Commands
  BY DEF DispatcherIndInv, LoopIsTrue, HeldPlaces, TellingPlaces
<1> QED BY <1>1 DEF VerdictsAreKnown, LoopKnows, Learns

LEMMA McpStillKnows ==
  ASSUME VerdictsAreKnown, Learns, \A m \in McpCommands : mcp'[m].pc \in {mcp[m].pc, "none"}
  PROVE  McpKnows'
BY InputsNamed DEF VerdictsAreKnown, McpKnows, Learns

(* A step that only moves the loop to where it awaits nothing.             *)
LEMMA LoopLetsGo ==
  ASSUME DispatcherIndInv, VerdictsAreKnown, tracked' = tracked, SameMcp(mcp), Tells,
         loop'.pc \notin HeldPlaces \cup TellingPlaces
  PROVE  VerdictsAreKnown'
<1>1. Learns
  BY SilenceLearns
<1>2. LoopKnows' /\ McpKnows'
  BY <1>1, LoopStillKnows, McpStillKnows DEF SameMcp
<1> QED BY <1>1, <1>2, TellsTruth DEF VerdictsAreKnown

(* The steps of the loop that let go of its command.                       *)
LEMMA LettingGoKnows ==
  ASSUME DispatcherIndInv, VerdictsAreKnown,
         \/ FetchFails \/ Answered \/ DeliveryFails \/ Finished \/ FatalFinished
         \/ Leave \/ LeaveThrows \/ Exit \/ Reported \/ CrashShutDown
  PROVE  VerdictsAreKnown'
<1> DEFINE gone == loop'.pc \notin HeldPlaces \cup TellingPlaces
<1>1. RunTypeOK /\ LoopTypeOK /\ ShutdownIsOrdered /\ mcp \in McpType /\ pend \in PendType
  BY DEF DispatcherIndInv, TaskTypeOK, McpType, PendType
<1>2. loop \in LoopType
  BY JoinTyped
<1>3. ASSUME NEW error \in {"delivery", "other"}, Throw(error)
      PROVE  tracked' = tracked /\ SameMcp(mcp) /\ gone
  <2>1. tracked' = tracked /\ SameMcp(mcp)
    BY <1>1, <1>3, AbortSoftens DEF Throw, CancellationSources
  <2>2. loop' \in {[Idle EXCEPT !.pc = "draining"], [Idle EXCEPT !.pc = "reporting"]}
    BY <1>3 DEF Throw
  <2>3. loop'.pc \in {"draining", "reporting"}
    BY <2>2 DEF Idle
  <2> QED BY <2>1, <2>3 DEF HeldPlaces, TellingPlaces
<1>4. ASSUME loop.pc \in {"refusing", "repeating", "reaccepting"}, SaysAnswer PROVE Tells
  <2>1. loop.cmd \in Commands
    BY <1>4 DEF DispatcherIndInv, LoopIsTrue
  <2>2. loop.pc = "repeating" => tracked[loop.cmd] \in Statuses
    BY DEF VerdictsAreKnown, LoopKnows, TellingPlaces
  <2> QED BY <1>4, <2>1, <2>2 DEF SaysAnswer, Tells
<1>5. ASSUME loop.pc \in {"finishing", "failing"}, Says(loop.cmd) PROVE Tells
  <2>1. loop.cmd \in Commands
    BY <1>5 DEF DispatcherIndInv, LoopIsTrue
  <2>2. tracked[loop.cmd] \in Statuses
    BY <1>5 DEF VerdictsAreKnown, LoopKnows, TellingPlaces
  <2> QED BY <1>5, <2>1, <2>2 DEF Tells
<1>6. ASSUME loop' = Idle, UNCHANGED <<tracked, mcp>> PROVE SameMcp(mcp) /\ gone
  <2>1. loop'.pc = "poll"
    BY <1>6 DEF Idle
  <2> QED BY <1>6, <2>1, UnmovedMcp DEF HeldPlaces, TellingPlaces
<1>7. CASE Answered
  BY <1>4, <1>6, <1>7, LoopLetsGo DEF Answered, taskVars
<1>8. CASE Finished
  BY <1>5, <1>6, <1>8, LoopLetsGo DEF Finished, taskVars
<1>9. CASE DeliveryFails
  <2>1. PICK error \in {"delivery", "other"} : Throw(error)
    BY <1>9 DEF DeliveryFails
  <2>2. Tells
    BY <1>4, <1>5, <1>9 DEF DeliveryFails, Tells
  <2> QED BY <1>3, <2>1, <2>2, LoopLetsGo
<1>10. CASE FatalFinished
  BY <1>3, <1>5, <1>10, LoopLetsGo DEF FatalFinished
<1>11. CASE FetchFails \/ LeaveThrows
  BY <1>3, <1>11, LoopLetsGo DEF FetchFails, LeaveThrows, Tells
<1>12. CASE Leave
  <2>1. SameMcp(mcp) /\ tracked' = tracked /\ said' = said
    BY <1>1, <1>12, AbortSoftens DEF Leave, CancellationSources
  <2>2. loop'.pc = "leaving"
    BY <1>12 DEF Leave, Idle
  <2> QED BY <2>1, <2>2, LoopLetsGo DEF Tells, HeldPlaces, TellingPlaces
<1>13. CASE Exit \/ CrashShutDown
  <2>1. tracked' = tracked /\ said' = said /\ mcp' = mcp
    BY <1>13 DEF Exit, CrashShutDown, taskVars
  <2>2. loop'.pc \in {"exited", "joining"}
    BY <1>2, <1>13 DEF Exit, CrashShutDown, Idle, LoopType
  <2> QED BY <2>1, <2>2, UnmovedMcp, LoopLetsGo DEF Tells, HeldPlaces, TellingPlaces
<1>14. CASE Reported
  <2>1. SameMcp(mcp) /\ tracked' = tracked /\ said' = said
    BY <1>1, <1>14, ShutdownSoftens DEF Reported
  <2>2. loop'.pc = "crashing"
    BY <1>2, <1>14 DEF Reported, LoopType
  <2> QED BY <2>1, <2>2, LoopLetsGo DEF Tells, HeldPlaces, TellingPlaces
<1> QED BY <1>7, <1>8, <1>9, <1>10, <1>11, <1>12, <1>13, <1>14

(* The steps of the loop that keep a command, or take one.                 *)
LEMMA LoopMovesOn ==
  ASSUME DispatcherIndInv, VerdictsAreKnown, Learns, SameMcp(mcp), said' = said,
         loop.pc \in HeldPlaces, loop'.cmd = loop.cmd,
         \/ loop'.pc \in HeldPlaces
         \/ loop'.pc \in TellingPlaces /\ tracked'[loop.cmd] \in Statuses
  PROVE  VerdictsAreKnown'
<1>1. loop.cmd \in Commands /\ tracked[loop.cmd] # "unknown"
  BY DEF DispatcherIndInv, LoopIsTrue, VerdictsAreKnown, LoopKnows, HeldPlaces
<1>2. LoopKnows'
  BY <1>1 DEF LoopKnows, Learns, HeldPlaces, TellingPlaces
<1>3. McpKnows'
  BY McpStillKnows DEF SameMcp
<1> QED BY <1>2, <1>3, TellsTruth DEF VerdictsAreKnown, Tells

LEMMA HoldingKnows ==
  ASSUME DispatcherIndInv, VerdictsAreKnown,
         \/ AcceptedStop \/ AcceptedOther \/ Cancelled \/ StopShutDown \/ StopReported
         \/ CommandFails \/ FailedStopShutDown
  PROVE  VerdictsAreKnown'
<1>1. RunTypeOK /\ LoopTypeOK /\ ShutdownIsOrdered /\ mcp \in McpType /\ pend \in PendType
  BY DEF DispatcherIndInv, TaskTypeOK, McpType, PendType
<1>2. loop \in LoopType /\ loop.pc \in HeldPlaces /\ said' = said
  BY JoinTyped DEF AcceptedStop, AcceptedOther, Cancelled, StopShutDown, StopReported, CommandFails,
       FailedStopShutDown, CancellationFailed, HeldPlaces
<1>3. loop.cmd \in Commands /\ tracked[loop.cmd] # "unknown"
  BY <1>2 DEF DispatcherIndInv, LoopIsTrue, VerdictsAreKnown, LoopKnows, HeldPlaces
<1>4. ASSUME NEW outcome \in Statuses, FinishCommand(loop.cmd, outcome), SameMcp(mcp),
             NEW pc \in TellingPlaces, loop' = [loop EXCEPT !.pc = pc]
      PROVE  VerdictsAreKnown'
  <2>1. Learns /\ tracked'[loop.cmd] \in Statuses
    BY <1>3, <1>4, FinishLearns
  <2>2. loop'.pc = pc /\ loop'.cmd = loop.cmd
    BY <1>2, <1>4 DEF LoopType
  <2> QED BY <1>2, <1>4, <2>1, <2>2, LoopMovesOn
<1>5. ASSUME tracked' = tracked, SameMcp(mcp), NEW pc \in HeldPlaces, loop'.pc = pc, loop'.cmd = loop.cmd
      PROVE  VerdictsAreKnown'
  BY <1>2, <1>5, SilenceLearns, LoopMovesOn
<1>6. {"completed", "failed"} \subseteq Statuses /\ {"finishing", "failing"} \subseteq TellingPlaces
  BY DEF Statuses, TellingPlaces
<1>7. ASSUME NEW pc \in HeldPlaces, NEW attempt, loop' = [loop EXCEPT !.pc = pc, !.attempt = attempt]
      PROVE  loop'.pc = pc /\ loop'.cmd = loop.cmd
  BY <1>2, <1>7 DEF LoopType
<1>8. {"cancelling", "shutdown", "terminal", "failShutdown"} \subseteq HeldPlaces
  BY DEF HeldPlaces
<1>9. CASE AcceptedStop
  <2>1. SameMcp(mcp) /\ tracked' = tracked /\ loop' = [loop EXCEPT !.pc = "cancelling"]
    BY <1>9, CancelIs DEF AcceptedStop
  <2>2. loop'.pc = "cancelling" /\ loop'.cmd = loop.cmd
    BY <1>2, <2>1 DEF LoopType
  <2> QED BY <1>5, <1>8, <2>1, <2>2
<1>10. CASE AcceptedOther
  <2>1. SameMcp(mcp)
    BY <1>10, UnmovedMcp DEF AcceptedOther, taskVars
  <2>2. CASE loop' = [loop EXCEPT !.pc = "cancelling"] /\ UNCHANGED tracked
    <3>1. loop'.pc = "cancelling" /\ loop'.cmd = loop.cmd
      BY <1>2, <2>2 DEF LoopType
    <3> QED BY <1>5, <1>8, <2>1, <2>2, <3>1
  <2>3. CASE FinishLoopCommand
    BY <1>4, <1>6, <2>1, <2>3 DEF FinishLoopCommand
  <2> QED BY <1>10, <2>2, <2>3 DEF AcceptedOther
<1>11. CASE Cancelled
  <2>1. CASE FinishLoopCommand /\ UNCHANGED mcp
    BY <1>4, <1>6, <2>1, UnmovedMcp DEF FinishLoopCommand
  <2>2. CASE Shutdown(status, pend, mcp) /\ loop' = [loop EXCEPT !.pc = "shutdown", !.attempt = ShutdownAttempt]
             /\ UNCHANGED tracked
    <3>1. SameMcp(mcp)
      BY <1>1, <2>2, ShutdownSoftens
    <3> QED BY <1>5, <1>7, <1>8, <2>2, <3>1
  <2> QED BY <1>11, <2>1, <2>2 DEF Cancelled
<1>12. CASE StopShutDown
  <2>1. SameMcp(mcp) /\ tracked' = tracked /\ loop' = [loop EXCEPT !.pc = "terminal"]
    BY <1>12, UnmovedMcp DEF StopShutDown, taskVars
  <2>2. loop'.pc = "terminal" /\ loop'.cmd = loop.cmd
    BY <1>2, <2>1 DEF LoopType
  <2> QED BY <1>5, <1>8, <2>1, <2>2
<1>13. CASE StopReported
  BY <1>4, <1>6, <1>13, UnmovedMcp DEF StopReported, FinishLoopCommand, taskVars
<1>14. CASE CommandFails
  <2>1. CASE loop.cmd.kind = "session.stop"
    <3>1. PICK from \in {status, "failed"} : Shutdown(from, pend, mcp)
      BY <1>14, <2>1 DEF CommandFails, FailCommand
    <3>2. SameMcp(mcp)
      BY <1>1, <3>1, ShutdownSoftens
    <3>3. tracked' = tracked /\ loop' = [loop EXCEPT !.pc = "failShutdown", !.attempt = ShutdownAttempt]
      BY <1>14, <2>1 DEF CommandFails, FailCommand
    <3> QED BY <1>5, <1>7, <1>8, <3>2, <3>3
  <2>2. CASE loop.cmd.kind # "session.stop"
    BY <1>4, <1>6, <1>14, <2>2, UnmovedMcp DEF CommandFails, FailCommand
  <2> QED BY <2>1, <2>2
<1>15. CASE FailedStopShutDown
  BY <1>4, <1>6, <1>15, UnmovedMcp DEF FailedStopShutDown, taskVars
<1> QED BY <1>9, <1>10, <1>11, <1>12, <1>13, <1>14, <1>15

(* The steps of the loop that take a command or hand it on.                *)
LEMMA TakingKnows ==
  ASSUME DispatcherIndInv, VerdictsAreKnown,
         \/ \E c \in Commands : Fetch(c)
         \/ HandleWithoutEffect \/ HandleNew \/ AcceptedInput \/ AcceptedMcp
  PROVE  VerdictsAreKnown'
<1>1. loop \in LoopType /\ mcp \in McpType /\ tracked \in [Commands -> TrackedStates]
  BY JoinTyped DEF DispatcherIndInv, TaskTypeOK, McpType, LoopTypeOK
<1>2. CASE \E c \in Commands : Fetch(c)
  <2>1. tracked' = tracked /\ said' = said /\ mcp' = mcp
    BY <1>2 DEF Fetch, taskVars
  <2>2. loop'.pc = "fetched"
    BY <1>2 DEF Fetch, Idle
  <2> QED BY <2>1, <2>2, UnmovedMcp, LoopLetsGo DEF Tells, HeldPlaces, TellingPlaces
<1>3. CASE HandleWithoutEffect
  <2>1. tracked' = tracked /\ said' = said /\ mcp' = mcp /\ loop.cmd \in Commands
    BY <1>3 DEF HandleWithoutEffect, taskVars, DispatcherIndInv, LoopIsTrue
  <2>2. loop'.pc = Answer(loop.cmd) /\ loop'.cmd = loop.cmd
    BY <1>1, <1>3 DEF HandleWithoutEffect, LoopType
  <2>3. Answer(loop.cmd) \in {"refusing", "reaccepting", "repeating"}
        /\ (Answer(loop.cmd) = "repeating" => Granted(loop.cmd) /\ tracked[loop.cmd] # "none")
    BY DEF Answer
  <2>4. Answer(loop.cmd) = "repeating" => tracked[loop.cmd] \in Statuses
    BY <1>1, <1>3, <2>1, <2>3 DEF HandleWithoutEffect, TrackedStates
  <2>5. LoopKnows'
    BY <2>1, <2>2, <2>3, <2>4 DEF LoopKnows, HeldPlaces, TellingPlaces
  <2>6. Learns
    BY <2>1, SilenceLearns
  <2>7. McpKnows'
    BY <2>1, <2>6, McpStillKnows
  <2> QED BY <2>1, <2>5, <2>6, <2>7, TellsTruth DEF VerdictsAreKnown, Tells
<1>4. CASE HandleNew
  <2>1. TakesIn(loop.cmd) /\ said' = said
    BY <1>4, HandleNewTakesIn DEF HandleNew
  <2>2. /\ loop.cmd \in Commands /\ tracked[loop.cmd] = "unknown"
        /\ tracked' = [tracked EXCEPT ![loop.cmd] = "none"] /\ SameMcp(mcp)
        /\ loop' = [loop EXCEPT !.pc = "accepting", !.admitted = Admits(loop.cmd)]
    BY <2>1 DEF TakesIn, Calm
  <2>3. Learns
    BY <1>1, <2>2 DEF Learns, TrackedStates, Statuses
  <2>4. loop'.pc = "accepting" /\ loop'.cmd = loop.cmd
    BY <1>1, <2>2 DEF LoopType
  <2>5. LoopKnows'
    BY <1>1, <2>2, <2>4 DEF LoopKnows, TellingPlaces
  <2>6. McpKnows'
    BY <2>2, <2>3, McpStillKnows DEF SameMcp
  <2> QED BY <2>1, <2>3, <2>5, <2>6, TellsTruth DEF VerdictsAreKnown, Tells
<1>5. CASE AcceptedInput
  <2>1. tracked' = tracked /\ said' = said /\ mcp' = mcp /\ loop' = Idle
    BY <1>5 DEF AcceptedInput
  <2>2. loop'.pc = "poll"
    BY <2>1 DEF Idle
  <2> QED BY <2>1, <2>2, UnmovedMcp, LoopLetsGo DEF Tells, HeldPlaces, TellingPlaces
<1>6. CASE AcceptedMcp
  <2>1. /\ tracked' = tracked /\ said' = said /\ loop' = Idle /\ loop.pc = "accepting"
        /\ mcp' = [mcp EXCEPT ![loop.cmd] = [pc |-> "running", aborted |-> FALSE]]
    BY <1>6 DEF AcceptedMcp
  <2>2. loop'.pc = "poll" /\ tracked[loop.cmd] # "unknown"
    BY <2>1 DEF Idle, VerdictsAreKnown, LoopKnows, HeldPlaces
  <2>3. \A m \in McpCommands : mcp'[m].pc = mcp[m].pc \/ (m = loop.cmd /\ mcp'[m].pc = "running")
    BY <1>1, <2>1 DEF McpType
  <2>4. McpKnows'
    BY <2>1, <2>2, <2>3 DEF VerdictsAreKnown, McpKnows
  <2>5. Learns
    BY <2>1, SilenceLearns
  <2>6. LoopKnows'
    BY <2>2 DEF LoopKnows, HeldPlaces, TellingPlaces
  <2> QED BY <2>1, <2>4, <2>5, <2>6, TellsTruth DEF VerdictsAreKnown, Tells
<1> QED BY <1>2, <1>3, <1>4, <1>5, <1>6

(* The steps of the other actors leave the loop where it is.               *)
LEMMA AsideKnows ==
  ASSUME DispatcherIndInv, VerdictsAreKnown, loop' = loop, Learns, Tells,
         \A m \in McpCommands : mcp'[m].pc \in {mcp[m].pc, "none"}
  PROVE  VerdictsAreKnown'
<1>1. LoopKnows' /\ McpKnows'
  BY LoopStillKnows, McpStillKnows
<1> QED BY <1>1, TellsTruth DEF VerdictsAreKnown

LEMMA TasksKnow ==
  ASSUME DispatcherIndInv, VerdictsAreKnown,
         \/ JoinStep \/ PublicationStep \/ BackendStep \/ InputStep \/ PendingStep
         \/ ShutdownStep \/ \E cause \in Interruptions : Interrupt(cause)
         \/ UNCHANGED dispatcherVars
  PROVE  VerdictsAreKnown'
<1>1. RunTypeOK /\ LoopTypeOK /\ ShutdownIsOrdered /\ mcp \in McpType /\ pend \in PendType
  BY DEF DispatcherIndInv, TaskTypeOK, McpType, PendType
<1>2. ASSUME UNCHANGED <<loop, tracked, said>>, SameMcp(mcp) PROVE VerdictsAreKnown'
  BY <1>2, SilenceLearns, AsideKnows DEF Tells, SameMcp
<1>3. ASSUME UNCHANGED <<loop, tracked, mcp, said>> PROVE VerdictsAreKnown'
  BY <1>2, <1>3, UnmovedMcp
<1>4. ASSUME UNCHANGED <<loop, tracked>>, SameMcp(mcp), NEW c \in Commands, Says(c), tracked[c] \in Statuses
      PROVE  VerdictsAreKnown'
  BY <1>4, SilenceLearns, AsideKnows DEF Tells, SameMcp
<1>5. ASSUME UNCHANGED <<loop, mcp, said>>, NEW c \in Commands, NEW outcome \in Statuses,
             FinishCommand(c, outcome)
      PROVE  VerdictsAreKnown'
  BY <1>5, FinishLearns, AsideKnows DEF Tells
<1>6. input.pc \notin {"none", "backend", "publishing"} =>
        input.cmd \in Commands /\ tracked[input.cmd] \in Statuses
  BY <1>1, InputsNamed DEF DispatcherIndInv, ActiveIsInput, InputsAreKnown, LoopTypeOK, TrackedStates
<1>7. pend.pc \in {"failing", "closing"} => pend.cmd \in Commands /\ tracked[pend.cmd] \in Statuses
  BY <1>1, InputsNamed DEF DispatcherIndInv, ActiveIsInput, InputsAreKnown, LoopTypeOK, TrackedStates
<1>8. CASE JoinStep
  BY <1>3, <1>8 DEF JoinStep, JoinPermissions, JoinDone, JoinTimeout, taskVars
<1>9. CASE PublicationStep
  BY <1>3, <1>9 DEF PublicationStep, Select, PublishFails, Acknowledge, inputOnly
<1>10. CASE BackendStep
  <2>1. CASE \E outcome \in Statuses : Publish(outcome)
    BY <1>3, <2>1 DEF Publish, inputOnly
  <2>2. CASE \E outcome \in {"resolved", "cancelled", "rejected"} : InputSettles(outcome)
    <3>1. PICK outcome \in {"resolved", "cancelled", "rejected"} : InputSettles(outcome)
      BY <2>2
    <3>2. /\ UNCHANGED <<loop, mcp, said>> /\ input.pc \in {"backend", "publishing"}
          /\ FinishCommand(input.cmd, IF Settlement(outcome) = "resolved" THEN "completed"
                                                                       ELSE Settlement(outcome))
      BY <3>1 DEF InputSettles, taskOnly
    <3>3. input.cmd \in Commands
      BY <3>2, InputsNamed DEF DispatcherIndInv, ActiveIsInput
    <3>4. (IF Settlement(outcome) = "resolved" THEN "completed" ELSE Settlement(outcome)) \in Statuses
      BY <3>1, SettlesVerdict DEF Statuses
    <3> QED BY <1>5, <3>2, <3>3, <3>4
  <2> QED BY <1>10, <2>1, <2>2 DEF BackendStep
<1>11. CASE InputFinished \/ InputThrows
  <2>1. CASE input.pc \in {"finishing", "failing"} /\ Says(input.cmd)
    BY <1>4, <1>6, <1>11, <2>1, UnmovedMcp DEF InputFinished, InputThrows, taskOnly
  <2>2. CASE said' = said
    BY <1>3, <1>11, <2>2 DEF InputFinished, InputThrows, taskOnly
  <2> QED BY <1>11, <2>1, <2>2 DEF InputFinished, InputThrows
<1>12. CASE InputFailed
  <2>1. SameMcp(mcp)
    BY <1>1, <1>12, ShutdownSoftens DEF InputFailed
  <2> QED BY <1>4, <1>6, <1>12, <2>1 DEF InputFailed
<1>13. CASE InputTaskFails
  <2>1. SameMcp(mcp)
    BY <1>1, <1>13, ShutdownSoftens DEF InputTaskFails
  <2> QED BY <1>2, <1>13, <2>1 DEF InputTaskFails
<1>14. CASE InputShutDown \/ InputEnds
  BY <1>3, <1>14 DEF InputShutDown, InputEnds, taskOnly
<1>15. CASE HandOff \/ PendingEnds
  BY <1>3, <1>15 DEF HandOff, PendingEnds
<1>16. CASE HandOffFails
  <2>1. /\ UNCHANGED <<loop, mcp, said>> /\ pend.pc \in {"waiting", "started"}
        /\ FinishCommand(pend.cmd, "failed")
    BY <1>16 DEF HandOffFails
  <2>2. pend.cmd \in Commands /\ "failed" \in Statuses
    BY <2>1, InputsNamed DEF DispatcherIndInv, ActiveIsInput, Statuses
  <2> QED BY <1>5, <2>1, <2>2
<1>17. CASE PendingFails
  <2>1. UNCHANGED <<loop, tracked>> /\ Says(pend.cmd) /\ pend.pc = "failing"
    BY <1>17 DEF PendingFails
  <2>2. PICK outcome \in Deliveries :
          Shutdown(status, [pend EXCEPT !.pc = "closing", !.attempt = ShutdownAttempt,
                                        !.rejected = (outcome = "failed")], mcp)
    BY <1>17 DEF PendingFails
  <2>3. [pend EXCEPT !.pc = "closing", !.attempt = ShutdownAttempt,
                     !.rejected = (outcome = "failed")] \in PendType
    BY <1>1, AttemptTyped DEF PendType
  <2>4. SameMcp(mcp)
    BY <1>1, <2>2, <2>3, ShutdownSoftens
  <2> QED BY <1>4, <1>7, <2>1, <2>4
<1>18. CASE ShutdownStep \/ UNCHANGED dispatcherVars
  BY <1>3, <1>18 DEF ShutdownStep, ShutdownEnds, taskVars, dispatcherVars
<1>19. CASE \E cause \in Interruptions : Interrupt(cause)
  <2>1. PICK from \in {status, "failed"} : Shutdown(from, pend, mcp)
    BY <1>19 DEF Interrupt
  <2>2. SameMcp(mcp)
    BY <1>1, <2>1, ShutdownSoftens
  <2> QED BY <1>2, <1>19, <2>2 DEF Interrupt
<1> QED BY <1>8, <1>9, <1>10, <1>11, <1>12, <1>13, <1>14, <1>15, <1>16, <1>17, <1>18, <1>19
        DEF InputStep, PendingStep

LEMMA McpStepKnows ==
  ASSUME DispatcherIndInv, VerdictsAreKnown, NEW c \in McpCommands,
         \/ \E outcome \in {"completed", "failed", "cancelled"} : McpSettles(c, outcome)
         \/ McpFinished(c) \/ McpFails(c)
  PROVE  VerdictsAreKnown'
<1>1. RunTypeOK /\ LoopTypeOK /\ ShutdownIsOrdered /\ mcp \in McpType /\ pend \in PendType /\ c \in Commands
  BY InputsNamed DEF DispatcherIndInv, TaskTypeOK, McpType, PendType
<1>2. CASE \E outcome \in {"completed", "failed", "cancelled"} : McpSettles(c, outcome)
  <2>1. PICK outcome \in {"completed", "failed", "cancelled"} : McpSettles(c, outcome)
    BY <1>2
  <2>2. /\ UNCHANGED <<loop, said>> /\ mcp[c].pc = "running" /\ FinishCommand(c, outcome)
        /\ mcp' = [mcp EXCEPT ![c].pc = "finishing"]
    BY <2>1 DEF McpSettles
  <2>3. Learns /\ tracked'[c] \in Statuses
    BY <1>1, <2>2, FinishLearns DEF Statuses, VerdictsAreKnown, McpKnows
  <2>4. \A m \in McpCommands : mcp'[m].pc = mcp[m].pc \/ m = c
    BY <1>1, <2>2 DEF McpType
  <2>5. McpKnows'
    BY <1>1, <2>3, <2>4, InputsNamed DEF VerdictsAreKnown, McpKnows, Learns, Statuses
  <2>6. LoopKnows'
    BY <2>2, <2>3, LoopStillKnows
  <2> QED BY <2>2, <2>3, <2>5, <2>6, TellsTruth DEF VerdictsAreKnown, Tells
<1>3. mcp[c].pc = "finishing" => tracked[c] \in Statuses
  BY DEF VerdictsAreKnown, McpKnows
<1>4. CASE McpFinished(c)
  <2>1. /\ UNCHANGED <<loop, tracked>> /\ Says(c) /\ mcp[c].pc = "finishing"
        /\ mcp' = [mcp EXCEPT ![c] = NoMcp]
    BY <1>4 DEF McpFinished
  <2>2. \A m \in McpCommands : mcp'[m].pc \in {mcp[m].pc, "none"}
    BY <1>1, <2>1, NoMcpTyped DEF McpType
  <2> QED BY <1>1, <1>3, <2>1, <2>2, SilenceLearns, AsideKnows DEF Tells
<1>5. CASE McpFails(c)
  <2> DEFINE m == [mcp EXCEPT ![c] = NoMcp]
  <2>1. UNCHANGED <<loop, tracked>> /\ Shutdown(status, pend, m)
    BY <1>5 DEF McpFails
  <2>2. m \in McpType /\ \A d \in McpCommands : m[d] = IF d = c THEN NoMcp ELSE mcp[d]
    BY <1>1, NoMcpTyped, McpReplaced
  <2> HIDE DEF m
  <2>3. SameMcp(m)
    BY <1>1, <2>1, <2>2, ShutdownSoftens
  <2>4. \A d \in McpCommands : mcp'[d].pc \in {mcp[d].pc, "none"}
    BY <2>2, <2>3, NoMcpTyped DEF SameMcp
  <2>5. Tells
    BY <1>1, <1>3, <1>5 DEF McpFails, Tells
  <2> QED BY <2>1, <2>4, <2>5, SilenceLearns, AsideKnows
<1> QED BY <1>2, <1>4, <1>5

LEMMA KnowledgeInductive ==
  DispatcherIndInv /\ VerdictsAreKnown /\ [DispatcherNext]_dispatcherVars => VerdictsAreKnown'
<1> SUFFICES ASSUME DispatcherIndInv, VerdictsAreKnown, [DispatcherNext]_dispatcherVars
             PROVE  VerdictsAreKnown'
  OBVIOUS
<1>1. CASE \/ FetchFails \/ Answered \/ DeliveryFails \/ Finished \/ FatalFinished
           \/ Leave \/ LeaveThrows \/ Exit \/ Reported \/ CrashShutDown
  BY <1>1, LettingGoKnows
<1>2. CASE \/ AcceptedStop \/ AcceptedOther \/ Cancelled \/ StopShutDown \/ StopReported
           \/ CommandFails \/ FailedStopShutDown
  BY <1>2, HoldingKnows
<1>3. CASE \/ \E c \in Commands : Fetch(c)
           \/ HandleWithoutEffect \/ HandleNew \/ AcceptedInput \/ AcceptedMcp
  BY <1>3, TakingKnows
<1>4. CASE \/ JoinStep \/ PublicationStep \/ BackendStep \/ InputStep \/ PendingStep
           \/ ShutdownStep \/ \E cause \in Interruptions : Interrupt(cause)
           \/ Over \/ UNCHANGED dispatcherVars
  BY <1>4, TasksKnow DEF Over
<1>5. CASE McpStep
  BY <1>5, McpStepKnows DEF McpStep
<1> QED BY <1>1, <1>2, <1>3, <1>4, <1>5 DEF DispatcherNext, LoopStep

(* The host is told nothing that is not known, in every reachable state.  *)
LEMMA KnowledgeIsSound == DispatcherSpec => []VerdictsAreKnown
<1>1. DispatcherInit => VerdictsAreKnown
  BY NoMcpTyped DEF DispatcherInit, VerdictsAreKnown, SaysItsVerdict, LoopKnows, McpKnows,
     Idle, HeldPlaces, TellingPlaces
<1> QED BY <1>1, KnowledgeInductive, DispatcherIsSound, PTL DEF DispatcherSpec

-----------------------------------------------------------------------------
(* The dispatcher keeps its run, its tasks and its loop within their       *)
(* places, whatever the order of its actors.                               *)
THEOREM DispatcherTyped == DispatcherSpec => [](RunTypeOK /\ TaskTypeOK /\ LoopTypeOK)
<1>1. DispatcherIndInv => RunTypeOK /\ TaskTypeOK /\ LoopTypeOK
  BY DEF DispatcherIndInv
<1> QED BY <1>1, DispatcherIsSound, PTL

(* The next run waits: an input reaches the backend only when every input  *)
(* that was there before has a verdict the host received, a terminal the   *)
(* host acknowledged, and no MCP command left (#runPendingInput).          *)
THEOREM NextRunIsLast == DispatcherSpec => []NextRunWaits
<1>1. DispatcherIndInv => NextRunWaits
  <2> SUFFICES ASSUME DispatcherIndInv, input.pc = "backend", NEW c \in handled \ {input.cmd}
               PROVE  /\ c \in delivered /\ \E p \in published : p.value.runId = c.run
                      /\ \A d \in Running(mcp) : d.run # c.run
    BY DEF NextRunWaits
  <2>1. IsOver(c)
    BY DEF DispatcherIndInv, InputsEnd
  <2>2. c \in Inputs /\ input.cmd \in Inputs
    BY DEF DispatcherIndInv, LoopTypeOK, ActiveIsInput
  <2>3. c.run # input.cmd.run
    BY <2>2, InputsNamed
  <2>4. \A d \in Running(mcp) : d.run = input.cmd.run
    BY DEF DispatcherIndInv, McpIsOfTheRun
  <2> QED BY <2>1, <2>3, <2>4 DEF IsOver
<1> QED BY <1>1, DispatcherIsSound, PTL

(* Once a run's terminal is selected none of its MCP commands is admitted  *)
(* or at work as long as the loop keeps its barrier.                       *)
THEOREM TerminalFollowsMcpWork == DispatcherSpec => []TerminalAfterMcpWork
<1>1. DispatcherIndInv => TerminalAfterMcpWork
  BY DEF DispatcherIndInv, BarrierHolds, TerminalAfterMcpWork
<1> QED BY <1>1, DispatcherIsSound, PTL

(* Whoever tells the host the verdict of a command tells the one it has,   *)
(* past which only the refusal of a replay is told; the verdict agrees     *)
(* with the outcome of its run that the host received, and a stop is       *)
(* reported completed only when nothing is left to report.                 *)
THEOREM VerdictsStayFinal == DispatcherSpec => []VerdictsAreFinal
<1>1. DispatcherIndInv /\ VerdictsAreKnown => VerdictsAreFinal
  <2> SUFFICES ASSUME DispatcherIndInv, VerdictsAreKnown
               PROVE  SaysItsVerdict /\ VerdictMatchesTerminal /\ StopCompletesLast
    BY DEF VerdictsAreFinal
  <2>1. SaysItsVerdict /\ VerdictMatchesTerminal
    BY DEF DispatcherIndInv, VerdictsAreKnown
  <2>2. ASSUME NEW c \in Commands, c.kind = "session.stop", tracked[c] = "completed"
        PROVE  /\ input.pc = "none" /\ ~PendingInput /\ Running(mcp) = {} /\ activeRun = NullRun
               /\ shutdowns[Len(shutdowns)] = "ok" /\ instanceTerminal.phase = "acked"
    <3>1. StopCompleted
      BY <2>2 DEF StopCompleted
    <3>2. Quiet /\ shutdowns[Len(shutdowns)] = "ok" /\ instanceTerminal.phase = "acked"
      BY <3>1 DEF DispatcherIndInv, StopsWait
    <3>3. ~PendingInput
      BY <3>2 DEF Quiet, PendingInput
    <3>4. activeRun = NullRun
      BY <3>2 DEF Quiet, DispatcherIndInv, ActiveIsInput, LivePlaces
    <3> QED BY <3>2, <3>3, <3>4 DEF Quiet
  <2> QED BY <2>1, <2>2 DEF StopCompletesLast
<1> QED BY <1>1, DispatcherIsSound, KnowledgeIsSound, PTL

(* A cancellation that is reported completed has found its input with a    *)
(* verdict, or the input can no longer reach the backend.                  *)
THEOREM CancelsTakeEffect == DispatcherSpec => []CancelTakesEffect
<1>1. DispatcherIndInv => CancelTakesEffect
  BY DEF DispatcherIndInv, CancelsHold, Harmless, CancelTakesEffect
<1> QED BY <1>1, DispatcherIsSound, PTL

-----------------------------------------------------------------------------
(* A run whose MCP work failed: its failure is on record as long as the    *)
(* run may still be published, so that its barrier lets only "failed" by.  *)
RunSettled(run) == \A d \in Inputs : d.run = run => tracked[d] \notin {"unknown", "none"}

FailuresKnown ==
  /\ failedMcpRuns \subseteq Runs
  /\ \A r \in failedMcpRuns : r \in mcpFailures \/ (r # activeRun.runId /\ RunSettled(r))
  /\ \A m \in Running(mcp) : m.run = activeRun.runId \/ RunSettled(m.run)
  /\ loop.pc # "exited" /\ activeRun.terminal # Null /\ activeRun.runId \in failedMcpRuns
       => activeRun.terminal.value.status = "failed"

FailureShows ==
  loop.pc # "exited" => \A p \in published' \ published :
    p.value.runId \in failedMcpRuns => p.value.status = "failed"

(* What most steps are to the record: nothing.                             *)
Verdicts == \A d \in Inputs : tracked[d] \notin {"unknown", "none"} => tracked'[d] = tracked[d]
FailuresStay ==
  /\ UNCHANGED <<failedMcpRuns, mcpFailures>>
  /\ SameRun /\ Verdicts
  /\ Running(mcp)' \subseteq Running(mcp)
  /\ loop.pc = "exited" => loop'.pc = "exited"

LEMMA SettledStays ==
  ASSUME Verdicts, NEW run, RunSettled(run)
  PROVE  RunSettled(run)'
BY DEF Verdicts, RunSettled

LEMMA FailuresStayKeeps ==
  ASSUME FailuresKnown, FailuresStay
  PROVE  FailuresKnown' /\ FailureShows
<1>1. /\ failedMcpRuns' = failedMcpRuns /\ mcpFailures' = mcpFailures /\ published' = published
      /\ activeRun'.runId = activeRun.runId /\ activeRun'.terminal = activeRun.terminal
      /\ Running(mcp)' \subseteq Running(mcp) /\ (loop.pc = "exited" => loop'.pc = "exited")
  BY DEF FailuresStay, SameRun
<1>2. \A run : RunSettled(run) => RunSettled(run)'
  BY SettledStays DEF FailuresStay
<1> QED BY <1>1, <1>2 DEF FailuresKnown, FailureShows

(* Verdicts stand while nothing or a verdict is said.                      *)
LEMMA ToldVerdicts ==
  ASSUME Told
  PROVE  Verdicts
BY InputsNamed DEF Told, Verdicts

(* Steps that leave the run and the MCP commands alone.                    *)
LEMMA StillFailures ==
  ASSUME DispatcherIndInv, UNCHANGED <<terminalVars, mcp, mcpFailures, failedMcpRuns>>, Verdicts,
         loop.pc = "exited" => loop'.pc = "exited"
  PROVE  FailuresStay
<1>1. SameRun
  BY UnmovedRun
<1>2. Running(mcp)' = Running(mcp)
  BY DEF Running
<1> QED BY <1>1, <1>2 DEF FailuresStay

LEMMA SoftFailures ==
  ASSUME DispatcherIndInv, UNCHANGED <<mcpFailures, failedMcpRuns>>, SameRun, SameMcp(mcp), Verdicts,
         loop.pc = "exited" => loop'.pc = "exited"
  PROVE  FailuresStay
<1>1. Running(mcp)' = Running(mcp)
  BY DEF Running, SameMcp
<1> QED BY <1>1 DEF FailuresStay

LEMMA LoopFailuresStay ==
  ASSUME DispatcherIndInv,
         \/ \E c \in Commands : Fetch(c)
         \/ HandleWithoutEffect \/ Answered \/ Finished \/ Exit \/ CrashShutDown
         \/ AcceptedOther \/ FailedStopShutDown \/ StopShutDown \/ StopReported
  PROVE  FailuresStay
<1>1. CASE \E c \in Commands : Fetch(c)
  <2>1. UNCHANGED <<terminalVars, tracked, mcp, mcpFailures, failedMcpRuns>> /\ loop.pc = "poll"
    BY <1>1 DEF Fetch, taskVars
  <2> QED BY <2>1, StillFailures DEF Verdicts
<1>2. CASE HandleWithoutEffect
  <2>1. UNCHANGED <<terminalVars, tracked, mcp, mcpFailures, failedMcpRuns>> /\ loop.pc = "fetched"
    BY <1>2 DEF HandleWithoutEffect, taskVars
  <2> QED BY <2>1, StillFailures DEF Verdicts
<1>3. CASE Answered \/ Finished
  <2>1. UNCHANGED <<terminalVars, tracked, mcp, mcpFailures, failedMcpRuns>> /\ loop.pc # "exited"
    BY <1>3 DEF Answered, Finished, taskVars
  <2> QED BY <2>1, StillFailures DEF Verdicts
<1>4. CASE Exit \/ CrashShutDown
  <2>1. UNCHANGED <<terminalVars, tracked, mcp, mcpFailures, failedMcpRuns>> /\ loop.pc # "exited"
    BY <1>4 DEF Exit, CrashShutDown, taskVars
  <2> QED BY <2>1, StillFailures DEF Verdicts
<1>5. ASSUME NEW outcome \in Statuses, FinishCommand(loop.cmd, outcome), loop.cmd \in Commands PROVE Verdicts
  BY <1>5, FinishTells, ToldVerdicts
<1>6. CASE AcceptedOther
  <2>1. /\ UNCHANGED <<terminalVars, mcp, mcpFailures, failedMcpRuns>> /\ loop.pc = "accepting"
        /\ UNCHANGED tracked \/ FinishCommand(loop.cmd, "completed")
    BY <1>6 DEF AcceptedOther, FinishLoopCommand, taskVars
  <2>2. loop.cmd \in Commands
    BY <2>1 DEF DispatcherIndInv, LoopIsTrue
  <2>3. Verdicts
    BY <1>5, <2>1, <2>2 DEF Statuses, Verdicts
  <2> QED BY <2>1, <2>3, StillFailures
<1>7. CASE FailedStopShutDown
  <2>1. /\ UNCHANGED <<terminalVars, mcp, mcpFailures, failedMcpRuns>> /\ loop.pc = "failShutdown"
        /\ FinishCommand(loop.cmd, "failed")
    BY <1>7 DEF FailedStopShutDown, taskVars
  <2>2. loop.cmd \in Commands
    BY <2>1 DEF DispatcherIndInv, LoopIsTrue
  <2> QED BY <1>5, <2>1, <2>2, StillFailures DEF Statuses
<1>8. CASE StopShutDown
  <2>1. /\ UNCHANGED <<activeRun, revision, published, tracked, mcp, mcpFailures, failedMcpRuns>>
        /\ loop.pc = "shutdown" /\ instanceTerminal.phase = "open" /\ instanceTerminal'.phase = "selected"
    BY <1>8 DEF StopShutDown, SelectInstanceTerminal, historyVars, taskVars
  <2>2. SameRun /\ SameMcp(mcp)
    BY <2>1, UnmovedMcp DEF SameRun, DispatcherIndInv, RunTypeOK
  <2> QED BY <2>1, <2>2, SoftFailures DEF Verdicts
<1>9. CASE StopReported
  <2>1. /\ UNCHANGED <<activeRun, revision, published, mcp, mcpFailures, failedMcpRuns>>
        /\ loop.pc = "terminal" /\ instanceTerminal'.phase = "acked" /\ FinishCommand(loop.cmd, "completed")
    BY <1>9 DEF StopReported, AckInstanceTerminal, FinishLoopCommand, historyVars, taskVars
  <2>2. SameRun /\ SameMcp(mcp)
    BY <2>1, UnmovedMcp DEF SameRun, DispatcherIndInv, RunTypeOK
  <2>3. loop.cmd \in Commands
    BY <2>1 DEF DispatcherIndInv, LoopIsTrue
  <2> QED BY <1>5, <2>1, <2>2, <2>3, SoftFailures DEF Statuses
<1> QED BY <1>1, <1>2, <1>3, <1>4, <1>6, <1>7, <1>8, <1>9

(* Steps that mark the active work for its end.                            *)
LEMMA AbortFailures ==
  ASSUME DispatcherIndInv, UNCHANGED <<mcpFailures, failedMcpRuns>>, Verdicts,
         loop.pc = "exited" => loop'.pc = "exited",
         NEW source \in CancellationSources, NEW p \in PendType, AbortActiveWork(source, p, mcp)
  PROVE  FailuresStay
<1>1. RunTypeOK /\ mcp \in McpType
  BY DEF DispatcherIndInv, TaskTypeOK, McpType
<1>2. SameRun /\ SameMcp(mcp)
  BY <1>1, AbortSoftens
<1> QED BY <1>2, SoftFailures

LEMMA ShutdownFailures ==
  ASSUME DispatcherIndInv, UNCHANGED <<mcpFailures, failedMcpRuns>>, Verdicts,
         loop.pc = "exited" => loop'.pc = "exited",
         NEW from \in {status, "failed"}, NEW p \in PendType, Shutdown(from, p, mcp)
  PROVE  FailuresStay
<1>1. RunTypeOK /\ LoopTypeOK /\ ShutdownIsOrdered /\ mcp \in McpType
  BY DEF DispatcherIndInv, TaskTypeOK, McpType
<1>2. SameRun /\ SameMcp(mcp)
  BY <1>1, ShutdownSoftens
<1> QED BY <1>2, SoftFailures

LEMMA LoopCancelsStay ==
  ASSUME DispatcherIndInv,
         HandleNew \/ AcceptedStop \/ Cancelled \/ CommandFails \/ Leave \/ Reported
  PROVE  FailuresStay
<1>1. pend \in PendType
  BY DEF DispatcherIndInv, TaskTypeOK, PendType
<1>2. CASE HandleNew
  <2>1. TakesIn(loop.cmd) /\ UNCHANGED <<mcpFailures, failedMcpRuns>>
    BY <1>2, HandleNewTakesIn DEF HandleNew
  <2>2. SameRun /\ SameMcp(mcp) /\ loop.pc # "exited"
    BY <2>1 DEF TakesIn, Calm
  <2>3. Verdicts
    <3>1. tracked \in [Commands -> TrackedStates]
      BY DEF DispatcherIndInv, LoopTypeOK
    <3> QED BY <2>1, <3>1, InputsNamed DEF TakesIn, Verdicts
  <2> QED BY <2>1, <2>2, <2>3, SoftFailures
<1>3. CASE AcceptedStop
  <2>1. UNCHANGED <<tracked, mcpFailures, failedMcpRuns>> /\ loop.pc = "accepting"
    BY <1>3 DEF AcceptedStop
  <2>2. SameRun /\ SameMcp(mcp)
    BY <1>3, CancelIs DEF AcceptedStop
  <2> QED BY <2>1, <2>2, SoftFailures DEF Verdicts
<1>4. CASE Cancelled
  <2>1. UNCHANGED <<mcpFailures, failedMcpRuns>> /\ loop.pc = "cancelling" /\ loop.cmd \in Commands
    BY <1>4 DEF Cancelled, DispatcherIndInv, LoopIsTrue
  <2>2. CASE FinishCommand(loop.cmd, "completed") /\ UNCHANGED <<terminalVars, mcp>>
    <3>1. Verdicts
      BY <2>1, <2>2, FinishTells, ToldVerdicts DEF Statuses
    <3> QED BY <2>1, <2>2, <3>1, StillFailures
  <2>3. CASE Shutdown(status, pend, mcp) /\ UNCHANGED tracked
    BY <1>1, <2>1, <2>3, ShutdownFailures DEF Verdicts
  <2> QED BY <1>4, <2>2, <2>3 DEF Cancelled, FinishLoopCommand
<1>5. CASE CommandFails
  <2>1. /\ UNCHANGED <<mcpFailures, failedMcpRuns>> /\ FailCommand
        /\ loop.pc \in {"accepting", "cancelling", "shutdown", "terminal"}
    BY <1>5 DEF CommandFails, CancellationFailed
  <2>2. loop.cmd \in Commands
    BY <2>1 DEF DispatcherIndInv, LoopIsTrue
  <2>3. CASE FinishCommand(loop.cmd, "failed") /\ UNCHANGED <<terminalVars, mcp>>
    <3>1. Verdicts
      BY <2>2, <2>3, FinishTells, ToldVerdicts DEF Statuses
    <3> QED BY <2>1, <2>3, <3>1, StillFailures
  <2>4. CASE loop.cmd.kind = "session.stop"
    <3>1. PICK from \in {status, "failed"} : Shutdown(from, pend, mcp)
      BY <2>1, <2>4 DEF FailCommand
    <3>2. UNCHANGED tracked
      BY <2>1, <2>4 DEF FailCommand
    <3> QED BY <1>1, <2>1, <3>1, <3>2, ShutdownFailures DEF Verdicts
  <2> QED BY <2>1, <2>3, <2>4 DEF FailCommand
<1>6. CASE Leave
  <2>1. /\ UNCHANGED <<tracked, mcpFailures, failedMcpRuns>> /\ loop.pc = "poll"
        /\ AbortActiveWork("shutdown", pend, mcp)
    BY <1>6 DEF Leave
  <2> QED BY <1>1, <2>1, AbortFailures DEF Verdicts, CancellationSources
<1>7. CASE Reported
  <2>1. /\ UNCHANGED <<tracked, mcpFailures, failedMcpRuns>> /\ loop.pc = "reporting"
        /\ Shutdown(status, pend, mcp)
    BY <1>7 DEF Reported
  <2> QED BY <1>1, <2>1, ShutdownFailures DEF Verdicts
<1> QED BY <1>2, <1>3, <1>4, <1>5, <1>6, <1>7

LEMMA TasksFailuresStay ==
  ASSUME DispatcherIndInv,
         \/ JoinStep \/ PublishFails \/ BackendStep \/ InputFailed \/ InputTaskFails \/ InputEnds
         \/ HandOffFails \/ PendingFails \/ PendingEnds \/ ShutdownStep
         \/ \E cause \in Interruptions : Interrupt(cause)
         \/ UNCHANGED dispatcherVars
  PROVE  FailuresStay
<1>0. pend \in PendType
  BY DEF DispatcherIndInv, TaskTypeOK, PendType
<1>1. CASE JoinStep
  <2>1. UNCHANGED <<terminalVars, loop, tracked, mcp, mcpFailures, failedMcpRuns>>
    BY <1>1 DEF JoinStep, JoinPermissions, JoinDone, JoinTimeout, taskVars
  <2> QED BY <2>1, StillFailures DEF Verdicts
<1>2. CASE PublishFails \/ \E outcome \in Statuses : Publish(outcome)
  <2>1. UNCHANGED <<terminalVars, loop, tracked, mcp, mcpFailures, failedMcpRuns>>
    BY <1>2 DEF PublishFails, Publish, inputOnly
  <2> QED BY <2>1, StillFailures DEF Verdicts
<1>3. CASE \E outcome \in {"resolved", "cancelled", "rejected"} : InputSettles(outcome)
  <2>1. PICK outcome \in {"resolved", "cancelled", "rejected"} : InputSettles(outcome)
    BY <1>3
  <2>2. /\ UNCHANGED <<terminalVars, loop, mcp, mcpFailures, failedMcpRuns>>
        /\ input.pc \in {"backend", "publishing"}
    BY <2>1 DEF InputSettles, taskOnly
  <2>3. PICK verdict : FinishCommand(input.cmd, verdict)
    BY <2>1 DEF InputSettles
  <2>4. Verdicts
    <3>1. tracked \in [Commands -> TrackedStates]
      BY DEF DispatcherIndInv, LoopTypeOK
    <3>2. tracked' = [tracked EXCEPT ![input.cmd] = IF @ = "none" THEN verdict ELSE @]
      BY <2>3 DEF FinishCommand
    <3> QED BY <3>1, <3>2, InputsNamed DEF Verdicts
  <2> QED BY <2>2, <2>4, StillFailures
<1>4. CASE InputFailed \/ InputTaskFails
  <2>1. UNCHANGED <<loop, tracked, mcpFailures, failedMcpRuns>> /\ Shutdown(status, pend, mcp)
    BY <1>4 DEF InputFailed, InputTaskFails
  <2> QED BY <1>0, <2>1, ShutdownFailures DEF Verdicts
<1>5. CASE InputEnds \/ PendingEnds
  <2>1. UNCHANGED <<terminalVars, loop, tracked, mcp, mcpFailures, failedMcpRuns>>
    BY <1>5 DEF InputEnds, PendingEnds, taskOnly
  <2> QED BY <2>1, StillFailures DEF Verdicts
<1>6. CASE HandOffFails
  <2>1. /\ UNCHANGED <<terminalVars, loop, mcp, mcpFailures, failedMcpRuns>>
        /\ pend.pc \in {"waiting", "started"} /\ FinishCommand(pend.cmd, "failed")
    BY <1>6 DEF HandOffFails
  <2>2. pend.cmd \in Commands
    BY <2>1, InputsNamed DEF DispatcherIndInv, ActiveIsInput
  <2>3. Verdicts
    BY <2>1, <2>2, FinishTells, ToldVerdicts DEF Statuses
  <2> QED BY <2>1, <2>3, StillFailures
<1>7. CASE PendingFails
  <2>1. UNCHANGED <<loop, tracked, mcpFailures, failedMcpRuns>>
    BY <1>7 DEF PendingFails
  <2>2. PICK outcome \in Deliveries :
          Shutdown(status, [pend EXCEPT !.pc = "closing", !.attempt = ShutdownAttempt,
                                        !.rejected = (outcome = "failed")], mcp)
    BY <1>7 DEF PendingFails
  <2>3. [pend EXCEPT !.pc = "closing", !.attempt = ShutdownAttempt,
                     !.rejected = (outcome = "failed")] \in PendType
    BY <1>0, AttemptTyped DEF PendType
  <2> QED BY <2>1, <2>2, <2>3, ShutdownFailures DEF Verdicts
<1>8. CASE ShutdownStep \/ UNCHANGED dispatcherVars
  <2>1. UNCHANGED <<terminalVars, loop, tracked, mcp, mcpFailures, failedMcpRuns>>
    BY <1>8 DEF ShutdownStep, ShutdownEnds, taskVars, dispatcherVars
  <2> QED BY <2>1, StillFailures DEF Verdicts
<1>9. CASE \E cause \in Interruptions : Interrupt(cause)
  <2>1. PICK from \in {status, "failed"} : Shutdown(from, pend, mcp)
    BY <1>9 DEF Interrupt
  <2>2. UNCHANGED <<loop, tracked, mcpFailures, failedMcpRuns>>
    BY <1>9 DEF Interrupt
  <2> QED BY <1>0, <2>1, <2>2, ShutdownFailures DEF Verdicts
<1> QED BY <1>1, <1>2, <1>3, <1>4, <1>5, <1>6, <1>7, <1>8, <1>9 DEF BackendStep

(* The failure of the loop is a failure of the run whose MCP command was   *)
(* being admitted, and no terminal is selected beside an admission.        *)
LEMMA ThrowShows ==
  ASSUME DispatcherIndInv, FailuresKnown,
         FetchFails \/ DeliveryFails \/ FatalFinished \/ LeaveThrows
  PROVE  FailuresKnown' /\ FailureShows
<1>1. PICK error \in {"delivery", "other"} : Throw(error)
  BY DEF FetchFails, DeliveryFails, FatalFinished, LeaveThrows
<1>2. loop.pc # "exited"
  BY DEF FetchFails, DeliveryFails, FatalFinished, LeaveThrows
<1>3. SameRun /\ SameMcp(mcp)
  <2>1. RunTypeOK /\ mcp \in McpType /\ pend \in PendType
    BY DEF DispatcherIndInv, TaskTypeOK, McpType, PendType
  <2> QED BY <1>1, <2>1, AbortSoftens DEF Throw, CancellationSources
<1> DEFINE admitted == IF loop.admitted THEN {loop.cmd.run} ELSE {}
<1>4. /\ tracked' = tracked /\ failedMcpRuns' = failedMcpRuns \cup admitted
      /\ mcpFailures' = mcpFailures \cup admitted
  BY <1>1 DEF Throw
<1>5. \A r \in admitted : r \in Runs /\ HasWork(r)
  BY InputsNamed DEF DispatcherIndInv, LoopIsTrue, HasWork, Admission
<1> HIDE DEF admitted
<1>6. /\ activeRun'.runId = activeRun.runId /\ activeRun'.terminal = activeRun.terminal
      /\ published' = published /\ Running(mcp)' = Running(mcp)
      /\ \A run : RunSettled(run)' = RunSettled(run)
  BY <1>3, <1>4 DEF SameRun, SameMcp, Running, RunSettled
<1>7. activeRun.terminal # Null => activeRun.runId \notin admitted
  BY <1>2, <1>5 DEF DispatcherIndInv, BarrierHolds
<1>8. FailureShows
  BY <1>6 DEF FailureShows
<1> QED BY <1>2, <1>4, <1>5, <1>6, <1>7, <1>8 DEF FailuresKnown

(* A run that starts has not failed: its input has no verdict yet.         *)
LEMMA StartShows ==
  ASSUME DispatcherIndInv, FailuresKnown, AcceptedInput \/ HandOff
  PROVE  FailuresKnown' /\ FailureShows
<1>1. UNCHANGED <<tracked, mcp, mcpFailures, failedMcpRuns>>
  BY DEF AcceptedInput, HandOff
<1>2. loop.pc = "exited" => loop'.pc = "exited"
  BY DEF AcceptedInput, HandOff
<1>3. CASE AcceptedInput /\ input.pc # "none"
  <2>1. UNCHANGED terminalVars
    BY <1>3 DEF AcceptedInput
  <2> QED BY <1>1, <1>2, <2>1, StillFailures, FailuresStayKeeps DEF Verdicts
<1>4. ASSUME NEW c \in Inputs, NEW cancellation \in Cancellations, StartInput(c, cancellation),
             tracked[c] = "none", input.pc = "none"
      PROVE  FailuresKnown' /\ FailureShows
  <2>1. /\ activeRun'.runId = c.run /\ activeRun'.terminal = Null /\ published' = published
    BY <1>4, StartInputStarts DEF Starts
  <2>2. ~RunSettled(c.run)
    BY <1>4 DEF RunSettled
  <2>3. activeRun.runId \notin Runs
    BY <1>4, StartsAlone, NullIsNoRun, NoRunAssumption
  <2>4. \A r \in failedMcpRuns : r \in mcpFailures \/ RunSettled(r)
    BY DEF FailuresKnown
  <2>5. \A m \in Running(mcp) : RunSettled(m.run)
    BY <2>3, InputsNamed DEF FailuresKnown, Running
  <2>6. Running(mcp)' = Running(mcp) /\ \A run : RunSettled(run)' = RunSettled(run)
    BY <1>1 DEF Running, RunSettled
  <2>7. FailureShows
    BY <2>1 DEF FailureShows
  <2> QED BY <1>1, <2>1, <2>2, <2>4, <2>5, <2>6, <2>7 DEF FailuresKnown
<1>5. CASE AcceptedInput /\ input.pc = "none"
  <2>1. loop.pc = "accepting" /\ loop.cmd.kind = "input.start" /\ StartInput(loop.cmd, "none")
    BY <1>5 DEF AcceptedInput
  <2>2. loop.cmd \in Inputs /\ tracked[loop.cmd] = "none" /\ "none" \in Cancellations
    BY <2>1 DEF DispatcherIndInv, LoopIsTrue, Inputs, Cancellations
  <2> QED BY <1>4, <1>5, <2>1, <2>2
<1>6. CASE HandOff
  <2>1. pend.pc = "waiting" /\ input.pc = "none" /\ StartInput(pend.cmd, pend.cancellation)
    BY <1>6 DEF HandOff, PreviousSettled
  <2>2. pend.cmd \in Inputs /\ pend.cancellation \in Cancellations /\ tracked[pend.cmd] = "none"
    BY <2>1 DEF DispatcherIndInv, ActiveIsInput, TaskTypeOK, InputsAreKnown
  <2> QED BY <1>4, <2>1, <2>2
<1> QED BY <1>3, <1>5, <1>6

(* An MCP command is taken in for the run that is driven.                  *)
LEMMA AcceptedMcpShows ==
  ASSUME DispatcherIndInv, FailuresKnown, AcceptedMcp
  PROVE  FailuresKnown' /\ FailureShows
<1>1. /\ UNCHANGED <<activeRun, published, tracked, mcpFailures, failedMcpRuns>>
      /\ mcp' = [mcp EXCEPT ![loop.cmd] = [pc |-> "running", aborted |-> FALSE]]
      /\ loop.pc # "exited"
  BY DEF AcceptedMcp, terminalVars, machineVars, historyVars
<1>2. loop.cmd.run = activeRun.runId
  BY DEF AcceptedMcp, MayProceed, Owned, CurrentRunId
<1>3. \A m \in Running(mcp)' : m \in Running(mcp) \/ m = loop.cmd
  <2>1. mcp \in McpType
    BY DEF DispatcherIndInv, TaskTypeOK, McpType
  <2> QED BY <1>1, <2>1 DEF Running, McpType
<1>4. \A run : RunSettled(run)' = RunSettled(run)
  BY <1>1 DEF RunSettled
<1>5. FailureShows
  BY <1>1 DEF FailureShows
<1> QED BY <1>1, <1>2, <1>3, <1>4, <1>5 DEF FailuresKnown

(* The barrier lets a run with failed MCP work be published as failed only. *)
LEMMA SelectShows ==
  ASSUME DispatcherIndInv, FailuresKnown, Select
  PROVE  FailuresKnown' /\ FailureShows
<1>1. /\ UNCHANGED <<loop, tracked, mcp, mcpFailures, failedMcpRuns>>
      /\ pub.pc \in {"barrier", "clear"} /\ ~Blocked
  BY DEF Select, inputOnly
<1>2. CASE UNCHANGED terminalVars
  BY <1>1, <1>2, StillFailures, FailuresStayKeeps DEF Verdicts
<1>3. CASE SelectRunTerminal(CurrentTicket, Terminal(pub.status))
  <2>1. /\ activeRun' = [activeRun EXCEPT !.terminal = [phase |-> "selected", value |-> Terminal(pub.status)]]
        /\ published' = published /\ activeRun # NullRun
    BY <1>3 DEF SelectRunTerminal, RequireRun, historyVars
  <2>2. activeRun \in DrivenRun
    BY <2>1 DEF DispatcherIndInv, RunTypeOK
  <2>3. activeRun'.runId = activeRun.runId /\ activeRun'.terminal.value.status = pub.status
    BY <2>1, <2>2 DEF DrivenRun, Terminal
  <2>4. loop.pc # "exited" /\ activeRun.runId \in mcpFailures => pub.status = "failed"
    BY <1>1 DEF Blocked, DispatcherIndInv, BarrierHolds
  <2>5. activeRun.runId \in failedMcpRuns => activeRun.runId \in mcpFailures
    BY DEF FailuresKnown
  <2>6. Running(mcp)' = Running(mcp) /\ \A run : RunSettled(run)' = RunSettled(run)
    BY <1>1 DEF Running, RunSettled
  <2>7. FailureShows
    BY <2>1 DEF FailureShows
  <2> QED BY <1>1, <2>1, <2>3, <2>4, <2>5, <2>6, <2>7 DEF FailuresKnown
<1> QED BY <1>2, <1>3 DEF Select

LEMMA AcknowledgeShows ==
  ASSUME DispatcherIndInv, FailuresKnown, Acknowledge
  PROVE  FailuresKnown' /\ FailureShows
<1> DEFINE p == [revision |-> activeRun.revision, value |-> activeRun.terminal.value]
<1>1. /\ UNCHANGED <<loop, tracked, mcp, mcpFailures, failedMcpRuns>> /\ activeRun # NullRun
      /\ activeRun.terminal.phase = "selected" /\ published' = published \cup {p}
      /\ \E receipt : activeRun' = [activeRun EXCEPT !.terminal =
           [phase |-> "acked", value |-> activeRun.terminal.value, receipt |-> receipt]]
  BY DEF Acknowledge, inputOnly, AckRunTerminal, RequireRun, CurrentTicket
<1>2. activeRun \in DrivenRun /\ activeRun.terminal # Null
  BY <1>1 DEF DispatcherIndInv, RunTypeOK, Null
<1>3. /\ activeRun'.runId = activeRun.runId /\ activeRun'.terminal.value = activeRun.terminal.value
  BY <1>1, <1>2 DEF DrivenRun
<1>4. activeRun.terminal.value.runId = activeRun.runId
  BY <1>2 DEF DispatcherIndInv, BarrierHolds
<1>5. Running(mcp)' = Running(mcp) /\ \A run : RunSettled(run)' = RunSettled(run)
  BY <1>1 DEF Running, RunSettled
<1>6. FailureShows
  BY <1>1, <1>2, <1>4 DEF FailureShows, FailuresKnown
<1> QED BY <1>1, <1>2, <1>3, <1>5, <1>6 DEF FailuresKnown

(* The end of an input forgets its run, which has its verdict by then.     *)
LEMMA EndInputShows ==
  ASSUME DispatcherIndInv, FailuresKnown, InputFinished \/ InputThrows \/ InputShutDown
  PROVE  FailuresKnown' /\ FailureShows
<1>1. /\ UNCHANGED <<loop, tracked, mcp, failedMcpRuns>>
      /\ input.pc \in {"finishing", "failing", "shutdown"}
      /\ \E reason, pc : EndInput(reason, pc)
  BY DEF InputFinished, InputThrows, InputShutDown, taskOnly
<1>2. /\ activeRun' = NullRun /\ published' = published
      /\ mcpFailures \ {input.cmd.run} \subseteq mcpFailures'
  BY <1>1 DEF EndInput, ReleaseRun, historyVars
<1>3. input.cmd \in Inputs /\ activeRun.runId = input.cmd.run
  BY <1>1 DEF DispatcherIndInv, ActiveIsInput, LivePlaces
<1>4. RunSettled(activeRun.runId)
  <2>1. tracked[input.cmd] \notin {"unknown", "none"}
    BY <1>1, <1>3 DEF DispatcherIndInv, InputsAreKnown
  <2> QED BY <1>3, <2>1, InputsNamed DEF RunSettled
<1>5. activeRun'.runId \notin Runs /\ activeRun'.terminal = Null
  BY <1>2, NullIsNoRun, NoRunAssumption
<1>6. Running(mcp)' = Running(mcp) /\ \A run : RunSettled(run)' = RunSettled(run)
  BY <1>1 DEF Running, RunSettled
<1>7. FailureShows
  BY <1>2 DEF FailureShows
<1> QED BY <1>1, <1>2, <1>3, <1>4, <1>5, <1>6, <1>7 DEF FailuresKnown

(* An MCP command is gone: its run is forgotten only if it is not driven.  *)
LEMMA McpEndShows ==
  ASSUME DispatcherIndInv, FailuresKnown, NEW c \in McpCommands, mcp[c].pc # "none",
         SameRun, tracked' = tracked, loop' = loop, Running(mcp)' \subseteq Running(mcp),
         NEW failures, mcpFailures \subseteq failures, ClearRun(c, failures),
         \/ failedMcpRuns' = failedMcpRuns
         \/ c.run \in failures /\ failedMcpRuns' = failedMcpRuns \cup {c.run}
  PROVE  FailuresKnown' /\ FailureShows
<1>1. /\ activeRun'.runId = activeRun.runId /\ activeRun'.terminal = activeRun.terminal
      /\ published' = published /\ \A run : RunSettled(run)' = RunSettled(run)
  BY DEF SameRun, RunSettled
<1>2. c \in Running(mcp) /\ c.run \in Runs
  BY InputsNamed DEF Running
<1>3. activeRun.runId = c.run \/ RunSettled(c.run)
  BY <1>2 DEF FailuresKnown
<1>4. \A r \in failures : r \in mcpFailures' \/ (r = c.run /\ activeRun.runId # c.run)
  BY DEF ClearRun, CurrentRunId
<1>5. loop.pc # "exited" /\ activeRun.terminal # Null => activeRun.runId # c.run
  BY <1>2 DEF DispatcherIndInv, BarrierHolds, HasWork
<1>6. FailureShows
  BY <1>1 DEF FailureShows
<1>7. \A r \in failedMcpRuns' : r \in failures \/ (r # activeRun.runId /\ RunSettled(r))
  BY DEF FailuresKnown
<1> QED BY <1>1, <1>2, <1>3, <1>4, <1>5, <1>6, <1>7 DEF FailuresKnown

LEMMA McpShows ==
  ASSUME DispatcherIndInv, FailuresKnown, McpStep
  PROVE  FailuresKnown' /\ FailureShows
<1>0. /\ mcp \in McpType /\ pend \in PendType
  BY DEF DispatcherIndInv, TaskTypeOK, McpType, PendType
<1>1. ASSUME NEW c \in McpCommands, NEW outcome \in {"completed", "failed", "cancelled"},
             McpSettles(c, outcome)
      PROVE  FailuresKnown' /\ FailureShows
  <2>1. /\ UNCHANGED <<terminalVars, loop, mcpFailures, failedMcpRuns>> /\ FinishCommand(c, outcome)
        /\ mcp[c].pc = "running" /\ mcp' = [mcp EXCEPT ![c].pc = "finishing"]
    BY <1>1 DEF McpSettles
  <2>2. Verdicts
    BY <2>1, InputsNamed, FinishTells, ToldVerdicts DEF Statuses
  <2>3. Running(mcp)' \subseteq Running(mcp)
    BY <1>0, <2>1 DEF Running, McpType
  <2>4. FailuresStay
    BY <2>1, <2>2, <2>3, UnmovedRun DEF FailuresStay
  <2> QED BY <2>4, FailuresStayKeeps
<1>2. ASSUME NEW c \in McpCommands, McpFinished(c) PROVE FailuresKnown' /\ FailureShows
  <2>1. /\ UNCHANGED <<terminalVars, loop, tracked, failedMcpRuns>> /\ ClearRun(c, mcpFailures)
        /\ mcp[c].pc = "finishing" /\ mcp' = [mcp EXCEPT ![c] = NoMcp]
    BY <1>2 DEF McpFinished
  <2>2. Running(mcp)' \subseteq Running(mcp)
    BY <1>0, <2>1, NoMcpTyped DEF Running, McpType
  <2> QED BY <2>1, <2>2, UnmovedRun, McpEndShows
<1>3. ASSUME NEW c \in McpCommands, McpFails(c) PROVE FailuresKnown' /\ FailureShows
  <2> DEFINE m == [mcp EXCEPT ![c] = NoMcp]
  <2>1. /\ UNCHANGED <<loop, tracked>> /\ ClearRun(c, mcpFailures \cup {c.run}) /\ mcp[c].pc # "none"
        /\ failedMcpRuns' = failedMcpRuns \cup {c.run} /\ Shutdown(status, pend, m)
    BY <1>3 DEF McpFails
  <2>2. m \in McpType /\ \A d \in McpCommands : m[d] = IF d = c THEN NoMcp ELSE mcp[d]
    BY <1>0, NoMcpTyped, McpReplaced
  <2> HIDE DEF m
  <2>3. SameRun /\ SameMcp(m)
    BY <1>0, <2>1, <2>2, ShutdownSoftens DEF DispatcherIndInv
  <2>4. Running(mcp)' \subseteq Running(mcp)
    BY <2>2, <2>3, NoMcpTyped DEF Running, SameMcp
  <2>5. /\ mcpFailures \subseteq mcpFailures \cup {c.run} /\ c.run \in mcpFailures \cup {c.run}
    OBVIOUS
  <2> QED BY <2>1, <2>3, <2>4, <2>5, McpEndShows
<1> QED BY <1>1, <1>2, <1>3 DEF McpStep

LEMMA FailuresInductive ==
  DispatcherIndInv /\ FailuresKnown /\ [DispatcherNext]_dispatcherVars => FailuresKnown' /\ FailureShows
<1> SUFFICES ASSUME DispatcherIndInv, FailuresKnown, [DispatcherNext]_dispatcherVars
             PROVE  FailuresKnown' /\ FailureShows
  OBVIOUS
<1>1. CASE \/ \E c \in Commands : Fetch(c)
           \/ HandleWithoutEffect \/ Answered \/ Finished \/ Exit \/ CrashShutDown
           \/ AcceptedOther \/ FailedStopShutDown \/ StopShutDown \/ StopReported
  BY <1>1, LoopFailuresStay, FailuresStayKeeps
<1>2. CASE HandleNew \/ AcceptedStop \/ Cancelled \/ CommandFails \/ Leave \/ Reported
  BY <1>2, LoopCancelsStay, FailuresStayKeeps
<1>3. CASE \/ JoinStep \/ PublishFails \/ BackendStep \/ InputFailed \/ InputTaskFails \/ InputEnds
           \/ HandOffFails \/ PendingFails \/ PendingEnds \/ ShutdownStep
           \/ \E cause \in Interruptions : Interrupt(cause)
           \/ UNCHANGED dispatcherVars
  BY <1>3, TasksFailuresStay, FailuresStayKeeps
<1>4. CASE FetchFails \/ DeliveryFails \/ FatalFinished \/ LeaveThrows
  BY <1>4, ThrowShows
<1>5. CASE AcceptedInput \/ HandOff \/ AcceptedMcp
  BY <1>5, StartShows, AcceptedMcpShows
<1>6. CASE Select \/ Acknowledge
  BY <1>6, SelectShows, AcknowledgeShows
<1>7. CASE InputFinished \/ InputThrows \/ InputShutDown
  BY <1>7, EndInputShows
<1>8. CASE McpStep
  BY <1>8, McpShows
<1>9. CASE Over
  BY <1>3, <1>9 DEF Over
<1> QED
  BY <1>1, <1>2, <1>3, <1>4, <1>5, <1>6, <1>7, <1>8, <1>9
     DEF DispatcherNext, LoopStep, PublicationStep, InputStep, PendingStep

(* A run with failed MCP work is published as failed or not at all, as     *)
(* long as the loop runs: #mcpRunFailures blocks any other terminal, and   *)
(* it is cleared only once the run is over.                                *)
THEOREM FailedWorkFailsRun == DispatcherSpec => FailedMcpFailsRun
<1>1. DispatcherInit => FailuresKnown
  BY NoMcpTyped DEF DispatcherInit, TerminalInit, FailuresKnown, Running, NullRun
<1>2. DispatcherIndInv /\ FailuresKnown /\ [DispatcherNext]_dispatcherVars => [FailureShows]_dispatcherVars
  BY FailuresInductive
<1> QED BY <1>1, <1>2, FailuresInductive, DispatcherIsSound, PTL
        DEF DispatcherSpec, FailedMcpFailsRun, FailureShows
=============================================================================
