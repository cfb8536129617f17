------------------------- MODULE DriverKernelProofs -------------------------
(***************************************************************************)
(* What the kernel promises its host, for any commands, pushes, calls of   *)
(* stop and calls of shutdown: no promise of dispatch outlives the loop,   *)
(* and a failure is told, once, before the events end.                     *)
(*                                                                         *)
(* The argument: whatever ends the loop, or asks the backend to go down,   *)
(* has made the status one of a shutdown before, and such a status is for  *)
(* good (ShutdownIsKnown); so nothing is dispatched, begun or recorded     *)
(* after the events began to close (EndIsQuiet).  What was emitted of the  *)
(* current run is acknowledged, while it lasts in the run and then as its  *)
(* last terminal (EmittedIsAcked), and the failure of the end is that run's*)
(* (FailureIsOfTheRun): it is emitted only if nothing was.                 *)
(***************************************************************************)
EXTENDS DriverKernel, TLAPS

LoopStates == {"none", "polling", "stopping", "ended", "threw", "failing", "settled"}
AttemptStates == {"none", "permission", "backend", "refused", "finalize", "ok", "failed"}
PromiseStates == {"none", "pending", "resolved", "rejected"}
IsDown == startup # "none" => down
Cleaned == shutdown.cleanup = "completed"

Shutdowns == [cleanup : {"unrequested", "pending", "completed"}, failed : BOOLEAN,
              runId : Runs \cup {NoRun}]
StopStates == {"none", "joined", "early", "resolved", "command", "bypass", "rejected", "loop",
               "completes"}

KernelTypes ==
  /\ status \in DriverStatuses
  /\ startup \in {"none", "waiting", "resolved", "rejected"}
  /\ aborted \in BOOLEAN /\ down \in BOOLEAN /\ cause \in BOOLEAN /\ closed \in BOOLEAN
  /\ current \in Calls \cup {0}
  /\ loop \in LoopStates
  /\ finalizing \in {"none", "closing", "done"}
  /\ revision \in Nat

TableTypes ==
  /\ answer \in [Calls -> {"idle", "waiting", "resolved", "rejected"}]
  /\ attempt \in [Calls -> AttemptStates]
  /\ promise \in [KernelCommands -> PromiseStates]
  /\ queue \in Seq(KernelCommands)

RecordTypes ==
  /\ shutdown \in Shutdowns
  /\ stop \in [pc : StopStates, awaited : Calls \cup {0}, calls : Nat]
  /\ emitted \subseteq [revision : Nat, status : Statuses]

(* The run and the pushes are records of the fields they are given.        *)
Shapes ==
  /\ activeRun = [runId |-> activeRun.runId, revision |-> activeRun.revision,
                  claim |-> activeRun.claim, terminal |-> activeRun.terminal]
  /\ push = [p \in Pushes |-> [pc |-> push[p].pc, ticket |-> push[p].ticket,
                               status |-> push[p].status, id |-> push[p].id]]

(* A shutdown, once asked for in any way, is in the status.                *)
ShutdownIsKnown ==
  /\ IsShuttingDown => aborted
  /\ current # 0 \/ cause \/ loop \in {"stopping", "ended", "failing", "settled"} => IsShuttingDown
  /\ \A k \in Calls : attempt[k] # "none" => IsShuttingDown
  /\ \A k \in Calls : answer[k] # "idle" => attempt[k] # "none"
  /\ status = "created" => startup = "none"
  /\ status \in {"created", "starting"} => loop = "none"

(* What an attempt has found out of the backend is true.                   *)
AttemptsAreTrue ==
  /\ Cleaned => IsShuttingDown /\ IsDown
  /\ status = "stopped" => Cleaned
  /\ \A k \in Calls :
       /\ answer[k] = "resolved" => down
       /\ attempt[k] = "backend" /\ answer[k] = "idle" => startup = "none" \/ Cleaned
       /\ attempt[k] \in {"finalize", "ok"} => Cleaned
  /\ promise[StopCommand] = "resolved" => Cleaned

(* The input that is driven is the active run.                             *)
DrivenIsActive ==
  /\ driving = "none" <=> activeRun = NullRun
  /\ driving \in Inputs \cup {"none"}
  /\ loop \in {"none", "failing", "settled"} => driving = "none"
  /\ activeRun # NullRun =>
       /\ activeRun.revision = revision /\ activeRun.runId \in Runs
       /\ activeRun.runId = lastOwnedRunId

RunTerminalIsKnown ==
  /\ activeRun.terminal = Null \/ activeRun.terminal.phase \in {"selected", "acked"}
  /\ activeRun.terminal # Null => /\ activeRun.terminal.value.status \in Statuses
                                 /\ activeRun.terminal.value.runId = activeRun.runId
  /\ \A p \in Pushes : push[p].pc \notin {"idle", "answered"} => push[p].status \in Statuses

(* What was emitted of the current run is acknowledged.                    *)
EmittedIsAcked ==
  /\ \A e \in emitted : e.revision <= revision
  /\ \A a, b \in emitted : a.revision = b.revision => a = b
  /\ (\E e \in emitted : e.revision = revision) =>
       \/ activeRun # NullRun /\ activeRun.terminal.phase = "acked"
       \/ activeRun = NullRun /\ finalizing # "none"
       \/ /\ activeRun = NullRun
          /\ lastRunTerminal.runId = lastOwnedRunId /\ lastRunTerminal.status \in Statuses

(* A failure is of the last run, and there is no other after it.           *)
FailureIsOfTheRun ==
  shutdown.failed =>
    /\ shutdown.runId = lastOwnedRunId /\ shutdown.runId \in Runs
    /\ loop \notin {"none", "polling"} \/ IsShuttingDown

(* Once the events begin to close the loop is over and nothing fails.      *)
EndIsQuiet ==
  /\ instanceTerminal.phase \in {"open", "acked"}
  /\ finalizing # "none" =>
       /\ Cleaned /\ loop \in {"none", "settled"}
       /\ shutdown.failed => instanceTerminal.phase = "acked"
  /\ closed => finalizing # "none"
  /\ loop = "settled" => \A c \in KernelCommands : promise[c] # "pending"

(* What a stop awaits, and what it has learned.                            *)
NoStopYet ==
  /\ status \notin {"stopping", "stopped"} /\ loop # "stopping"
  /\ promise[StopCommand] = "none"
  /\ \A i \in 1..Len(queue) : queue[i] # StopCommand
StopIsTrue ==
  /\ stop.pc = "none" <=> stop.calls = 0
  /\ stop.pc = "none" => NoStopYet
  /\ stop.pc \in {"joined", "early", "bypass"} => stop.awaited \in Calls
  /\ stop.pc = "early" => IsShuttingDown /\ loop = "none" /\ ~cause
  /\ stop.pc = "loop" => Cleaned \/ cause
  /\ stop.pc = "completes" => Cleaned
  /\ stop.pc = "resolved" =>
       Cleaned /\ (stop.calls > 1 \/ (~cause /\ loop \in {"none", "settled"}))

KernelIndInv ==
  /\ KernelTypes /\ TableTypes /\ RecordTypes /\ Shapes
  /\ ShutdownIsKnown /\ AttemptsAreTrue /\ DrivenIsActive /\ RunTerminalIsKnown
  /\ EmittedIsAcked /\ FailureIsOfTheRun /\ EndIsQuiet /\ StopIsTrue /\ ReportedOutcomeIsPublished

-----------------------------------------------------------------------------
(* The steps that several actions share.                                   *)

LEMMA CallsAreCalls == \A k \in Calls : k \in Nat /\ k # 0
BY CallsBound DEF Calls

(* What a call of #shutdown does to the step it is part of.                *)
ShutsDown(before, s) ==
  /\ status' \in ShuttingDown /\ status' \in {before, "stopping"}
  /\ before \in ShuttingDown => status' = before \/ before = "stopping"
  /\ shutdown' \in Shutdowns /\ aborted' = TRUE
  /\ shutdown'.cleanup = "completed" <=> s.cleanup = "completed"
  /\ shutdown'.failed = s.failed /\ shutdown'.runId = s.runId
  /\ current' \in Calls /\ current' = Attempted
  /\ attempt' \in [Calls -> AttemptStates]
  /\ \A k \in Calls :
       \/ attempt'[k] = attempt[k]
       \/ attempt[k] = "none" /\ attempt'[k] = "permission"
       \/ attempt[k] = "none" /\ attempt'[k] = "finalize" /\ before = "stopped"
  /\ queue' \in {queue, << >>}

LEMMA ShutdownBegins ==
  ASSUME KernelIndInv, NEW before \in DriverStatuses, NEW s \in Shutdowns,
         current # 0 => before \in ShuttingDown, before = "stopped" => status = "stopped",
         CanAttempt,
         JoinsShutdown(before, s)
  PROVE  ShutsDown(before, s)
<1>1. /\ KernelTypes /\ TableTypes /\ ShutdownIsKnown
  BY DEF KernelIndInv
<1>2. CASE current # 0
  <2>1. /\ status' = before /\ shutdown' = s /\ aborted' = aborted /\ attempt' = attempt
        /\ current' = current /\ queue' = queue /\ Attempted = current
    BY <1>2 DEF JoinsShutdown, Attempted
  <2>2. aborted = TRUE /\ current \in Calls
    BY <1>1, <1>2 DEF ShutdownIsKnown, KernelTypes
  <2> QED BY <1>1, <1>2, <2>1, <2>2 DEF ShutsDown, TableTypes
<1>3. CASE current = 0
  <2>1. NextAttempt \in Calls /\ attempt[NextAttempt] = "none"
    BY <1>3 DEF CanAttempt, NextAttempt
  <2> DEFINE n == NextAttempt
  <2>2. /\ shutdown' = Requested(s) /\ current' = n /\ Attempted = n
    BY <1>3 DEF JoinsShutdown, Attempted
  <2> HIDE DEF n
  <2>3. /\ shutdown' \in Shutdowns
        /\ shutdown'.cleanup = "completed" <=> s.cleanup = "completed"
        /\ shutdown'.failed = s.failed /\ shutdown'.runId = s.runId
    <3>1. CASE s = NoShutdown
      <4>1. shutdown' = PendingShutdown
        BY <2>2, <3>1 DEF Requested
      <4> QED BY <3>1, <4>1 DEF Shutdowns, NoShutdown, PendingShutdown
    <3>2. CASE s # NoShutdown
      <4>1. shutdown' = s
        BY <2>2, <3>2 DEF Requested
      <4> QED BY <4>1
    <3> QED BY <3>1, <3>2
  <2>4. CASE before = "stopped"
    <3>1. /\ attempt' = [attempt EXCEPT ![n] = "finalize"]
          /\ status' = before /\ aborted' = aborted /\ queue' = queue
      BY <1>3, <2>4 DEF JoinsShutdown, n
    <3>2. aborted' = TRUE
      BY <1>1, <2>4, <3>1 DEF ShutdownIsKnown, KernelTypes, IsShuttingDown, ShuttingDown
    <3> QED BY <1>1, <2>1, <2>2, <2>3, <2>4, <3>1, <3>2 DEF ShutsDown, TableTypes, AttemptStates, ShuttingDown, n
  <2>5. CASE before # "stopped"
    <3>1. /\ attempt' = [attempt EXCEPT ![n] = "permission"]
          /\ status' = (IF before = "failed" THEN before ELSE "stopping")
          /\ aborted' = TRUE /\ queue' = << >>
      BY <1>3, <2>5 DEF JoinsShutdown, n
    <3> QED BY <1>1, <2>1, <2>2, <2>3, <2>5, <3>1 DEF ShutsDown, TableTypes, AttemptStates, ShuttingDown, n
  <2> QED BY <2>4, <2>5
<1> QED BY <1>1, <1>2, <1>3 DEF KernelTypes

(* A step that begins a shutdown, or joins it: what may change besides.    *)
ShutdownStep(before, s) ==
  /\ ShutsDown(before, s)
  /\ s.cleanup = "completed" <=> Cleaned
  /\ s.failed => /\ s.runId = lastOwnedRunId /\ s.runId \in Runs
                 /\ shutdown.failed \/ finalizing = "none"
  /\ before = "stopped" => status = "stopped"
  /\ cause' \in BOOLEAN /\ (cause => cause')
  /\ \/ loop' = loop
     \/ loop = "polling" /\ loop' = "stopping"
     \/ loop = "threw" /\ loop' = "failing" /\ driving = "none"
  /\ promise' \in [KernelCommands -> PromiseStates]
  /\ \A c \in KernelCommands :
       promise'[c] = promise[c] \/ (promise[c] = "pending" /\ promise'[c] = "rejected")
  /\ stop' \in [pc : StopStates, awaited : Calls \cup {0}, calls : Nat]
  /\ UNCHANGED <<TerminalRest, startup, answer, down, driving, finalizing, closed, emitted, push>>

LEMMA ShutdownStepKeeps ==
  ASSUME KernelIndInv, NEW before, NEW s, ShutdownStep(before, s), StopIsTrue'
  PROVE  KernelIndInv'
<1>0. UNCHANGED <<activeRun, instanceTerminal, lastOwnedRunId, lastRunTerminal, revision,
                 published, startup, answer, down, driving, finalizing, closed, emitted, push>>
  BY DEF ShutdownStep, TerminalRest, historyVars
<1>1. /\ KernelTypes /\ TableTypes /\ RecordTypes /\ Shapes
      /\ ShutdownIsKnown /\ AttemptsAreTrue /\ DrivenIsActive /\ RunTerminalIsKnown /\ EmittedIsAcked
      /\ FailureIsOfTheRun /\ EndIsQuiet /\ StopIsTrue /\ ReportedOutcomeIsPublished
  BY DEF KernelIndInv
<1>2. /\ status' \in ShuttingDown /\ status' \in {before, "stopping"} /\ aborted' = TRUE
      /\ current' \in Calls /\ shutdown' \in Shutdowns
      /\ shutdown'.cleanup = "completed" <=> Cleaned
      /\ shutdown'.failed => /\ shutdown'.runId = lastOwnedRunId /\ shutdown'.runId \in Runs
                             /\ shutdown.failed \/ finalizing = "none"
      /\ before = "stopped" => status = "stopped"
  BY DEF ShutdownStep, ShutsDown
<1>3. /\ attempt' \in [Calls -> AttemptStates] /\ queue' \in {queue, << >>}
      /\ \A k \in Calls : \/ attempt'[k] = attempt[k]
                          \/ attempt[k] = "none" /\ attempt'[k] = "permission"
                          \/ attempt[k] = "none" /\ attempt'[k] = "finalize" /\ before = "stopped"
  BY DEF ShutdownStep, ShutsDown
<1>4. /\ cause' \in BOOLEAN
      /\ \/ loop' = loop
         \/ loop = "polling" /\ loop' = "stopping"
         \/ loop = "threw" /\ loop' = "failing" /\ driving = "none"
      /\ promise' \in [KernelCommands -> PromiseStates]
      /\ \A c \in KernelCommands :
           promise'[c] = promise[c] \/ (promise[c] = "pending" /\ promise'[c] = "rejected")
      /\ stop' \in [pc : StopStates, awaited : Calls \cup {0}, calls : Nat]
  BY DEF ShutdownStep
<1>5. Shapes' /\ RunTerminalIsKnown' /\ EmittedIsAcked' /\ ReportedOutcomeIsPublished'
  BY <1>0, <1>1 DEF Shapes, RunTerminalIsKnown, EmittedIsAcked, ReportedOutcomeIsPublished
<1>6. KernelTypes'
  BY <1>0, <1>1, <1>2, <1>4 DEF KernelTypes, ShuttingDown, DriverStatuses, LoopStates
<1>7. TableTypes'
  <2>1. queue' \in Seq(KernelCommands)
    <3>1. << >> \in Seq(KernelCommands) /\ queue \in Seq(KernelCommands)
      BY <1>1 DEF TableTypes
    <3> QED BY <1>3, <3>1
  <2> QED BY <1>0, <1>1, <1>3, <1>4, <2>1 DEF TableTypes
<1>8. RecordTypes'
  BY <1>0, <1>1, <1>2, <1>4 DEF RecordTypes
<1>9. ShutdownIsKnown'
  BY <1>0, <1>1, <1>2, <1>3, <1>4 DEF ShutdownIsKnown, IsShuttingDown, ShuttingDown
<1>10. AttemptsAreTrue'
  <2>1. Cleaned' <=> Cleaned
    BY <1>2 DEF Cleaned
  <2>2. status' = "stopped" => Cleaned
    BY <1>1, <1>2 DEF AttemptsAreTrue
  <2>3. \A k \in Calls : attempt'[k] \in {"finalize", "ok"} => Cleaned
    BY <1>1, <1>2, <1>3 DEF AttemptsAreTrue
  <2>4. \A k \in Calls : attempt'[k] = "backend" => attempt[k] = "backend"
    BY <1>3
  <2>5. promise'[StopCommand] = "resolved" => promise[StopCommand] = "resolved"
    BY <1>4 DEF KernelCommands
  <2> QED BY <1>0, <1>1, <1>2, <2>1, <2>2, <2>3, <2>4, <2>5 DEF AttemptsAreTrue, IsDown, IsShuttingDown
<1>11. DrivenIsActive'
  BY <1>0, <1>1, <1>4 DEF DrivenIsActive
<1>12. FailureIsOfTheRun'
  BY <1>0, <1>1, <1>2 DEF FailureIsOfTheRun, IsShuttingDown
<1>13. EndIsQuiet'
  BY <1>0, <1>1, <1>2, <1>4 DEF EndIsQuiet, Cleaned
<1> QED BY <1>5, <1>6, <1>7, <1>8, <1>9, <1>10, <1>11, <1>12, <1>13 DEF KernelIndInv

LEMMA StopOutlives ==
  ASSUME KernelIndInv, NEW before, NEW s, ShutdownStep(before, s), stop' = stop,
         stop.pc = "none" => before = "failed" /\ loop' # "stopping",
         cause' => cause \/ loop = "threw" \/ ~IsShuttingDown
  PROVE  StopIsTrue'
<1>1. StopIsTrue /\ AttemptsAreTrue /\ TableTypes
  BY DEF KernelIndInv
<1>2. /\ IsShuttingDown' /\ (before = "failed" => status' = "failed")
      /\ Cleaned' <=> Cleaned
      /\ queue' \in {queue, << >>}
  BY DEF ShutdownStep, ShutsDown, IsShuttingDown, Cleaned, ShuttingDown
<1>3. /\ loop \in {"polling", "threw"} \/ loop' = loop
      /\ promise'[StopCommand] = promise[StopCommand] \/ promise[StopCommand] # "none"
      /\ cause \/ ~cause' \/ loop = "threw" \/ ~IsShuttingDown
  BY DEF ShutdownStep, KernelCommands
<1>4. Cleaned => IsShuttingDown
  BY <1>1 DEF AttemptsAreTrue
<1>5. stop.pc = "none" => NoStopYet'
  <2> SUFFICES ASSUME stop.pc = "none" PROVE NoStopYet'
    OBVIOUS
  <2>1. NoStopYet /\ status' = "failed" /\ loop' # "stopping"
    BY <1>1, <1>2 DEF StopIsTrue
  <2>2. \A i \in 1..Len(queue') : queue'[i] # StopCommand
    <3>1. CASE queue' = queue
      BY <2>1, <3>1 DEF NoStopYet
    <3>2. CASE queue' = << >>
      BY <3>2
    <3> QED BY <1>2, <3>1, <3>2
  <2> QED BY <1>3, <2>1, <2>2 DEF NoStopYet
<1>6. cause => cause'
  BY DEF ShutdownStep
<1> QED BY <1>1, <1>2, <1>3, <1>4, <1>5, <1>6 DEF StopIsTrue

LEMMA PendingIsRejected ==
  ASSUME TableTypes
  PROVE  /\ RejectPending \in [KernelCommands -> PromiseStates]
         /\ \A c \in KernelCommands :
              \/ RejectPending[c] = promise[c] /\ promise[c] # "pending"
              \/ promise[c] = "pending" /\ RejectPending[c] = "rejected"
BY DEF TableTypes, RejectPending, PromiseStates

(* What may be found of the end of the events after a step: they began to  *)
(* close, if they did, with the failure told, and told once.               *)
EventsBegin(cleanup, l) ==
  \/ finalizing' = finalizing /\ instanceTerminal' = instanceTerminal /\ emitted' = emitted
  \/ /\ finalizing' = "closing" /\ cleanup = "completed" /\ l \in {"none", "settled"}
     /\ instanceTerminal'.phase \in {"open", "acked"}
     /\ shutdown.failed => instanceTerminal'.phase = "acked"
     /\ activeRun = NullRun
     /\ emitted' \subseteq [revision : Nat, status : Statuses]
     /\ \A e \in emitted' : e \in emitted \/ e.revision = revision
     /\ \A a, b \in emitted' : a.revision = b.revision => a = b

LEMMA EventsEnd ==
  ASSUME KernelIndInv, NEW cleanup, NEW l, Finalizes(cleanup, l),
         l \in {"none", "settled"} => driving = "none"
  PROVE  EventsBegin(cleanup, l)
<1>1. /\ KernelTypes /\ RecordTypes /\ DrivenIsActive /\ EmittedIsAcked /\ FailureIsOfTheRun
      /\ EndIsQuiet
  BY DEF KernelIndInv
<1>2. CASE ~(MayFinalize(cleanup, l) /\ finalizing = "none")
  BY <1>2 DEF Finalizes, EventsBegin
<1>3. CASE MayFinalize(cleanup, l) /\ finalizing = "none"
  <2>1. /\ finalizing' = "closing" /\ cleanup = "completed" /\ l \in {"none", "settled"}
        /\ activeRun = NullRun /\ instanceTerminal.phase \in {"open", "acked"}
    BY <1>1, <1>3 DEF Finalizes, MayFinalize, DrivenIsActive, EndIsQuiet
  <2>2. CASE ~(PublishesFailure /\ instanceTerminal.phase # "acked")
    <3>1. instanceTerminal' = instanceTerminal /\ emitted' = emitted
      BY <1>3, <2>2 DEF Finalizes
    <3>2. shutdown.failed => instanceTerminal.phase = "acked"
      BY <2>1, <2>2 DEF PublishesFailure
    <3> QED BY <1>1, <2>1, <3>1, <3>2 DEF EventsBegin, RecordTypes, EmittedIsAcked
  <2>3. CASE PublishesFailure /\ instanceTerminal.phase # "acked"
    <3>1. shutdown.failed /\ instanceTerminal.phase = "open"
      BY <2>1, <2>3 DEF PublishesFailure
    <3>2. FailureRun = lastOwnedRunId
      BY <1>1, <3>1, NoRunAssumption DEF FailureRun, TerminalRunId, FailureIsOfTheRun
    <3>3. instanceTerminal'.phase = "acked"
      BY <1>3, <2>3 DEF Finalizes
    <3>4. CASE AcknowledgedRunTerminal(FailureRun) # "null"
      <4>1. emitted' = emitted
        BY <1>3, <2>3, <3>4 DEF Finalizes
      <4> QED BY <1>1, <2>1, <3>3, <4>1 DEF EventsBegin, RecordTypes, EmittedIsAcked
    <3>5. CASE AcknowledgedRunTerminal(FailureRun) = "null"
      <4>1. emitted' = emitted \cup {[revision |-> revision, status |-> "failed"]}
        BY <1>3, <2>3, <3>5 DEF Finalizes
      <4>2. activeRun.terminal.phase # "acked"
        BY <2>1 DEF NullRun, Null
      <4>3. ~(lastRunTerminal.runId = lastOwnedRunId /\ lastRunTerminal.status \in Statuses)
        BY <3>2, <3>5, <4>2 DEF AcknowledgedRunTerminal, Statuses
      <4>4. \A e \in emitted : e.revision # revision
        BY <1>1, <1>3, <2>1, <4>2, <4>3 DEF EmittedIsAcked
      <4>5. emitted' \subseteq [revision : Nat, status : Statuses]
        BY <1>1, <4>1 DEF KernelTypes, RecordTypes, Statuses
      <4>6. \A a, b \in emitted' : a.revision = b.revision => a = b
        BY <1>1, <4>1, <4>4 DEF EmittedIsAcked
      <4> QED BY <2>1, <3>3, <4>1, <4>5, <4>6 DEF EventsBegin
    <3> QED BY <3>4, <3>5
  <2> QED BY <2>2, <2>3
<1> QED BY <1>2, <1>3

LEMMA CleanupCompletes ==
  ASSUME KernelIndInv, CompletesShutdown, IsShuttingDown
  PROVE  /\ status' \in ShuttingDown
         /\ status' = status \/ (status = "stopping" /\ status' = "stopped")
         /\ shutdown' \in Shutdowns /\ shutdown'.cleanup = "completed"
         /\ shutdown'.failed = shutdown.failed /\ shutdown'.runId = shutdown.runId
         /\ EventsBegin("completed", loop)
<1>1. RecordTypes /\ DrivenIsActive
  BY DEF KernelIndInv
<1>2. /\ status' = (IF status = "stopping" THEN "stopped" ELSE status)
      /\ shutdown' = [shutdown EXCEPT !.cleanup = "completed"]
      /\ Finalizes("completed", loop)
  BY DEF CompletesShutdown
<1>3. EventsBegin("completed", loop)
  BY <1>1, <1>2, EventsEnd DEF DrivenIsActive
<1> QED BY <1>1, <1>2, <1>3 DEF RecordTypes, Shutdowns, IsShuttingDown, ShuttingDown

(* A push that goes on keeps its status; one that is answered has none.    *)
PushesGoOn == \A q \in Pushes : \/ push'[q].pc = "answered"
                                \/ /\ push'[q].status = push[q].status
                                   /\ push[q].pc \notin {"idle", "answered"}
                                \/ push'[q] = push[q]

PushShape == push = [p \in Pushes |-> [pc |-> push[p].pc, ticket |-> push[p].ticket,
                                       status |-> push[p].status, id |-> push[p].id]]

LEMMA PushIsAnswered ==
  ASSUME PushShape, NEW p \in Pushes, Settles(p)
  PROVE  PushShape' /\ PushesGoOn
BY DEF PushShape, Settles, Answered, NoPush, PushesGoOn

LEMMA PushAdvances ==
  ASSUME PushShape, NEW p \in Pushes, NEW pc, PushGoes(p, pc), push[p].pc = "barrier"
  PROVE  PushShape' /\ PushesGoOn
BY DEF PushShape, PushGoes, PushesGoOn

LEMMA PushesEnd ==
  ASSUME PushShape, NEW p \in Pushes, PushEnds(p)
  PROVE  PushShape' /\ PushesGoOn
BY DEF PushShape, PushEnds, Answered, NoPush, PushesGoOn


LEMMA PermissionSettlesKeeps ==
  ASSUME KernelIndInv, NEW k \in Calls, PermissionSettles(k)
  PROVE  KernelIndInv'
<1>0. UNCHANGED << activeRun, instanceTerminal, lastOwnedRunId, lastRunTerminal, revision,
                 shutdown, issued, claims, published, status, runGeneration, activeApprovals,
                 lastGeneration, held, aborted, startup, down, custom, starting, cause, current,
                 deferred, queue, promise, loop, driving, finalizing, closed, emitted, push,
                 stop>>
  BY DEF PermissionSettles, terminalVars, machineVars, historyVars, TerminalRest, runtimeVars,
    runVars, contractVars, startVars, attemptVars, loopVars, endVars, AskShutdown
<1>1. /\ KernelTypes /\ TableTypes /\ RecordTypes /\ Shapes
      /\ ShutdownIsKnown /\ AttemptsAreTrue /\ DrivenIsActive /\ RunTerminalIsKnown /\ EmittedIsAcked
      /\ FailureIsOfTheRun /\ EndIsQuiet /\ StopIsTrue /\ ReportedOutcomeIsPublished
  BY DEF KernelIndInv
<1>2. /\ attempt[k] = "permission" /\ attempt' \in [Calls -> AttemptStates]
      /\ \A j \in Calls : attempt'[j] = attempt[j] \/ (j = k /\ attempt'[j] \in {"backend", "refused"})
  BY <1>1 DEF PermissionSettles, TableTypes, AttemptStates
<1>3. /\ answer' \in [Calls -> {"idle", "waiting", "resolved", "rejected"}]
      /\ \A j \in Calls : answer'[j] = answer[j] \/ (j = k /\ answer'[j] = IF down THEN "resolved" ELSE "waiting")
      /\ answer'[k] = "idle" => startup = "none" \/ Cleaned
  BY <1>1 DEF PermissionSettles, AskShutdown, contractVars, TableTypes, Cleaned
<1>4. KernelTypes' /\ RecordTypes' /\ Shapes' /\ DrivenIsActive' /\ RunTerminalIsKnown' /\
      EmittedIsAcked' /\ FailureIsOfTheRun' /\ EndIsQuiet' /\ StopIsTrue' /\
      ReportedOutcomeIsPublished'
  BY <1>0, <1>1 DEF Cleaned, DrivenIsActive, EmittedIsAcked, EndIsQuiet, FailureIsOfTheRun,
    IsShuttingDown, KernelTypes, NoStopYet, RecordTypes, ReportedOutcomeIsPublished,
    RunTerminalIsKnown, Shapes, ShuttingDown, StopIsTrue
<1>5. TableTypes'
  BY <1>0, <1>1, <1>2, <1>3 DEF TableTypes
<1>6. ShutdownIsKnown'
  BY <1>0, <1>1, <1>2, <1>3 DEF ShutdownIsKnown, IsShuttingDown, ShuttingDown
<1>7. AttemptsAreTrue'
  BY <1>0, <1>1, <1>2, <1>3 DEF AttemptsAreTrue, Cleaned, IsDown, IsShuttingDown, ShuttingDown
<1> QED BY <1>4, <1>5, <1>6, <1>7 DEF KernelIndInv

LEMMA AttemptEndsKeeps ==
  ASSUME KernelIndInv, NEW k \in Calls, AttemptEnds(k)
  PROVE  KernelIndInv'
<1>0. UNCHANGED << activeRun, instanceTerminal, lastOwnedRunId, lastRunTerminal, revision,
                 shutdown, issued, claims, published, status, runGeneration, activeApprovals,
                 lastGeneration, held, aborted, startup, answer, down, custom, starting, cause,
                 current, deferred, queue, promise, loop, driving, finalizing, closed, emitted,
                 push, stop>>
  BY DEF AttemptEnds, terminalVars, machineVars, historyVars, TerminalRest, runtimeVars, runVars,
    contractVars, startVars, attemptVars, loopVars, endVars
<1>1. /\ KernelTypes /\ TableTypes /\ RecordTypes /\ Shapes
      /\ ShutdownIsKnown /\ AttemptsAreTrue /\ DrivenIsActive /\ RunTerminalIsKnown /\ EmittedIsAcked
      /\ FailureIsOfTheRun /\ EndIsQuiet /\ StopIsTrue /\ ReportedOutcomeIsPublished
  BY DEF KernelIndInv
<1>2. /\ attempt[k] = "finalize" /\ attempt' \in [Calls -> AttemptStates]
      /\ \A j \in Calls : attempt'[j] = attempt[j] \/ (j = k /\ attempt'[j] = "ok")
  BY <1>1 DEF AttemptEnds, TableTypes, AttemptStates
<1>3. KernelTypes' /\ RecordTypes' /\ Shapes' /\ DrivenIsActive' /\ RunTerminalIsKnown' /\
      EmittedIsAcked' /\ FailureIsOfTheRun' /\ EndIsQuiet' /\ StopIsTrue' /\
      ReportedOutcomeIsPublished'
  BY <1>0, <1>1 DEF Cleaned, DrivenIsActive, EmittedIsAcked, EndIsQuiet, FailureIsOfTheRun,
    IsShuttingDown, KernelTypes, NoStopYet, RecordTypes, ReportedOutcomeIsPublished,
    RunTerminalIsKnown, Shapes, ShuttingDown, StopIsTrue
<1>4. TableTypes'
  BY <1>0, <1>1, <1>2 DEF TableTypes
<1>5. ShutdownIsKnown'
  BY <1>0, <1>1, <1>2 DEF ShutdownIsKnown, IsShuttingDown, ShuttingDown
<1>6. AttemptsAreTrue'
  BY <1>0, <1>1, <1>2 DEF AttemptsAreTrue, Cleaned, IsDown, IsShuttingDown, ShuttingDown
<1> QED BY <1>3, <1>4, <1>5, <1>6 DEF KernelIndInv

LEMMA EventsCloseKeeps ==
  ASSUME KernelIndInv, EventsClose
  PROVE  KernelIndInv'
<1>0. UNCHANGED << activeRun, instanceTerminal, lastOwnedRunId, lastRunTerminal, revision,
                 shutdown, issued, claims, published, status, runGeneration, activeApprovals,
                 lastGeneration, held, aborted, startup, answer, down, custom, starting, cause,
                 attempt, current, deferred, queue, promise, loop, driving, emitted, push, stop>>
  BY DEF EventsClose, terminalVars, machineVars, historyVars, TerminalRest, runtimeVars, runVars,
    contractVars, startVars, attemptVars, loopVars, endVars
<1>1. /\ KernelTypes /\ TableTypes /\ RecordTypes /\ Shapes
      /\ ShutdownIsKnown /\ AttemptsAreTrue /\ DrivenIsActive /\ RunTerminalIsKnown /\ EmittedIsAcked
      /\ FailureIsOfTheRun /\ EndIsQuiet /\ StopIsTrue /\ ReportedOutcomeIsPublished
  BY DEF KernelIndInv
<1>2. finalizing = "closing" /\ finalizing' = "done" /\ closed' = TRUE
  BY DEF EventsClose
<1>3. TableTypes' /\ RecordTypes' /\ Shapes' /\ ShutdownIsKnown' /\ AttemptsAreTrue' /\
      DrivenIsActive' /\ RunTerminalIsKnown' /\ FailureIsOfTheRun' /\ StopIsTrue' /\
      ReportedOutcomeIsPublished'
  BY <1>0, <1>1 DEF AttemptsAreTrue, Cleaned, DrivenIsActive, FailureIsOfTheRun, IsDown,
    IsShuttingDown, NoStopYet, RecordTypes, ReportedOutcomeIsPublished, RunTerminalIsKnown,
    Shapes, ShutdownIsKnown, ShuttingDown, StopIsTrue, TableTypes
<1>4. KernelTypes'
  BY <1>0, <1>1, <1>2 DEF KernelTypes
<1>5. EmittedIsAcked'
  BY <1>0, <1>1, <1>2 DEF EmittedIsAcked
<1>6. EndIsQuiet'
  BY <1>0, <1>1, <1>2 DEF EndIsQuiet, Cleaned
<1> QED BY <1>3, <1>4, <1>5, <1>6 DEF KernelIndInv

LEMMA StartKeeps ==
  ASSUME KernelIndInv, Start
  PROVE  KernelIndInv'
<1>0. UNCHANGED << activeRun, instanceTerminal, lastOwnedRunId, lastRunTerminal, revision,
                 shutdown, issued, claims, published, runGeneration, activeApprovals,
                 lastGeneration, held, aborted, answer, down, custom, cause, attempt, current,
                 deferred, queue, promise, loop, driving, finalizing, closed, emitted, push,
                 stop>>
  BY DEF Start, terminalVars, machineVars, historyVars, TerminalRest, runtimeVars, runVars,
    contractVars, startVars, attemptVars, loopVars, endVars, Enter, AskStart
<1>1. /\ KernelTypes /\ TableTypes /\ RecordTypes /\ Shapes
      /\ ShutdownIsKnown /\ AttemptsAreTrue /\ DrivenIsActive /\ RunTerminalIsKnown /\ EmittedIsAcked
      /\ FailureIsOfTheRun /\ EndIsQuiet /\ StopIsTrue /\ ReportedOutcomeIsPublished
  BY DEF KernelIndInv
<1>2. /\ status = "created" /\ status' = "starting" /\ startup' = "waiting"
      /\ \A k \in Calls : answer[k] = "idle"
  BY DEF Start, Enter, AskStart
<1>3. TableTypes' /\ RecordTypes' /\ Shapes' /\ DrivenIsActive' /\ RunTerminalIsKnown' /\
      EmittedIsAcked' /\ EndIsQuiet' /\ ReportedOutcomeIsPublished'
  BY <1>0, <1>1 DEF Cleaned, DrivenIsActive, EmittedIsAcked, EndIsQuiet, RecordTypes,
    ReportedOutcomeIsPublished, RunTerminalIsKnown, Shapes, TableTypes
<1>4. KernelTypes'
  BY <1>0, <1>1, <1>2 DEF KernelTypes, DriverStatuses
<1>5. ShutdownIsKnown'
  BY <1>0, <1>1, <1>2 DEF ShutdownIsKnown, IsShuttingDown, ShuttingDown
<1>6. AttemptsAreTrue'
  BY <1>0, <1>1, <1>2 DEF AttemptsAreTrue, Cleaned, IsDown, IsShuttingDown, ShuttingDown,
    ShutdownIsKnown
<1>7. FailureIsOfTheRun'
  BY <1>0, <1>1, <1>2 DEF FailureIsOfTheRun, IsShuttingDown, ShuttingDown
<1>8. StopIsTrue'
  BY <1>0, <1>1, <1>2 DEF StopIsTrue, NoStopYet, Cleaned, IsShuttingDown, ShuttingDown
<1> QED BY <1>3, <1>4, <1>5, <1>6, <1>7, <1>8 DEF KernelIndInv

LEMMA StartFailsKeeps ==
  ASSUME KernelIndInv, StartFails
  PROVE  KernelIndInv'
<1>0. UNCHANGED << activeRun, instanceTerminal, lastOwnedRunId, lastRunTerminal, revision,
                 shutdown, issued, claims, published, status, runGeneration, activeApprovals,
                 lastGeneration, held, aborted, startup, answer, down, custom, cause, attempt,
                 current, deferred, queue, promise, loop, driving, finalizing, closed, emitted,
                 push, stop>>
  BY DEF StartFails, terminalVars, machineVars, historyVars, TerminalRest, runtimeVars, runVars,
    contractVars, startVars, attemptVars, loopVars, endVars
<1>1. /\ KernelTypes /\ TableTypes /\ RecordTypes /\ Shapes
      /\ ShutdownIsKnown /\ AttemptsAreTrue /\ DrivenIsActive /\ RunTerminalIsKnown /\ EmittedIsAcked
      /\ FailureIsOfTheRun /\ EndIsQuiet /\ StopIsTrue /\ ReportedOutcomeIsPublished
  BY DEF KernelIndInv
<1>2. KernelTypes' /\ TableTypes' /\ RecordTypes' /\ Shapes' /\ ShutdownIsKnown' /\
      AttemptsAreTrue' /\ DrivenIsActive' /\ RunTerminalIsKnown' /\ EmittedIsAcked' /\
      FailureIsOfTheRun' /\ EndIsQuiet' /\ StopIsTrue' /\ ReportedOutcomeIsPublished'
  BY <1>0, <1>1 DEF AttemptsAreTrue, Cleaned, DrivenIsActive, EmittedIsAcked, EndIsQuiet,
    FailureIsOfTheRun, IsDown, IsShuttingDown, KernelTypes, NoStopYet, RecordTypes,
    ReportedOutcomeIsPublished, RunTerminalIsKnown, Shapes, ShutdownIsKnown, ShuttingDown,
    StopIsTrue, TableTypes
<1> QED BY <1>2 DEF KernelIndInv

LEMMA DispatchKeeps ==
  ASSUME KernelIndInv, NEW c \in Inputs, Dispatch(c)
  PROVE  KernelIndInv'
<1>0. UNCHANGED << activeRun, instanceTerminal, lastOwnedRunId, lastRunTerminal, revision,
                 shutdown, issued, claims, published, status, runGeneration, activeApprovals,
                 lastGeneration, held, aborted, startup, answer, down, custom, starting, cause,
                 attempt, current, deferred, loop, driving, finalizing, closed, emitted, push,
                 stop>>
  BY DEF Dispatch, terminalVars, machineVars, historyVars, TerminalRest, runtimeVars, runVars,
    contractVars, startVars, attemptVars, loopVars, endVars, Registers
<1>1. /\ KernelTypes /\ TableTypes /\ RecordTypes /\ Shapes
      /\ ShutdownIsKnown /\ AttemptsAreTrue /\ DrivenIsActive /\ RunTerminalIsKnown /\ EmittedIsAcked
      /\ FailureIsOfTheRun /\ EndIsQuiet /\ StopIsTrue /\ ReportedOutcomeIsPublished
  BY DEF KernelIndInv
<1>2. /\ status \notin {"created", "starting"} /\ ~IsShuttingDown
      /\ queue' = Append(queue, c) /\ promise' = [promise EXCEPT ![c] = "pending"]
      /\ c \in KernelCommands /\ c # StopCommand
  BY KernelAssumption DEF Dispatch, Registers, Accepts, KernelCommands
<1>3. /\ queue' \in Seq(KernelCommands)
      /\ (\A i \in 1..Len(queue) : queue[i] # StopCommand)
           => \A i \in 1..Len(queue') : queue'[i] # StopCommand
  BY <1>1, <1>2 DEF TableTypes
<1>4. /\ promise' \in [KernelCommands -> PromiseStates]
      /\ promise'[StopCommand] = promise[StopCommand]
  BY <1>1, <1>2 DEF TableTypes, PromiseStates, KernelCommands
<1>5. KernelTypes' /\ RecordTypes' /\ Shapes' /\ ShutdownIsKnown' /\ DrivenIsActive' /\
      RunTerminalIsKnown' /\ EmittedIsAcked' /\ FailureIsOfTheRun' /\ ReportedOutcomeIsPublished'
  BY <1>0, <1>1 DEF DrivenIsActive, EmittedIsAcked, FailureIsOfTheRun, IsShuttingDown,
    KernelTypes, RecordTypes, ReportedOutcomeIsPublished, RunTerminalIsKnown, Shapes,
    ShutdownIsKnown, ShuttingDown
<1>6. TableTypes'
  BY <1>0, <1>1, <1>2, <1>3, <1>4 DEF TableTypes
<1>7. AttemptsAreTrue'
  BY <1>0, <1>1, <1>2, <1>3, <1>4 DEF AttemptsAreTrue, Cleaned, IsDown, IsShuttingDown, ShuttingDown
<1>8. EndIsQuiet'
  BY <1>0, <1>1, <1>2, <1>3, <1>4 DEF EndIsQuiet, Cleaned, ShutdownIsKnown, IsShuttingDown,
    ShuttingDown
<1>9. StopIsTrue'
  BY <1>0, <1>1, <1>2, <1>3, <1>4 DEF StopIsTrue, NoStopYet, Cleaned, IsShuttingDown, ShuttingDown
<1> QED BY <1>5, <1>6, <1>7, <1>8, <1>9 DEF KernelIndInv

LEMMA StopHandledKeeps ==
  ASSUME KernelIndInv, StopHandled
  PROVE  KernelIndInv'
<1>0. UNCHANGED << activeRun, instanceTerminal, lastOwnedRunId, lastRunTerminal, revision,
                 shutdown, issued, claims, published, status, runGeneration, activeApprovals,
                 lastGeneration, held, aborted, startup, answer, down, custom, starting, cause,
                 attempt, current, deferred, queue, driving, finalizing, closed, emitted, push,
                 stop>>
  BY DEF StopHandled, terminalVars, machineVars, historyVars, TerminalRest, runtimeVars, runVars,
    contractVars, startVars, attemptVars, loopVars, endVars
<1>1. /\ KernelTypes /\ TableTypes /\ RecordTypes /\ Shapes
      /\ ShutdownIsKnown /\ AttemptsAreTrue /\ DrivenIsActive /\ RunTerminalIsKnown /\ EmittedIsAcked
      /\ FailureIsOfTheRun /\ EndIsQuiet /\ StopIsTrue /\ ReportedOutcomeIsPublished
  BY DEF KernelIndInv
<1>2. /\ loop = "stopping" /\ driving = "none" /\ loop' \in {"ended", "threw"}
      /\ \E v \in {"resolved", "rejected"} :
           /\ promise' = [promise EXCEPT ![StopCommand] = IF @ = "pending" THEN v ELSE @]
           /\ v = "resolved" => current \in Calls /\ attempt[current] = "ok"
  BY <1>1 DEF StopHandled, Settled, KernelTypes
<1>3. /\ promise' \in [KernelCommands -> PromiseStates]
      /\ promise'[StopCommand] = "resolved" => promise[StopCommand] = "resolved" \/ Cleaned
  BY <1>1, <1>2 DEF TableTypes, PromiseStates, AttemptsAreTrue, KernelCommands
<1>4. RecordTypes' /\ Shapes' /\ RunTerminalIsKnown' /\ EmittedIsAcked' /\
      ReportedOutcomeIsPublished'
  BY <1>0, <1>1 DEF EmittedIsAcked, RecordTypes, ReportedOutcomeIsPublished, RunTerminalIsKnown,
    Shapes
<1>5. KernelTypes'
  BY <1>0, <1>1, <1>2, <1>3 DEF KernelTypes, LoopStates
<1>6. TableTypes'
  BY <1>0, <1>1, <1>2, <1>3 DEF TableTypes
<1>7. ShutdownIsKnown'
  BY <1>0, <1>1, <1>2, <1>3 DEF ShutdownIsKnown, IsShuttingDown, ShuttingDown
<1>8. AttemptsAreTrue'
  BY <1>0, <1>1, <1>2, <1>3 DEF AttemptsAreTrue, Cleaned, IsDown, IsShuttingDown, ShuttingDown
<1>9. DrivenIsActive'
  BY <1>0, <1>1, <1>2, <1>3 DEF DrivenIsActive
<1>10. FailureIsOfTheRun'
  BY <1>0, <1>1, <1>2, <1>3 DEF FailureIsOfTheRun, IsShuttingDown, ShuttingDown
<1>11. EndIsQuiet'
  BY <1>0, <1>1, <1>2, <1>3 DEF EndIsQuiet, Cleaned
<1>12. StopIsTrue'
  BY <1>0, <1>1, <1>2, <1>3 DEF StopIsTrue, NoStopYet, Cleaned, IsShuttingDown, ShuttingDown
<1> QED BY <1>4, <1>5, <1>6, <1>7, <1>8, <1>9, <1>10, <1>11, <1>12 DEF KernelIndInv

LEMMA LoopEndsKeeps ==
  ASSUME KernelIndInv, LoopEnds
  PROVE  KernelIndInv'
<1>0. UNCHANGED << activeRun, instanceTerminal, lastOwnedRunId, lastRunTerminal, revision,
                 shutdown, issued, claims, published, status, runGeneration, activeApprovals,
                 lastGeneration, held, aborted, startup, answer, down, custom, starting, cause,
                 attempt, current, deferred, queue, promise, driving, finalizing, closed, emitted,
                 push, stop>>
  BY DEF LoopEnds, terminalVars, machineVars, historyVars, TerminalRest, runtimeVars, runVars,
    contractVars, startVars, attemptVars, loopVars, endVars
<1>1. /\ KernelTypes /\ TableTypes /\ RecordTypes /\ Shapes
      /\ ShutdownIsKnown /\ AttemptsAreTrue /\ DrivenIsActive /\ RunTerminalIsKnown /\ EmittedIsAcked
      /\ FailureIsOfTheRun /\ EndIsQuiet /\ StopIsTrue /\ ReportedOutcomeIsPublished
  BY DEF KernelIndInv
<1>2. /\ loop = "polling" /\ loop' \in {"ended", "threw"}
      /\ loop' = "ended" => IsShuttingDown
  BY DEF LoopEnds
<1>3. TableTypes' /\ RecordTypes' /\ Shapes' /\ AttemptsAreTrue' /\ RunTerminalIsKnown' /\
      EmittedIsAcked' /\ ReportedOutcomeIsPublished'
  BY <1>0, <1>1 DEF AttemptsAreTrue, Cleaned, EmittedIsAcked, IsDown, IsShuttingDown, RecordTypes,
    ReportedOutcomeIsPublished, RunTerminalIsKnown, Shapes, ShuttingDown, TableTypes
<1>4. KernelTypes'
  BY <1>0, <1>1, <1>2 DEF KernelTypes, LoopStates
<1>5. ShutdownIsKnown'
  BY <1>0, <1>1, <1>2 DEF ShutdownIsKnown, IsShuttingDown, ShuttingDown
<1>6. DrivenIsActive'
  BY <1>0, <1>1, <1>2 DEF DrivenIsActive
<1>7. FailureIsOfTheRun'
  BY <1>0, <1>1, <1>2 DEF FailureIsOfTheRun, IsShuttingDown, ShuttingDown
<1>8. EndIsQuiet'
  BY <1>0, <1>1, <1>2 DEF EndIsQuiet, Cleaned
<1>9. StopIsTrue'
  BY <1>0, <1>1, <1>2 DEF StopIsTrue, NoStopYet, Cleaned, IsShuttingDown, ShuttingDown
<1> QED BY <1>3, <1>4, <1>5, <1>6, <1>7, <1>8, <1>9 DEF KernelIndInv

LEMMA LifecycleStepsKeeps ==
  ASSUME KernelIndInv, LifecycleSteps
  PROVE  KernelIndInv'
<1>0. UNCHANGED << activeRun, instanceTerminal, lastOwnedRunId, lastRunTerminal, revision,
                 shutdown, issued, claims, published, status, runGeneration, activeApprovals,
                 lastGeneration, held, aborted, down, custom, starting, cause, attempt, current,
                 deferred, queue, promise, loop, driving, finalizing, closed, emitted, push,
                 stop>>
  BY DEF LifecycleSteps, terminalVars, machineVars, historyVars, TerminalRest, runtimeVars,
    runVars, contractVars, startVars, attemptVars, loopVars, endVars, AnswerStart, AnswerShutdown,
    kernelVars
<1>1. /\ KernelTypes /\ TableTypes /\ RecordTypes /\ Shapes
      /\ ShutdownIsKnown /\ AttemptsAreTrue /\ DrivenIsActive /\ RunTerminalIsKnown /\ EmittedIsAcked
      /\ FailureIsOfTheRun /\ EndIsQuiet /\ StopIsTrue /\ ReportedOutcomeIsPublished
  BY DEF KernelIndInv
<1>2. /\ startup' = startup \/ (startup = "waiting" /\ startup' \in {"resolved", "rejected"})
      /\ answer' \in [Calls -> {"idle", "waiting", "resolved", "rejected"}]
      /\ \A k \in Calls : \/ answer'[k] = answer[k]
                          \/ /\ answer[k] = "waiting" /\ answer'[k] \in {"resolved", "rejected"}
                             /\ answer'[k] = "resolved" => down
  BY <1>1 DEF LifecycleSteps, AnswerStart, AnswerShutdown, TableTypes
<1>3. RecordTypes' /\ Shapes' /\ DrivenIsActive' /\ RunTerminalIsKnown' /\ EmittedIsAcked' /\
      FailureIsOfTheRun' /\ EndIsQuiet' /\ StopIsTrue' /\ ReportedOutcomeIsPublished'
  BY <1>0, <1>1 DEF Cleaned, DrivenIsActive, EmittedIsAcked, EndIsQuiet, FailureIsOfTheRun,
    IsShuttingDown, NoStopYet, RecordTypes, ReportedOutcomeIsPublished, RunTerminalIsKnown,
    Shapes, ShuttingDown, StopIsTrue
<1>4. KernelTypes'
  BY <1>0, <1>1, <1>2 DEF KernelTypes
<1>5. TableTypes'
  BY <1>0, <1>1, <1>2 DEF TableTypes
<1>6. ShutdownIsKnown'
  BY <1>0, <1>1, <1>2 DEF ShutdownIsKnown, IsShuttingDown, ShuttingDown
<1>7. AttemptsAreTrue'
  BY <1>0, <1>1, <1>2 DEF AttemptsAreTrue, Cleaned, IsDown, IsShuttingDown, ShuttingDown
<1> QED BY <1>3, <1>4, <1>5, <1>6, <1>7 DEF KernelIndInv

LEMMA BackendGoesDownKeeps ==
  ASSUME KernelIndInv, BackendGoesDown
  PROVE  KernelIndInv'
<1>0. UNCHANGED << activeRun, instanceTerminal, lastOwnedRunId, lastRunTerminal, revision,
                 shutdown, issued, claims, published, status, runGeneration, activeApprovals,
                 lastGeneration, held, aborted, startup, answer, custom, starting, cause, attempt,
                 current, deferred, queue, promise, loop, driving, finalizing, closed, emitted,
                 push, stop>>
  BY DEF BackendGoesDown, terminalVars, machineVars, historyVars, TerminalRest, runtimeVars,
    runVars, contractVars, startVars, attemptVars, loopVars, endVars, GoesDown, kernelVars
<1>1. /\ KernelTypes /\ TableTypes /\ RecordTypes /\ Shapes
      /\ ShutdownIsKnown /\ AttemptsAreTrue /\ DrivenIsActive /\ RunTerminalIsKnown /\ EmittedIsAcked
      /\ FailureIsOfTheRun /\ EndIsQuiet /\ StopIsTrue /\ ReportedOutcomeIsPublished
  BY DEF KernelIndInv
<1>2. down' = TRUE
  BY DEF BackendGoesDown, GoesDown
<1>3. TableTypes' /\ RecordTypes' /\ Shapes' /\ ShutdownIsKnown' /\ DrivenIsActive' /\
      RunTerminalIsKnown' /\ EmittedIsAcked' /\ FailureIsOfTheRun' /\ EndIsQuiet' /\ StopIsTrue'
      /\ ReportedOutcomeIsPublished'
  BY <1>0, <1>1 DEF Cleaned, DrivenIsActive, EmittedIsAcked, EndIsQuiet, FailureIsOfTheRun,
    IsShuttingDown, NoStopYet, RecordTypes, ReportedOutcomeIsPublished, RunTerminalIsKnown,
    Shapes, ShutdownIsKnown, ShuttingDown, StopIsTrue, TableTypes
<1>4. KernelTypes'
  BY <1>0, <1>1, <1>2 DEF KernelTypes
<1>5. AttemptsAreTrue'
  BY <1>0, <1>1, <1>2 DEF AttemptsAreTrue, Cleaned, IsDown, IsShuttingDown, ShuttingDown
<1> QED BY <1>3, <1>4, <1>5 DEF KernelIndInv

LEMMA DeferredStopCompletesKeeps ==
  ASSUME KernelIndInv, DeferredStopCompletes
  PROVE  KernelIndInv'
<1>0. UNCHANGED << activeRun, lastOwnedRunId, lastRunTerminal, revision, issued, claims,
                 published, runGeneration, activeApprovals, lastGeneration, held, aborted,
                 startup, answer, down, custom, starting, cause, attempt, current, queue, promise,
                 loop, driving, closed, push, stop>>
  BY DEF DeferredStopCompletes, terminalVars, machineVars, historyVars, TerminalRest, runtimeVars,
    runVars, contractVars, startVars, attemptVars, loopVars, endVars, CompletesShutdown
<1>1. /\ KernelTypes /\ TableTypes /\ RecordTypes /\ Shapes
      /\ ShutdownIsKnown /\ AttemptsAreTrue /\ DrivenIsActive /\ RunTerminalIsKnown /\ EmittedIsAcked
      /\ FailureIsOfTheRun /\ EndIsQuiet /\ StopIsTrue /\ ReportedOutcomeIsPublished
  BY DEF KernelIndInv
<1>2. down /\ IsShuttingDown
  BY <1>1 DEF DeferredStopCompletes, ShutdownIsKnown
<1>3. /\ status' \in ShuttingDown
      /\ status' = status \/ (status = "stopping" /\ status' = "stopped")
      /\ shutdown' \in Shutdowns /\ shutdown'.cleanup = "completed"
      /\ shutdown'.failed = shutdown.failed /\ shutdown'.runId = shutdown.runId
  BY <1>2, CleanupCompletes DEF DeferredStopCompletes
<1>4. EventsBegin("completed", loop)
  BY <1>2, CleanupCompletes DEF DeferredStopCompletes
<1>5. TableTypes' /\ Shapes' /\ DrivenIsActive' /\ RunTerminalIsKnown' /\
      ReportedOutcomeIsPublished'
  BY <1>0, <1>1 DEF DrivenIsActive, ReportedOutcomeIsPublished, RunTerminalIsKnown, Shapes,
    TableTypes
<1>6. KernelTypes'
  BY <1>0, <1>1, <1>2, <1>3, <1>4 DEF KernelTypes, DriverStatuses, ShuttingDown, EventsBegin
<1>7. RecordTypes'
  BY <1>0, <1>1, <1>2, <1>3, <1>4 DEF RecordTypes, EventsBegin
<1>8. ShutdownIsKnown'
  BY <1>0, <1>1, <1>2, <1>3, <1>4 DEF ShutdownIsKnown, IsShuttingDown, ShuttingDown
<1>9. AttemptsAreTrue'
  BY <1>0, <1>1, <1>2, <1>3, <1>4 DEF AttemptsAreTrue, Cleaned, IsDown, IsShuttingDown, ShuttingDown
<1>10. EmittedIsAcked'
  BY <1>0, <1>1, <1>2, <1>3, <1>4 DEF EmittedIsAcked, EventsBegin, DrivenIsActive
<1>11. FailureIsOfTheRun'
  BY <1>0, <1>1, <1>2, <1>3, <1>4 DEF FailureIsOfTheRun, IsShuttingDown, ShuttingDown
<1>12. EndIsQuiet'
  BY <1>0, <1>1, <1>2, <1>3, <1>4 DEF EndIsQuiet, Cleaned, EventsBegin
<1>13. StopIsTrue'
  BY <1>0, <1>1, <1>2, <1>3, <1>4 DEF StopIsTrue, NoStopYet, Cleaned, IsShuttingDown, ShuttingDown
<1> QED BY <1>5, <1>6, <1>7, <1>8, <1>9, <1>10, <1>11, <1>12, <1>13 DEF KernelIndInv

LEMMA LoopSettlesKeeps ==
  ASSUME KernelIndInv, LoopSettles
  PROVE  KernelIndInv'
<1>0. UNCHANGED << activeRun, lastOwnedRunId, lastRunTerminal, revision, shutdown, issued, claims,
                 published, status, runGeneration, activeApprovals, lastGeneration, held, aborted,
                 startup, answer, down, custom, starting, cause, attempt, current, deferred,
                 queue, driving, closed, push, stop>>
  BY DEF LoopSettles, terminalVars, machineVars, historyVars, TerminalRest, runtimeVars, runVars,
    contractVars, startVars, attemptVars, loopVars, endVars
<1>1. /\ KernelTypes /\ TableTypes /\ RecordTypes /\ Shapes
      /\ ShutdownIsKnown /\ AttemptsAreTrue /\ DrivenIsActive /\ RunTerminalIsKnown /\ EmittedIsAcked
      /\ FailureIsOfTheRun /\ EndIsQuiet /\ StopIsTrue /\ ReportedOutcomeIsPublished
  BY DEF KernelIndInv
<1>2. /\ driving = "none" /\ loop \in {"ended", "failing"} /\ loop' = "settled"
      /\ promise' = RejectPending /\ Finalizes(shutdown.cleanup, "settled")
  BY DEF LoopSettles, AtLoopEnd
<1>3. EventsBegin(shutdown.cleanup, "settled")
  BY <1>2, EventsEnd
<1>4. /\ RejectPending \in [KernelCommands -> PromiseStates]
      /\ \A c \in KernelCommands : RejectPending[c] # "pending"
      /\ RejectPending[StopCommand] = promise[StopCommand] \/ RejectPending[StopCommand] = "rejected"
      /\ promise[StopCommand] = "none" => RejectPending[StopCommand] = "none"
  BY <1>1, PendingIsRejected DEF KernelCommands
<1>5. Shapes' /\ RunTerminalIsKnown' /\ ReportedOutcomeIsPublished'
  BY <1>0, <1>1 DEF ReportedOutcomeIsPublished, RunTerminalIsKnown, Shapes
<1>6. KernelTypes'
  BY <1>0, <1>1, <1>2, <1>3, <1>4 DEF KernelTypes, LoopStates, EventsBegin
<1>7. TableTypes'
  BY <1>0, <1>1, <1>2, <1>3, <1>4 DEF TableTypes
<1>8. RecordTypes'
  BY <1>0, <1>1, <1>2, <1>3, <1>4 DEF RecordTypes, EventsBegin
<1>9. ShutdownIsKnown'
  BY <1>0, <1>1, <1>2, <1>3, <1>4 DEF ShutdownIsKnown, IsShuttingDown, ShuttingDown
<1>10. AttemptsAreTrue'
  BY <1>0, <1>1, <1>2, <1>3, <1>4 DEF AttemptsAreTrue, Cleaned, IsDown, IsShuttingDown, ShuttingDown
<1>11. DrivenIsActive'
  BY <1>0, <1>1, <1>2, <1>3, <1>4 DEF DrivenIsActive
<1>12. EmittedIsAcked'
  BY <1>0, <1>1, <1>2, <1>3, <1>4 DEF EmittedIsAcked, EventsBegin
<1>13. FailureIsOfTheRun'
  BY <1>0, <1>1, <1>2, <1>3, <1>4 DEF FailureIsOfTheRun, IsShuttingDown, ShuttingDown
<1>14. EndIsQuiet'
  BY <1>0, <1>1, <1>2, <1>3, <1>4 DEF EndIsQuiet, Cleaned, EventsBegin
<1>15. StopIsTrue'
  BY <1>0, <1>1, <1>2, <1>3, <1>4 DEF StopIsTrue, NoStopYet, Cleaned, IsShuttingDown, ShuttingDown
<1> QED BY <1>5, <1>6, <1>7, <1>8, <1>9, <1>10, <1>11, <1>12, <1>13, <1>14, <1>15 DEF KernelIndInv

LEMMA BackendSettlesKeeps ==
  ASSUME KernelIndInv, NEW k \in Calls, BackendSettles(k)
  PROVE  KernelIndInv'
<1>0. UNCHANGED << activeRun, lastOwnedRunId, lastRunTerminal, revision, issued, claims,
                 published, runGeneration, activeApprovals, lastGeneration, held, aborted,
                 startup, answer, down, custom, starting, cause, deferred, queue, promise, loop,
                 driving, closed, push, stop>>
  BY DEF BackendSettles, terminalVars, machineVars, historyVars, TerminalRest, runtimeVars,
    runVars, contractVars, startVars, attemptVars, loopVars, endVars, CompletesShutdown
<1>1. /\ KernelTypes /\ TableTypes /\ RecordTypes /\ Shapes
      /\ ShutdownIsKnown /\ AttemptsAreTrue /\ DrivenIsActive /\ RunTerminalIsKnown /\ EmittedIsAcked
      /\ FailureIsOfTheRun /\ EndIsQuiet /\ StopIsTrue /\ ReportedOutcomeIsPublished
  BY DEF KernelIndInv
<1>2. /\ attempt[k] \in {"backend", "refused"} /\ answer[k] # "waiting" /\ IsShuttingDown
  BY <1>1 DEF BackendSettles, ShutdownIsKnown
<1>3. /\ status' \in ShuttingDown
      /\ status = "failed" => status' = "failed"
      /\ attempt' \in [Calls -> AttemptStates]
      /\ \A j \in Calls : attempt'[j] = attempt[j] \/ (j = k /\ attempt'[j] \in {"finalize", "failed"})
      /\ current' \in {current, 0} /\ EventsBegin("completed", loop)
      /\ shutdown' \in Shutdowns /\ shutdown'.failed = shutdown.failed
      /\ shutdown'.runId = shutdown.runId /\ (Cleaned => Cleaned') /\ (Cleaned' => IsDown)
      /\ attempt'[k] = "finalize" \/ status' = "stopped" => Cleaned'
      /\ finalizing' # finalizing => Cleaned'
  <2>1. CASE Succeeds(k)
    <3>1. /\ CompletesShutdown /\ current' = current
          /\ attempt' = [attempt EXCEPT ![k] = "finalize"]
      BY <2>1 DEF BackendSettles
    <3>2. IsDown
      BY <1>1, <1>2, <2>1 DEF Succeeds, AttemptsAreTrue, IsDown, TableTypes
    <3>3. /\ status' \in ShuttingDown
          /\ status' = status \/ (status = "stopping" /\ status' = "stopped")
          /\ shutdown' \in Shutdowns /\ shutdown'.cleanup = "completed"
          /\ shutdown'.failed = shutdown.failed /\ shutdown'.runId = shutdown.runId
          /\ EventsBegin("completed", loop)
      BY <1>2, <3>1, CleanupCompletes
    <3> QED BY <1>1, <3>1, <3>2, <3>3 DEF TableTypes, AttemptStates, Cleaned
  <2>2. CASE ~Succeeds(k)
    <3>1. /\ attempt' = [attempt EXCEPT ![k] = "failed"] /\ current' = 0
          /\ status' = (IF status = "stopping" THEN "failed" ELSE status)
          /\ shutdown' = shutdown /\ instanceTerminal' = instanceTerminal
          /\ finalizing' = finalizing /\ emitted' = emitted
      BY <2>2 DEF BackendSettles, terminalVars, machineVars
    <3>2. EventsBegin("completed", loop)
      BY <3>1 DEF EventsBegin
    <3>3. attempt' \in [Calls -> AttemptStates]
      BY <1>1, <3>1 DEF TableTypes, AttemptStates
    <3> QED BY <1>1, <1>2, <3>1, <3>2, <3>3 DEF TableTypes, RecordTypes, Cleaned, AttemptsAreTrue, IsShuttingDown, ShuttingDown
  <2> QED BY <2>1, <2>2
<1>4. Shapes' /\ DrivenIsActive' /\ RunTerminalIsKnown' /\ ReportedOutcomeIsPublished'
  BY <1>0, <1>1 DEF DrivenIsActive, ReportedOutcomeIsPublished, RunTerminalIsKnown, Shapes
<1>5. KernelTypes'
  BY <1>0, <1>1, <1>2, <1>3 DEF KernelTypes, DriverStatuses, ShuttingDown, EventsBegin
<1>6. TableTypes'
  BY <1>0, <1>1, <1>2, <1>3 DEF TableTypes
<1>7. RecordTypes'
  BY <1>0, <1>1, <1>2, <1>3 DEF RecordTypes, EventsBegin
<1>8. ShutdownIsKnown'
  BY <1>0, <1>1, <1>2, <1>3 DEF ShutdownIsKnown, IsShuttingDown, ShuttingDown
<1>9. AttemptsAreTrue'
  BY <1>0, <1>1, <1>2, <1>3 DEF AttemptsAreTrue, Cleaned, IsDown, IsShuttingDown, ShuttingDown
<1>10. EmittedIsAcked'
  BY <1>0, <1>1, <1>2, <1>3 DEF EmittedIsAcked, EventsBegin
<1>11. FailureIsOfTheRun'
  BY <1>0, <1>1, <1>2, <1>3 DEF FailureIsOfTheRun, IsShuttingDown, ShuttingDown
<1>12. EndIsQuiet'
  BY <1>0, <1>1, <1>2, <1>3 DEF EndIsQuiet, Cleaned, EventsBegin
<1>13. StopIsTrue'
  BY <1>0, <1>1, <1>2, <1>3 DEF StopIsTrue, NoStopYet, Cleaned, IsShuttingDown, ShuttingDown
<1> QED BY <1>4, <1>5, <1>6, <1>7, <1>8, <1>9, <1>10, <1>11, <1>12, <1>13 DEF KernelIndInv

LEMMA TakesInputKeeps ==
  ASSUME KernelIndInv, TakesInput
  PROVE  KernelIndInv'
<1>0. UNCHANGED << instanceTerminal, shutdown, claims, published, status, runGeneration,
                 activeApprovals, lastGeneration, held, aborted, startup, answer, down, custom,
                 starting, cause, attempt, current, deferred, loop, finalizing, closed, emitted,
                 push, stop>>
  BY DEF TakesInput, terminalVars, machineVars, historyVars, TerminalRest, runtimeVars, runVars,
    contractVars, startVars, attemptVars, loopVars, endVars, BeginRun
<1>1. /\ KernelTypes /\ TableTypes /\ RecordTypes /\ Shapes
      /\ ShutdownIsKnown /\ AttemptsAreTrue /\ DrivenIsActive /\ RunTerminalIsKnown /\ EmittedIsAcked
      /\ FailureIsOfTheRun /\ EndIsQuiet /\ StopIsTrue /\ ReportedOutcomeIsPublished
  BY DEF KernelIndInv
<1>2. /\ loop = "polling" /\ ~IsShuttingDown /\ queue # << >> /\ Head(queue) # StopCommand
      /\ queue' = Tail(queue)
  BY DEF TakesInput
<1>3. /\ Head(queue) \in Inputs /\ queue' \in Seq(KernelCommands)
      /\ (\A i \in 1..Len(queue) : queue[i] # StopCommand)
           => \A i \in 1..Len(queue') : queue'[i] # StopCommand
  BY <1>1, <1>2 DEF TableTypes, KernelCommands
<1>4. /\ promise' = promise \/ promise' = Settled(Head(queue), "rejected")
      /\ \/ UNCHANGED <<driving, activeRun, lastOwnedRunId, lastRunTerminal, revision>>
         \/ \E run \in Runs : driving' = Head(queue) /\ BeginRun(run)
  BY DEF TakesInput, terminalVars, machineVars
<1>5. /\ promise' \in [KernelCommands -> PromiseStates]
      /\ promise'[StopCommand] = promise[StopCommand]
  BY <1>1, <1>2, <1>3, <1>4 DEF TableTypes, Settled, PromiseStates, KernelCommands
<1>6. finalizing = "none"
  BY <1>1, <1>2 DEF EndIsQuiet
<1>7. /\ EmittedIsAcked' /\ ReportedOutcomeIsPublished' /\ DrivenIsActive'
      /\ Shapes' /\ RunTerminalIsKnown' /\ revision' \in Nat
  <2>1. CASE UNCHANGED <<driving, activeRun, lastOwnedRunId, lastRunTerminal, revision>>
    BY <1>0, <1>1, <2>1 DEF EmittedIsAcked, ReportedOutcomeIsPublished, DrivenIsActive, Shapes,
      RunTerminalIsKnown, KernelTypes
  <2>2. CASE \E run \in Runs : driving' = Head(queue) /\ BeginRun(run)
    <3>1. PICK run \in Runs : driving' = Head(queue) /\ BeginRun(run)
      BY <2>2
    <3>2. /\ activeRun' = [runId |-> run, revision |-> revision + 1,
                           claim |-> "unclaimed", terminal |-> Null]
          /\ activeRun = NullRun /\ revision' = revision + 1 /\ lastOwnedRunId' = run
          /\ lastRunTerminal' = NoStatus /\ published' = published
      BY <3>1 DEF BeginRun
    <3>3. activeRun' # NullRun /\ activeRun'.terminal = Null
      BY <3>2, NoRunAssumption DEF NullRun
    <3>4. \A e \in emitted : e.revision \in Nat /\ e.revision <= revision
      BY <1>1 DEF RecordTypes, EmittedIsAcked
    <3>5. EmittedIsAcked'
      <4>1. \A e \in emitted : e.revision <= revision + 1 /\ e.revision # revision + 1
        BY <1>1, <3>4 DEF KernelTypes
      <4> QED BY <1>0, <1>1, <3>2, <4>1 DEF EmittedIsAcked
    <3>6. ReportedOutcomeIsPublished'
      BY <3>2, <3>3 DEF ReportedOutcomeIsPublished, Null
    <3>7. DrivenIsActive'
      BY <1>0, <1>2, <1>3, <3>1, <3>2, <3>3, KernelAssumption DEF DrivenIsActive
    <3>8. Shapes' /\ RunTerminalIsKnown' /\ revision' \in Nat
      BY <1>0, <1>1, <3>2, <3>3 DEF Shapes, RunTerminalIsKnown, KernelTypes
    <3> QED BY <3>5, <3>6, <3>7, <3>8
  <2> QED BY <1>4, <2>1, <2>2
<1>8. RecordTypes' /\ ShutdownIsKnown'
  BY <1>0, <1>1 DEF IsShuttingDown, RecordTypes, ShutdownIsKnown, ShuttingDown
<1>9. KernelTypes'
  BY <1>0, <1>1, <1>2, <1>3, <1>4, <1>5, <1>6, <1>7 DEF KernelTypes
<1>10. TableTypes'
  BY <1>0, <1>1, <1>2, <1>3, <1>4, <1>5, <1>6, <1>7 DEF TableTypes
<1>11. Shapes'
  BY <1>7
<1>12. AttemptsAreTrue'
  BY <1>0, <1>1, <1>2, <1>3, <1>4, <1>5, <1>6, <1>7 DEF AttemptsAreTrue, Cleaned, IsDown,
    IsShuttingDown, ShuttingDown
<1>13. DrivenIsActive'
  BY <1>7
<1>14. RunTerminalIsKnown'
  BY <1>7
<1>15. EmittedIsAcked'
  BY <1>7
<1>16. FailureIsOfTheRun'
  BY <1>0, <1>1, <1>2, <1>3, <1>4, <1>5, <1>6, <1>7 DEF FailureIsOfTheRun, IsShuttingDown,
    ShuttingDown
<1>17. EndIsQuiet'
  BY <1>0, <1>1, <1>2, <1>3, <1>4, <1>5, <1>6, <1>7 DEF EndIsQuiet, Cleaned
<1>18. StopIsTrue'
  BY <1>0, <1>1, <1>2, <1>3, <1>4, <1>5, <1>6, <1>7 DEF StopIsTrue, NoStopYet, Cleaned,
    IsShuttingDown, ShuttingDown
<1>19. ReportedOutcomeIsPublished'
  BY <1>7
<1> QED BY <1>8, <1>9, <1>10, <1>11, <1>12, <1>13, <1>14, <1>15, <1>16, <1>17, <1>18, <1>19 DEF KernelIndInv

LEMMA InputSettlesKeeps ==
  ASSUME KernelIndInv, InputSettles
  PROVE  KernelIndInv'
<1>0. UNCHANGED << instanceTerminal, revision, issued, claims, published, status, runGeneration,
                 activeApprovals, lastGeneration, held, aborted, startup, answer, down, custom,
                 starting, cause, attempt, current, deferred, queue, finalizing, closed, emitted,
                 push, stop>>
  BY DEF InputSettles, terminalVars, machineVars, historyVars, TerminalRest, runtimeVars, runVars,
    contractVars, startVars, attemptVars, loopVars, endVars, ReleaseRun
<1>1. /\ KernelTypes /\ TableTypes /\ RecordTypes /\ Shapes
      /\ ShutdownIsKnown /\ AttemptsAreTrue /\ DrivenIsActive /\ RunTerminalIsKnown /\ EmittedIsAcked
      /\ FailureIsOfTheRun /\ EndIsQuiet /\ StopIsTrue /\ ReportedOutcomeIsPublished
  BY DEF KernelIndInv
<1>2. /\ driving # "none" /\ driving' = "none" /\ driving \in Inputs /\ activeRun # NullRun
      /\ activeRun.runId = lastOwnedRunId /\ activeRun.runId \in Runs
      /\ activeRun.revision = revision /\ loop \in {"polling", "stopping", "ended", "threw"}
      /\ finalizing = "none"
  BY <1>1 DEF InputSettles, DrivenIsActive, EndIsQuiet, KernelTypes, LoopStates
<1>3. /\ activeRun' = NullRun /\ lastOwnedRunId' = lastOwnedRunId
      /\ lastRunTerminal' = IF activeRun.terminal.phase = "acked"
                            THEN [runId |-> activeRun.runId, status |-> activeRun.terminal.value.status]
                            ELSE NoStatus
  BY <1>2 DEF InputSettles, ReleaseRun, Ticket0
<1>4. /\ \/ shutdown' = shutdown /\ loop' = loop
         \/ /\ shutdown' = (IF shutdown.failed THEN shutdown
                            ELSE [cleanup |-> Requested(shutdown).cleanup, failed |-> TRUE,
                                  runId |-> activeRun.runId])
            /\ loop' = "threw"
      /\ \E v \in {"resolved", "rejected"} : promise' = promise \/ promise' = Settled(driving, v)
  <2>1. \/ ReleaseRun(Ticket0, "command_acked") /\ loop' = loop
        \/ /\ shutdown' = (IF shutdown.failed THEN shutdown
                           ELSE [cleanup |-> Requested(shutdown).cleanup, failed |-> TRUE,
                                 runId |-> activeRun.runId])
           /\ loop' = IF loop \in {"polling", "stopping", "ended"} THEN "threw" ELSE loop
    BY DEF InputSettles
  <2>2. \E v \in {"resolved", "rejected"} : promise' = promise \/ promise' = Settled(driving, v)
    BY DEF InputSettles
  <2> QED BY <1>2, <2>1, <2>2 DEF ReleaseRun
<1>5. /\ promise' \in [KernelCommands -> PromiseStates]
      /\ promise'[StopCommand] = promise[StopCommand]
  BY <1>1, <1>2, <1>4, KernelAssumption DEF TableTypes, Settled, PromiseStates, KernelCommands
<1>6. /\ shutdown' \in Shutdowns /\ (Cleaned' <=> Cleaned) /\ loop' \in {loop, "threw"}
      /\ \/ shutdown'.failed = shutdown.failed /\ shutdown'.runId = shutdown.runId
         \/ shutdown'.failed /\ shutdown'.runId = activeRun.runId /\ loop' = "threw"
  <2>1. CASE shutdown' = shutdown
    BY <1>1, <1>4, <2>1 DEF RecordTypes, Cleaned
  <2>2. CASE shutdown' # shutdown
    <3>1. /\ shutdown' = [cleanup |-> Requested(shutdown).cleanup, failed |-> TRUE,
                          runId |-> activeRun.runId]
          /\ loop' = "threw"
      BY <1>4, <2>2
    <3>2. CASE shutdown = NoShutdown
      <4>1. Requested(shutdown).cleanup = "pending" /\ shutdown.cleanup = "unrequested"
        BY <3>2 DEF Requested, PendingShutdown, NoShutdown
      <4> QED BY <1>2, <3>1, <4>1 DEF Shutdowns, Cleaned
    <3>3. CASE shutdown # NoShutdown
      <4>1. Requested(shutdown).cleanup = shutdown.cleanup
        BY <3>3 DEF Requested
      <4>2. shutdown.cleanup \in {"unrequested", "pending", "completed"}
        BY <1>1 DEF RecordTypes, Shutdowns
      <4> QED BY <1>2, <3>1, <4>1, <4>2 DEF Shutdowns, Cleaned
    <3> QED BY <3>2, <3>3
  <2> QED BY <2>1, <2>2
<1>7. KernelTypes'
  BY <1>0, <1>1, <1>2, <1>3, <1>4, <1>5, <1>6 DEF KernelTypes, LoopStates
<1>8. TableTypes'
  BY <1>0, <1>1, <1>2, <1>3, <1>4, <1>5, <1>6 DEF TableTypes
<1>9. RecordTypes'
  BY <1>0, <1>1, <1>2, <1>3, <1>4, <1>5, <1>6 DEF RecordTypes
<1>10. Shapes'
  BY <1>0, <1>1, <1>2, <1>3, <1>4, <1>5, <1>6 DEF Shapes, NullRun
<1>11. ShutdownIsKnown'
  BY <1>0, <1>1, <1>2, <1>3, <1>4, <1>5, <1>6 DEF ShutdownIsKnown, IsShuttingDown, ShuttingDown
<1>12. AttemptsAreTrue'
  BY <1>0, <1>1, <1>2, <1>3, <1>4, <1>5, <1>6 DEF AttemptsAreTrue, Cleaned, IsDown, IsShuttingDown,
    ShuttingDown
<1>13. DrivenIsActive'
  BY <1>0, <1>1, <1>2, <1>3, <1>4, <1>5, <1>6 DEF DrivenIsActive, NullRun
<1>14. RunTerminalIsKnown'
  BY <1>0, <1>1, <1>2, <1>3, <1>4, <1>5, <1>6 DEF RunTerminalIsKnown, NullRun, Null
<1>15. EmittedIsAcked'
  BY <1>0, <1>1, <1>2, <1>3, <1>4, <1>5, <1>6 DEF EmittedIsAcked, NullRun, RunTerminalIsKnown,
    Null
<1>16. FailureIsOfTheRun'
  BY <1>0, <1>1, <1>2, <1>3, <1>4, <1>5, <1>6 DEF FailureIsOfTheRun, IsShuttingDown, ShuttingDown
<1>17. EndIsQuiet'
  BY <1>0, <1>1, <1>2, <1>3, <1>4, <1>5, <1>6 DEF EndIsQuiet, Cleaned
<1>18. StopIsTrue'
  BY <1>0, <1>1, <1>2, <1>3, <1>4, <1>5, <1>6 DEF StopIsTrue, NoStopYet, Cleaned, IsShuttingDown,
    ShuttingDown, AttemptsAreTrue
<1>19. ReportedOutcomeIsPublished'
  BY <1>0, <1>1, <1>2, <1>3, <1>4, <1>5, <1>6 DEF ReportedOutcomeIsPublished, NullRun, Null,
    NoStatus, RunTerminalIsKnown
<1> QED BY <1>7, <1>8, <1>9, <1>10, <1>11, <1>12, <1>13, <1>14, <1>15, <1>16, <1>17, <1>18, <1>19 DEF KernelIndInv

LEMMA PushBeginsKeeps ==
  ASSUME KernelIndInv, NEW p \in Pushes, PushBegins(p)
  PROVE  KernelIndInv'
<1>0. UNCHANGED << activeRun, instanceTerminal, lastOwnedRunId, lastRunTerminal, revision,
                 shutdown, issued, claims, published, status, runGeneration, activeApprovals,
                 lastGeneration, held, aborted, startup, answer, down, custom, starting, cause,
                 attempt, current, deferred, queue, promise, loop, driving, finalizing, closed,
                 emitted, stop>>
  BY DEF PushBegins, terminalVars, machineVars, historyVars, TerminalRest, runtimeVars, runVars,
    contractVars, startVars, attemptVars, loopVars, endVars
<1>1. /\ KernelTypes /\ TableTypes /\ RecordTypes /\ Shapes
      /\ ShutdownIsKnown /\ AttemptsAreTrue /\ DrivenIsActive /\ RunTerminalIsKnown /\ EmittedIsAcked
      /\ FailureIsOfTheRun /\ EndIsQuiet /\ StopIsTrue /\ ReportedOutcomeIsPublished
  BY DEF KernelIndInv
<1>2. \E s \in Statuses : push' = [push EXCEPT ![p] = [pc |-> "barrier", ticket |-> Ticket0,
                                                         status |-> s, id |-> SelectedId(p)]]
  <2>1. PICK s \in PushedStatuses :
          push' = [push EXCEPT ![p] = [pc |-> "barrier", ticket |-> Ticket0, status |-> s,
                                       id |-> SelectedId(p)]]
    BY DEF PushBegins
  <2> QED BY <2>1, KernelAssumption
<1>3. KernelTypes' /\ TableTypes' /\ RecordTypes' /\ ShutdownIsKnown' /\ AttemptsAreTrue' /\
      DrivenIsActive' /\ EmittedIsAcked' /\ FailureIsOfTheRun' /\ EndIsQuiet' /\ StopIsTrue' /\
      ReportedOutcomeIsPublished'
  BY <1>0, <1>1 DEF AttemptsAreTrue, Cleaned, DrivenIsActive, EmittedIsAcked, EndIsQuiet,
    FailureIsOfTheRun, IsDown, IsShuttingDown, KernelTypes, NoStopYet, RecordTypes,
    ReportedOutcomeIsPublished, ShutdownIsKnown, ShuttingDown, StopIsTrue, TableTypes
<1>4. Shapes'
  BY <1>0, <1>1, <1>2 DEF Shapes
<1>5. RunTerminalIsKnown'
  BY <1>0, <1>1, <1>2 DEF RunTerminalIsKnown
<1> QED BY <1>3, <1>4, <1>5 DEF KernelIndInv

LEMMA CancelsKeeps ==
  ASSUME KernelIndInv, Cancels
  PROVE  KernelIndInv'
<1>0. UNCHANGED << instanceTerminal, lastOwnedRunId, lastRunTerminal, revision, shutdown, issued,
                 published, status, runGeneration, activeApprovals, lastGeneration, held, aborted,
                 startup, answer, down, custom, starting, cause, attempt, current, deferred,
                 queue, promise, loop, driving, finalizing, closed, emitted, stop>>
  BY DEF Cancels, terminalVars, machineVars, historyVars, TerminalRest, runtimeVars, runVars,
    contractVars, startVars, attemptVars, loopVars, endVars, ClaimCancellation, PushRest
<1>1. /\ KernelTypes /\ TableTypes /\ RecordTypes /\ Shapes
      /\ ShutdownIsKnown /\ AttemptsAreTrue /\ DrivenIsActive /\ RunTerminalIsKnown /\ EmittedIsAcked
      /\ FailureIsOfTheRun /\ EndIsQuiet /\ StopIsTrue /\ ReportedOutcomeIsPublished
  BY DEF KernelIndInv
<1>2. /\ activeRun' = [activeRun EXCEPT !.claim = ClaimAfter(Ticket0, "session.stop")]
      /\ activeRun # NullRun /\ push' = push
  BY <1>1 DEF Cancels, ClaimCancellation, RequireRun
<1>3. /\ activeRun'.runId = activeRun.runId /\ activeRun'.revision = activeRun.revision
      /\ activeRun'.terminal = activeRun.terminal /\ activeRun' # NullRun /\ Shapes'
  BY <1>1, <1>2, NoRunAssumption DEF Shapes, NullRun, DrivenIsActive
<1>4. KernelTypes' /\ TableTypes' /\ RecordTypes' /\ ShutdownIsKnown' /\ AttemptsAreTrue' /\
      FailureIsOfTheRun' /\ EndIsQuiet' /\ StopIsTrue'
  BY <1>0, <1>1 DEF AttemptsAreTrue, Cleaned, EndIsQuiet, FailureIsOfTheRun, IsDown,
    IsShuttingDown, KernelTypes, NoStopYet, RecordTypes, ShutdownIsKnown, ShuttingDown,
    StopIsTrue, TableTypes
<1>5. Shapes'
  BY <1>3
<1>6. DrivenIsActive'
  BY <1>0, <1>1, <1>2, <1>3 DEF DrivenIsActive
<1>7. RunTerminalIsKnown'
  BY <1>0, <1>1, <1>2, <1>3 DEF RunTerminalIsKnown
<1>8. EmittedIsAcked'
  BY <1>0, <1>1, <1>2, <1>3 DEF EmittedIsAcked
<1>9. ReportedOutcomeIsPublished'
  BY <1>0, <1>1, <1>2, <1>3 DEF ReportedOutcomeIsPublished
<1> QED BY <1>4, <1>5, <1>6, <1>7, <1>8, <1>9 DEF KernelIndInv

LEMMA SinkFailsKeeps ==
  ASSUME KernelIndInv, NEW p \in Pushes, SinkFails(p)
  PROVE  KernelIndInv'
<1>0. UNCHANGED << activeRun, instanceTerminal, lastOwnedRunId, lastRunTerminal, revision,
                 shutdown, issued, claims, published, status, runGeneration, activeApprovals,
                 lastGeneration, held, aborted, startup, answer, down, custom, starting, cause,
                 attempt, current, deferred, queue, promise, loop, driving, finalizing, closed,
                 emitted, stop>>
  BY DEF SinkFails, terminalVars, machineVars, historyVars, TerminalRest, runtimeVars, runVars,
    contractVars, startVars, attemptVars, loopVars, endVars, PushRest
<1>1. /\ KernelTypes /\ TableTypes /\ RecordTypes /\ Shapes
      /\ ShutdownIsKnown /\ AttemptsAreTrue /\ DrivenIsActive /\ RunTerminalIsKnown /\ EmittedIsAcked
      /\ FailureIsOfTheRun /\ EndIsQuiet /\ StopIsTrue /\ ReportedOutcomeIsPublished
  BY DEF KernelIndInv
<1>2. Shapes' /\ PushesGoOn
  BY <1>0, <1>1, PushesEnd DEF SinkFails, Shapes, PushShape
<1>3. KernelTypes' /\ TableTypes' /\ RecordTypes' /\ ShutdownIsKnown' /\ AttemptsAreTrue' /\
      DrivenIsActive' /\ EmittedIsAcked' /\ FailureIsOfTheRun' /\ EndIsQuiet' /\ StopIsTrue' /\
      ReportedOutcomeIsPublished'
  BY <1>0, <1>1 DEF AttemptsAreTrue, Cleaned, DrivenIsActive, EmittedIsAcked, EndIsQuiet,
    FailureIsOfTheRun, IsDown, IsShuttingDown, KernelTypes, NoStopYet, RecordTypes,
    ReportedOutcomeIsPublished, ShutdownIsKnown, ShuttingDown, StopIsTrue, TableTypes
<1>4. Shapes'
  BY <1>2
<1>5. RunTerminalIsKnown'
  BY <1>0, <1>1, <1>2 DEF RunTerminalIsKnown, PushesGoOn
<1> QED BY <1>3, <1>4, <1>5 DEF KernelIndInv

LEMMA TerminalPassesKeeps ==
  ASSUME KernelIndInv, NEW p \in Pushes, TerminalPasses(p)
  PROVE  KernelIndInv'
<1>0. UNCHANGED << instanceTerminal, lastOwnedRunId, lastRunTerminal, revision, shutdown, issued,
                 claims, status, runGeneration, activeApprovals, lastGeneration, held, aborted,
                 startup, answer, down, custom, starting, cause, attempt, current, deferred,
                 queue, promise, loop, driving, finalizing, closed, stop>>
  BY DEF TerminalPasses, terminalVars, machineVars, historyVars, TerminalRest, runtimeVars,
    runVars, contractVars, startVars, attemptVars, loopVars, endVars, PushRest, EmitsTerminal
<1>1. /\ KernelTypes /\ TableTypes /\ RecordTypes /\ Shapes
      /\ ShutdownIsKnown /\ AttemptsAreTrue /\ DrivenIsActive /\ RunTerminalIsKnown /\ EmittedIsAcked
      /\ FailureIsOfTheRun /\ EndIsQuiet /\ StopIsTrue /\ ReportedOutcomeIsPublished
  BY DEF KernelIndInv
<1>2. /\ Shapes' /\ PushesGoOn
      /\ \/ UNCHANGED <<activeRun, published, emitted>>
         \/ /\ activeRun # NullRun /\ activeRun.terminal.phase # "acked"
            /\ activeRun.revision = push[p].ticket.revision /\ activeRun.runId = TerminalOf(p).runId
            /\ push[p].pc = "barrier"
            /\ \/ /\ UNCHANGED <<published, emitted>>
                  /\ activeRun' = [activeRun EXCEPT !.terminal = [phase |-> "selected", value |-> TerminalOf(p)]]
               \/ EmitsTerminal(p)
  <2> DEFINE unchanged == UNCHANGED <<activeRun, published, emitted>>
  <2>1. PushShape
    BY <1>1 DEF Shapes, PushShape
  <2>2. CASE Settles(p) /\ UNCHANGED <<terminalVars, emitted>>
    BY <1>1, <2>1, <2>2, PushIsAnswered DEF Shapes, PushShape, terminalVars, machineVars, historyVars
  <2>3. CASE push[p].pc = "barrier" /\ PushGoes(p, "joined") /\ UNCHANGED <<terminalVars, emitted>>
    BY <1>1, <2>1, <2>3, PushAdvances DEF Shapes, PushShape, terminalVars, machineVars, historyVars
  <2>4. CASE /\ push[p].pc = "barrier" /\ OwnsTicket(p)
             /\ SelectionResult(TerminalOf(p)) \in {"pending", "selected"}
             /\ \/ Settles(p) /\ EmitsTerminal(p)
                \/ /\ PushGoes(p, "delivering")
                   /\ activeRun' = [activeRun EXCEPT !.terminal = [phase |-> "selected", value |-> TerminalOf(p)]]
                   /\ UNCHANGED <<historyVars, emitted>>
    <3>1. /\ activeRun # NullRun /\ activeRun.terminal.phase # "acked"
          /\ activeRun.revision = push[p].ticket.revision /\ activeRun.runId = TerminalOf(p).runId
      BY <2>4 DEF OwnsTicket, RequireRun, SelectionResult, TerminalOf, Null
    <3>2. PushShape' /\ PushesGoOn
      BY <2>1, <2>4, PushAdvances, PushIsAnswered
    <3>3. Shapes'
      BY <1>1, <2>4, <3>2 DEF Shapes, PushShape, EmitsTerminal
    <3> QED BY <2>4, <3>1, <3>2, <3>3 DEF historyVars
  <2> QED BY <2>2, <2>3, <2>4 DEF TerminalPasses
<1>3. /\ RunTerminalIsKnown' /\ EmittedIsAcked' /\ ReportedOutcomeIsPublished' /\ DrivenIsActive'
      /\ emitted' \subseteq [revision : Nat, status : Statuses]
  <2>1. CASE UNCHANGED <<activeRun, published, emitted>>
    BY <1>0, <1>1, <1>2, <2>1 DEF RunTerminalIsKnown, EmittedIsAcked, ReportedOutcomeIsPublished, DrivenIsActive, RecordTypes, PushesGoOn
  <2>2. CASE ~UNCHANGED <<activeRun, published, emitted>>
    <3> DEFINE v == TerminalOf(p)
    <3>1. /\ activeRun # NullRun /\ activeRun.terminal.phase # "acked" /\ activeRun.revision = revision
          /\ push[p].ticket.revision = revision /\ activeRun.runId = v.runId /\ v.status \in Statuses
          /\ revision \in Nat
      BY <1>1, <1>2, <2>2 DEF DrivenIsActive, RunTerminalIsKnown, TerminalOf, KernelTypes
    <3>2. CASE /\ UNCHANGED <<published, emitted>>
               /\ activeRun' = [activeRun EXCEPT !.terminal = [phase |-> "selected", value |-> v]]
      <4> HIDE DEF v
      <4>1. /\ activeRun'.terminal = [phase |-> "selected", value |-> v]
            /\ activeRun'.runId = activeRun.runId /\ activeRun'.revision = activeRun.revision
            /\ activeRun' # NullRun
        BY <1>1, <3>1, <3>2, NoRunAssumption DEF Shapes, NullRun, DrivenIsActive
      <4>2. RunTerminalIsKnown'
        BY <1>1, <1>2, <3>1, <4>1 DEF RunTerminalIsKnown, PushesGoOn
      <4>3. EmittedIsAcked' /\ emitted' \subseteq [revision : Nat, status : Statuses]
        BY <1>0, <1>1, <3>1, <3>2, <4>1 DEF EmittedIsAcked, RecordTypes
      <4>4. ReportedOutcomeIsPublished'
        BY <1>0, <1>1, <3>1, <4>1 DEF ReportedOutcomeIsPublished
      <4>5. DrivenIsActive'
        BY <1>0, <1>1, <3>1, <4>1 DEF DrivenIsActive
      <4> QED BY <4>2, <4>3, <4>4, <4>5
    <3>3. CASE EmitsTerminal(p)
      <4>1. /\ activeRun' = [activeRun EXCEPT !.terminal = [phase |-> "acked", value |-> v,
                                                receipt |-> [eventId |-> push[p].id, seq |-> 1]]]
            /\ emitted' = emitted \cup {[revision |-> revision, status |-> push[p].status]}
            /\ published' = published \cup {[revision |-> revision, value |-> v]}
            /\ push[p].status = v.status
        BY <3>1, <3>3 DEF EmitsTerminal, TerminalOf
      <4> HIDE DEF v
      <4>2. /\ activeRun'.terminal = [phase |-> "acked", value |-> v,
                                      receipt |-> [eventId |-> push[p].id, seq |-> 1]]
            /\ activeRun'.runId = activeRun.runId /\ activeRun'.revision = activeRun.revision
            /\ activeRun' # NullRun
        BY <1>1, <3>1, <4>1, NoRunAssumption DEF Shapes, NullRun, DrivenIsActive
      <4>3. RunTerminalIsKnown'
        BY <1>1, <1>2, <3>1, <4>2 DEF RunTerminalIsKnown, PushesGoOn
      <4>4. \A e \in emitted : e.revision # revision
        BY <1>1, <3>1 DEF EmittedIsAcked
      <4>5. EmittedIsAcked'
        <5>1. \A e \in emitted' : e.revision <= revision
          BY <1>1, <3>1, <4>1 DEF EmittedIsAcked
        <5>2. \A a, b \in emitted' : a.revision = b.revision => a = b
          BY <1>1, <4>1, <4>4 DEF EmittedIsAcked
        <5> QED BY <1>0, <4>2, <5>1, <5>2 DEF EmittedIsAcked
      <4>6. emitted' \subseteq [revision : Nat, status : Statuses]
        BY <1>1, <3>1, <4>1 DEF RecordTypes
      <4>7. ReportedOutcomeIsPublished'
        BY <1>0, <1>1, <3>1, <4>1, <4>2 DEF ReportedOutcomeIsPublished
      <4>8. DrivenIsActive'
        BY <1>0, <1>1, <3>1, <4>2 DEF DrivenIsActive
      <4> QED BY <4>3, <4>5, <4>6, <4>7, <4>8
    <3> QED BY <1>2, <2>2, <3>2, <3>3
  <2> QED BY <2>1, <2>2
<1>4. KernelTypes' /\ TableTypes' /\ ShutdownIsKnown' /\ AttemptsAreTrue' /\ FailureIsOfTheRun' /\
      EndIsQuiet' /\ StopIsTrue'
  BY <1>0, <1>1 DEF AttemptsAreTrue, Cleaned, EndIsQuiet, FailureIsOfTheRun, IsDown,
    IsShuttingDown, KernelTypes, NoStopYet, ShutdownIsKnown, ShuttingDown, StopIsTrue, TableTypes
<1>5. RecordTypes'
  BY <1>0, <1>1, <1>2, <1>3 DEF RecordTypes
<1>6. Shapes'
  BY <1>2
<1>7. DrivenIsActive'
  BY <1>3
<1>8. RunTerminalIsKnown'
  BY <1>3
<1>9. EmittedIsAcked'
  BY <1>3
<1>10. ReportedOutcomeIsPublished'
  BY <1>3
<1> QED BY <1>4, <1>5, <1>6, <1>7, <1>8, <1>9, <1>10 DEF KernelIndInv

LEMMA DeliveredKeeps ==
  ASSUME KernelIndInv, NEW p \in Pushes, Delivered(p)
  PROVE  KernelIndInv'
<1>0. UNCHANGED << instanceTerminal, lastOwnedRunId, lastRunTerminal, revision, shutdown, issued,
                 claims, status, runGeneration, activeApprovals, lastGeneration, held, aborted,
                 startup, answer, down, custom, starting, cause, attempt, current, deferred,
                 queue, promise, loop, driving, finalizing, closed, emitted, stop>>
  BY DEF Delivered, terminalVars, machineVars, historyVars, TerminalRest, runtimeVars, runVars,
    contractVars, startVars, attemptVars, loopVars, endVars, AckRunTerminal, PushRest
<1>1. /\ KernelTypes /\ TableTypes /\ RecordTypes /\ Shapes
      /\ ShutdownIsKnown /\ AttemptsAreTrue /\ DrivenIsActive /\ RunTerminalIsKnown /\ EmittedIsAcked
      /\ FailureIsOfTheRun /\ EndIsQuiet /\ StopIsTrue /\ ReportedOutcomeIsPublished
  BY DEF KernelIndInv
<1>2. /\ PushShape' /\ PushesGoOn
      /\ \/ activeRun' = activeRun /\ published' = published
         \/ /\ activeRun # NullRun /\ activeRun.revision = push[p].ticket.revision
            /\ activeRun.terminal.phase = "selected"
            /\ \E r : activeRun' = [activeRun EXCEPT !.terminal =
                                     [phase |-> "acked", value |-> activeRun.terminal.value, receipt |-> r]]
            /\ published' = published \cup {[revision |-> push[p].ticket.revision, value |-> activeRun.terminal.value]}
  BY <1>1, PushesEnd DEF Shapes, PushShape, Delivered, AckRunTerminal, RequireRun, terminalVars, machineVars, historyVars
<1>3. Shapes' /\ RunTerminalIsKnown' /\ EmittedIsAcked' /\ ReportedOutcomeIsPublished' /\ DrivenIsActive'
  <2>1. CASE activeRun' = activeRun /\ published' = published
    BY <1>0, <1>1, <1>2, <2>1 DEF RunTerminalIsKnown, EmittedIsAcked, ReportedOutcomeIsPublished, DrivenIsActive, PushesGoOn, Shapes, PushShape
  <2>2. CASE ~(activeRun' = activeRun /\ published' = published)
    <3> DEFINE v == activeRun.terminal.value
    <3>1. PICK r : activeRun' = [activeRun EXCEPT !.terminal = [phase |-> "acked", value |-> v, receipt |-> r]]
      BY <1>2, <2>2
    <3>2. /\ activeRun # NullRun /\ activeRun.revision = revision /\ activeRun.terminal # Null
          /\ activeRun.terminal.phase = "selected"
          /\ published' = published \cup {[revision |-> revision, value |-> v]}
      BY <1>1, <1>2, <2>2 DEF DrivenIsActive, Null
    <3> HIDE DEF v
    <3>3. /\ activeRun'.terminal = [phase |-> "acked", value |-> v, receipt |-> r]
          /\ activeRun'.runId = activeRun.runId /\ activeRun'.revision = activeRun.revision
          /\ activeRun' # NullRun
      BY <1>1, <3>1, <3>2, NoRunAssumption DEF Shapes, NullRun, DrivenIsActive
    <3>4. Shapes'
      BY <1>1, <1>2, <3>1 DEF Shapes, PushShape
    <3>5. RunTerminalIsKnown'
      BY <1>1, <1>2, <3>2, <3>3 DEF RunTerminalIsKnown, PushesGoOn, v
    <3>6. EmittedIsAcked'
      BY <1>0, <1>1, <3>2, <3>3 DEF EmittedIsAcked
    <3>7. ReportedOutcomeIsPublished'
      BY <1>0, <1>1, <3>2, <3>3 DEF ReportedOutcomeIsPublished
    <3>8. DrivenIsActive'
      BY <1>0, <1>1, <3>2, <3>3 DEF DrivenIsActive
    <3> QED BY <3>4, <3>5, <3>6, <3>7, <3>8
  <2> QED BY <2>1, <2>2
<1>4. KernelTypes' /\ TableTypes' /\ RecordTypes' /\ ShutdownIsKnown' /\ AttemptsAreTrue' /\
      FailureIsOfTheRun' /\ EndIsQuiet' /\ StopIsTrue'
  BY <1>0, <1>1 DEF AttemptsAreTrue, Cleaned, EndIsQuiet, FailureIsOfTheRun, IsDown,
    IsShuttingDown, KernelTypes, NoStopYet, RecordTypes, ShutdownIsKnown, ShuttingDown,
    StopIsTrue, TableTypes
<1>5. Shapes'
  BY <1>3
<1>6. DrivenIsActive'
  BY <1>3
<1>7. RunTerminalIsKnown'
  BY <1>3
<1>8. EmittedIsAcked'
  BY <1>3
<1>9. ReportedOutcomeIsPublished'
  BY <1>3
<1> QED BY <1>4, <1>5, <1>6, <1>7, <1>8, <1>9 DEF KernelIndInv

LEMMA StopAwaitsKeeps ==
  ASSUME KernelIndInv, StopAwaits
  PROVE  KernelIndInv'
<1>0. UNCHANGED << activeRun, instanceTerminal, lastOwnedRunId, lastRunTerminal, revision,
                 shutdown, issued, claims, published, status, runGeneration, activeApprovals,
                 lastGeneration, held, aborted, startup, answer, down, custom, starting, cause,
                 attempt, current, deferred, queue, promise, loop, driving, finalizing, closed,
                 emitted, push>>
  BY DEF StopAwaits, terminalVars, machineVars, historyVars, TerminalRest, runtimeVars, runVars,
    contractVars, startVars, attemptVars, loopVars, endVars, StopRest, shutdownVars
<1>1. /\ KernelTypes /\ TableTypes /\ RecordTypes /\ Shapes
      /\ ShutdownIsKnown /\ AttemptsAreTrue /\ DrivenIsActive /\ RunTerminalIsKnown /\ EmittedIsAcked
      /\ FailureIsOfTheRun /\ EndIsQuiet /\ StopIsTrue /\ ReportedOutcomeIsPublished
  BY DEF KernelIndInv
<1>2. /\ stop.pc \in {"joined", "early", "bypass"} /\ stop'.calls = stop.calls
      /\ stop' = [stop EXCEPT !.pc = stop'.pc, !.awaited = 0]
      /\ stop'.pc \in {"rejected", "resolved", "completes", "loop"}
      /\ stop'.pc = "loop" => Cleaned \/ cause
      /\ stop'.pc = "resolved" => Cleaned /\ stop.pc = "early"
      /\ stop'.pc = "completes" => Cleaned
  <2>1. /\ stop.pc \in {"joined", "early", "bypass"} /\ attempt[stop.awaited] \in {"ok", "failed"}
        /\ StopGoes(IF attempt[stop.awaited] = "failed" /\ ~(stop.pc = "joined" /\ cause) THEN "rejected"
                    ELSE IF stop.pc = "early" THEN "resolved"
                    ELSE IF stop.pc = "bypass" THEN "completes" ELSE "loop", 0)
    BY DEF StopAwaits
  <2>2. attempt[stop.awaited] = "ok" => Cleaned
    BY <1>1, <2>1 DEF StopIsTrue, AttemptsAreTrue
  <2>3. /\ stop' = [stop EXCEPT !.pc = stop'.pc, !.awaited = 0] /\ stop'.calls = stop.calls
        /\ stop'.pc = IF attempt[stop.awaited] = "failed" /\ ~(stop.pc = "joined" /\ cause) THEN "rejected"
                      ELSE IF stop.pc = "early" THEN "resolved"
                      ELSE IF stop.pc = "bypass" THEN "completes" ELSE "loop"
    BY <1>1, <2>1 DEF StopGoes, RecordTypes
  <2> QED BY <2>1, <2>2, <2>3
<1>3. KernelTypes' /\ TableTypes' /\ Shapes' /\ ShutdownIsKnown' /\ AttemptsAreTrue' /\
      DrivenIsActive' /\ RunTerminalIsKnown' /\ EmittedIsAcked' /\ FailureIsOfTheRun' /\
      EndIsQuiet' /\ ReportedOutcomeIsPublished'
  BY <1>0, <1>1 DEF AttemptsAreTrue, Cleaned, DrivenIsActive, EmittedIsAcked, EndIsQuiet,
    FailureIsOfTheRun, IsDown, IsShuttingDown, KernelTypes, ReportedOutcomeIsPublished,
    RunTerminalIsKnown, Shapes, ShutdownIsKnown, ShuttingDown, TableTypes
<1>4. RecordTypes'
  BY <1>0, <1>1, <1>2 DEF RecordTypes, StopStates
<1>5. StopIsTrue'
  BY <1>0, <1>1, <1>2 DEF StopIsTrue, NoStopYet, Cleaned, IsShuttingDown, ShuttingDown
<1> QED BY <1>3, <1>4, <1>5 DEF KernelIndInv

LEMMA StopEndsKeeps ==
  ASSUME KernelIndInv, StopEnds
  PROVE  KernelIndInv'
<1>0. UNCHANGED << activeRun, lastOwnedRunId, lastRunTerminal, revision, shutdown, issued, claims,
                 published, status, runGeneration, activeApprovals, lastGeneration, held, aborted,
                 startup, answer, down, custom, starting, cause, attempt, current, deferred,
                 queue, promise, loop, driving, finalizing, closed, emitted, push>>
  BY DEF StopEnds, terminalVars, machineVars, historyVars, TerminalRest, runtimeVars, runVars,
    contractVars, startVars, attemptVars, loopVars, endVars
<1>1. /\ KernelTypes /\ TableTypes /\ RecordTypes /\ Shapes
      /\ ShutdownIsKnown /\ AttemptsAreTrue /\ DrivenIsActive /\ RunTerminalIsKnown /\ EmittedIsAcked
      /\ FailureIsOfTheRun /\ EndIsQuiet /\ StopIsTrue /\ ReportedOutcomeIsPublished
  BY DEF KernelIndInv
<1>2. /\ stop.pc \in {"loop", "completes"} /\ loop \in {"none", "settled"}
      /\ stop' = [stop EXCEPT !.pc = stop'.pc, !.awaited = 0] /\ stop'.calls = stop.calls
      /\ stop'.pc = IF cause THEN "rejected" ELSE "resolved"
      /\ instanceTerminal' = instanceTerminal \/ instanceTerminal'.phase = "acked"
  BY <1>1 DEF StopEnds, StopGoes, StopOutcome, LoopIsOver, RecordTypes
<1>3. KernelTypes' /\ TableTypes' /\ Shapes' /\ ShutdownIsKnown' /\ AttemptsAreTrue' /\
      DrivenIsActive' /\ RunTerminalIsKnown' /\ EmittedIsAcked' /\ FailureIsOfTheRun' /\
      ReportedOutcomeIsPublished'
  BY <1>0, <1>1 DEF AttemptsAreTrue, Cleaned, DrivenIsActive, EmittedIsAcked, FailureIsOfTheRun,
    IsDown, IsShuttingDown, KernelTypes, ReportedOutcomeIsPublished, RunTerminalIsKnown, Shapes,
    ShutdownIsKnown, ShuttingDown, TableTypes
<1>4. RecordTypes'
  BY <1>0, <1>1, <1>2 DEF RecordTypes, StopStates
<1>5. EndIsQuiet'
  BY <1>0, <1>1, <1>2 DEF EndIsQuiet, Cleaned
<1>6. StopIsTrue'
  BY <1>0, <1>1, <1>2 DEF StopIsTrue, NoStopYet, Cleaned, IsShuttingDown, ShuttingDown
<1> QED BY <1>3, <1>4, <1>5, <1>6 DEF KernelIndInv
LEMMA FactoryThrowsKeeps ==
  ASSUME KernelIndInv, FactoryThrows
  PROVE  KernelIndInv'
<1>1. /\ KernelTypes /\ TableTypes /\ RecordTypes /\ ShutdownIsKnown /\ StopIsTrue
      /\ FailureIsOfTheRun /\ AttemptsAreTrue
  BY DEF KernelIndInv
<1>2. /\ status = "created" /\ cause' = TRUE /\ JoinsShutdown("failed", shutdown) /\ CanAttempt
      /\ UNCHANGED <<TerminalRest, startup, answer, down, promise, loop, driving, finalizing, closed,
                     emitted, push, stop>>
  BY DEF FactoryThrows, MayAttempt, CanAttempt, endVars
<1>3. current = 0 /\ ~Cleaned /\ loop = "none"
  BY <1>1, <1>2 DEF ShutdownIsKnown, AttemptsAreTrue, KernelTypes, IsShuttingDown, ShuttingDown
<1>4. ShutsDown("failed", shutdown)
  BY <1>1, <1>2, <1>3, ShutdownBegins DEF RecordTypes, DriverStatuses
<1>5. ShutdownStep("failed", shutdown)
  BY <1>1, <1>2, <1>3, <1>4 DEF ShutdownStep, RecordTypes, TableTypes, Cleaned, FailureIsOfTheRun
<1>6. StopIsTrue'
  BY <1>2, <1>3, <1>5, StopOutlives DEF IsShuttingDown, ShuttingDown
<1> QED BY <1>5, <1>6, ShutdownStepKeeps

LEMMA BackendFailsKeeps ==
  ASSUME KernelIndInv, BackendFails
  PROVE  KernelIndInv'
<1> DEFINE s == IF activeRun = NullRun \/ shutdown.failed THEN shutdown
                ELSE [cleanup |-> Requested(shutdown).cleanup, failed |-> TRUE,
                      runId |-> CurrentRunId]
<1>1. /\ KernelTypes /\ TableTypes /\ RecordTypes /\ ShutdownIsKnown /\ DrivenIsActive
      /\ FailureIsOfTheRun /\ AttemptsAreTrue /\ EndIsQuiet
  BY DEF KernelIndInv
<1>2. /\ ~IsShuttingDown /\ cause' = TRUE /\ promise' = RejectPending
      /\ JoinsShutdown("failed", s) /\ CanAttempt
      /\ UNCHANGED <<TerminalRest, startup, answer, down, loop, driving, finalizing, closed,
                     emitted, push, stop>>
  BY DEF BackendFails, MayAttempt, CanAttempt, endVars
<1>3. current = 0 /\ ~Cleaned /\ finalizing = "none" /\ loop # "stopping"
  BY <1>1, <1>2 DEF ShutdownIsKnown, AttemptsAreTrue, KernelTypes, EndIsQuiet
<1>4. /\ s \in Shutdowns /\ s.cleanup # "completed"
      /\ s.failed => s.runId = lastOwnedRunId /\ s.runId \in Runs
  <2>1. CASE activeRun = NullRun \/ shutdown.failed
    <3>1. s = shutdown
      BY <2>1
    <3> QED BY <1>1, <1>3, <3>1 DEF RecordTypes, Cleaned, FailureIsOfTheRun
  <2>2. CASE ~(activeRun = NullRun \/ shutdown.failed)
    <3>1. /\ s = [cleanup |-> Requested(shutdown).cleanup, failed |-> TRUE,
                  runId |-> activeRun.runId]
          /\ activeRun.runId \in Runs /\ activeRun.runId = lastOwnedRunId
      BY <1>1, <2>2 DEF CurrentRunId, DrivenIsActive
    <3>2. Requested(shutdown).cleanup \in {"unrequested", "pending"}
      <4>1. shutdown.cleanup \in {"unrequested", "pending"}
        BY <1>1, <1>3 DEF RecordTypes, Shutdowns, Cleaned
      <4>2. Requested(shutdown) = shutdown \/ Requested(shutdown) = PendingShutdown
        BY DEF Requested
      <4> QED BY <4>1, <4>2 DEF PendingShutdown
    <3> HIDE DEF s
    <3> QED BY <3>1, <3>2 DEF Shutdowns
  <2> QED BY <2>1, <2>2
<1> HIDE DEF s
<1>5. ShutsDown("failed", s)
  BY <1>2, <1>3, <1>4, ShutdownBegins DEF DriverStatuses
<1>6. ShutdownStep("failed", s)
  BY <1>1, <1>2, <1>3, <1>4, <1>5, PendingIsRejected DEF ShutdownStep, RecordTypes, KernelTypes
<1>7. StopIsTrue'
  BY <1>1, <1>2, <1>3, <1>6, StopOutlives
<1> QED BY <1>6, <1>7, ShutdownStepKeeps

LEMMA TakesStopKeeps ==
  ASSUME KernelIndInv, TakesStop
  PROVE  KernelIndInv'
<1>1. /\ KernelTypes /\ TableTypes /\ RecordTypes /\ ShutdownIsKnown /\ StopIsTrue
      /\ FailureIsOfTheRun
  BY DEF KernelIndInv
<1>2. /\ ~IsShuttingDown /\ loop = "polling" /\ loop' = "stopping"
      /\ queue # << >> /\ Head(queue) = StopCommand
      /\ JoinsShutdown(status, shutdown) /\ CanAttempt
      /\ UNCHANGED <<TerminalRest, startup, answer, down, cause, promise, driving, finalizing, closed,
                     emitted, push, stop>>
  BY DEF TakesStop, MayAttempt, CanAttempt, endVars, startVars
<1>3. stop.pc # "none"
  <2>1. queue[1] = StopCommand /\ 1 \in 1..Len(queue)
    BY <1>1, <1>2 DEF TableTypes
  <2> QED BY <1>1, <2>1 DEF StopIsTrue, NoStopYet
<1>4. ShutsDown(status, shutdown)
  BY <1>1, <1>2, ShutdownBegins DEF RecordTypes, KernelTypes, ShutdownIsKnown, IsShuttingDown
<1>5. ShutdownStep(status, shutdown)
  <2>1. shutdown.failed => /\ shutdown.runId = lastOwnedRunId /\ shutdown.runId \in Runs
    BY <1>1 DEF FailureIsOfTheRun
  <2> QED BY <1>1, <1>2, <1>4, <2>1 DEF ShutdownStep, RecordTypes, TableTypes, KernelTypes, Cleaned
<1>6. StopIsTrue'
  BY <1>2, <1>3, <1>5, StopOutlives
<1> QED BY <1>5, <1>6, ShutdownStepKeeps


LEMMA LoopCatchesKeeps ==
  ASSUME KernelIndInv, LoopCatches
  PROVE  KernelIndInv'
<1>1. /\ KernelTypes /\ TableTypes /\ RecordTypes /\ ShutdownIsKnown /\ StopIsTrue
      /\ FailureIsOfTheRun /\ EndIsQuiet
  BY DEF KernelIndInv
<1>2. /\ loop = "threw" /\ driving = "none" /\ loop' = "failing" /\ cause' = TRUE
      /\ promise' = RejectPending /\ JoinsShutdown(Failed(status), shutdown) /\ CanAttempt
      /\ UNCHANGED <<TerminalRest, startup, answer, down, driving, finalizing, closed, emitted, push,
                     stop>>
  BY DEF LoopCatches, endVars
<1> DEFINE b == Failed(status)
<1>3. b \in {"failed", "stopped"} /\ (b = "stopped" <=> status = "stopped") /\ finalizing = "none"
  BY <1>1, <1>2 DEF Failed, EndIsQuiet
<1> HIDE DEF b
<1>4. ShutsDown(b, shutdown)
  <2>1. b \in DriverStatuses /\ (current # 0 => b \in ShuttingDown) /\ shutdown \in Shutdowns
    BY <1>1, <1>3 DEF RecordTypes, DriverStatuses, ShuttingDown
  <2> QED BY <1>2, <1>3, <2>1, ShutdownBegins DEF b
<1>5. ShutdownStep(b, shutdown)
  <2>1. shutdown.failed => /\ shutdown.runId = lastOwnedRunId /\ shutdown.runId \in Runs
    BY <1>1 DEF FailureIsOfTheRun
  <2> QED BY <1>1, <1>2, <1>3, <1>4, <2>1, PendingIsRejected DEF ShutdownStep, RecordTypes, Cleaned
<1>6. stop.pc = "none" => b = "failed" /\ loop' # "stopping"
  BY <1>1, <1>2, <1>3 DEF StopIsTrue, NoStopYet
<1>7. StopIsTrue'
  BY <1>2, <1>5, <1>6, StopOutlives
<1> QED BY <1>5, <1>7, ShutdownStepKeeps

LEMMA StartSettlesKeeps ==
  ASSUME KernelIndInv, StartSettles
  PROVE  KernelIndInv'
<1>1. /\ KernelTypes /\ TableTypes /\ RecordTypes /\ Shapes
      /\ ShutdownIsKnown /\ AttemptsAreTrue /\ DrivenIsActive /\ RunTerminalIsKnown /\ EmittedIsAcked
      /\ FailureIsOfTheRun /\ EndIsQuiet /\ StopIsTrue /\ ReportedOutcomeIsPublished
  BY DEF KernelIndInv
<1>2. CASE startup = "resolved" /\ status = "starting"
  <2>1. /\ UNCHANGED <<terminalVars, contractVars, cause, attempt, current, queue, promise, driving,
                      endVars, push, stop>>
        /\ status' = "ready" /\ loop' = "polling"
    BY <1>2 DEF StartSettles, Enter
  <2>2. UNCHANGED <<activeRun, instanceTerminal, lastOwnedRunId, lastRunTerminal, revision,
                    shutdown, published, aborted, startup, answer, down, finalizing, closed, emitted>>
    BY <2>1 DEF terminalVars, machineVars, historyVars, contractVars, endVars
  <2>3. ~IsShuttingDown /\ ~Cleaned /\ ~cause /\ current = 0 /\ loop = "none" /\ finalizing = "none"
        /\ \A k \in Calls : attempt[k] = "none"
    BY <1>1, <1>2 DEF ShutdownIsKnown, AttemptsAreTrue, EndIsQuiet, IsShuttingDown, ShuttingDown
  <2>4. TableTypes' /\ RecordTypes' /\ Shapes' /\ RunTerminalIsKnown' /\ EmittedIsAcked'
        /\ ReportedOutcomeIsPublished'
    BY <1>1, <2>1, <2>2 DEF TableTypes, RecordTypes, Shapes, RunTerminalIsKnown, EmittedIsAcked,
      ReportedOutcomeIsPublished
  <2>5. KernelTypes'
    BY <1>1, <2>1, <2>2 DEF KernelTypes, DriverStatuses, LoopStates
  <2>6. ShutdownIsKnown' /\ AttemptsAreTrue'
    BY <1>1, <2>1, <2>2, <2>3 DEF ShutdownIsKnown, AttemptsAreTrue, Cleaned, IsDown, IsShuttingDown,
      ShuttingDown
  <2>7. DrivenIsActive'
    BY <1>1, <2>1, <2>2 DEF DrivenIsActive
  <2>8. FailureIsOfTheRun'
    BY <1>1, <2>1, <2>2, <2>3 DEF FailureIsOfTheRun
  <2>9. EndIsQuiet'
    BY <1>1, <2>1, <2>2, <2>3 DEF EndIsQuiet, Cleaned
  <2>10. StopIsTrue'
    BY <1>1, <2>1, <2>2, <2>3 DEF StopIsTrue, NoStopYet, Cleaned
  <2> QED BY <2>4, <2>5, <2>6, <2>7, <2>8, <2>9, <2>10 DEF KernelIndInv
<1>3. CASE /\ ~(startup = "resolved" /\ status = "starting")
           /\ ~cause /\ (startup = "resolved" \/ StartIsCancelled)
  <2>1. UNCHANGED <<terminalVars, runtimeVars, contractVars, loop, cause, attempt, current, queue,
                    promise, driving, endVars, push, stop>>
    BY <1>3 DEF StartSettles
  <2>2. UNCHANGED <<activeRun, instanceTerminal, lastOwnedRunId, lastRunTerminal, revision,
                    shutdown, published, status, aborted, startup, answer, down, finalizing,
                    closed, emitted>>
    BY <2>1 DEF terminalVars, machineVars, historyVars, runtimeVars, contractVars, endVars
  <2>3. KernelTypes' /\ TableTypes' /\ RecordTypes' /\ Shapes'
    BY <1>1, <2>1, <2>2 DEF KernelTypes, TableTypes, RecordTypes, Shapes
  <2>4. ShutdownIsKnown' /\ AttemptsAreTrue'
    BY <1>1, <2>1, <2>2 DEF ShutdownIsKnown, AttemptsAreTrue, Cleaned, IsDown, IsShuttingDown
  <2>5. DrivenIsActive' /\ RunTerminalIsKnown' /\ EmittedIsAcked' /\ ReportedOutcomeIsPublished'
    BY <1>1, <2>1, <2>2 DEF DrivenIsActive, RunTerminalIsKnown, EmittedIsAcked,
      ReportedOutcomeIsPublished
  <2>6. FailureIsOfTheRun' /\ EndIsQuiet' /\ StopIsTrue'
    BY <1>1, <2>1, <2>2 DEF FailureIsOfTheRun, EndIsQuiet, StopIsTrue, NoStopYet, Cleaned,
      IsShuttingDown
  <2> QED BY <2>3, <2>4, <2>5, <2>6 DEF KernelIndInv
<1>4. CASE /\ ~(startup = "resolved" /\ status = "starting")
           /\ ~(~cause /\ (startup = "resolved" \/ StartIsCancelled))
  <2> DEFINE b == IF status \in ShuttingDown THEN status ELSE "failed"
  <2>1. /\ cause' = TRUE /\ promise' = RejectPending /\ JoinsShutdown(b, shutdown) /\ CanAttempt
        /\ UNCHANGED <<TerminalRest, startup, answer, down, loop, driving, finalizing, closed, emitted,
                       push, stop>>
    BY <1>4 DEF StartSettles, endVars
  <2>2. /\ b \in ShuttingDown /\ b \in DriverStatuses /\ (b = "stopped" => status = "stopped")
        /\ status \notin {"stopping", "stopped"} => b = "failed"
    BY DEF ShuttingDown, DriverStatuses
  <2> HIDE DEF b
  <2>3. cause \/ ~IsShuttingDown
    BY <1>1, <1>4 DEF StartIsCancelled, ShutdownIsKnown
  <2>4. ShutsDown(b, shutdown)
    BY <1>1, <2>1, <2>2, ShutdownBegins DEF RecordTypes
  <2>5. ShutdownStep(b, shutdown)
    <3>1. shutdown.failed => /\ shutdown.runId = lastOwnedRunId /\ shutdown.runId \in Runs
      BY <1>1 DEF FailureIsOfTheRun
    <3> QED BY <1>1, <2>1, <2>2, <2>4, <3>1, PendingIsRejected DEF ShutdownStep, RecordTypes, Cleaned
  <2>6. stop.pc = "none" => b = "failed" /\ loop' # "stopping"
    BY <1>1, <2>1, <2>2 DEF StopIsTrue, NoStopYet
  <2>7. StopIsTrue'
    BY <2>1, <2>3, <2>5, <2>6, StopOutlives
  <2> QED BY <2>5, <2>7, ShutdownStepKeeps
<1> QED BY <1>2, <1>3, <1>4

LEMMA StopKeeps ==
  ASSUME KernelIndInv, Stop
  PROVE  KernelIndInv'
<1>1. /\ KernelTypes /\ TableTypes /\ RecordTypes /\ Shapes
      /\ ShutdownIsKnown /\ AttemptsAreTrue /\ DrivenIsActive /\ RunTerminalIsKnown /\ EmittedIsAcked
      /\ FailureIsOfTheRun /\ EndIsQuiet /\ StopIsTrue /\ ReportedOutcomeIsPublished
  BY DEF KernelIndInv
<1>2. /\ stop.pc = "none" \/ stop.pc = "rejected"
      /\ stop'.calls = stop.calls + 1
      /\ UNCHANGED <<TerminalRest, startup, answer, down, cause, loop, driving, finalizing, closed,
                     emitted, push>>
  BY DEF Stop, StopRest
<1>3. UNCHANGED <<activeRun, instanceTerminal, lastOwnedRunId, lastRunTerminal, revision, published>>
  BY <1>2 DEF TerminalRest, historyVars
<1>4. CASE /\ JoinsShutdown(status, shutdown) /\ CanAttempt /\ UNCHANGED promise
           /\ \E pc \in {"joined", "early", "bypass"} :
                /\ stop' = [pc |-> pc, awaited |-> Attempted, calls |-> stop.calls + 1]
                /\ pc = "early" => status \in {"created", "starting"}
           /\ status \in {"failed", "stopping", "created", "starting"} \/ ~IsShuttingDown
  <2>1. PICK pc \in {"joined", "early", "bypass"} :
               /\ stop' = [pc |-> pc, awaited |-> Attempted, calls |-> stop.calls + 1]
               /\ pc = "early" => status \in {"created", "starting"}
    BY <1>4
  <2>2. ShutsDown(status, shutdown)
    <3>1. current # 0 => status \in ShuttingDown
      BY <1>1 DEF ShutdownIsKnown, IsShuttingDown
    <3> QED BY <1>1, <1>4, <3>1, ShutdownBegins DEF RecordTypes, KernelTypes
  <2>3. Attempted \in Calls
    BY <2>2 DEF ShutsDown
  <2>4. stop' \in [pc : StopStates, awaited : Calls \cup {0}, calls : Nat]
    BY <1>1, <2>1, <2>3 DEF RecordTypes, StopStates
  <2>5. ShutdownStep(status, shutdown)
    <3>1. shutdown.failed => /\ shutdown.runId = lastOwnedRunId /\ shutdown.runId \in Runs
      BY <1>1 DEF FailureIsOfTheRun
    <3> QED BY <1>1, <1>2, <1>4, <2>2, <2>4, <3>1 DEF ShutdownStep, KernelTypes, TableTypes, Cleaned
  <2>6. StopIsTrue'
    <3>1. pc = "early" => IsShuttingDown' /\ loop' = "none" /\ ~cause'
      BY <1>1, <1>2, <2>1, <2>2 DEF ShutdownIsKnown, IsShuttingDown, ShuttingDown, ShutsDown
    <3>2. /\ stop'.pc = pc /\ stop'.awaited \in Calls /\ stop'.calls # 0
      BY <1>1, <2>1, <2>3 DEF RecordTypes
    <3> QED BY <3>1, <3>2 DEF StopIsTrue
  <2> QED BY <2>5, <2>6, ShutdownStepKeeps
<1>5. CASE /\ status = "stopped"
           /\ stop' = [pc |-> "resolved", awaited |-> 0, calls |-> stop.calls + 1]
           /\ UNCHANGED <<status, shutdown, aborted, attempt, current, queue, promise>>
  <2>1. /\ KernelTypes' /\ TableTypes' /\ Shapes' /\ ShutdownIsKnown' /\ AttemptsAreTrue'
        /\ DrivenIsActive' /\ RunTerminalIsKnown' /\ EmittedIsAcked' /\ FailureIsOfTheRun'
        /\ EndIsQuiet' /\ ReportedOutcomeIsPublished'
    BY <1>1, <1>2, <1>3, <1>5 DEF KernelTypes, TableTypes, Shapes, ShutdownIsKnown,
      AttemptsAreTrue, DrivenIsActive, RunTerminalIsKnown, EmittedIsAcked, FailureIsOfTheRun,
      EndIsQuiet, ReportedOutcomeIsPublished, Cleaned, IsDown, IsShuttingDown
  <2>2. stop.calls \in Nat /\ stop.calls # 0 /\ Cleaned'
    BY <1>1, <1>2, <1>5 DEF RecordTypes, StopIsTrue, NoStopYet, AttemptsAreTrue, Cleaned
  <2>3. RecordTypes'
    BY <1>1, <1>2, <1>5, <2>2 DEF RecordTypes, StopStates
  <2>4. StopIsTrue'
    BY <1>5, <2>2 DEF StopIsTrue
  <2> QED BY <2>1, <2>3, <2>4 DEF KernelIndInv
<1>6. CASE /\ Accepts /\ Registers(StopCommand)
           /\ stop' = [pc |-> "command", awaited |-> 0, calls |-> stop.calls + 1]
           /\ UNCHANGED <<status, shutdown, aborted, attempt, current>>
  <2>1. /\ queue' = Append(queue, StopCommand) /\ StopCommand \in KernelCommands
        /\ promise' = [promise EXCEPT ![StopCommand] = "pending"]
        /\ ~IsShuttingDown
    BY <1>6 DEF Registers, KernelCommands, Accepts
  <2>2. TableTypes'
    <3>1. queue' \in Seq(KernelCommands)
      BY <1>1, <2>1 DEF TableTypes
    <3> QED BY <1>1, <1>2, <1>6, <2>1, <3>1 DEF TableTypes, PromiseStates
  <2>3. loop # "settled"
    BY <1>1, <2>1 DEF ShutdownIsKnown
  <2>4. /\ KernelTypes' /\ Shapes' /\ ShutdownIsKnown' /\ AttemptsAreTrue'
        /\ DrivenIsActive' /\ RunTerminalIsKnown' /\ EmittedIsAcked' /\ FailureIsOfTheRun'
        /\ EndIsQuiet' /\ ReportedOutcomeIsPublished'
    BY <1>1, <1>2, <1>3, <1>6, <2>1, <2>3 DEF KernelTypes, TableTypes, Shapes, ShutdownIsKnown,
      AttemptsAreTrue, DrivenIsActive, RunTerminalIsKnown, EmittedIsAcked, FailureIsOfTheRun,
      EndIsQuiet, ReportedOutcomeIsPublished, Cleaned, IsDown, IsShuttingDown
  <2>5. RecordTypes'
    BY <1>1, <1>2, <1>6 DEF RecordTypes, StopStates
  <2>6. StopIsTrue'
    BY <1>1, <1>6 DEF StopIsTrue, RecordTypes
  <2> QED BY <2>2, <2>4, <2>5, <2>6 DEF KernelIndInv
<1> QED BY <1>4, <1>5, <1>6 DEF Stop, MayAttempt, CanAttempt, Accepts, shutdownVars

LEMMA StopAnsweredKeeps ==
  ASSUME KernelIndInv, StopAnswered
  PROVE  KernelIndInv'
<1>1. /\ KernelTypes /\ TableTypes /\ RecordTypes /\ Shapes
      /\ ShutdownIsKnown /\ AttemptsAreTrue /\ DrivenIsActive /\ RunTerminalIsKnown /\ EmittedIsAcked
      /\ FailureIsOfTheRun /\ EndIsQuiet /\ StopIsTrue /\ ReportedOutcomeIsPublished
  BY DEF KernelIndInv
<1>2. /\ stop.pc = "command" /\ promise' = promise
      /\ UNCHANGED <<TerminalRest, startup, answer, down, cause, loop, driving, finalizing, closed,
                     emitted, push>>
  BY DEF StopAnswered, StopRest
<1>3. UNCHANGED <<activeRun, instanceTerminal, lastOwnedRunId, lastRunTerminal, revision, published>>
  BY <1>2 DEF TerminalRest, historyVars
<1>4. stop.calls \in Nat /\ stop.calls # 0
  BY <1>1, <1>2 DEF RecordTypes, StopIsTrue
<1>5. CASE StopGoes("bypass", Attempted)
  <2>1. /\ stop'.pc = "bypass" /\ stop'.awaited = Attempted /\ stop'.calls = stop.calls
        /\ stop' = [pc |-> "bypass", awaited |-> Attempted, calls |-> stop.calls]
    BY <1>1, <1>5 DEF StopGoes, RecordTypes
  <2>2. JoinsShutdown(status, shutdown) /\ CanAttempt
    BY <1>1, <2>1 DEF StopAnswered, StopGoes, MayAttempt, CanAttempt, RecordTypes
  <2>3. ShutsDown(status, shutdown)
    <3>1. current # 0 => status \in ShuttingDown
      BY <1>1 DEF ShutdownIsKnown, IsShuttingDown
    <3> QED BY <1>1, <2>2, <3>1, ShutdownBegins DEF RecordTypes, KernelTypes
  <2>4. Attempted \in Calls
    BY <2>3 DEF ShutsDown
  <2>5. ShutdownStep(status, shutdown)
    <3>1. shutdown.failed => /\ shutdown.runId = lastOwnedRunId /\ shutdown.runId \in Runs
      BY <1>1 DEF FailureIsOfTheRun
    <3>2. shutdown.failed => shutdown.failed \/ finalizing = "none"
      OBVIOUS
    <3>3. stop' \in [pc : StopStates, awaited : Calls \cup {0}, calls : Nat]
      BY <1>4, <2>1, <2>4 DEF StopStates
    <3> QED BY <1>1, <1>2, <2>3, <3>1, <3>3 DEF ShutdownStep, KernelTypes, TableTypes, Cleaned
  <2>6. StopIsTrue'
    BY <1>4, <2>1, <2>4 DEF StopIsTrue
  <2> QED BY <2>5, <2>6, ShutdownStepKeeps
<1>6. CASE ~StopGoes("bypass", Attempted)
  <2>1. \/ promise[StopCommand] = "resolved" /\ StopGoes("loop", 0)
        \/ promise[StopCommand] = "rejected" /\ StopGoes("rejected", 0)
    BY <1>6 DEF StopAnswered
  <2>2. /\ stop'.pc \in {"loop", "rejected"} /\ stop'.calls = stop.calls
        /\ stop' = [pc |-> stop'.pc, awaited |-> 0, calls |-> stop.calls]
        /\ stop'.pc = "loop" => Cleaned
    BY <1>1, <2>1 DEF StopGoes, RecordTypes, AttemptsAreTrue
  <2>3. UNCHANGED <<status, shutdown, aborted, attempt, current, queue>>
    BY <2>2 DEF StopAnswered, shutdownVars
  <2>4. /\ KernelTypes' /\ TableTypes' /\ Shapes' /\ ShutdownIsKnown' /\ AttemptsAreTrue'
        /\ DrivenIsActive' /\ RunTerminalIsKnown' /\ EmittedIsAcked' /\ FailureIsOfTheRun'
        /\ EndIsQuiet' /\ ReportedOutcomeIsPublished'
    BY <1>1, <1>2, <1>3, <2>3 DEF KernelTypes, TableTypes, Shapes, ShutdownIsKnown,
      AttemptsAreTrue, DrivenIsActive, RunTerminalIsKnown, EmittedIsAcked, FailureIsOfTheRun,
      EndIsQuiet, ReportedOutcomeIsPublished, Cleaned, IsDown, IsShuttingDown
  <2>5. RecordTypes'
    BY <1>1, <1>2, <1>4, <2>2, <2>3 DEF RecordTypes, StopStates
  <2>6. StopIsTrue'
    BY <1>2, <1>4, <2>2, <2>3 DEF StopIsTrue, Cleaned
  <2> QED BY <2>4, <2>5, <2>6 DEF KernelIndInv
<1> QED BY <1>5, <1>6

-----------------------------------------------------------------------------
(* A step that changes nothing of the kernel.                              *)
LEMMA KernelStutters ==
  ASSUME KernelIndInv, UNCHANGED vars
  PROVE  KernelIndInv'
BY DEF KernelIndInv, vars, kernelVars, terminalVars, machineVars, historyVars, runtimeVars,
  contractVars, startVars, attemptVars, loopVars, endVars, KernelTypes, TableTypes, RecordTypes,
  Shapes, ShutdownIsKnown, AttemptsAreTrue, DrivenIsActive, RunTerminalIsKnown, EmittedIsAcked,
  FailureIsOfTheRun, EndIsQuiet, StopIsTrue, NoStopYet, ReportedOutcomeIsPublished, Cleaned, IsDown,
  IsShuttingDown

LEMMA KernelStep ==
  ASSUME KernelIndInv, [KernelNext]_vars
  PROVE  KernelIndInv'
<1>1. CASE UNCHANGED vars
  BY <1>1, KernelStutters
<1>2. CASE Start \/ FactoryThrows \/ BackendFails \/ LoopEnds \/ TakesInput \/ TakesStop \/ Stop \/ Cancels
  BY <1>2, StartKeeps, FactoryThrowsKeeps, BackendFailsKeeps, LoopEndsKeeps, TakesInputKeeps,
    TakesStopKeeps, StopKeeps, CancelsKeeps
<1>3. CASE \E c \in Inputs : Dispatch(c)
  BY <1>3, DispatchKeeps
<1>4. CASE \E p \in Pushes : PushBegins(p) \/ TerminalPasses(p) \/ Delivered(p) \/ SinkFails(p)
  BY <1>4, PushBeginsKeeps, TerminalPassesKeeps, DeliveredKeeps, SinkFailsKeeps
<1>5. CASE \E k \in Calls : PermissionSettles(k) \/ BackendSettles(k) \/ AttemptEnds(k)
  BY <1>5, PermissionSettlesKeeps, BackendSettlesKeeps, AttemptEndsKeeps
<1>6. CASE \/ EventsClose \/ StartSettles \/ StartFails \/ DeferredStopCompletes
           \/ InputSettles \/ StopHandled \/ LoopCatches \/ LoopSettles
  BY <1>6, EventsCloseKeeps, StartSettlesKeeps, StartFailsKeeps, DeferredStopCompletesKeeps,
    InputSettlesKeeps, StopHandledKeeps, LoopCatchesKeeps, LoopSettlesKeeps
<1>7. CASE StopAnswered \/ StopAwaits \/ StopEnds \/ LifecycleSteps \/ BackendGoesDown
  BY <1>7, StopAnsweredKeeps, StopAwaitsKeeps, StopEndsKeeps, LifecycleStepsKeeps,
    BackendGoesDownKeeps
<1> QED BY <1>1, <1>2, <1>3, <1>4, <1>5, <1>6, <1>7 DEF KernelNext

LEMMA KernelBegins == KernelInit => KernelIndInv
<1> SUFFICES ASSUME KernelInit PROVE KernelIndInv
  OBVIOUS
<1>1. /\ activeRun = NullRun /\ instanceTerminal = [phase |-> "open"] /\ lastRunTerminal = NoStatus
      /\ revision = 0 /\ shutdown = NoShutdown /\ emitted = {}
      /\ status = "created" /\ startup = "none" /\ aborted = FALSE /\ down = FALSE
      /\ answer = [c \in Calls |-> "idle"] /\ cause = FALSE /\ closed = FALSE
      /\ attempt = [k \in Calls |-> "none"] /\ current = 0
      /\ queue = << >> /\ promise = [c \in KernelCommands |-> "none"]
      /\ loop = "none" /\ driving = "none" /\ finalizing = "none"
      /\ push = [p \in Pushes |-> NoPush] /\ stop = [pc |-> "none", awaited |-> 0, calls |-> 0]
  BY DEF KernelInit, TerminalInit, RuntimeInit, ContractInit
<1>2. KernelTypes
  BY <1>1 DEF KernelTypes, DriverStatuses, LoopStates
<1>3. TableTypes
  BY <1>1 DEF TableTypes, AttemptStates, PromiseStates
<1>4. RecordTypes
  BY <1>1 DEF RecordTypes, NoShutdown, Shutdowns, StopStates
<1>5. Shapes
  BY <1>1 DEF Shapes, NullRun, NoPush
<1>6. ShutdownIsKnown /\ AttemptsAreTrue
  BY <1>1 DEF ShutdownIsKnown, AttemptsAreTrue, NoShutdown, Cleaned, IsDown, IsShuttingDown,
    ShuttingDown, KernelCommands
<1>7. DrivenIsActive /\ RunTerminalIsKnown /\ EmittedIsAcked
  BY <1>1 DEF DrivenIsActive, RunTerminalIsKnown, EmittedIsAcked, NullRun, Null, NoPush
<1>8. FailureIsOfTheRun /\ EndIsQuiet /\ StopIsTrue
  BY <1>1 DEF FailureIsOfTheRun, EndIsQuiet, StopIsTrue, NoStopYet, NoShutdown, KernelCommands
<1>9. ReportedOutcomeIsPublished
  BY <1>1 DEF ReportedOutcomeIsPublished, NullRun, Null
<1> QED BY <1>2, <1>3, <1>4, <1>5, <1>6, <1>7, <1>8, <1>9 DEF KernelIndInv

(* The inductive invariant of the kernel holds of every behaviour.         *)
THEOREM KernelInvariant == KernelSpec => []KernelIndInv
<1>1. KernelInit => KernelIndInv
  BY KernelBegins
<1>2. KernelIndInv /\ [KernelNext]_vars => KernelIndInv'
  BY KernelStep
<1> QED BY <1>1, <1>2, PTL DEF KernelSpec

(* Nobody waits for a dead driver: whatever the host dispatched, however   *)
(* the queue, the failure and the verdicts raced, once the loop of the     *)
(* dispatcher is over every promise of dispatch was settled.               *)
THEOREM NothingIsLeftPending == KernelSpec => []NothingLeftPending
<1>1. KernelIndInv => NothingLeftPending
  BY DEF KernelIndInv, EndIsQuiet, NothingLeftPending
<1> QED BY <1>1, KernelInvariant, PTL

(* The failure is told before the events close, and every run has one      *)
(* terminal among them, however many pushes, shutdowns and stops raced; a  *)
(* stop that resolves found the backend down, and the first one no failure.*)
THEOREM TheFailureIsTold == KernelSpec => []FailureIsTold
<1>1. KernelIndInv => FailureIsTold
  BY DEF KernelIndInv, EndIsQuiet, EmittedIsAcked, StopIsTrue, AttemptsAreTrue, IsDown, FailureIsTold
<1> QED BY <1>1, KernelInvariant, PTL

(* Embedded in the kernel, the terminal state machine still reports of a   *)
(* released run only what was acknowledged for that very drive of it.      *)
THEOREM KernelReportsWhatIsPublished == KernelSpec => []ReportedOutcomeIsPublished
<1>1. KernelIndInv => ReportedOutcomeIsPublished
  BY DEF KernelIndInv
<1> QED BY <1>1, KernelInvariant, PTL
=============================================================================
