---------------------------- MODULE TerminalState ----------------------------
(***************************************************************************)
(* DriverTerminalStateMachine (core/driver-terminal-state.ts): the one     *)
(* place where the driver decides how a run, and the driver instance       *)
(* itself, end.  Every entry point that names a run takes a ticket, the    *)
(* (revision, run id) pair handed out by beginRun; callers keep tickets    *)
(* across awaits, so any ticket ever issued may be presented at any time.  *)
(* A call that throws changes nothing and is therefore not a step.         *)
(*                                                                         *)
(* An event is abstracted to its identity: run, status, source event id.   *)
(* A receipt is the source event id and the sequence number the host gave. *)
(***************************************************************************)
EXTENDS Naturals

CONSTANTS
  Runs,                    \* run ids
  SourceIds,               \* source event ids of run terminals
  Seqs,                    \* sequence numbers a receipt can carry
  NoRun,                   \* the null run id
  MaxRevision              \* bound on the runs begun (the code has none)

ASSUME NoRunAssumption == NoRun \notin Runs
ASSUME MaxRevisionAssumption == MaxRevision \in Nat

VARIABLES
  activeRun,               \* #activeRun: the run being driven, or NullRun
  instanceTerminal,        \* #instanceTerminal
  lastOwnedRunId,          \* #lastOwnedRunId
  lastRunTerminal,         \* #lastRunTerminal: null or [runId, status]
  revision,                \* #revision
  shutdown,                \* #shutdown
  issued,                  \* history: every ticket handed out
  claims,                  \* history: revisions whose cancellation was claimed
  published                \* history: every (revision, terminal) acknowledged

machineVars == <<activeRun, instanceTerminal, lastOwnedRunId, lastRunTerminal,
                 revision, shutdown>>
historyVars == <<issued, claims, published>>
terminalVars == <<machineVars, historyVars>>

Statuses == {"completed", "failed", "cancelled"}
CancellationSources == {"turn.cancel", "session.stop", "shutdown"}

Identity == [runId : Runs, status : Statuses, sourceEventId : SourceIds]
Receipt == [eventId : SourceIds, seq : Seqs]
Ticket == [revision : Nat, runId : Runs]
InstanceTerminal == [runId : Runs, status : {"completed", "failed"}]

Null == [phase |-> "null"]
RunTerminal == {Null} \cup [phase : {"selected"}, value : Identity]
                      \cup [phase : {"acked"}, value : Identity, receipt : Receipt]

(***************************************************************************)
(* cancellationClaim and the abort reason of the run's signal: unclaimed,  *)
(* claimed so that the session may still be resumed (turn.cancel), or      *)
(* claimed with preventResume (session.stop, shutdown).                    *)
(***************************************************************************)
ClaimStates == {"unclaimed", "resumable", "final"}
ActiveRun == [runId : Runs, revision : Nat, claim : ClaimStates, terminal : RunTerminal]
NullRun == [runId |-> NoRun, revision |-> 0, claim |-> "unclaimed", terminal |-> Null]
NoStatus == [runId |-> NoRun, status |-> "null"]

NoShutdown == [cleanup |-> "unrequested", failed |-> FALSE, runId |-> NoRun]
PendingShutdown == [cleanup |-> "pending", failed |-> FALSE, runId |-> NoRun]

TerminalInit ==
  /\ activeRun = NullRun
  /\ instanceTerminal = [phase |-> "open"]
  /\ lastOwnedRunId = NoRun
  /\ lastRunTerminal = NoStatus
  /\ revision = 0
  /\ shutdown = NoShutdown
  /\ issued = {}
  /\ claims = {}
  /\ published = {}

(* Mutant: the ticket is matched by its run id alone. *)
RequireRunById(ticket) == activeRun # NullRun /\ activeRun.runId = ticket.runId

RequireRun(ticket) ==
  /\ activeRun # NullRun
  /\ activeRun.revision = ticket.revision
  /\ activeRun.runId = ticket.runId

CurrentRunId == activeRun.runId

BeginRun(run) ==
  /\ activeRun = NullRun
  /\ instanceTerminal.phase = "open"
  /\ revision' = revision + 1
  /\ lastOwnedRunId' = run
  /\ lastRunTerminal' = NoStatus
  /\ activeRun' = [runId |-> run, revision |-> revision + 1,
                   claim |-> "unclaimed", terminal |-> Null]
  /\ issued' = issued \cup {[revision |-> revision + 1, runId |-> run]}
  /\ UNCHANGED <<instanceTerminal, shutdown, claims, published>>

(* Mutant: the claim does not look at the selected terminal. *)
ClaimResultAfterSelection(ticket) ==
  IF activeRun.claim # "unclaimed" THEN "already_claimed" ELSE "claimed"

ClaimResult(ticket) ==
  IF activeRun.terminal # Null THEN "terminal_selected"
  ELSE IF activeRun.claim # "unclaimed" THEN "already_claimed" ELSE "claimed"

ClaimAfter(ticket, source) ==
  IF ClaimResult(ticket) = "terminal_selected" THEN activeRun.claim
  ELSE IF source # "turn.cancel" THEN "final"
  ELSE IF ClaimResult(ticket) = "already_claimed" THEN activeRun.claim ELSE "resumable"

ClaimCancellation(ticket, source) ==
  /\ RequireRun(ticket)
  /\ activeRun' = [activeRun EXCEPT !.claim = ClaimAfter(ticket, source)]
  /\ claims' = IF ClaimResult(ticket) = "claimed" THEN claims \cup {ticket.revision}
                                                  ELSE claims
  /\ UNCHANGED <<instanceTerminal, lastOwnedRunId, lastRunTerminal, revision, shutdown,
                 issued, published>>

RememberOwnedRunId(run) ==
  /\ activeRun = NullRun \/ activeRun.runId = run
  /\ lastOwnedRunId' = run
  /\ UNCHANGED <<activeRun, instanceTerminal, lastRunTerminal, revision, shutdown,
                 historyVars>>

SelectionResult(terminal) ==
  IF activeRun.terminal = Null
  THEN IF activeRun.claim # "unclaimed" /\ terminal.status = "completed"
       THEN "cancelled" ELSE "selected"
  ELSE IF activeRun.terminal.value # terminal THEN "conflict"
  ELSE IF activeRun.terminal.phase = "acked" THEN "acked" ELSE "pending"

SelectRunTerminal(ticket, terminal) ==
  /\ RequireRun(ticket)
  /\ terminal.runId = ticket.runId
  /\ SelectionResult(terminal) = "selected"
  /\ activeRun' = [activeRun EXCEPT !.terminal = [phase |-> "selected", value |-> terminal]]
  /\ UNCHANGED <<instanceTerminal, lastOwnedRunId, lastRunTerminal, revision, shutdown,
                 historyVars>>

(* A repeated acknowledgement with the same receipt returns without a change. *)
AckRunTerminal(ticket, receipt) ==
  /\ RequireRun(ticket)
  /\ activeRun.terminal.phase = "selected"
  /\ receipt.eventId = activeRun.terminal.value.sourceEventId
  /\ activeRun' = [activeRun EXCEPT !.terminal =
       [phase |-> "acked", value |-> activeRun.terminal.value, receipt |-> receipt]]
  /\ published' = published \cup {[revision |-> ticket.revision,
                                   value |-> activeRun.terminal.value]}
  /\ UNCHANGED <<instanceTerminal, lastOwnedRunId, lastRunTerminal, revision, shutdown,
                 issued, claims>>

AbandonRunTerminal(ticket, terminal) ==
  /\ RequireRun(ticket)
  /\ activeRun.terminal = [phase |-> "selected", value |-> terminal]
  /\ activeRun' = [activeRun EXCEPT !.terminal = Null]
  /\ UNCHANGED <<instanceTerminal, lastOwnedRunId, lastRunTerminal, revision, shutdown,
                 historyVars>>

(* acknowledgedRunTerminal(runId): the status, or "null". *)
AcknowledgedRunTerminal(run) ==
  IF activeRun.terminal.phase = "acked" /\ activeRun.runId = run
  THEN activeRun.terminal.value.status
  ELSE IF lastRunTerminal.runId = run THEN lastRunTerminal.status ELSE "null"

(* settleInput: how the input of the active run settles, given how the     *)
(* backend's promise did: "resolved", "cancelled" or "rejected".           *)
SettleInput(outcome) ==
  IF /\ outcome # "rejected" /\ activeRun.terminal.phase = "acked"
     /\ activeRun.terminal.value.status = IF outcome = "resolved" THEN "completed" ELSE "cancelled"
  THEN outcome ELSE "failed"

ReleaseRun(ticket, reason) ==
  /\ RequireRun(ticket)
  /\ reason = "command_acked" => activeRun.terminal.phase = "acked"
  /\ lastRunTerminal' =
       IF activeRun.terminal.phase = "acked"
       THEN [runId |-> activeRun.runId, status |-> activeRun.terminal.value.status]
       ELSE NoStatus
  /\ lastOwnedRunId' = ticket.runId
  /\ activeRun' = NullRun
  /\ UNCHANGED <<instanceTerminal, revision, shutdown, historyVars>>

RequestShutdown ==
  /\ shutdown' = IF shutdown = NoShutdown THEN PendingShutdown ELSE shutdown
  /\ UNCHANGED <<activeRun, instanceTerminal, lastOwnedRunId, lastRunTerminal, revision,
                 historyVars>>

(* recordFailure(error, runId = currentRunId()): the first failure is kept. *)
RecordFailure(run) ==
  /\ shutdown' = IF shutdown.failed THEN shutdown
                 ELSE [cleanup |-> IF shutdown = NoShutdown THEN "pending"
                                                            ELSE shutdown.cleanup,
                       failed |-> TRUE, runId |-> run]
  /\ UNCHANGED <<activeRun, instanceTerminal, lastOwnedRunId, lastRunTerminal, revision,
                 historyVars>>

MarkCleanupCompleted ==
  /\ shutdown # NoShutdown
  /\ shutdown' = [shutdown EXCEPT !.cleanup = "completed"]
  /\ UNCHANGED <<activeRun, instanceTerminal, lastOwnedRunId, lastRunTerminal, revision,
                 historyVars>>

SelectInstanceTerminal(terminal) ==
  /\ instanceTerminal.phase = "open"
  /\ instanceTerminal' = [phase |-> "selected", terminal |-> terminal]
  /\ UNCHANGED <<activeRun, lastOwnedRunId, lastRunTerminal, revision, shutdown,
                 historyVars>>

AckInstanceTerminal(terminal) ==
  /\ instanceTerminal.phase # "open"
  /\ instanceTerminal.terminal = terminal
  /\ instanceTerminal' = [phase |-> "acked", terminal |-> terminal]
  /\ UNCHANGED <<activeRun, lastOwnedRunId, lastRunTerminal, revision, shutdown,
                 historyVars>>

AbandonInstanceTerminal(terminal) ==
  /\ instanceTerminal = [phase |-> "selected", terminal |-> terminal]
  /\ instanceTerminal' = [phase |-> "open"]
  /\ UNCHANGED <<activeRun, lastOwnedRunId, lastRunTerminal, revision, shutdown,
                 historyVars>>

(* terminalRunId(fallback): the run an instance terminal is attributed to. *)
TerminalRunId(fallback) ==
  IF instanceTerminal.phase # "open" THEN instanceTerminal.terminal.runId
  ELSE IF shutdown.runId # NoRun THEN shutdown.runId
  ELSE IF activeRun # NullRun THEN activeRun.runId
  ELSE IF lastOwnedRunId # NoRun THEN lastOwnedRunId ELSE fallback

TicketStep ==
  \E ticket \in issued :
    \/ \E source \in CancellationSources : ClaimCancellation(ticket, source)
    \/ \E terminal \in Identity :
         SelectRunTerminal(ticket, terminal) \/ AbandonRunTerminal(ticket, terminal)
    \/ \E receipt \in Receipt : AckRunTerminal(ticket, receipt)
    \/ \E reason \in {"command_acked", "driver_failing"} : ReleaseRun(ticket, reason)

InstanceStep ==
  \/ RequestShutdown
  \/ \E run \in Runs \cup {NoRun} : RecordFailure(run)
  \/ MarkCleanupCompleted
  \/ \E terminal \in InstanceTerminal :
       \/ SelectInstanceTerminal(terminal)
       \/ AckInstanceTerminal(terminal)
       \/ AbandonInstanceTerminal(terminal)

TerminalNext ==
  \/ \E run \in Runs : \/ (revision < MaxRevision /\ BeginRun(run))
                       \/ RememberOwnedRunId(run)
  \/ TicketStep
  \/ InstanceStep

TerminalSpec == TerminalInit /\ [][TerminalNext]_terminalVars

-----------------------------------------------------------------------------
(* Every variable holds a value of the type its declaration gives it. *)
TerminalTypeOK ==
  /\ activeRun \in ActiveRun \cup {NullRun}
  /\ instanceTerminal \in [phase : {"open"}]
                          \cup [phase : {"selected", "acked"}, terminal : InstanceTerminal]
  /\ lastOwnedRunId \in Runs \cup {NoRun}
  /\ lastRunTerminal \in [runId : Runs, status : Statuses] \cup {NoStatus}
  /\ revision \in Nat
  /\ shutdown \in [cleanup : {"unrequested", "pending", "completed"},
                   failed : BOOLEAN, runId : Runs \cup {NoRun}]
  /\ issued \subseteq Ticket
  /\ claims \subseteq Nat
  /\ published \subseteq [revision : Nat, value : Identity]

(* A driven run is published with one terminal: whatever tickets, retries, *)
(* abandoned selections and late acknowledgements the callers combine, two *)
(* acknowledged terminals of one revision are the same terminal.           *)
OneTerminalPerRun ==
  \A a, b \in published : a.revision = b.revision => a.value = b.value

(* Once the cancellation of a run was claimed, "completed" is never what   *)
(* the host acknowledged for it: the claim and the selection exclude each  *)
(* other across abandoned selections and repeated attempts.                *)
CancelledNeverCompleted ==
  \A p \in published : p.revision \in claims => p.value.status # "completed"

(* What acknowledgedRunTerminal reports for a run that was released is the *)
(* status the host acknowledged for that very drive of the run, never that *)
(* of an earlier drive of the same id, nor of a selection never published. *)
ReportedOutcomeIsPublished ==
  /\ lastRunTerminal # NoStatus =>
       /\ activeRun = NullRun
       /\ \E p \in published : /\ p.revision = revision
                               /\ p.value.runId = lastRunTerminal.runId
                               /\ p.value.status = lastRunTerminal.status
  /\ activeRun.terminal.phase = "acked" =>
       [revision |-> activeRun.revision, value |-> activeRun.terminal.value] \in published

(* A recorded failure that names a run keeps the blame: until an instance  *)
(* terminal is selected, no later run, handshake or failure changes the    *)
(* run the instance terminal will be attributed to.                        *)
FirstFailureKeepsBlame ==
  [][ shutdown.failed /\ shutdown.runId # NoRun
        /\ instanceTerminal.phase = "open" /\ instanceTerminal'.phase = "open"
      => TerminalRunId(NoRun)' = TerminalRunId(NoRun) ]_terminalVars

(* An acknowledged instance terminal is the last word of the driver: it    *)
(* never changes and no run begins after it.                               *)
InstanceTerminalIsLast ==
  [][ instanceTerminal.phase = "acked"
      => instanceTerminal' = instanceTerminal /\ issued' = issued ]_terminalVars

(* The machine implements the abstract promise about run outcomes. *)
Outcome == INSTANCE RunOutcome WITH
  Status <- Statuses,
  opened <- revision,
  decided <- {[revision |-> p.revision, status |-> p.value.status] : p \in published}

RefinesRunOutcome == Outcome!OutcomeSpec
=============================================================================
