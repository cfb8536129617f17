------------------------- MODULE TerminalStateProofs -------------------------
(* Proofs about DriverTerminalStateMachine for any runs, ids and bound. *)
EXTENDS TerminalState, TLAPS

(***************************************************************************)
(* The inductive invariant: history variables speak of revisions already   *)
(* begun, and for the run being driven they agree with the machine.        *)
(***************************************************************************)
ActiveIsLatest == activeRun # NullRun => activeRun.revision = revision /\ revision > 0

HistoryBounded ==
  /\ \A t \in issued : t.revision <= revision
  /\ \A p \in published : p.revision <= revision
  /\ \A n \in claims : n <= revision

ClaimAgrees ==
  activeRun # NullRun =>
    /\ activeRun.claim # "unclaimed" <=> revision \in claims
    /\ activeRun.terminal # Null /\ revision \in claims =>
         activeRun.terminal.value.status # "completed"

PublicationAgrees ==
  activeRun # NullRun =>
    /\ \A p \in published : p.revision = revision =>
         activeRun.terminal.phase = "acked" /\ activeRun.terminal.value = p.value
    /\ activeRun.terminal.phase = "acked" =>
         [revision |-> revision, value |-> activeRun.terminal.value] \in published

TerminalRunMatches ==
  activeRun.terminal # Null => activeRun.terminal.value.runId = activeRun.runId

LastAgrees ==
  lastRunTerminal # NoStatus =>
    /\ activeRun = NullRun
    /\ \E p \in published : /\ p.revision = revision
                            /\ p.value.runId = lastRunTerminal.runId
                            /\ p.value.status = lastRunTerminal.status

IInv ==
  /\ TerminalTypeOK
  /\ ActiveIsLatest
  /\ HistoryBounded
  /\ ClaimAgrees
  /\ PublicationAgrees
  /\ TerminalRunMatches
  /\ LastAgrees
  /\ OneTerminalPerRun
  /\ CancelledNeverCompleted

(* The null run is no run: its id is not one. *)
LEMMA NullRunIsNoRun == NullRun \notin ActiveRun /\ Null \in RunTerminal
  BY NoRunAssumption DEF NullRun, ActiveRun, RunTerminal

(* A terminal with a value carries an identity. *)
LEMMA TerminalShape ==
  ASSUME NEW t \in RunTerminal
  PROVE  /\ t.phase \in {"null", "selected", "acked"}
         /\ t.phase = "null" <=> t = Null
         /\ t # Null => t.value \in Identity
  BY DEF RunTerminal, Null

LEMMA InitIInv == TerminalInit => IInv
<1> SUFFICES ASSUME TerminalInit PROVE IInv
    OBVIOUS
<1>1. TerminalTypeOK
    BY DEF TerminalInit, TerminalTypeOK, NoShutdown
<1>2. QED
    BY <1>1 DEF TerminalInit, IInv, ActiveIsLatest, HistoryBounded, ClaimAgrees,
      PublicationAgrees, TerminalRunMatches, LastAgrees, OneTerminalPerRun,
      CancelledNeverCompleted, NullRun, Null

(* Opening a run makes a fresh revision, about which no history speaks. *)
LEMMA BeginRunIInv == ASSUME IInv, NEW run \in Runs, BeginRun(run) PROVE IInv'
<1>0. /\ activeRun' = [runId |-> run, revision |-> revision + 1,
                       claim |-> "unclaimed", terminal |-> Null]
      /\ revision' = revision + 1 /\ revision \in Nat /\ lastRunTerminal' = NoStatus
      /\ claims' = claims /\ published' = published
      /\ issued' = issued \cup {[revision |-> revision + 1, runId |-> run]}
    BY DEF IInv, TerminalTypeOK, BeginRun
<1>1. TerminalTypeOK'
  <2>1. activeRun' \in ActiveRun
      BY <1>0, NullRunIsNoRun DEF ActiveRun, ClaimStates
  <2>2. issued' \subseteq Ticket
      BY <1>0 DEF IInv, TerminalTypeOK, Ticket
  <2>3. QED
      BY <1>0, <2>1, <2>2 DEF IInv, TerminalTypeOK, BeginRun
<1>2. ActiveIsLatest'
    BY <1>0 DEF ActiveIsLatest
<1>3. HistoryBounded'
  <2>1. \A t \in issued : t.revision \in Nat /\ t.revision <= revision
      BY DEF IInv, TerminalTypeOK, HistoryBounded, Ticket
  <2>2. \A p \in published : p.revision \in Nat /\ p.revision <= revision
      BY DEF IInv, TerminalTypeOK, HistoryBounded
  <2>3. \A n \in claims : n \in Nat /\ n <= revision
      BY DEF IInv, TerminalTypeOK, HistoryBounded
  <2>4. QED
      BY <1>0, <2>1, <2>2, <2>3 DEF HistoryBounded
<1>4. revision + 1 \notin claims /\ \A p \in published : p.revision # revision + 1
    BY <1>0 DEF IInv, HistoryBounded, TerminalTypeOK
<1>5. ClaimAgrees'
    BY <1>0, <1>4 DEF ClaimAgrees
<1>6. PublicationAgrees'
    BY <1>0, <1>4 DEF PublicationAgrees, Null
<1>7. TerminalRunMatches' /\ LastAgrees' /\ OneTerminalPerRun' /\ CancelledNeverCompleted'
    BY <1>0 DEF IInv, TerminalRunMatches, LastAgrees, OneTerminalPerRun,
      CancelledNeverCompleted
<1>8. QED
    BY <1>1, <1>2, <1>3, <1>5, <1>6, <1>7 DEF IInv

(* A claim is recorded only while no terminal is selected. *)
LEMMA ClaimCancellationIInv ==
  ASSUME IInv, NEW ticket \in issued, NEW source \in CancellationSources,
         ClaimCancellation(ticket, source)
  PROVE  IInv'
<1> DEFINE c == activeRun'.claim
<1>0. /\ activeRun \in ActiveRun /\ activeRun # NullRun
      /\ ticket.revision = revision /\ activeRun.revision = revision /\ revision \in Nat
    BY NullRunIsNoRun DEF IInv, TerminalTypeOK, ActiveIsLatest, ClaimCancellation, RequireRun
<1>1. /\ activeRun' = [activeRun EXCEPT !.claim = c] /\ c \in ClaimStates
      /\ c = "unclaimed" => activeRun.claim = "unclaimed" /\ activeRun.terminal # Null
    BY <1>0 DEF ClaimCancellation, ClaimAfter, ClaimResult, ActiveRun, ClaimStates, CancellationSources
<1>2. activeRun' \in ActiveRun /\ activeRun' # NullRun /\ activeRun'.revision = revision
      /\ activeRun'.terminal = activeRun.terminal
    BY <1>0, <1>1, NullRunIsNoRun DEF ActiveRun
<1>3. UNCHANGED <<instanceTerminal, lastOwnedRunId, lastRunTerminal, revision, shutdown,
                  issued, published>>
    BY DEF ClaimCancellation
<1>4. TerminalTypeOK'
  <2>1. claims' \subseteq Nat
      BY <1>0 DEF ClaimCancellation, IInv, TerminalTypeOK
  <2>2. QED
      BY <1>2, <1>3, <2>1 DEF IInv, TerminalTypeOK
<1>5. /\ ActiveIsLatest' /\ PublicationAgrees' /\ LastAgrees' /\ OneTerminalPerRun'
      /\ TerminalRunMatches'
    BY <1>0, <1>1, <1>2, <1>3 DEF IInv, ActiveIsLatest, PublicationAgrees, LastAgrees,
      OneTerminalPerRun, TerminalRunMatches, ActiveRun
<1>6. HistoryBounded'
    BY <1>0, <1>3 DEF IInv, HistoryBounded, ClaimCancellation
<1>7. CASE ClaimResult(ticket) = "claimed"
  <2>1. claims' = claims \cup {revision} /\ activeRun.terminal = Null /\ c # "unclaimed"
      BY <1>0, <1>1, <1>7 DEF ClaimCancellation, ClaimResult
  <2>2. \A p \in published : p.revision # revision
      BY <1>0, <2>1 DEF IInv, PublicationAgrees, Null
  <2>3. ClaimAgrees' /\ CancelledNeverCompleted'
      BY <1>2, <1>3, <2>1, <2>2 DEF IInv, ClaimAgrees, CancelledNeverCompleted
  <2>4. QED
      BY <1>4, <1>5, <1>6, <2>3 DEF IInv
<1>8. CASE ClaimResult(ticket) # "claimed"
  <2>1. claims' = claims
      BY <1>8 DEF ClaimCancellation
  <2>2. c # "unclaimed" <=> activeRun.claim # "unclaimed"
      BY <1>0, <1>1, <1>8 DEF ClaimCancellation, ClaimAfter, ClaimResult, ActiveRun
  <2>3. ClaimAgrees' /\ CancelledNeverCompleted'
      BY <1>0, <1>2, <1>3, <2>1, <2>2 DEF IInv, ClaimAgrees, CancelledNeverCompleted
  <2>4. QED
      BY <1>4, <1>5, <1>6, <2>3 DEF IInv
<1>9. QED
    BY <1>7, <1>8

(* A selection respects the claim; nothing is published yet. *)
LEMMA SelectRunTerminalIInv ==
  ASSUME IInv, NEW ticket \in issued, NEW terminal \in Identity,
         SelectRunTerminal(ticket, terminal)
  PROVE  IInv'
<1>0. /\ activeRun \in ActiveRun /\ activeRun # NullRun /\ activeRun.revision = revision
    BY NullRunIsNoRun DEF IInv, TerminalTypeOK, ActiveIsLatest, SelectRunTerminal, RequireRun
<1>1. /\ activeRun.terminal = Null
      /\ activeRun.claim # "unclaimed" => terminal.status # "completed"
      /\ activeRun' = [activeRun EXCEPT !.terminal = [phase |-> "selected", value |-> terminal]]
      /\ UNCHANGED <<instanceTerminal, lastOwnedRunId, lastRunTerminal, revision, shutdown,
                     issued, claims, published>>
    BY <1>0, TerminalShape DEF SelectRunTerminal, SelectionResult, historyVars, ActiveRun, RunTerminal
<1>2. activeRun' \in ActiveRun /\ activeRun' # NullRun /\ activeRun'.revision = revision
      /\ activeRun'.claim = activeRun.claim
      /\ activeRun'.terminal = [phase |-> "selected", value |-> terminal]
    BY <1>0, <1>1, NullRunIsNoRun DEF ActiveRun, RunTerminal
<1>3. TerminalTypeOK' /\ HistoryBounded'
    BY <1>1, <1>2 DEF IInv, TerminalTypeOK, HistoryBounded
<1>4. \A p \in published : p.revision # revision
    BY <1>0, <1>1 DEF IInv, PublicationAgrees, Null
<1>5. ActiveIsLatest' /\ ClaimAgrees' /\ PublicationAgrees'
    BY <1>0, <1>1, <1>2, <1>4 DEF IInv, ActiveIsLatest, ClaimAgrees, PublicationAgrees
<1>6. LastAgrees' /\ OneTerminalPerRun' /\ CancelledNeverCompleted'
    BY <1>0, <1>1, <1>2 DEF IInv, LastAgrees, OneTerminalPerRun, CancelledNeverCompleted
<1>6a. TerminalRunMatches'
    BY <1>0, <1>1, <1>2 DEF TerminalRunMatches, SelectRunTerminal, RequireRun, ActiveRun
<1>7. QED
    BY <1>6a, <1>3, <1>5, <1>6 DEF IInv

(* What is published is the selected terminal of the latest revision. *)
LEMMA AckRunTerminalIInv ==
  ASSUME IInv, NEW ticket \in issued, NEW receipt \in Receipt,
         AckRunTerminal(ticket, receipt)
  PROVE  IInv'
<1> DEFINE v == activeRun.terminal.value
<1> DEFINE p0 == [revision |-> revision, value |-> v]
<1>0. /\ activeRun \in ActiveRun /\ activeRun # NullRun /\ revision \in Nat
      /\ ticket.revision = revision /\ activeRun.revision = revision
    BY NullRunIsNoRun DEF IInv, TerminalTypeOK, ActiveIsLatest, AckRunTerminal, RequireRun
<1>1. /\ activeRun.terminal.phase = "selected" /\ v \in Identity /\ activeRun.terminal # Null
    BY <1>0, TerminalShape DEF AckRunTerminal, ActiveRun, Null
<1>2. /\ activeRun' = [activeRun EXCEPT !.terminal =
                        [phase |-> "acked", value |-> v, receipt |-> receipt]]
      /\ published' = published \cup {p0}
      /\ UNCHANGED <<instanceTerminal, lastOwnedRunId, lastRunTerminal, revision, shutdown,
                     issued, claims>>
    BY <1>0 DEF AckRunTerminal
<1>3. activeRun' \in ActiveRun /\ activeRun' # NullRun /\ activeRun'.revision = revision
      /\ activeRun'.claim = activeRun.claim
      /\ activeRun'.terminal = [phase |-> "acked", value |-> v, receipt |-> receipt]
    BY <1>0, <1>1, <1>2, NullRunIsNoRun DEF ActiveRun, RunTerminal
<1>4. TerminalTypeOK'
  <2>1. published' \subseteq [revision : Nat, value : Identity]
      BY <1>0, <1>1, <1>2 DEF IInv, TerminalTypeOK
  <2>2. QED
      BY <1>2, <1>3, <2>1 DEF IInv, TerminalTypeOK
<1>5. \A p \in published : p.revision # revision
    BY <1>0, <1>1 DEF IInv, PublicationAgrees
<1>6. revision \in claims => v.status # "completed"
    BY <1>0, <1>1 DEF IInv, ClaimAgrees
<1>7. HistoryBounded'
    BY <1>0, <1>2 DEF IInv, HistoryBounded
<1>8. ActiveIsLatest' /\ ClaimAgrees' /\ PublicationAgrees'
    BY <1>0, <1>1, <1>2, <1>3, <1>5, <1>6 DEF IInv, ActiveIsLatest, ClaimAgrees, PublicationAgrees
<1>9. LastAgrees' /\ OneTerminalPerRun' /\ CancelledNeverCompleted'
    BY <1>0, <1>2, <1>3, <1>5, <1>6
      DEF IInv, LastAgrees, OneTerminalPerRun, CancelledNeverCompleted
<1>9a. TerminalRunMatches'
    BY <1>0, <1>1, <1>2, <1>3 DEF IInv, TerminalRunMatches, ActiveRun
<1>10. QED
    BY <1>9a, <1>4, <1>7, <1>8, <1>9 DEF IInv

(* Abandoning returns the run to having no terminal, and none was published. *)
LEMMA AbandonRunTerminalIInv ==
  ASSUME IInv, NEW ticket \in issued, NEW terminal \in Identity,
         AbandonRunTerminal(ticket, terminal)
  PROVE  IInv'
<1>0. /\ activeRun \in ActiveRun /\ activeRun # NullRun /\ activeRun.revision = revision
    BY NullRunIsNoRun DEF IInv, TerminalTypeOK, ActiveIsLatest, AbandonRunTerminal, RequireRun
<1>1. /\ activeRun.terminal.phase = "selected"
      /\ activeRun' = [activeRun EXCEPT !.terminal = Null]
      /\ UNCHANGED <<instanceTerminal, lastOwnedRunId, lastRunTerminal, revision, shutdown,
                     issued, claims, published>>
    BY DEF AbandonRunTerminal, historyVars
<1>2. activeRun' \in ActiveRun /\ activeRun' # NullRun /\ activeRun'.revision = revision
      /\ activeRun'.claim = activeRun.claim /\ activeRun'.terminal = Null
    BY <1>0, <1>1, NullRunIsNoRun DEF ActiveRun
<1>3. \A p \in published : p.revision # revision
    BY <1>0, <1>1 DEF IInv, PublicationAgrees
<1>4. TerminalTypeOK' /\ HistoryBounded'
    BY <1>1, <1>2 DEF IInv, TerminalTypeOK, HistoryBounded
<1>5. ActiveIsLatest' /\ ClaimAgrees' /\ PublicationAgrees'
    BY <1>0, <1>1, <1>2, <1>3 DEF IInv, ActiveIsLatest, ClaimAgrees, PublicationAgrees, Null
<1>6. /\ TerminalRunMatches' /\ LastAgrees' /\ OneTerminalPerRun'
      /\ CancelledNeverCompleted'
    BY <1>0, <1>1, <1>2 DEF IInv, TerminalRunMatches, LastAgrees, OneTerminalPerRun,
      CancelledNeverCompleted
<1>7. QED
    BY <1>4, <1>5, <1>6 DEF IInv

(* A release remembers the acknowledged terminal of the revision it ends. *)
LEMMA ReleaseRunIInv ==
  ASSUME IInv, NEW ticket \in issued, NEW reason, ReleaseRun(ticket, reason)
  PROVE  IInv'
<1>0. /\ activeRun \in ActiveRun /\ activeRun # NullRun /\ activeRun.revision = revision
      /\ activeRun.runId = ticket.runId
    BY NullRunIsNoRun DEF IInv, TerminalTypeOK, ActiveIsLatest, ReleaseRun, RequireRun
<1>1. /\ activeRun' = NullRun /\ lastOwnedRunId' = ticket.runId
      /\ UNCHANGED <<instanceTerminal, revision, shutdown, issued, claims, published>>
    BY DEF ReleaseRun, historyVars
<1>2. lastRunTerminal' # NoStatus =>
        /\ activeRun.terminal.phase = "acked"
        /\ lastRunTerminal' = [runId |-> activeRun.runId,
                               status |-> activeRun.terminal.value.status]
    BY DEF ReleaseRun
<1>3. ASSUME activeRun.terminal.phase = "acked"
      PROVE  /\ activeRun.terminal.value \in Identity
             /\ activeRun.terminal.value.runId = activeRun.runId
  <2>1. activeRun.terminal.value \in Identity
      BY <1>0, <1>3, TerminalShape DEF ActiveRun, Null
  <2>2. QED
      BY <1>0, <1>3, <2>1 DEF IInv, TerminalRunMatches, Null
<1>4. TerminalTypeOK'
  <2>1. lastRunTerminal' \in [runId : Runs, status : Statuses] \cup {NoStatus}
      BY <1>0, <1>2, <1>3 DEF ActiveRun, Identity
  <2>2. QED
      BY <1>0, <1>1, <2>1 DEF IInv, TerminalTypeOK, ActiveRun
<1>5. LastAgrees'
  <2>1. activeRun.terminal.phase = "acked" =>
          [revision |-> revision, value |-> activeRun.terminal.value] \in published
      BY <1>0 DEF IInv, PublicationAgrees
  <2>2. QED
      BY <1>1, <1>2, <1>3, <2>1 DEF LastAgrees
<1>6. /\ ActiveIsLatest' /\ HistoryBounded' /\ ClaimAgrees' /\ PublicationAgrees'
      /\ TerminalRunMatches' /\ OneTerminalPerRun' /\ CancelledNeverCompleted'
    BY <1>1 DEF IInv, ActiveIsLatest, HistoryBounded, ClaimAgrees, PublicationAgrees,
      TerminalRunMatches, OneTerminalPerRun, CancelledNeverCompleted, NullRun, Null
<1>7. QED
    BY <1>4, <1>5, <1>6 DEF IInv

(* The steps that leave the run being driven and the histories alone. *)
LEMMA FrameIInv ==
  ASSUME IInv, TerminalTypeOK',
         UNCHANGED <<activeRun, lastRunTerminal, revision, issued, claims, published>>
  PROVE  IInv'
  BY DEF IInv, ActiveIsLatest, HistoryBounded, ClaimAgrees, PublicationAgrees,
    TerminalRunMatches, LastAgrees, OneTerminalPerRun, CancelledNeverCompleted

LEMMA InstanceStepIInv == ASSUME IInv, InstanceStep PROVE IInv'
<1>1. UNCHANGED <<activeRun, lastRunTerminal, revision, issued, claims, published,
                  lastOwnedRunId>>
    BY DEF InstanceStep, RequestShutdown, RecordFailure, MarkCleanupCompleted,
      SelectInstanceTerminal, AckInstanceTerminal, AbandonInstanceTerminal, historyVars
<1>2. shutdown' \in [cleanup : {"unrequested", "pending", "completed"},
                     failed : BOOLEAN, runId : Runs \cup {NoRun}]
  <2> DEFINE S == [cleanup : {"unrequested", "pending", "completed"},
                   failed : BOOLEAN, runId : Runs \cup {NoRun}]
  <2>0. shutdown \in S
      BY DEF IInv, TerminalTypeOK
  <2>1. CASE RequestShutdown
      BY <2>0, <2>1 DEF RequestShutdown, PendingShutdown
  <2>2. CASE \E run \in Runs \cup {NoRun} : RecordFailure(run)
      BY <2>0, <2>2 DEF RecordFailure
  <2>3. CASE MarkCleanupCompleted
      BY <2>0, <2>3 DEF MarkCleanupCompleted
  <2>4. CASE UNCHANGED shutdown
      BY <2>0, <2>4
  <2>5. QED
      BY <2>1, <2>2, <2>3, <2>4 DEF InstanceStep, SelectInstanceTerminal,
        AckInstanceTerminal, AbandonInstanceTerminal
<1>3. instanceTerminal' \in [phase : {"open"}]
         \cup [phase : {"selected", "acked"}, terminal : InstanceTerminal]
    BY DEF IInv, TerminalTypeOK, InstanceStep, RequestShutdown, RecordFailure,
      MarkCleanupCompleted, SelectInstanceTerminal, AckInstanceTerminal,
      AbandonInstanceTerminal
<1>4. TerminalTypeOK'
    BY <1>1, <1>2, <1>3 DEF IInv, TerminalTypeOK
<1>5. QED
    BY <1>1, <1>4, FrameIInv

LEMMA TicketStepIInv == ASSUME IInv, TicketStep PROVE IInv'
<1>1. PICK ticket \in issued :
        \/ \E source \in CancellationSources : ClaimCancellation(ticket, source)
        \/ \E terminal \in Identity :
             SelectRunTerminal(ticket, terminal) \/ AbandonRunTerminal(ticket, terminal)
        \/ \E receipt \in Receipt : AckRunTerminal(ticket, receipt)
        \/ \E reason \in {"command_acked", "driver_failing"} : ReleaseRun(ticket, reason)
    BY DEF TicketStep
<1>2. CASE \E source \in CancellationSources : ClaimCancellation(ticket, source)
    BY <1>2, ClaimCancellationIInv
<1>3. CASE \E terminal \in Identity : SelectRunTerminal(ticket, terminal)
    BY <1>3, SelectRunTerminalIInv
<1>4. CASE \E terminal \in Identity : AbandonRunTerminal(ticket, terminal)
    BY <1>4, AbandonRunTerminalIInv
<1>5. CASE \E receipt \in Receipt : AckRunTerminal(ticket, receipt)
    BY <1>5, AckRunTerminalIInv
<1>6. CASE \E reason \in {"command_acked", "driver_failing"} : ReleaseRun(ticket, reason)
    BY <1>6, ReleaseRunIInv
<1>7. QED
    BY <1>1, <1>2, <1>3, <1>4, <1>5, <1>6

LEMMA NextIInv == ASSUME IInv, [TerminalNext]_terminalVars PROVE IInv'
<1>1. CASE \E run \in Runs : BeginRun(run)
    BY <1>1, BeginRunIInv
<1>2. CASE \E run \in Runs : RememberOwnedRunId(run)
  <2>1. /\ UNCHANGED <<activeRun, lastRunTerminal, revision, issued, claims, published,
                       instanceTerminal, shutdown>>
        /\ lastOwnedRunId' \in Runs
      BY <1>2 DEF RememberOwnedRunId, historyVars
  <2>2. TerminalTypeOK'
      BY <2>1 DEF IInv, TerminalTypeOK
  <2>3. QED
      BY <2>1, <2>2, FrameIInv
<1>3. CASE TicketStep
    BY <1>3, TicketStepIInv
<1>4. CASE InstanceStep
    BY <1>4, InstanceStepIInv
<1>5. CASE UNCHANGED terminalVars
  <2>1. UNCHANGED <<activeRun, lastRunTerminal, revision, issued, claims, published,
                    instanceTerminal, shutdown, lastOwnedRunId>>
      BY <1>5 DEF terminalVars, machineVars, historyVars
  <2>2. TerminalTypeOK'
      BY <2>1 DEF IInv, TerminalTypeOK
  <2>3. QED
      BY <2>1, <2>2, FrameIInv
<1>6. QED
    BY <1>1, <1>2, <1>3, <1>4, <1>5 DEF TerminalNext

(* The inductive invariant holds in every reachable state. *)
THEOREM TerminalInductive == TerminalSpec => []IInv
<1>1. TerminalInit => IInv
    BY InitIInv
<1>2. IInv /\ [TerminalNext]_terminalVars => IInv'
    BY NextIInv
<1>3. QED
    BY <1>1, <1>2, PTL DEF TerminalSpec

(* DriverTerminalStateMachine keeps its variables in their types. *)
THEOREM TerminalTypes == TerminalSpec => []TerminalTypeOK
<1>1. IInv => TerminalTypeOK
    BY DEF IInv
<1>2. QED
    BY <1>1, TerminalInductive, PTL

(* However tickets, retries, abandoned selections and late acknowledgements *)
(* interleave, one drive of a run is published with one terminal.           *)
THEOREM OneTerminal == TerminalSpec => []OneTerminalPerRun
<1>1. IInv => OneTerminalPerRun
    BY DEF IInv
<1>2. QED
    BY <1>1, TerminalInductive, PTL

(* A run whose cancellation was claimed is never published as completed. *)
THEOREM CancelledNotCompleted == TerminalSpec => []CancelledNeverCompleted
<1>1. IInv => CancelledNeverCompleted
    BY DEF IInv
<1>2. QED
    BY <1>1, TerminalInductive, PTL

(* acknowledgedRunTerminal reports what was published for the latest drive. *)
THEOREM ReportedIsPublished == TerminalSpec => []ReportedOutcomeIsPublished
<1>1. ASSUME IInv PROVE ReportedOutcomeIsPublished
    BY <1>1 DEF IInv, LastAgrees, PublicationAgrees, ActiveIsLatest,
      ReportedOutcomeIsPublished, NullRun, Null
<1>2. QED
    BY <1>1, TerminalInductive, PTL

(* A recorded failure keeps the run an instance terminal is attributed to. *)
THEOREM BlameIsKept == TerminalSpec => FirstFailureKeepsBlame
<1> DEFINE A == shutdown.failed /\ shutdown.runId # NoRun
                  /\ instanceTerminal.phase = "open" /\ instanceTerminal'.phase = "open"
                => TerminalRunId(NoRun)' = TerminalRunId(NoRun)
<1>1. ASSUME IInv, [TerminalNext]_terminalVars PROVE A
  <2> SUFFICES ASSUME shutdown.failed, shutdown.runId # NoRun,
                      instanceTerminal.phase = "open", instanceTerminal'.phase = "open"
               PROVE  TerminalRunId(NoRun)' = TerminalRunId(NoRun)
      OBVIOUS
  <2>1. shutdown \in [cleanup : {"unrequested", "pending", "completed"},
                      failed : BOOLEAN, runId : Runs \cup {NoRun}]
      BY <1>1 DEF IInv, TerminalTypeOK
  <2>2. shutdown'.runId = shutdown.runId
    <3>1. CASE InstanceStep
      <4>1. CASE RequestShutdown
          BY <4>1 DEF RequestShutdown, NoShutdown
      <4>2. CASE \E run \in Runs \cup {NoRun} : RecordFailure(run)
          BY <4>2 DEF RecordFailure
      <4>3. CASE MarkCleanupCompleted
          BY <2>1, <4>3 DEF MarkCleanupCompleted
      <4>4. QED
          BY <3>1, <4>1, <4>2, <4>3 DEF InstanceStep, SelectInstanceTerminal,
            AckInstanceTerminal, AbandonInstanceTerminal
    <3>2. CASE ~InstanceStep
        BY <1>1, <3>2 DEF TerminalNext, TicketStep, BeginRun, RememberOwnedRunId,
          ClaimCancellation, SelectRunTerminal, AckRunTerminal, AbandonRunTerminal,
          ReleaseRun, terminalVars, machineVars
    <3>3. QED
        BY <3>1, <3>2
  <2>3. QED
      BY <2>2 DEF TerminalRunId
<1>2. QED
    BY <1>1, TerminalInductive, PTL DEF TerminalSpec, FirstFailureKeepsBlame

(* After the acknowledged instance terminal the driver says nothing more. *)
THEOREM InstanceTerminalIsFinal == TerminalSpec => InstanceTerminalIsLast
<1>1. ASSUME IInv, [TerminalNext]_terminalVars
      PROVE  instanceTerminal.phase = "acked"
             => instanceTerminal' = instanceTerminal /\ issued' = issued
  <2>1. CASE InstanceStep
      BY <1>1, <2>1 DEF IInv, TerminalTypeOK, InstanceStep, RequestShutdown, RecordFailure, MarkCleanupCompleted,
        SelectInstanceTerminal, AckInstanceTerminal, AbandonInstanceTerminal, historyVars
  <2>2. CASE ~InstanceStep
      BY <1>1, <2>2 DEF TerminalNext, TicketStep, BeginRun, RememberOwnedRunId,
        ClaimCancellation, SelectRunTerminal, AckRunTerminal, AbandonRunTerminal,
        ReleaseRun, terminalVars, machineVars, historyVars
  <2>3. QED
      BY <2>1, <2>2
<1>2. QED
    BY <1>1, TerminalInductive, PTL DEF TerminalSpec, InstanceTerminalIsLast

(***************************************************************************)
(* The machine implements RunOutcome: begin opens, a fresh claim claims,   *)
(* an acknowledgement decides, every other step stutters.                  *)
(***************************************************************************)
Decisions == {[revision |-> p.revision, status |-> p.value.status] : p \in published}

LEMMA DecisionAdded ==
  ASSUME NEW P, NEW n, NEW v
  PROVE  {[revision |-> p.revision, status |-> p.value.status] :
            p \in P \cup {[revision |-> n, value |-> v]}}
         = {[revision |-> p.revision, status |-> p.value.status] : p \in P}
             \cup {[revision |-> n, status |-> v.status]}
<1> DEFINE D(S) == {[revision |-> p.revision, status |-> p.value.status] : p \in S}
<1> DEFINE new == [revision |-> n, value |-> v]
<1>1. \A d \in D(P \cup {new}) : d \in D(P) \cup {[revision |-> n, status |-> v.status]}
    OBVIOUS
<1>2. D(P) \subseteq D(P \cup {new})
    OBVIOUS
<1>3. [revision |-> n, status |-> v.status] \in D(P \cup {new})
  <2>1. new \in P \cup {new} /\ new.revision = n /\ new.value.status = v.status
      OBVIOUS
  <2>2. QED
      BY <2>1
<1>4. QED
    BY <1>1, <1>2, <1>3

LEMMA StepRefines ==
  ASSUME IInv, [TerminalNext]_terminalVars
  PROVE  [Outcome!OutcomeNext]_(Outcome!outcomeVars)
<1>1. CASE \E run \in Runs : BeginRun(run)
    BY <1>1 DEF BeginRun, Outcome!OutcomeNext, Outcome!Open
<1>2. CASE \E ticket \in issued, source \in CancellationSources :
             ClaimCancellation(ticket, source)
  <2>1. PICK ticket \in issued, source \in CancellationSources :
          ClaimCancellation(ticket, source)
      BY <1>2
  <2>2. activeRun \in ActiveRun /\ activeRun # NullRun /\ ticket.revision = revision
        /\ revision > 0 /\ UNCHANGED <<revision, published>>
      BY <2>1, NullRunIsNoRun
        DEF IInv, TerminalTypeOK, ActiveIsLatest, ClaimCancellation, RequireRun
  <2>3. CASE ClaimResult(ticket) # "claimed"
      BY <2>1, <2>2, <2>3 DEF ClaimCancellation, Outcome!outcomeVars
  <2>4. CASE ClaimResult(ticket) = "claimed"
    <3>1. claims' = claims \cup {revision} /\ revision \notin claims
        BY <2>1, <2>2, <2>4 DEF ClaimCancellation, ClaimResult, IInv, ClaimAgrees
    <3>2. \A p \in published : p.revision # revision
        BY <2>2, <2>4 DEF ClaimResult, IInv, PublicationAgrees, Null
    <3>3. Outcome!Undecided
        BY <3>2 DEF Outcome!Undecided
    <3>4. QED
        BY <2>2, <3>1, <3>3 DEF Outcome!OutcomeNext, Outcome!Claim
  <2>5. QED
      BY <2>3, <2>4
<1>3. CASE \E ticket \in issued, receipt \in Receipt : AckRunTerminal(ticket, receipt)
  <2>1. PICK ticket \in issued, receipt \in Receipt : AckRunTerminal(ticket, receipt)
      BY <1>3
  <2> DEFINE v == activeRun.terminal.value
  <2>2. activeRun \in ActiveRun /\ activeRun # NullRun /\ ticket.revision = revision
        /\ activeRun.revision = revision /\ revision > 0 /\ UNCHANGED <<revision, claims>>
      BY <2>1, NullRunIsNoRun
        DEF IInv, TerminalTypeOK, ActiveIsLatest, AckRunTerminal, RequireRun
  <2>3. /\ activeRun.terminal.phase = "selected" /\ v \in Identity
        /\ activeRun.terminal # Null
      BY <2>1, <2>2, TerminalShape DEF AckRunTerminal, ActiveRun, Null
  <2>4. published' = published \cup {[revision |-> revision, value |-> v]}
      BY <2>1, <2>2 DEF AckRunTerminal
  <2>5. Decisions' = Decisions \cup {[revision |-> revision, status |-> v.status]}
      BY <2>4, DecisionAdded DEF Decisions
  <2>6. \A p \in published : p.revision # revision
      BY <2>2, <2>3 DEF IInv, PublicationAgrees
  <2>7. Outcome!Undecided
      BY <2>6 DEF Outcome!Undecided
  <2>8. v.status \in Statuses /\ (revision \in claims => v.status # "completed")
      BY <2>2, <2>3 DEF IInv, ClaimAgrees, Identity
  <2>9. QED
      BY <2>2, <2>5, <2>7, <2>8 DEF Outcome!OutcomeNext, Outcome!Decide, Decisions
<1>4. CASE UNCHANGED <<revision, claims, published>>
    BY <1>4 DEF Outcome!outcomeVars
<1>5. QED
    BY <1>1, <1>2, <1>3, <1>4 DEF TerminalNext, TicketStep, InstanceStep,
      RememberOwnedRunId, SelectRunTerminal, AbandonRunTerminal, ReleaseRun,
      RequestShutdown, RecordFailure, MarkCleanupCompleted, SelectInstanceTerminal,
      AckInstanceTerminal, AbandonInstanceTerminal, terminalVars, machineVars, historyVars

(* Every behaviour of the machine is one the abstract promise allows. *)
THEOREM RefinesOutcome == TerminalSpec => RefinesRunOutcome
<1>1. TerminalInit => Outcome!OutcomeInit
    BY DEF TerminalInit, Outcome!OutcomeInit
<1>2. IInv /\ [TerminalNext]_terminalVars => [Outcome!OutcomeNext]_(Outcome!outcomeVars)
    BY StepRefines
<1>3. QED
    BY <1>1, <1>2, TerminalInductive, PTL
      DEF TerminalSpec, RefinesRunOutcome, Outcome!OutcomeSpec
=============================================================================
