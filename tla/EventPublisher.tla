---------------------------- MODULE EventPublisher ----------------------------
(***************************************************************************)
(* DriverEventPublisher (runtimes/driver-event-publisher.ts): the events   *)
(* of a backend are admitted against a bound, coalesced, and delivered by  *)
(* one drain; what the host has not acknowledged is retained and goes      *)
(* first in the next delivery; a terminal is settled, with the events that *)
(* close the run, in steps of their own.                                   *)
(*                                                                         *)
(* The event port is the kernel's or the socket's pushEvents (see          *)
(* InstanceSocket), reduced to what a publisher can tell: a terminal       *)
(* travels alone and is selected once, events of a run that is over or     *)
(* ended are refused, an event that cannot be encoded is rejected, and a   *)
(* call may fail whatever the host has received of it.                     *)
(***************************************************************************)
EXTENDS Integers, Sequences, SequencesExt, FiniteSets

CONSTANTS
  Batches,                 \* what callers push: sequences of drafts [id, run, kind, body]
  Endings,                 \* [closures, terminal, revocable]: arguments of pushTerminal
  Unsupported,             \* bodies that cannot be encoded
  MaxPending,              \* MAX_PENDING_DRIVER_EVENTS
  MaxCalls,                \* bound: calls of the publisher
  MaxRuns                  \* bound: runs

ASSUME PublisherBounds == MaxPending \in Nat /\ MaxCalls \in Nat /\ MaxRuns \in Nat

Runs == 1..MaxRuns
Calls == 1..MaxCalls
NoRun == 0                 \* an event whose run is left to the port
Session == MaxRuns + 1     \* an event that is explicitly of no run (runId: null)
Settling == 0              \* the owner of what the settlement submits
Nobody == MaxCalls + 1     \* the owner of a retained event
Terminals == {"completed", "cancelled"}
None == [none |-> TRUE]

VARIABLES
  run, began,              \* currentRunId(), runs begun so far
  port,                    \* the run's outcome: [claimed, selected, acked]
  aborted,                 \* the cancellation signal of the run is aborted
  pending,                 \* #pendingEvents
  queue,                   \* #queue: entries [by, events, retry]
  wake,                    \* #pendingWake is set
  drain,                   \* #drainTask: idle, active, ending (its loop is left)
  inflight,                \* the locals of #deliver, or None
  settlement,              \* #terminalSettlement, or None
  stamps,                  \* source ids made so far
  call,                    \* calls: what each awaits, and what it is promised
  abandoned,               \* history: runs whose terminal was abandoned
  log                      \* lossless events the host has, in order

queueVars == <<pending, queue, wake, drain, inflight>>
portVars == <<run, began, port, aborted, log, abandoned>>
vars == <<portVars, queueVars, settlement, stamps, call>>

NewCall == [state |-> "new", own |-> FALSE, ids |-> {}, ends |-> FALSE, promised |-> {}]
OpenRun == [claimed |-> FALSE, selected |-> 0, acked |-> FALSE]

PublisherInit ==
  /\ run = NoRun /\ began = 0 /\ port = OpenRun /\ aborted = FALSE
  /\ pending = << >> /\ queue = << >> /\ wake = FALSE /\ drain = "idle" /\ inflight = None
  /\ settlement = None /\ stamps = 0
  /\ call = [c \in Calls |-> NewCall]
  /\ log = << >> /\ abandoned = {}

-----------------------------------------------------------------------------
(* Events                                                                  *)

IsLossless(e) == e.kind # "delta"
IsRunTerminal(e) == e.kind \in Terminals
Lossless(events) == SelectSeq(events, IsLossless)
IdsOf(events) == {events[i].id : i \in DOMAIN events}
Distinct(events) == \A i, j \in DOMAIN events : events[i].id = events[j].id => i = j
Content(e) == [e EXCEPT !.id = 0]              \* losslessDriverEventRetryKey

(* scopeDriverEvent: an event that names no run is of the active one.      *)
Scope(events, active) ==
  [i \in DOMAIN events |-> [events[i] EXCEPT !.run = IF @ = NoRun THEN active ELSE @]]

(* withSourceEventIds                                                      *)
WithSourceIds(events) ==
  [i \in DOMAIN events |-> [events[i] EXCEPT !.id = IF @ = 0 THEN 10 + stamps + i ELSE @]]

(* A queued event knows the entry it came with.                            *)
Owned(by, events) == [i \in DOMAIN events |-> [event |-> events[i], owner |-> by]]
Events(queued) == [i \in DOMAIN queued |-> queued[i].event]
EventsOf(entries) == FlattenSeq([i \in DOMAIN entries |-> Owned(entries[i].by, entries[i].events)])

Candidates == Events(IF inflight # None THEN inflight.batch ELSE pending) \o Events(EventsOf(queue))
CandidateIds == IdsOf(Candidates)
Candidate(id) == Candidates[CHOOSE i \in DOMAIN Candidates : Candidates[i].id = id]

-----------------------------------------------------------------------------
(* The drain                                                               *)

Enqueue(entries) ==                            \* #enqueue
  /\ queue' = queue \o entries
  /\ drain' = IF drain = "idle" THEN "active" ELSE drain

(* #requestPendingDrain                                                    *)
NothingToDrain == pending = << >> /\ queue = << >> /\ drain = "idle"
RequestPendingDrain ==
  /\ wake' = (wake \/ ~NothingToDrain)
  /\ drain' = IF drain = "idle" /\ ~NothingToDrain THEN "active" ELSE drain
  /\ UNCHANGED <<pending, queue, inflight>>

-----------------------------------------------------------------------------
(* Admission (driver-event-admission.ts)                                   *)

Unsettled == queue \o (IF inflight # None THEN inflight.entries ELSE << >>)
Plain(e) == IsLossless(e) /\ ~IsRunTerminal(e)
PendingCount == Len(SelectSeq(Events(pending), Plain))
QueuedLossless(entries) == Len(SelectSeq(Events(EventsOf(entries)), Plain))
QueuedCount(entries) == Len(SelectSeq(Events(EventsOf(entries)), LAMBDA e : ~IsRunTerminal(e)))
TerminalAdmitted ==
  \E e \in ToSet(Events(pending)) \cup ToSet(Events(EventsOf(Unsettled))) : IsRunTerminal(e)

FitsInQueue(events) ==                         \* bug: does not count what is on its way
  PendingCount + QueuedLossless(queue) + Len(Lossless(events)) <= MaxPending
Fits(events) ==
  PendingCount + QueuedLossless(Unsettled) + Len(Lossless(events)) <= MaxPending
(* Deltas are taken as far as there is room.                               *)
Admitted(events) ==
  IF Lossless(events) = << >>
  THEN SubSeq(events, 1, Min({Len(events), MaxPending - PendingCount - QueuedCount(Unsettled)}))
  ELSE IF PendingCount + QueuedCount(Unsettled) + Len(events) <= MaxPending THEN events
  ELSE Lossless(events)

-----------------------------------------------------------------------------
(* push and pushSession                                                    *)

SettleCall(c, how) == call' = [call EXCEPT ![c] = [@ EXCEPT !.state = how, !.own = FALSE, !.ids = {}]]
Refuse(c) == SettleCall(c, "failed") /\ RequestPendingDrain
Drop(c) == SettleCall(c, "resolved") /\ UNCHANGED queueVars

(* A draft with the id of an unresolved event joins it.                    *)
Joins(events) == SelectSeq(events, LAMBDA e : IsLossless(e) /\ e.id # 0 /\ e.id \in CandidateIds)
Fresh(events) == SelectSeq(events, LAMBDA e : ~(IsLossless(e) /\ e.id # 0 /\ e.id \in CandidateIds))
Joinable(joined) ==
  /\ Distinct(joined)
  /\ \A i \in DOMAIN joined : Content(Candidate(joined[i].id)) = Content(joined[i])
Stampable(fresh) ==
  LET explicit == SelectSeq(fresh, LAMBDA e : e.id # 0)
  IN  Distinct(explicit) /\ IdsOf(explicit) \cap CandidateIds = {}

Taken == IF inflight # None THEN inflight.accepted ELSE {}
Rejected == IF inflight # None THEN inflight.rejected ELSE {}

(* A call that awaits nothing any more is resolved.                        *)
Resolved(c) ==
  [c EXCEPT !.state = IF @ = "open" /\ ~c.own /\ c.ids = {} /\ ~c.ends THEN "resolved" ELSE @]

(* The fresh events in an entry of their own, and one that retries those   *)
(* that were joined.                                                       *)
Admit(c, joined, fresh) ==
  LET own == WithSourceIds(Admitted(fresh))
      ids == IdsOf(joined)
      awaited == Lossless(own) # << >>
      record == [NewCall EXCEPT !.state = "open", !.own = awaited, !.ids = ids \ Taken,
                                !.promised = IdsOf(Lossless(own)) \cup ids]
  IN  /\ stamps' = stamps + Len(own)
      /\ call' = [call EXCEPT ![c] =
           IF ids \cap Rejected # {} THEN [NewCall EXCEPT !.state = "failed"] ELSE Resolved(record)]
      /\ IF own = << >> /\ ids = {} THEN RequestPendingDrain
         ELSE /\ Enqueue((IF own = << >> THEN << >> ELSE <<[by |-> c, events |-> own, retry |-> {}]>>)
                         \o (IF ids = {} THEN << >>
                             ELSE <<[by |-> c, events |-> << >>, retry |-> ids]>>))
              /\ UNCHANGED <<pending, wake, inflight>>

(* #submit, for a call of push or pushSession.                             *)
AdmitOrRefuse(c, scoped) ==
  LET joined == Joins(scoped)
      fresh == Fresh(scoped)
  IN  IF TerminalAdmitted
      THEN /\ IF Lossless(scoped) # << >> THEN SettleCall(c, "failed") ELSE SettleCall(c, "resolved")
           /\ RequestPendingDrain
           /\ UNCHANGED stamps
      ELSE IF Joinable(joined) /\ Stampable(fresh) /\ Fits(fresh) THEN Admit(c, joined, fresh)
      ELSE Refuse(c) /\ UNCHANGED stamps

RefuseOrDrop(c, events) ==
  /\ IF Lossless(events) # << >> THEN Refuse(c) ELSE Drop(c)
  /\ UNCHANGED stamps

(* A settlement that is finished is forgotten when its run is over.        *)
ForgetsAnyway == settlement # None /\ settlement.clean     \* bug: even while its run is active
Forgets == settlement # None /\ settlement.clean /\ run # settlement.run
Remaining == IF Forgets THEN None ELSE settlement

IsNew(c) == call[c].state = "new" /\ \A d \in 1..(c - 1) : call[d].state # "new"
Push(c) ==
  /\ IsNew(c)
  /\ \E drafts \in Batches :
       IF \E i \in DOMAIN drafts : drafts[i].run \notin {NoRun, run}
       THEN RefuseOrDrop(c, drafts) /\ UNCHANGED settlement
       ELSE /\ settlement' = Remaining
            /\ IF Remaining # None THEN RefuseOrDrop(c, drafts)
               ELSE AdmitOrRefuse(c, Scope(drafts, run))
  /\ UNCHANGED portVars

(* A push for the session waits until the settlement is over.              *)
SettlementRuns == settlement # None /\ settlement.task \notin {"none", "done"}
PushSession(c) ==
  /\ IsNew(c)
  /\ call' = [call EXCEPT ![c].state = IF SettlementRuns THEN "parked" ELSE "released"]
  /\ UNCHANGED <<portVars, queueVars, settlement, stamps>>
SubmitSession(c) ==
  /\ call[c].state = "released"
  /\ IF settlement # None /\ ~settlement.clean
     THEN SettleCall(c, "failed") /\ UNCHANGED <<queueVars, settlement, stamps>>
     ELSE /\ settlement' = Remaining
          /\ \E drafts \in Batches :
               /\ \A i \in DOMAIN drafts : drafts[i].run = NoRun
               /\ AdmitOrRefuse(c, Scope(drafts, Session))
  /\ UNCHANGED portVars

-----------------------------------------------------------------------------
(* pushTerminal                                                            *)

(* A closure that repeats an unresolved event, id aside, takes its id.     *)
Adopt(closures) ==
  LET Used(done) == {done[i].id : i \in {j \in DOMAIN done : closures[j].id = 0}}
      Same(done, e) == {i \in DOMAIN Candidates : /\ Content(Candidates[i]) = Content(e)
                                                  /\ Candidates[i].id \notin Used(done)}
  IN  FoldLeft(LAMBDA done, e : Append(done, IF e.id # 0 \/ Same(done, e) = {} THEN e
                                             ELSE Candidates[Min(Same(done, e))]),
               << >>, closures)

(* #advanceTerminalSettlement: past what the host has taken, in order.     *)
Advanced(s) ==
  LET n == Max({k \in s.next..(Len(s.events) + 1) : \A i \in s.next..(k - 1) : s.events[i].id \in s.ahead})
  IN  [s EXCEPT !.next = n, !.ahead = @ \ {s.events[i].id : i \in s.next..(n - 1)}]

(* The next step: a closure that is retained is retried, what is new is    *)
(* submitted, and a retained terminal is retried with all that is pending. *)
Retry(ids) == [by |-> Settling, events |-> << >>, retry |-> ids]
Entry(e) == [by |-> Settling, events |-> <<e>>, retry |-> {}]
Submits(s, entry, next) ==
  /\ Enqueue(<<entry>>)
  /\ settlement' = [s EXCEPT !.task = next]
  /\ UNCHANGED <<pending, wake, inflight>>
Moves(s, next) == settlement' = [s EXCEPT !.task = next]
SubmitNext(s) ==
  LET step == s.events[s.next]
      terminal == s.next = Len(s.events)
      retained == Events(pending)
  IN  IF ~terminal /\ step.id \in IdsOf(retained) THEN Submits(s, Retry({step.id}), "second")
      ELSE IF terminal /\ step \in ToSet(retained) THEN Submits(s, Retry(IdsOf(retained)), "first")
      ELSE IF ~TerminalAdmitted /\ (terminal \/ Fits(<<step>>)) THEN Submits(s, Entry(step), "first")
      ELSE Moves(s, "failing") /\ RequestPendingDrain
Proceed(s) ==
  IF s.next > Len(s.events) THEN Moves(s, "cleanup") /\ UNCHANGED queueVars ELSE SubmitNext(s)

(* #startTerminalSettlement: it waits for the drain under way, if any.     *)
Begin(s) ==
  IF s.rejected THEN Moves(s, "failing") /\ UNCHANGED queueVars ELSE Proceed(Advanced(s))
Start(s) ==
  IF drain = "idle" THEN Begin(s) ELSE Moves(s, "prior") /\ UNCHANGED queueVars

Await(c, s) ==
  call' = [call EXCEPT ![c] = [@ EXCEPT !.state = IF s.task = "done" THEN "resolved" ELSE "open",
                                         !.ends = TRUE, !.promised = IdsOf(s.events)]]
Join(c) ==
  /\ Await(c, settlement)
  /\ IF settlement.task = "none" THEN Start(settlement) ELSE UNCHANGED <<settlement, queueVars>>

NewSettlement(key, events, revocable) ==
  [run |-> run, key |-> key, events |-> events, next |-> 1, revocable |-> revocable,
   ahead |-> IdsOf(events) \cap Taken,
   rejected |-> IdsOf(events) \cap Rejected # {},
   task |-> "none", retry |-> {}, clean |-> FALSE]

Sound(events) ==
  /\ Distinct(events)
  /\ \A i \in DOMAIN events : events[i].id \in CandidateIds =>
       i # Len(events) /\ Content(Candidate(events[i].id)) = Content(events[i])

Fails(c) == SettleCall(c, "failed") /\ UNCHANGED <<queueVars, stamps>>
PushTerminal(c) ==
  /\ IsNew(c)
  /\ \E ending \in Endings :
       LET key == Scope(Append(ending.closures, ending.terminal), run)
           events == WithSourceIds(Append(Adopt(Front(key)), Last(key)))
       IN  IF run = NoRun THEN Fails(c) /\ UNCHANGED settlement
           ELSE IF settlement # None /\ settlement.key = key THEN Join(c) /\ UNCHANGED stamps
           ELSE IF Remaining # None THEN Fails(c) /\ UNCHANGED settlement
           ELSE IF (ending.revocable /\ aborted) \/ ~Sound(events) THEN Fails(c) /\ settlement' = None
           ELSE LET s == NewSettlement(key, events, ending.revocable)
                IN  /\ Await(c, s)
                    /\ Start(s)
                    /\ stamps' = stamps + Len(events)
  /\ UNCHANGED portVars

(* finishTerminalCleanup joins the settlement, and once more if it failed. *)
Acknowledged == settlement # None /\ settlement.next > Len(settlement.events)
FinishCleanup(c) ==
  /\ IsNew(c)
  /\ IF ~Acknowledged \/ settlement.clean
     THEN SettleCall(c, "resolved") /\ UNCHANGED <<settlement, queueVars>>
     ELSE IF settlement.task = "none" THEN Join(c)
     ELSE /\ call' = [call EXCEPT ![c].state = "joining", ![c].promised = IdsOf(settlement.events)]
          /\ UNCHANGED <<settlement, queueVars>>
  /\ UNCHANGED <<portVars, stamps>>
RetryCleanup(c) ==
  /\ call[c].state = "joined"
  /\ IF settlement # None /\ ~settlement.clean /\ IdsOf(settlement.events) = call[c].promised
     THEN Join(c)
     ELSE SettleCall(c, "resolved") /\ UNCHANGED <<settlement, queueVars>>
  /\ UNCHANGED <<portVars, stamps>>

-----------------------------------------------------------------------------
(* The settlement: #deliverTerminalSettlement                              *)

At(task) == settlement # None /\ settlement.task = task
callsAside == <<portVars, stamps, call>>

(* The delivery deadline passes while an earlier drain is awaited.         *)
SettlementTimesOut == At("prior") /\ Moves(settlement, "failing") /\ UNCHANGED <<callsAside, queueVars>>
SettlementBegins == At("begin") /\ Begin(settlement) /\ UNCHANGED callsAside
SettlementSteps == At("step") /\ Proceed(settlement) /\ UNCHANGED callsAside

(* What a first delivery retained is tried once more.                      *)
SettlementRetries ==
  /\ At("again")
  /\ Submits(settlement, Retry(settlement.retry), "second")
  /\ UNCHANGED callsAside

(* Those that await the settlement: pushTerminal, pushSession, and         *)
(* finishTerminalCleanup.                                                  *)
AfterSettlement(how) ==
  [c \in Calls |->
     IF call[c].state = "open" /\ call[c].ends THEN [call[c] EXCEPT !.state = how]
     ELSE IF call[c].state = "parked"
     THEN [call[c] EXCEPT !.state = IF how = "resolved" THEN "released" ELSE "failed"]
     ELSE IF call[c].state = "joining"
     THEN [call[c] EXCEPT !.state = IF how = "resolved" THEN "resolved" ELSE "joined"]
     ELSE call[c]]

(* pruneNativeCheckpoints                                                  *)
CleanupSucceeds ==
  /\ At("cleanup")
  /\ settlement' = [settlement EXCEPT !.task = "done", !.clean = TRUE]
  /\ call' = AfterSettlement("resolved")
  /\ UNCHANGED <<portVars, queueVars, stamps>>
CleanupFails == At("cleanup") /\ Moves(settlement, "failing") /\ UNCHANGED <<callsAside, queueVars>>

(* A completed terminal that cancellation overtook is withdrawn, unless it *)
(* is on its way.                                                          *)
TerminalOf(s) == Last(s.events)
IsSuperseded(s) == s.revocable /\ aborted /\ s.next = Len(s.events)
CanAbandon(s) ==
  /\ s.ahead = {}
  /\ inflight # None => TerminalOf(s).id \notin IdsOf(Events(inflight.batch))
  /\ TerminalOf(s).id \notin IdsOf(Events(EventsOf(queue)))
Without(id) == SelectSeq(pending, LAMBDA q : q.event.id # id)
SettlementFails ==
  /\ At("failing")
  /\ IF IsSuperseded(settlement) /\ CanAbandon(settlement)
     THEN /\ settlement' = None
          /\ pending' = Without(TerminalOf(settlement).id)
          /\ abandoned' = abandoned \cup {settlement.run}
     ELSE Moves(settlement, "none") /\ UNCHANGED <<pending, abandoned>>
  /\ call' = AfterSettlement("failed")
  /\ UNCHANGED <<run, began, port, aborted, log, queue, wake, drain, inflight, stamps>>

-----------------------------------------------------------------------------
(* The drain: #drain and #deliver                                          *)

Flight(entries) ==
  LET batch == [i \in DOMAIN pending |-> [pending[i] EXCEPT !.owner = Nobody]] \o EventsOf(entries)
  IN  [batch |-> batch, todo |-> batch, entries |-> entries, failed |-> FALSE, again |-> FALSE,
       accepted |-> {}, rejected |-> {}, errors |-> {}]

(* An entry is told by its owner and by whether it retries.                *)
EntryId(entry) == <<entry.by, entry.retry # {}>>

DrainTakes ==
  /\ drain = "active" /\ inflight = None
  /\ IF queue = << >> /\ ~wake THEN drain' = "ending" /\ UNCHANGED <<queue, wake, inflight>>
     ELSE /\ queue' = << >> /\ wake' = FALSE
          /\ inflight' = IF queue = << >> /\ pending = << >> THEN None ELSE Flight(queue)
          /\ UNCHANGED drain
  /\ UNCHANGED <<portVars, pending, settlement, stamps, call>>

(* The drain is over: another follows if something came meanwhile.         *)
EndsIdle == "idle"                             \* bug: what came meanwhile is not looked for
Follows == IF queue # << >> \/ wake THEN "active" ELSE "idle"
DrainEnds ==
  /\ drain = "ending"
  /\ drain' = Follows
  /\ settlement' = IF At("prior") THEN [settlement EXCEPT !.task = "begin"] ELSE settlement
  /\ UNCHANGED <<portVars, pending, queue, wake, inflight, stamps, call>>

(* The next events of the same delivery.                                   *)
Group(todo) ==
  LET same == IsLossless(todo[1].event)
      n == Max({k \in DOMAIN todo : \A i \in 1..k : IsLossless(todo[i].event) = same})
  IN  SubSeq(todo, 1, n)
Delivering == inflight # None /\ inflight.todo # << >> /\ ~inflight.failed
Sending == Events(Group(inflight.todo))
Left(n) == SubSeq(inflight.todo, n + 1, Len(inflight.todo))

(* Deltas are sent once, whatever becomes of them.                         *)
DeltasSent ==
  /\ Delivering /\ ~IsLossless(Sending[1])
  /\ inflight' = [inflight EXCEPT !.todo = Left(Len(Sending)), !.again = FALSE]
  /\ UNCHANGED <<portVars, pending, queue, wake, drain, settlement, stamps, call>>

-----------------------------------------------------------------------------
(* The event port                                                          *)

IsIsolated(events) == Len(events) > 1 => \A i \in DOMAIN events : ~IsRunTerminal(events[i])
Encodable(events) == \A i \in DOMAIN events : events[i].body \notin Unsupported
RunAtPort(e) == IF e.run = NoRun THEN run ELSE e.run
Selects(e) == port.selected = e.id \/ (port.selected = 0 /\ ~(port.claimed /\ e.kind = "completed"))
PortTakes(events) ==
  /\ IsIsolated(events)
  /\ Encodable(events)
  /\ \A i \in DOMAIN events : RunAtPort(events[i]) \in {run, Session}
  /\ IF IsRunTerminal(events[1]) THEN run # NoRun /\ Selects(events[1])
     ELSE port.selected # 0 => \A i \in DOMAIN events : RunAtPort(events[i]) \notin Runs

Selected(events) ==
  IF IsRunTerminal(events[1]) THEN [port EXCEPT !.selected = events[1].id] ELSE port
LogIds == IdsOf(log)
Received(n) ==                                 \* the host knows an event by its id
  log' = FoldLeft(LAMBDA has, e : IF e.id \in IdsOf(has) THEN has ELSE Append(has, e), log,
                  SubSeq(Sending, 1, n))
portAside == <<run, began, aborted, abandoned>>
queueAside == <<pending, queue, wake, drain, stamps>>

(* #rememberAcceptedReceipts: a receipt settles all that wait for it.      *)
Accept(n) ==
  LET ids == {Sending[i].id : i \in 1..n}
  IN  /\ inflight' = [inflight EXCEPT !.todo = Left(n), !.accepted = @ \cup ids,
                                      !.again = n < Len(Sending)]
      /\ call' = [c \in Calls |-> Resolved([call[c] EXCEPT !.ids = @ \ ids])]
      /\ settlement' = IF settlement = None THEN None
           ELSE Advanced([settlement EXCEPT !.ahead = @ \cup (ids \cap IdsOf(settlement.events))])

(* The host has a part of the batch and says so, fully or in part.         *)
Deliver ==
  /\ Delivering /\ IsLossless(Sending[1]) /\ PortTakes(Sending)
  /\ \E n \in 1..Len(Sending) : Received(n) /\ Accept(n)
  /\ port' = [Selected(Sending) EXCEPT !.acked = @ \/ IsRunTerminal(Sending[1])]
  /\ UNCHANGED <<portAside, queueAside>>

(* The call is refused, fails, or times out, whatever the host has of it;  *)
(* it is repeated once if something was accepted before.                   *)
DeliveryFails ==
  /\ Delivering /\ IsLossless(Sending[1])
  /\ IF PortTakes(Sending)
     THEN /\ port' = Selected(Sending)
          /\ \E n \in 0..Len(Sending) : Received(n)
     ELSE UNCHANGED <<port, log>>
  /\ \E failed \in {TRUE, ~inflight.again} :
       inflight' = [inflight EXCEPT !.failed = failed, !.again = FALSE]
  /\ UNCHANGED <<portAside, queueAside, settlement, call>>

(* The port rejects an event: it is given up, and all who wait for it fail. *)
RejectedAt == Min({i \in DOMAIN Sending : Sending[i].body \in Unsupported})
EventRejected ==
  /\ Delivering /\ IsLossless(Sending[1]) /\ IsIsolated(Sending) /\ ~Encodable(Sending)
  /\ LET id == Sending[RejectedAt].id
         owner == inflight.todo[RejectedAt].owner
     IN  /\ inflight' = [inflight EXCEPT
              !.todo = RemoveAt(@, RejectedAt), !.rejected = @ \cup {id}, !.again = FALSE,
              !.errors = @ \cup {<<owner, FALSE>>}
                           \cup {EntryId(e) : e \in {f \in ToSet(inflight.entries) : id \in f.retry}}]
         /\ call' = [c \in Calls |-> IF id \in call[c].ids
                                      THEN [call[c] EXCEPT !.state = "failed", !.own = FALSE, !.ids = {}]
                                      ELSE call[c]]
         /\ settlement' = IF settlement # None /\ id \in IdsOf(settlement.events)
                          THEN [settlement EXCEPT !.rejected = TRUE] ELSE settlement
  /\ UNCHANGED <<portVars, queueAside>>

-----------------------------------------------------------------------------
(* The end of a delivery                                                   *)

(* What an entry brought or asked for and is retained.                     *)
RetainedFor(entry) ==
  {q.event.id : q \in {r \in ToSet(inflight.todo) :
     /\ IsLossless(r.event)
     /\ (r.owner = entry.by /\ entry.events # << >>) \/ r.event.id \in entry.retry}}
FailedByError(entry) == EntryId(entry) \in inflight.errors   \* bug: what is retained counts as sent
Failed(entry) == EntryId(entry) \in inflight.errors \/ RetainedFor(entry) # {}
Told(c) ==
  LET mine == {e \in ToSet(inflight.entries) : e.by = c}
      own == \E e \in mine : e.events # << >>
  IN  IF call[c].state # "open" THEN call[c]
      ELSE IF \E e \in mine : Failed(e)
      THEN [call[c] EXCEPT !.state = "failed", !.own = FALSE, !.ids = {}]
      ELSE Resolved([call[c] EXCEPT !.own = @ /\ ~own])
TellSettlement ==
  LET mine == {e \in ToSet(inflight.entries) : e.by = Settling}
      kept == UNION {RetainedFor(e) : e \in mine}
  IN  IF mine = {} \/ settlement = None THEN settlement
      ELSE IF \A e \in mine : ~Failed(e) THEN [settlement EXCEPT !.task = "step"]
      ELSE IF settlement.task = "first" /\ kept # {}
      THEN [settlement EXCEPT !.task = "again", !.retry = kept]
      ELSE [settlement EXCEPT !.task = "failing"]

DeliverEnds ==
  /\ inflight # None /\ ~Delivering
  /\ pending' = [i \in DOMAIN SelectSeq(inflight.todo, LAMBDA q : IsLossless(q.event)) |->
                   [SelectSeq(inflight.todo, LAMBDA q : IsLossless(q.event))[i] EXCEPT !.owner = Nobody]]
  /\ call' = [c \in Calls |-> Told(c)]
  /\ settlement' = TellSettlement
  /\ inflight' = None
  /\ UNCHANGED <<portVars, queue, wake, drain, stamps>>

-----------------------------------------------------------------------------
(* Runs (the dispatcher's) and cancellation                                *)

BeginRun ==
  /\ run = NoRun /\ began < MaxRuns
  /\ began > 0 => port.acked
  /\ run' = began + 1 /\ began' = began + 1
  /\ port' = OpenRun /\ aborted' = FALSE
  /\ UNCHANGED <<log, abandoned, queueVars, settlement, stamps, call>>
EndRun ==
  /\ run # NoRun
  /\ run' = NoRun
  /\ UNCHANGED <<began, port, aborted, log, abandoned, queueVars, settlement, stamps, call>>

(* Cancellation is claimed before a terminal is selected; a backend that   *)
(* fails aborts the signal at any time.                                    *)
Claim ==
  /\ run # NoRun /\ ~port.claimed /\ port.selected = 0
  /\ port' = [port EXCEPT !.claimed = TRUE]
  /\ aborted' = TRUE
  /\ UNCHANGED <<run, began, log, abandoned, queueVars, settlement, stamps, call>>
Abort ==
  /\ run # NoRun /\ ~aborted
  /\ aborted' = TRUE
  /\ UNCHANGED <<run, began, port, log, abandoned, queueVars, settlement, stamps, call>>

-----------------------------------------------------------------------------

PublisherNext ==
  \/ \E c \in Calls :
       \/ Push(c) \/ PushSession(c) \/ SubmitSession(c) \/ PushTerminal(c)
       \/ FinishCleanup(c) \/ RetryCleanup(c)
  \/ DrainTakes \/ DrainEnds \/ DeltasSent \/ Deliver \/ DeliveryFails \/ EventRejected \/ DeliverEnds
  \/ SettlementTimesOut \/ SettlementBegins \/ SettlementSteps \/ SettlementRetries
  \/ CleanupSucceeds \/ CleanupFails \/ SettlementFails
  \/ BeginRun \/ EndRun \/ Claim \/ Abort

PublisherSpec == PublisherInit /\ [][PublisherNext]_vars

-----------------------------------------------------------------------------
(* Properties                                                              *)

(* The publisher keeps the promise of EventLog.                            *)
OwedEvents ==
  Lossless(Events(IF inflight # None THEN inflight.todo ELSE pending) \o Events(EventsOf(queue)))
Promise == INSTANCE EventLog WITH owed <- OwedEvents, log <- log, withdrawn <- abandoned, TerminalKinds <- Terminals,
                                  Refusable <- Unsupported, RunIds <- Runs
RefinesEventLog == Promise!LogSpec

(* A call that resolves vouches for its lossless events: the host has them, *)
(* whether the call brought them or joined a delivery that did.            *)
ResolvedIsReceived == \A c \in Calls : call[c].state = "resolved" => call[c].promised \subseteq LogIds

(* Events on their way count against the bound until their delivery ends,  *)
(* so that what comes back always has room.                                *)
BoundHolds == Len(SelectSeq(OwedEvents, Plain)) <= MaxPending

(* Nobody waits for nothing: what waits for a drain has one, what waits    *)
(* for the settlement has one at work, and a call has an entry that will   *)
(* be told of.                                                             *)
WaitingIsServed ==
  /\ queue # << >> \/ wake \/ inflight # None \/ At("prior") => drain # "idle"
  /\ At("first") \/ At("second") => \E e \in ToSet(Unsettled) : e.by = Settling
  /\ \A c \in Calls :
       /\ call[c].state \in {"parked", "joining"} \/ (call[c].state = "open" /\ call[c].ends)
            => SettlementRuns
       /\ call[c].own => \E e \in ToSet(Unsettled) : e.by = c /\ e.events # << >>
       /\ call[c].ids # {} => \E e \in ToSet(Unsettled) : e.by = c /\ e.retry # {}
       /\ call[c].state = "open" => call[c].own \/ call[c].ids # {} \/ call[c].ends

(* assertIsolatedRunTerminalBatch: "Driver run terminal must be the only   *)
(* event in its batch."                                                    *)
TerminalTravelsAlone == Delivering => IsIsolated(Sending)

(* Who calls the publisher gets an answer that is true, within the bound.  *)
CallsAreServed == ResolvedIsReceived /\ WaitingIsServed /\ BoundHolds
=============================================================================
