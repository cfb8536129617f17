---------------------------- MODULE InstanceSocket ----------------------------
(***************************************************************************)
(* DriverInstanceSocket (infrastructure/runtime/driver-instance-socket.ts): *)
(* the driver's one connection to the control plane.  Events and the       *)
(* terminals of runs and of the instance pass through one delivery lane;   *)
(* the terminal state machine (TerminalState) is consulted when a push is  *)
(* prepared and when it is acknowledged; envelopes are retained so that a  *)
(* retry with the same source id repeats the same envelope.                *)
(*                                                                         *)
(* The control plane is external: it takes the messages of the connection  *)
(* in the order in which they are sent, accepts a prefix of each, knows an *)
(* event by its source id, and may decide a run by itself.                 *)
(***************************************************************************)
EXTENDS TerminalState, Sequences, SequencesExt, FiniteSets

CONSTANTS
  EventIds,                \* source ids of lossless run events
  MaxBatch,                \* bound: events of one push
  MaxPushes,               \* bound: calls of pushEvents
  MaxRetained,             \* retained event capacity
  ClaimSources,            \* cancellation sources (the socket does not tell them apart)
  MaxReports               \* bound: deliveries of the instance terminal

ASSUME SocketBounds ==
  /\ EventIds \cap SourceIds = {}
  /\ ClaimSources \subseteq CancellationSources
  /\ MaxBatch \in Nat \ {0} /\ MaxPushes \in Nat /\ MaxRetained \in Nat /\ MaxReports \in Nat

Pushes == 1..MaxPushes
Ids == EventIds \cup SourceIds
Conflict == MaxBatch + 2               \* a reply: terminal_conflict; n + 1: n events accepted
Report == 0                            \* the lane entry of the instance terminal

VARIABLES
  link,                    \* new, connected, greeted (hello), closed
  rejection,               \* #terminalRejection is set
  push,                    \* calls of pushEvents
  lane,                    \* #deliveryTail: deliveries not settled yet, in order
  task,                    \* #runEventTerminalTask: its push or 0
  retained,                \* #retainedEventEnvelopes: id |-> [env, owner], env 0 for none
  report,                  \* #instanceTerminalTask: [state, terminal, bound, reply, n]
  prior,                   \* history: id |-> [push, env, revision] of the last push of it
  wire,                    \* messages sent and not yet taken
  log,                     \* what the host has of the driver: sets of events, in order
  hostRuns,                \* runs the host decided by itself
  hostReport               \* instance terminals the host has

socketVars == <<link, rejection, push, lane, task, retained, report, prior, wire, log, hostRuns,
                hostReport>>
vars == <<terminalVars, socketVars>>
hostVars == <<log, hostRuns, hostReport>>

NoReport == [runId |-> NoRun, status |-> "none"]
NoPush == [state |-> "new", batch |-> << >>, ticket |-> [revision |-> 0, runId |-> NoRun],
           left |-> << >>, reply |-> 0, task |-> 0]
Refused == [NoPush EXCEPT !.state = "failed"]

SocketInit ==
  /\ TerminalInit
  /\ link = "new" /\ rejection = FALSE
  /\ push = [p \in Pushes |-> NoPush]
  /\ lane = << >> /\ task = 0
  /\ retained = [s \in Ids |-> [env |-> 0, owner |-> 0]]
  /\ report = [state |-> "idle", terminal |-> NoReport, bound |-> FALSE, reply |-> 0, n |-> 0]
  /\ prior = [s \in Ids |-> [push |-> 0, env |-> 0, revision |-> 0]]
  /\ wire = << >> /\ log = << >> /\ hostRuns = {} /\ hostReport = {}

-----------------------------------------------------------------------------
(* The connection                                                          *)

Connect ==
  /\ link = "new" /\ ~rejection
  /\ link' = "connected"
  /\ UNCHANGED <<terminalVars, rejection, push, lane, task, retained, report, prior, wire, hostVars>>

(* hello: the control plane may name a run the instance already owns.      *)
Hello ==
  /\ link = "connected"
  /\ link' = "greeted"
  /\ \/ UNCHANGED terminalVars
     \/ \E run \in Runs : RememberOwnedRunId(run)
  /\ UNCHANGED <<rejection, push, lane, task, retained, report, prior, wire, hostVars>>

(* close, or the close event: what is on the wire may be lost.             *)
NoEnvelopes == [s \in Ids |-> [env |-> 0, owner |-> 0]]
Close ==
  /\ link \in {"connected", "greeted"}
  /\ link' = "closed"
  /\ wire' \in {wire, << >>}
  /\ retained' \in {retained, NoEnvelopes}
  /\ UNCHANGED <<terminalVars, rejection, push, lane, task, report, prior, hostVars>>

-----------------------------------------------------------------------------
(* The run and its tickets                                                 *)

(* The control plane starts a run once.                                    *)
SocketBeginsRun ==
  /\ revision < MaxRevision /\ ~rejection
  /\ \E run \in Runs : /\ \A ticket \in issued : ticket.runId # run
                       /\ BeginRun(run)
  /\ UNCHANGED socketVars

SocketClaims ==
  /\ \E ticket \in issued, source \in ClaimSources : ClaimCancellation(ticket, source)
  /\ UNCHANGED socketVars

(* releaseRun forgets the envelopes of the run and its terminal task.      *)
EnvelopeOfRun(s, run) ==
  \E p \in Pushes : /\ p = retained[s].env
                    /\ \E i \in DOMAIN push[p].batch :
                         push[p].batch[i].id = s /\ push[p].batch[i].run = run
SocketReleasesRun ==
  /\ \E ticket \in issued, reason \in {"command_acked", "driver_failing"} :
       /\ ReleaseRun(ticket, reason)
       /\ retained' = [s \in Ids |-> IF EnvelopeOfRun(s, ticket.runId)
                                     THEN [env |-> 0, owner |-> 0] ELSE retained[s]]
  /\ task' = 0
  /\ UNCHANGED <<link, rejection, push, lane, report, prior, wire, hostVars>>

-----------------------------------------------------------------------------
(* pushEvents                                                              *)

Batches ==
  {<<[id |-> e, run |-> run, status |-> status]>> : e \in SourceIds, run \in Runs, status \in Statuses}
  \cup UNION {{[i \in 1..Len(ids) |-> [id |-> ids[i], run |-> run, status |-> "none"]] : run \in Runs} :
                ids \in {q \in BoundedSeq(EventIds, MaxBatch) : q # << >> /\ IsInjective(q)}}
IsTerminal(batch) == batch[1].status # "none"
TerminalIn(batch) ==
  [runId |-> batch[1].run, status |-> batch[1].status, sourceEventId |-> batch[1].id]
ActiveTicket == [revision |-> activeRun.revision, runId |-> activeRun.runId]

(* A push settles, and with it those that joined its terminal.             *)
Settled(p, how) ==
  [q \in Pushes |->
     IF q = p \/ (push[q].state = "joined" /\ push[q].task = p)
     THEN [push[q] EXCEPT !.state = how, !.left = << >>, !.reply = 0] ELSE push[q]]

(* The envelope of an id is that of its first push still remembered.       *)
Envelope(p, s) == IF retained[s].env = 0 THEN p ELSE retained[s].env
IdsOf(batch) == {batch[i].id : i \in DOMAIN batch}
Held == {s \in Ids : retained[s].env # 0}
Retain(p, batch) ==
  /\ retained' = [s \in Ids |-> IF s \in IdsOf(batch) THEN [env |-> Envelope(p, s), owner |-> p]
                                ELSE retained[s]]
  /\ prior' = [s \in Ids |-> IF s \in IdsOf(batch)
                             THEN [push |-> p, env |-> Envelope(p, s), revision |-> activeRun.revision]
                             ELSE prior[s]]

Queued(p, batch) ==
  [NoPush EXCEPT !.state = "queued", !.batch = batch, !.ticket = ActiveTicket, !.left = batch]
Enqueue(p, batch) ==
  /\ push' = [push EXCEPT ![p] = Queued(p, batch)]
  /\ lane' = Append(lane, p)

(* #prepareEventPush: what keeps a push out.                               *)
ExcludedUnselected(batch) ==               \* bug: events are not held against the terminal
  \/ link # "greeted"
  \/ batch[1].run # activeRun.runId
  \/ Cardinality(Held \cup IdsOf(batch)) > MaxRetained
  \/ IsTerminal(batch) /\ SelectionResult(TerminalIn(batch)) \in {"conflict", "cancelled"}
Excluded(batch) ==
  \/ link # "greeted"
  \/ batch[1].run # activeRun.runId
  \/ Cardinality(Held \cup IdsOf(batch)) > MaxRetained
  \/ IF IsTerminal(batch) THEN SelectionResult(TerminalIn(batch)) \in {"conflict", "cancelled"}
     ELSE activeRun.terminal # Null

(* An event is prepared at once; a terminal first passes the barrier of    *)
(* the dispatcher.                                                         *)
PushEvents(p) ==
  /\ push[p].state = "new"
  /\ \A q \in 1..(p - 1) : push[q].state # "new"
  /\ \E batch \in Batches :
       IF rejection \/ (~IsTerminal(batch) /\ Excluded(batch))
       THEN /\ push' = Settled(p, "failed")
            /\ UNCHANGED <<lane, retained, prior>>
       ELSE IF IsTerminal(batch)
       THEN /\ push' = [push EXCEPT ![p].state = "barrier", ![p].batch = batch]
            /\ UNCHANGED <<lane, retained, prior>>
       ELSE Retain(p, batch) /\ Enqueue(p, batch)
  /\ UNCHANGED <<terminalVars, link, rejection, task, report, wire, hostVars>>

(* The barrier lets a terminal pass: it is acknowledged already, joins the *)
(* task of the same terminal, or queues up, selected now or before.        *)
PrepareTerminal(p, batch) ==
  IF SelectionResult(TerminalIn(batch)) = "acked"
  THEN push' = Settled(p, "resolved") /\ UNCHANGED <<terminalVars, lane, task>>
  ELSE IF SelectionResult(TerminalIn(batch)) = "pending" /\ task # 0
  THEN /\ push' = [push EXCEPT ![p].state = "joined", ![p].task = task]
       /\ UNCHANGED <<terminalVars, lane, task>>
  ELSE /\ Enqueue(p, batch)
       /\ task' = p
       /\ IF SelectionResult(TerminalIn(batch)) = "selected"
          THEN SelectRunTerminal(ActiveTicket, TerminalIn(batch))
          ELSE UNCHANGED terminalVars
PassBarrier(p) ==
  /\ push[p].state = "barrier"
  /\ IF Excluded(push[p].batch)
     THEN push' = [push EXCEPT ![p] = Refused] /\ UNCHANGED <<terminalVars, lane, task, retained, prior>>
     ELSE PrepareTerminal(p, push[p].batch) /\ Retain(p, push[p].batch)
  /\ UNCHANGED <<link, rejection, report, wire, hostVars>>

(* The barrier rejects, or the signal aborts while it is awaited.          *)
BarrierFails(p) ==
  /\ push[p].state = "barrier"
  /\ push' = [push EXCEPT ![p] = Refused]
  /\ UNCHANGED <<terminalVars, link, rejection, lane, task, retained, report, prior, wire, hostVars>>

-----------------------------------------------------------------------------
(* The lane                                                                *)

Leave(entry) == lane' = RemoveAt(lane, CHOOSE i \in DOMAIN lane : lane[i] = entry)
Ends(p, how) ==
  /\ push' = Settled(p, how)
  /\ Leave(p)
  /\ task' = IF task = p THEN 0 ELSE task

FailPush(p) ==
  /\ Ends(p, "failed")
  /\ UNCHANGED <<terminalVars, link, rejection, retained, report, prior, wire, hostVars>>

(* The signal of a waiting push aborts: it leaves the lane unsent.         *)
AbortWaiting(p) == push[p].state = "queued" /\ FailPush(p)

(* #assertConnection and #assertRunTicket, before and after every RPC.     *)
TicketHolds(p) == activeRun.revision = push[p].ticket.revision
StillMine(p) == link = "greeted" /\ TicketHolds(p)

MyTurn(entry) == lane # << >> /\ Head(lane) = entry
Transmit(p) ==
  /\ push' = [push EXCEPT ![p].state = "sent", ![p].reply = 0]
  /\ wire' = Append(wire, [from |-> p, events |-> push[p].left, report |-> NoReport])
StartDelivery(p) ==
  /\ push[p].state = "queued" /\ MyTurn(p)
  /\ IF StillMine(p)
     THEN /\ Transmit(p)
          /\ UNCHANGED <<terminalVars, link, rejection, lane, task, retained, report, prior, hostVars>>
     ELSE FailPush(p)

(* The RPC is rejected, times out, is aborted, or accepts nothing.         *)
RpcFails(p) == push[p].state = "sent" /\ FailPush(p)

(* A reply: more to send, done, or the fence.                              *)
AnyAccepted(p) == push[p].reply \in 2..(Len(push[p].left) + 1)     \* bug: a prefix will do
AllAccepted(p) == push[p].reply = Len(push[p].left) + 1
ReplyPartial(p) ==
  /\ push[p].state = "sent" /\ push[p].reply \in 2..Len(push[p].left)
  /\ IF StillMine(p)
     THEN LET rest == SubSeq(push[p].left, push[p].reply, Len(push[p].left))
          IN  /\ push' = [push EXCEPT ![p].left = rest, ![p].reply = 0]
              /\ wire' = Append(wire, [from |-> p, events |-> rest, report |-> NoReport])
              /\ UNCHANGED <<terminalVars, link, rejection, lane, task, retained, report, prior,
                             hostVars>>
     ELSE FailPush(p)

(* Done: a terminal is acknowledged; what this push owns is forgotten.     *)
OwnsAny(p, s) == TRUE                      \* bug: forgets what a later push retains
Owns(p, s) == retained[s].owner = p
Completed(p) ==
  /\ Ends(p, "resolved")
  /\ retained' = [s \in Ids |-> IF s \in IdsOf(push[p].batch) \ SourceIds /\ Owns(p, s)
                                THEN [env |-> 0, owner |-> 0] ELSE retained[s]]
  /\ UNCHANGED <<link, rejection, report, prior, wire, hostVars>>
ReplyDone(p) ==
  /\ push[p].state = "sent" /\ AllAccepted(p)
  /\ IF ~StillMine(p) THEN FailPush(p)
     ELSE /\ Completed(p)
          /\ IF IsTerminal(push[p].batch) /\ activeRun.terminal.phase # "acked"
             THEN \E seq \in Seqs : AckRunTerminal(push[p].ticket,
                                                   [eventId |-> push[p].batch[1].id, seq |-> seq])
             ELSE UNCHANGED terminalVars

(* #fenceTerminalConflict: the socket closes and sends nothing any more.   *)
Fence ==
  /\ rejection' = TRUE
  /\ link' = "closed"
  /\ retained' = NoEnvelopes
  /\ wire' \in {wire, << >>}
ReplyConflict(p) ==
  /\ push[p].state = "sent" /\ push[p].reply = Conflict
  /\ Ends(p, "failed")
  /\ Fence
  /\ UNCHANGED <<terminalVars, report, prior, hostVars>>

-----------------------------------------------------------------------------
(* #deliverRunTerminal: completeRun and failRun of the instance            *)

(* A client captured before hello suffices for the terminal of the instance. *)
Connected == link \in {"connected", "greeted"}
SameReport(terminal) ==
  instanceTerminal.phase # "open" => instanceTerminal.terminal = terminal
DeliverReport ==
  /\ ~rejection /\ report.n < MaxReports /\ report.state = "idle"
  /\ \E status \in {"completed", "failed"}, fallback \in Runs :
       LET terminal == [runId |-> TerminalRunId(fallback), status |-> status]
       IN  /\ SameReport(terminal)
           /\ instanceTerminal.phase # "acked"
           /\ IF instanceTerminal.phase = "open" THEN SelectInstanceTerminal(terminal)
              ELSE UNCHANGED terminalVars
           /\ report' = [state |-> "queued", terminal |-> terminal, bound |-> Connected, reply |-> 0,
                         n |-> report.n + 1]
  /\ lane' = Append(lane, Report)
  /\ UNCHANGED <<link, rejection, push, task, retained, prior, wire, hostVars>>

EndReport ==
  /\ report' = [report EXCEPT !.state = "idle", !.reply = 0]
  /\ Leave(Report)
FailReport ==
  /\ EndReport
  /\ UNCHANGED <<terminalVars, link, rejection, push, task, retained, prior, wire, hostVars>>

StartReport ==
  /\ report.state = "queued" /\ MyTurn(Report)
  /\ IF report.bound /\ Connected
     THEN /\ report' = [report EXCEPT !.state = "sent", !.reply = 0]
          /\ wire' = Append(wire, [from |-> Report, events |-> << >>, report |-> report.terminal])
          /\ UNCHANGED <<terminalVars, link, rejection, push, lane, task, retained, prior, hostVars>>
     ELSE FailReport
ReportFails == report.state \in {"queued", "sent"} /\ FailReport
ReportDone ==
  /\ report.state = "sent" /\ report.reply = 1
  /\ IF Connected
     THEN /\ EndReport
          /\ AckInstanceTerminal(report.terminal)
          /\ UNCHANGED <<link, rejection, push, task, retained, prior, wire, hostVars>>
     ELSE FailReport
ReportConflict ==
  /\ report.state = "sent" /\ report.reply = Conflict
  /\ EndReport
  /\ Fence
  /\ UNCHANGED <<terminalVars, push, task, prior, hostVars>>

-----------------------------------------------------------------------------
(* The control plane                                                       *)

Known(e) == \E i \in DOMAIN log : \E f \in log[i] : f.id = e.id /\ f.run = e.run
Decides(e) == e.status # "none"
ConflictsWith(e) == Decides(e) /\ e.run \in hostRuns
Answer(m, reply) ==
  /\ push' = IF m.from # Report /\ push[m.from].state = "sent"
             THEN [push EXCEPT ![m.from].reply = reply] ELSE push
  /\ report' = IF m.from = Report /\ report.state = "sent" THEN [report EXCEPT !.reply = reply]
               ELSE report

(* It takes the next message and accepts a prefix, or reports a conflict.  *)
HostTakes ==
  /\ wire # << >>
  /\ wire' = Tail(wire)
  /\ LET m == Head(wire)
     IN  IF m.from = Report
         THEN IF m.report.runId \in hostRuns
              THEN Answer(m, Conflict) /\ UNCHANGED <<log, hostReport>>
              ELSE Answer(m, 1) /\ hostReport' = hostReport \cup {m.report} /\ UNCHANGED log
         ELSE IF ConflictsWith(m.events[1])
         THEN Answer(m, Conflict) /\ UNCHANGED <<log, hostReport>>
         ELSE \E n \in 1..Len(m.events) :
                /\ Answer(m, n + 1)
                /\ LET fresh == {e \in {m.events[i] : i \in 1..n} : ~Known(e)}
                   IN  log' = IF fresh = {} THEN log ELSE Append(log, fresh)
                /\ UNCHANGED hostReport
  /\ UNCHANGED <<terminalVars, link, rejection, lane, task, retained, prior, hostRuns>>

(* It decides a run itself, for instance because it gave the driver up.    *)
HostDecides ==
  /\ \E run \in Runs \ hostRuns :
       /\ \A i \in DOMAIN log : \A e \in log[i] : e.run = run => ~Decides(e)
       /\ hostRuns' = hostRuns \cup {run}
  /\ UNCHANGED <<terminalVars, link, rejection, push, lane, task, retained, report, prior, wire, log,
                 hostReport>>

-----------------------------------------------------------------------------

SocketNext ==
  \/ Connect \/ Hello \/ Close
  \/ SocketBeginsRun \/ SocketClaims \/ SocketReleasesRun
  \/ \E p \in Pushes :
       \/ PushEvents(p) \/ PassBarrier(p) \/ BarrierFails(p) \/ AbortWaiting(p)
       \/ StartDelivery(p) \/ RpcFails(p) \/ ReplyPartial(p) \/ ReplyDone(p) \/ ReplyConflict(p)
  \/ DeliverReport \/ StartReport \/ ReportFails \/ ReportDone \/ ReportConflict
  \/ HostTakes \/ HostDecides

SocketSpec == SocketInit /\ [][SocketNext]_vars

-----------------------------------------------------------------------------
(* Properties                                                              *)

(* In the host's log the terminal of a run follows every event of the run, *)
(* and there is one, whatever was retried, aborted while it waited, or     *)
(* arrived after its sender gave up.                                       *)
TerminalIsLastOfRun ==
  \A i, j \in DOMAIN log : \A e \in log[i], f \in log[j] :
    i <= j /\ Decides(e) /\ f.run = e.run => i = j /\ f = e

(* What the terminal state machine calls acknowledged has been received:   *)
(* the terminal of a run, the terminal of the instance, and every event of *)
(* a push that resolved.                                                   *)
AcknowledgedIsReceived ==
  /\ \A a \in published : \E i \in DOMAIN log :
       [id |-> a.value.sourceEventId, run |-> a.value.runId, status |-> a.value.status] \in log[i]
  /\ instanceTerminal.phase = "acked" => instanceTerminal.terminal \in hostReport
  /\ \A p \in Pushes : push[p].state = "resolved" =>
       \A s \in IdsOf(push[p].batch) : \E i \in DOMAIN log : \E e \in log[i] : e.id = s

(* As long as the run lasts, an event whose last push has not succeeded    *)
(* keeps its envelope, so that the host recognises the retry.              *)
UnknownKeepsEnvelope ==
  link = "greeted" =>
    \A s \in EventIds :
      prior[s].push # 0 /\ prior[s].revision = activeRun.revision
        /\ push[prior[s].push].state # "resolved"
      => retained[s].env = prior[s].env

(* The log of the host holds what the driver takes for told, in an order   *)
(* that ends every run with its terminal.                                  *)
HostLogIsTrue == AcknowledgedIsReceived /\ TerminalIsLastOfRun
=============================================================================
