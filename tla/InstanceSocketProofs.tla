-------------------------- MODULE InstanceSocketProofs --------------------------
(***************************************************************************)
(* Proofs about InstanceSocket, for any runs, events, batches and calls.   *)
(* Neither property is inductive.  The strengthening, SocketIInv, follows  *)
(* an event from the call of pushEvents to the log of the host:            *)
(*   - the lane holds the deliveries under way and nothing else, and only  *)
(*     its head has been sent (LaneIsTrue, PushesAreTrue, TaskIsTrue);     *)
(*   - a message on the wire is that of a push that still awaits it, which *)
(*     then has sent no other, or of one that gave up (WireIsTrue);        *)
(*   - among all that is waiting, sent or taken, a run has one terminal,   *)
(*     which is the one selected as long as the run lasts (TerminalIsOne);   *)
(*   - in the lane, from there to the wire and from there to the log, no   *)
(*     event of a run comes after its terminal (EventsInOrder);            *)
(*   - what a reply says was accepted, the host has (HostKnows), and what  *)
(*     is retained belongs to the last push of it (EnvelopesKept).         *)
(* A step is taken in two stages: first what it does to the pushes and to  *)
(* the lane (Rests, Turned, Queues, Sends, Ending, Answered, Reporting),   *)
(* and then what each part of the invariant makes of such a step.          *)
(***************************************************************************)
EXTENDS InstanceSocket, TerminalStateProofs, SequenceTheorems

-----------------------------------------------------------------------------
(* Types and the parts of the invariant.                                   *)

Events == [id : SourceIds, run : Runs, status : Statuses]
            \cup [id : EventIds, run : Runs, status : {"none"}]
Entries == Pushes \cup {Report}
PushStates == {"new", "failed", "resolved", "barrier", "joined", "queued", "sent"}
PushRecord == [state : PushStates, batch : Seq(Events),
               ticket : [revision : Nat, runId : Runs \cup {NoRun}],
               left : Seq(Events), reply : Nat, task : {0} \cup Pushes]
ReportTerminal == [runId : Runs \cup {NoRun}, status : {"none", "completed", "failed"}]
ReportRecord == [state : {"idle", "queued", "sent"}, terminal : ReportTerminal, bound : BOOLEAN,
                 reply : Nat, n : Nat]
Message == [from : Entries, events : Seq(Events), report : ReportTerminal]
Slot == [env : {0} \cup Pushes, owner : {0} \cup Pushes]
Trace == [push : {0} \cup Pushes, env : {0} \cup Pushes, revision : Nat]
Links == {"new", "connected", "greeted", "closed"}

SocketTypeOK ==
  /\ link \in Links
  /\ push \in [Pushes -> PushRecord]
  /\ lane \in Seq(Entries) /\ task \in {0} \cup Pushes
  /\ retained \in [Ids -> Slot]
  /\ report \in ReportRecord
  /\ prior \in [Ids -> Trace]
  /\ wire \in Seq(Message)
  /\ log \in Seq(SUBSET Events)

(* The run that is driven is one that was issued.                          *)
ActiveIsIssued == activeRun # NullRun => ActiveTicket \in issued

(* Events of one run, a terminal alone.                                    *)
BatchOK(b) ==
  /\ b \in Seq(Events) /\ Len(b) \in 1..MaxBatch
  /\ \A i \in 1..Len(b) : b[i].run = b[1].run /\ (b[i].status # "none" => Len(b) = 1)

(* Who waits in the lane, and in which place: only its head is at work.    *)
Live(p) == push[p].state \in {"queued", "sent"}
InLane(a) == \E i \in 1..Len(lane) : lane[i] = a
Before(a, b) == \E i, j \in 1..Len(lane) : i < j /\ lane[i] = a /\ lane[j] = b
PlacesDiffer == \A i, j \in 1..Len(lane) : lane[i] = lane[j] => i = j
LaneIsTrue ==
  /\ PlacesDiffer
  /\ \A p \in Pushes : Live(p) <=> InLane(p)
  /\ report.state # "idle" <=> InLane(Report)
  /\ \A p \in Pushes : push[p].state = "sent" => MyTurn(p)
  /\ report.state = "sent" => MyTurn(Report)

(* A push from the call to its verdict.                                    *)
PushIsTrue(p) ==
  /\ push[p].state \in {"barrier", "joined", "queued", "sent"} => BatchOK(push[p].batch)
  /\ push[p].state \in {"barrier", "joined"} => IsTerminal(push[p].batch)
  /\ push[p].state = "queued" => push[p].left = push[p].batch
  /\ push[p].state = "sent" =>
       /\ BatchOK(push[p].left)
       /\ \A i \in 1..Len(push[p].left) : \E j \in 1..Len(push[p].batch) : push[p].left[i] = push[p].batch[j]
  /\ Live(p) => push[p].ticket.runId = push[p].batch[1].run
  /\ push[p].state = "joined" => /\ push[p].task \in Pushes /\ Live(push[p].task)
                                 /\ push[push[p].task].batch = push[p].batch
PushesAreTrue == \A p \in Pushes : PushIsTrue(p)

(* The terminal task is a push under way with a terminal of the run.       *)
TaskIsTrue ==
  task # 0 => Live(task) /\ IsTerminal(push[task].batch) /\ push[task].batch[1].run = activeRun.runId

(* The messages on the wire, and whom the answer to one reaches.           *)
WireIsTrue ==
  /\ \A k \in 1..Len(wire) : wire[k].from # Report =>
       /\ BatchOK(wire[k].events)
       /\ push[wire[k].from].state \in {"sent", "failed", "resolved"}
       /\ push[wire[k].from].state = "sent" =>
            push[wire[k].from].reply = 0 /\ wire[k].events = push[wire[k].from].left
  /\ \A k, l \in 1..Len(wire) :
       k # l /\ wire[k].from = wire[l].from /\ wire[k].from # Report
         => push[wire[k].from].state # "sent"

(* The terminal of the instance: what is reported is what was selected.    *)
ReportIsTrue ==
  /\ \A k \in 1..Len(wire) : wire[k].from = Report =>
       instanceTerminal.phase # "open" /\ wire[k].report = instanceTerminal.terminal
  /\ report.state # "idle" =>
       instanceTerminal.phase # "open" /\ report.terminal = instanceTerminal.terminal
  /\ report.state # "idle" /\ report.reply = 1 => instanceTerminal.terminal \in hostReport
  /\ instanceTerminal.phase = "acked" => instanceTerminal.terminal \in hostReport

(* The events the host has or may still get.                               *)
InLog(e) == \E i \in 1..Len(log) : e \in log[i]
OnWire(e) ==
  \E k \in 1..Len(wire) : wire[k].from # Report /\ \E i \in 1..Len(wire[k].events) : wire[k].events[i] = e
InPush(e) == \E p \in Pushes : Live(p) /\ \E i \in 1..Len(push[p].batch) : push[p].batch[i] = e
Sent(e) == InLog(e) \/ OnWire(e) \/ InPush(e)

(* They are of a run that was issued, and a run has one terminal: that     *)
(* which the terminal state machine selected.                              *)
Selected(e) ==
  /\ activeRun.terminal # Null
  /\ activeRun.terminal.value = [runId |-> e.run, status |-> e.status, sourceEventId |-> e.id]
TerminalIsOne ==
  \A e \in Events : Sent(e) =>
    /\ \E ticket \in issued : ticket.runId = e.run
    /\ Decides(e) /\ e.run = activeRun.runId => Selected(e)
    /\ \A f \in Events : Sent(f) /\ Decides(e) /\ Decides(f) /\ e.run = f.run => e = f

(* No event of a run is behind its terminal, from the lane to the log.     *)
Closes(b, c) == IsTerminal(b) /\ c[1].run = b[1].run => IsTerminal(c)
EventsInOrder ==
  /\ \A p, q \in Pushes : Before(p, q) => Closes(push[p].batch, push[q].batch)
  /\ \A k \in 1..Len(wire), p \in Pushes : wire[k].from # Report /\ Live(p)
       => Closes(wire[k].events, push[p].batch)
  /\ \A k, l \in 1..Len(wire) : k < l /\ wire[k].from # Report /\ wire[l].from # Report
       => Closes(wire[k].events, wire[l].events)
  /\ \A e \in Events : InLog(e) /\ Decides(e) =>
       /\ \A k \in 1..Len(wire) : wire[k].from # Report => Closes(<<e>>, wire[k].events)
       /\ \A p \in Pushes : Live(p) => Closes(<<e>>, push[p].batch)

(* What the driver has been told the host has, the host has.               *)
Arrived(p) ==
  /\ \A i \in 1..Len(push[p].batch) :
       Known(push[p].batch[i]) \/ \E j \in 1..Len(push[p].left) : push[p].batch[i] = push[p].left[j]
  /\ push[p].reply \in 2..(Len(push[p].left) + 1) =>
       \A i \in 1..(push[p].reply - 1) : Known(push[p].left[i])
HostKnows ==
  /\ \A p \in Pushes : push[p].state = "sent" => Arrived(p)
  /\ activeRun.terminal.phase = "acked" => \E e \in Events : InLog(e) /\ Selected(e)

(* The envelopes of the events.                                            *)
EnvelopesKept ==
  /\ \A s \in Ids : prior[s].push # 0 => /\ prior[s].env # 0 /\ prior[s].revision \in 1..revision
                                         /\ push[prior[s].push].state # "new"
                                         /\ link \in {"greeted", "closed"}
  /\ \A s \in Ids : retained[s].env # 0 => retained[s].owner = prior[s].push
  /\ UnknownKeepsEnvelope

-----------------------------------------------------------------------------
(* Sequences and the lane                                                  *)

LEMMA ElementRemoved ==
  ASSUME NEW S, NEW s \in Seq(S), NEW n \in 1..Len(s)
  PROVE  /\ RemoveAt(s, n) \in Seq(S)
         /\ Len(RemoveAt(s, n)) = Len(s) - 1
         /\ \A i \in 1..(Len(s) - 1) : RemoveAt(s, n)[i] = IF i < n THEN s[i] ELSE s[i + 1]
<1> DEFINE a == SubSeq(s, 1, n - 1)
           b == SubSeq(s, n + 1, Len(s))
<1>1. /\ a \in Seq(S) /\ Len(a) = n - 1
      /\ \A i \in 1..(n - 1) : a[i] = s[i]
  <2>1. \A i \in 1..(n - 1) : s[i] \in S
    OBVIOUS
  <2>2. /\ SubSeq(s, 1, n - 1) \in Seq(S)
        /\ Len(SubSeq(s, 1, n - 1)) = IF 1 <= n - 1 THEN (n - 1) - 1 + 1 ELSE 0
        /\ \A i \in 1..((n - 1) - 1 + 1) : SubSeq(s, 1, n - 1)[i] = s[1 + i - 1]
    BY <2>1, SubSeqProperties
  <2> QED BY <2>2
<1>2. /\ b \in Seq(S) /\ Len(b) = Len(s) - n
      /\ \A i \in 1..(Len(s) - n) : b[i] = s[n + i]
  <2>1. \A i \in (n + 1)..Len(s) : s[i] \in S
    OBVIOUS
  <2>2. /\ SubSeq(s, n + 1, Len(s)) \in Seq(S)
        /\ Len(SubSeq(s, n + 1, Len(s))) = IF n + 1 <= Len(s) THEN Len(s) - (n + 1) + 1 ELSE 0
        /\ \A i \in 1..(Len(s) - (n + 1) + 1) : SubSeq(s, n + 1, Len(s))[i] = s[(n + 1) + i - 1]
    BY <2>1, SubSeqProperties
  <2> QED BY <2>2
<1>3. RemoveAt(s, n) = a \o b
  BY DEF RemoveAt
<1> HIDE DEF a, b
<1>4. /\ a \o b \in Seq(S) /\ Len(a \o b) = Len(s) - 1
      /\ \A i \in 1..(Len(s) - 1) : (a \o b)[i] = IF i <= n - 1 THEN a[i] ELSE b[i - (n - 1)]
  BY <1>1, <1>2, ConcatProperties
<1> QED BY <1>1, <1>2, <1>3, <1>4

LEMMA EntryKinds ==
  /\ Report \notin Pushes /\ Report = 0
  /\ \A p \in Pushes : p \in Nat /\ p # 0 /\ p \in Entries
  /\ Report \in Entries
BY SocketBounds DEF Pushes, Report, Entries

(* The place of an entry in the lane.                                      *)
Place(entry) == CHOOSE i \in DOMAIN lane : lane[i] = entry

LEMMA LaneLeaves ==
  ASSUME lane \in Seq(Entries), PlacesDiffer, NEW a, InLane(a), Leave(a)
  PROVE  /\ lane' \in Seq(Entries) /\ PlacesDiffer'
         /\ \A b : InLane(b)' <=> InLane(b) /\ b # a
         /\ \A b, c : Before(b, c)' => Before(b, c)
         /\ \A b : MyTurn(b) /\ b # a => MyTurn(b)'
<1> DEFINE n == Place(a)
<1>1. n \in 1..Len(lane) /\ lane[n] = a
  BY DEF InLane, Place
<1>2. /\ lane' \in Seq(Entries) /\ Len(lane') = Len(lane) - 1
      /\ \A i \in 1..(Len(lane) - 1) : lane'[i] = IF i < n THEN lane[i] ELSE lane[i + 1]
  BY <1>1, ElementRemoved DEF Leave, Place
<1> HIDE DEF n
<1>3. PlacesDiffer'
  BY <1>1, <1>2 DEF PlacesDiffer
<1>4. ASSUME NEW b PROVE InLane(b)' <=> InLane(b) /\ b # a
  <2>1. ASSUME InLane(b)' PROVE InLane(b) /\ b # a
    BY <1>1, <1>2, <2>1 DEF InLane, PlacesDiffer
  <2>2. ASSUME InLane(b), b # a PROVE InLane(b)'
    <3>1. PICK i \in 1..Len(lane) : lane[i] = b
      BY <2>2 DEF InLane
    <3>2. CASE i < n
      BY <1>1, <1>2, <3>1, <3>2 DEF InLane
    <3>3. CASE i > n
      <4>1. i - 1 \in 1..Len(lane') /\ lane'[i - 1] = b
        BY <1>1, <1>2, <3>1, <3>3
      <4> QED BY <4>1 DEF InLane
    <3> QED BY <1>1, <2>2, <3>1, <3>2, <3>3
  <2> QED BY <2>1, <2>2
<1>5. ASSUME NEW b, NEW c, Before(b, c)' PROVE Before(b, c)
  <2>1. PICK i \in 1..Len(lane'), j \in 1..Len(lane') : i < j /\ lane'[i] = b /\ lane'[j] = c
    BY <1>5 DEF Before
  <2> DEFINE up(k) == IF k < n THEN k ELSE k + 1
  <2>2. up(i) \in 1..Len(lane) /\ up(j) \in 1..Len(lane) /\ up(i) < up(j)
        /\ lane[up(i)] = b /\ lane[up(j)] = c
    BY <1>1, <1>2, <2>1
  <2> QED BY <2>2 DEF Before
<1>6. ASSUME NEW b, MyTurn(b), b # a PROVE MyTurn(b)'
  <2>1. lane # << >> /\ lane[1] = b
    BY <1>6 DEF MyTurn
  <2>2. n # 1 /\ Len(lane) > 1
    BY <1>1, <1>6, <2>1
  <2>3. Len(lane') >= 1 /\ lane'[1] = b
    BY <1>1, <1>2, <2>1, <2>2
  <2> QED BY <1>2, <2>3 DEF MyTurn
<1> QED BY <1>2, <1>3, <1>4, <1>5, <1>6

LEMMA LaneAppends ==
  ASSUME lane \in Seq(Entries), PlacesDiffer, NEW a \in Entries, ~InLane(a), lane' = Append(lane, a)
  PROVE  /\ lane' \in Seq(Entries) /\ PlacesDiffer'
         /\ \A b : InLane(b)' <=> InLane(b) \/ b = a
         /\ \A b, c : Before(b, c)' => Before(b, c) \/ (c = a /\ InLane(b))
         /\ \A b : MyTurn(b) => MyTurn(b)'
<1>1. /\ lane' \in Seq(Entries) /\ Len(lane') = Len(lane) + 1 /\ Len(lane) \in Nat
      /\ \A i \in 1..Len(lane) : lane'[i] = lane[i]
      /\ lane'[Len(lane) + 1] = a
  OBVIOUS
<1>2. PlacesDiffer'
  BY <1>1 DEF PlacesDiffer, InLane
<1>3. ASSUME NEW b PROVE InLane(b)' <=> InLane(b) \/ b = a
  BY <1>1 DEF InLane
<1>4. ASSUME NEW b, NEW c, Before(b, c)' PROVE Before(b, c) \/ (c = a /\ InLane(b))
  BY <1>1, <1>4 DEF InLane, Before
<1>5. ASSUME NEW b, MyTurn(b) PROVE MyTurn(b)'
  BY <1>1, <1>5 DEF MyTurn
<1> QED BY <1>1, <1>2, <1>3, <1>4, <1>5

LEMMA HeadIsFirst ==
  ASSUME lane \in Seq(Entries), NEW a, MyTurn(a)
  PROVE  /\ InLane(a)
         /\ \A b : MyTurn(b) => a = b
         /\ \A b : InLane(b) /\ b # a => Before(a, b)
<1>1. Len(lane) \in Nat /\ Len(lane) >= 1 /\ lane[1] = a
  BY DEF MyTurn
<1> QED BY <1>1 DEF MyTurn, InLane, Before

LEMMA LaneStands ==
  ASSUME UNCHANGED lane
  PROVE  /\ PlacesDiffer' <=> PlacesDiffer
         /\ \A b : InLane(b)' <=> InLane(b)
         /\ \A b, c : Before(b, c)' <=> Before(b, c)
         /\ \A b : MyTurn(b)' <=> MyTurn(b)
BY DEF PlacesDiffer, InLane, Before, MyTurn

-----------------------------------------------------------------------------
(* Pushes and batches                                                      *)

LEMMA KindsDiffer ==
  /\ Statuses = {"completed", "failed", "cancelled"} /\ "none" \notin Statuses
  /\ \A e \in Events : /\ e.run \in Runs /\ e.id \in Ids
                       /\ e.id \in EventIds <=> e.status = "none"
                       /\ e.id \in SourceIds <=> Decides(e)
                       /\ Decides(e) => e.status \in Statuses
                       /\ e = [id |-> e.id, run |-> e.run, status |-> e.status]
BY SocketBounds DEF Statuses, Events, Ids, Decides

LEMMA BatchShape ==
  ASSUME NEW b, BatchOK(b)
  PROVE  /\ b \in Seq(Events) /\ Len(b) \in Nat /\ 1 <= Len(b) /\ Len(b) <= MaxBatch
         /\ \A i \in 1..Len(b) : b[i] \in Events /\ b[i].run = b[1].run
         /\ b[1] \in Events /\ b[1].run \in Runs
         /\ IsTerminal(b) <=> Decides(b[1])
         /\ IsTerminal(b) => Len(b) = 1 /\ b[1].id \in SourceIds /\ b = <<b[1]>>
         /\ ~IsTerminal(b) => \A i \in 1..Len(b) : ~Decides(b[i]) /\ b[i].id \in EventIds
<1>1. /\ b \in Seq(Events) /\ Len(b) \in Nat /\ 1 <= Len(b) /\ Len(b) <= MaxBatch
      /\ \A i \in 1..Len(b) : b[i] \in Events /\ b[i].run = b[1].run
      /\ 1 \in 1..Len(b)
  BY SocketBounds DEF BatchOK
<1>2. b[1] \in Events /\ b[1].run \in Runs
  BY <1>1, KindsDiffer
<1>3. IsTerminal(b) <=> Decides(b[1])
  BY DEF IsTerminal, Decides
<1>4. IsTerminal(b) => Len(b) = 1 /\ b[1].id \in SourceIds
  BY <1>1, <1>2, <1>3, KindsDiffer DEF BatchOK, IsTerminal
<1>5. IsTerminal(b) => b = <<b[1]>>
  BY <1>1, <1>4
<1>6. ASSUME ~IsTerminal(b), NEW i \in 1..Len(b) PROVE ~Decides(b[i]) /\ b[i].id \in EventIds
  BY <1>1, <1>6, KindsDiffer DEF BatchOK, IsTerminal, Decides
<1> QED BY <1>1, <1>2, <1>3, <1>4, <1>5, <1>6

LEMMA BatchesOK ==
  ASSUME NEW b \in Batches
  PROVE  /\ BatchOK(b)
         /\ IsTerminal(b) => \E e \in SourceIds, run \in Runs, status \in Statuses :
                               b = <<[id |-> e, run |-> run, status |-> status]>>
<1>1. CASE \E e \in SourceIds, run \in Runs, status \in Statuses :
             b = <<[id |-> e, run |-> run, status |-> status]>>
  <2>1. PICK e \in SourceIds, run \in Runs, status \in Statuses :
          b = <<[id |-> e, run |-> run, status |-> status]>>
    BY <1>1
  <2>2. [id |-> e, run |-> run, status |-> status] \in Events
    BY DEF Events
  <2>3. b \in Seq(Events) /\ Len(b) = 1
    BY <2>1, <2>2
  <2> QED BY <1>1, <2>3, SocketBounds DEF BatchOK
<1>2. CASE \E ids \in {q \in BoundedSeq(EventIds, MaxBatch) : q # << >> /\ IsInjective(q)}, run \in Runs :
             b = [i \in 1..Len(ids) |-> [id |-> ids[i], run |-> run, status |-> "none"]]
  <2>1. PICK ids \in BoundedSeq(EventIds, MaxBatch), run \in Runs :
          ids # << >> /\ b = [i \in 1..Len(ids) |-> [id |-> ids[i], run |-> run, status |-> "none"]]
    BY <1>2
  <2>2. PICK n \in 0..MaxBatch : ids \in [1..n -> EventIds]
    BY <2>1 DEF BoundedSeq, SeqOf
  <2>3. ids \in Seq(EventIds) /\ Len(ids) = n /\ n # 0
    BY <2>1, <2>2, SocketBounds
  <2>4. \A i \in 1..n : [id |-> ids[i], run |-> run, status |-> "none"] \in Events
    BY <2>2 DEF Events
  <2>5. b \in Seq(Events) /\ Len(b) = n /\ \A i \in 1..n : b[i].run = run /\ b[i].status = "none"
    BY <2>1, <2>3, <2>4, SocketBounds
  <2>6. n \in 1..MaxBatch
    BY <2>3, SocketBounds
  <2>7. BatchOK(b) /\ ~IsTerminal(b)
    BY <2>5, <2>6 DEF BatchOK, IsTerminal
  <2> QED BY <2>7
<1> QED BY <1>1, <1>2 DEF Batches

LEMMA LeftIsOfBatch ==
  ASSUME NEW p, PushIsTrue(p), Live(p)
  PROVE  /\ BatchOK(push[p].batch) /\ BatchOK(push[p].left)
         /\ \A i \in 1..Len(push[p].left) : \E j \in 1..Len(push[p].batch) : push[p].left[i] = push[p].batch[j]
         /\ IsTerminal(push[p].left) <=> IsTerminal(push[p].batch)
         /\ push[p].left[1].run = push[p].batch[1].run
         /\ IsTerminal(push[p].batch) => push[p].left = push[p].batch
<1> DEFINE b == push[p].batch
           l == push[p].left
<1>1. /\ BatchOK(b) /\ BatchOK(l)
      /\ \A i \in 1..Len(l) : \E j \in 1..Len(b) : l[i] = b[j]
  BY DEF PushIsTrue, Live
<1> HIDE DEF b, l
<1>2. PICK j \in 1..Len(b) : l[1] = b[j]
  BY <1>1, BatchShape
<1>3. l[1].run = b[1].run /\ (IsTerminal(l) => IsTerminal(b))
  BY <1>1, <1>2, BatchShape
<1>4. IsTerminal(b) => l[1] = b[1]
  BY <1>1, <1>2, BatchShape
<1>5. IsTerminal(b) => IsTerminal(l)
  BY <1>4 DEF IsTerminal
<1>6. IsTerminal(b) => l = b
  BY <1>1, <1>4, <1>5, BatchShape
<1> QED BY <1>1, <1>3, <1>5, <1>6 DEF b, l

LEMMA NoPushTyped ==
  /\ NoPush \in PushRecord /\ Refused \in PushRecord
  /\ Refused.state = "failed" /\ Refused.reply = 0
<1>1. << >> \in Seq(Events) /\ 0 \in Nat /\ 0 \in {0} \cup Pushes /\ "new" \in PushStates /\ "failed" \in PushStates
  BY DEF PushStates
<1>2. NoPush \in PushRecord
  BY <1>1 DEF NoPush, PushRecord
<1>3. Refused = [state |-> "failed", batch |-> << >>, ticket |-> [revision |-> 0, runId |-> NoRun],
                 left |-> << >>, reply |-> 0, task |-> 0]
  BY DEF NoPush, Refused
<1> QED BY <1>1, <1>2, <1>3 DEF PushRecord

(* A push that ends, and those that joined it.                             *)
Joins(q, p) == push[q].state = "joined" /\ push[q].task = p
Ended(p, how) ==
  \A q \in Pushes : IF q = p \/ Joins(q, p)
                    THEN push'[q].state = how /\ push'[q].batch = push[q].batch
                    ELSE push'[q] = push[q]

LEMMA SettledShape ==
  ASSUME push \in [Pushes -> PushRecord], NEW p \in Pushes, NEW how \in {"failed", "resolved"},
         push' = Settled(p, how)
  PROVE  push' \in [Pushes -> PushRecord] /\ Ended(p, how)
<1>1. \A q \in Pushes : /\ [push[q] EXCEPT !.state = how, !.left = << >>, !.reply = 0] \in PushRecord
                        /\ [push[q] EXCEPT !.state = how, !.left = << >>, !.reply = 0].state = how
                        /\ [push[q] EXCEPT !.state = how, !.left = << >>, !.reply = 0].batch = push[q].batch
  <2>1. how \in PushStates
    BY DEF PushStates
  <2>2. ASSUME NEW r \in PushRecord
        PROVE  LET t == [r EXCEPT !.state = how, !.left = << >>, !.reply = 0]
               IN  t \in PushRecord /\ t.state = how /\ t.batch = r.batch
    <3>1. << >> \in Seq(Events) /\ 0 \in Nat
      OBVIOUS
    <3> QED BY <2>1, <3>1 DEF PushRecord
  <2> QED BY <2>2
<1> QED BY <1>1 DEF Settled, Ended, Joins

LEMMA OnePushChanges ==
  ASSUME push \in [Pushes -> PushRecord], NEW p \in Pushes, NEW r \in PushRecord
  PROVE  /\ [push EXCEPT ![p] = r] \in [Pushes -> PushRecord]
         /\ \A q \in Pushes : [push EXCEPT ![p] = r][q] = IF q = p THEN r ELSE push[q]
OBVIOUS

-----------------------------------------------------------------------------
(* The socket drives the terminal state machine through its entry points   *)
(* only, with tickets that were issued.                                    *)

RunStands ==
  /\ UNCHANGED <<revision, issued>>
  /\ activeRun'.runId = activeRun.runId /\ activeRun'.revision = activeRun.revision
  /\ activeRun.terminal # Null =>
       activeRun'.terminal # Null /\ activeRun'.terminal.value = activeRun.terminal.value
InstanceStands == UNCHANGED instanceTerminal
(* Nothing is newly selected or acknowledged.                              *)
TerminalStands == UNCHANGED published /\ activeRun'.terminal = activeRun.terminal

LEMMA ActiveShape ==
  ASSUME IInv
  PROVE  /\ activeRun.runId \in Runs => activeRun # NullRun
         /\ activeRun # NullRun => /\ activeRun \in ActiveRun /\ activeRun.runId \in Runs
                                   /\ activeRun.revision = revision /\ revision \in Nat /\ revision > 0
         /\ activeRun.terminal \in RunTerminal
         /\ activeRun.terminal # Null => activeRun # NullRun
         /\ ActiveTicket \in [revision : Nat, runId : Runs \cup {NoRun}]
BY NullRunIsNoRun, NoRunAssumption
   DEF IInv, TerminalTypeOK, ActiveIsLatest, NullRun, ActiveRun, ActiveTicket

LEMMA ClaimStands ==
  ASSUME IInv, NEW ticket, NEW source, ClaimCancellation(ticket, source)
  PROVE  RunStands /\ InstanceStands /\ TerminalStands /\ (activeRun' = NullRun <=> activeRun = NullRun)
<1>1. activeRun # NullRun /\ activeRun \in ActiveRun
  BY ActiveShape DEF ClaimCancellation, RequireRun
<1>2. \A c : LET a == [activeRun EXCEPT !.claim = c]
             IN a.runId = activeRun.runId /\ a.revision = activeRun.revision /\ a.terminal = activeRun.terminal
  BY <1>1 DEF ActiveRun
<1>3. activeRun.runId # NoRun
  BY <1>1, NoRunAssumption DEF ActiveRun
<1> QED BY <1>1, <1>2, <1>3 DEF ClaimCancellation, RunStands, InstanceStands, TerminalStands, NullRun

LEMMA SelectStands ==
  ASSUME IInv, NEW ticket, NEW terminal, SelectRunTerminal(ticket, terminal)
  PROVE  /\ RunStands /\ InstanceStands /\ UNCHANGED published
         /\ activeRun.terminal = Null
         /\ activeRun'.terminal = [phase |-> "selected", value |-> terminal]
         /\ activeRun # NullRun /\ activeRun' # NullRun
<1>1. activeRun # NullRun /\ activeRun \in ActiveRun
  BY ActiveShape DEF SelectRunTerminal, RequireRun
<1>2. LET a == [activeRun EXCEPT !.terminal = [phase |-> "selected", value |-> terminal]]
      IN a.runId = activeRun.runId /\ a.revision = activeRun.revision
         /\ a.terminal = [phase |-> "selected", value |-> terminal]
  BY <1>1 DEF ActiveRun
<1>3. activeRun.runId # NoRun
  BY <1>1, NoRunAssumption DEF ActiveRun
<1>4. activeRun.terminal = Null
  BY DEF SelectRunTerminal, SelectionResult
<1> QED BY <1>1, <1>2, <1>3, <1>4
        DEF SelectRunTerminal, RunStands, InstanceStands, NullRun, historyVars

LEMMA AckStands ==
  ASSUME IInv, NEW ticket, NEW receipt, AckRunTerminal(ticket, receipt)
  PROVE  /\ RunStands /\ InstanceStands
         /\ published' = published \cup {[revision |-> ticket.revision, value |-> activeRun.terminal.value]}
         /\ activeRun.terminal # Null /\ activeRun.runId = ticket.runId
         /\ activeRun # NullRun /\ activeRun' # NullRun
<1>1. activeRun # NullRun /\ activeRun \in ActiveRun
  BY ActiveShape DEF AckRunTerminal, RequireRun
<1> DEFINE t == [phase |-> "acked", value |-> activeRun.terminal.value, receipt |-> receipt]
<1>2. LET a == [activeRun EXCEPT !.terminal = t]
      IN a.runId = activeRun.runId /\ a.revision = activeRun.revision /\ a.terminal = t
  BY <1>1 DEF ActiveRun
<1>3. activeRun.runId # NoRun
  BY <1>1, NoRunAssumption DEF ActiveRun
<1>4. t # Null /\ t.value = activeRun.terminal.value
  BY DEF Null
<1>5. activeRun.terminal # Null
  BY DEF AckRunTerminal, Null
<1> QED BY <1>1, <1>2, <1>3, <1>4, <1>5
        DEF AckRunTerminal, RunStands, InstanceStands, NullRun, RequireRun

LEMMA StandingTicket ==
  ASSUME IInv, ActiveIsIssued, RunStands, activeRun' # NullRun => activeRun # NullRun
  PROVE  ActiveIsIssued'
BY DEF ActiveIsIssued, RunStands, ActiveTicket

LEMMA BegunTicket ==
  ASSUME IInv, NEW run \in Runs, BeginRun(run)
  PROVE  ActiveIsIssued' /\ activeRun'.runId = run /\ activeRun'.terminal = Null
         /\ UNCHANGED <<published, instanceTerminal>>
BY DEF BeginRun, ActiveIsIssued, ActiveTicket

LEMMA ReleasedTicket ==
  ASSUME NEW ticket, NEW reason, ReleaseRun(ticket, reason)
  PROVE  /\ activeRun' = NullRun /\ ActiveIsIssued' /\ UNCHANGED <<revision, issued, published, instanceTerminal>>
BY DEF ReleaseRun, ActiveIsIssued, historyVars

LEMMA PassesMachine ==
  ASSUME SocketTypeOK, IInv, ActiveIsIssued, PushesAreTrue, NEW p \in Pushes, PassBarrier(p)
  PROVE  [TerminalNext]_terminalVars /\ ActiveIsIssued'
<1> DEFINE b == push[p].batch
<1>1. BatchOK(b) /\ IsTerminal(b)
  BY DEF PassBarrier, PushesAreTrue, PushIsTrue
<1>2. TerminalIn(b) \in Identity /\ TerminalIn(b).runId = b[1].run
  BY <1>1, BatchShape, KindsDiffer DEF TerminalIn, Identity
<1>3. CASE UNCHANGED terminalVars
  BY <1>3 DEF ActiveIsIssued, ActiveTicket, terminalVars, machineVars, historyVars
<1>4. CASE SelectRunTerminal(ActiveTicket, TerminalIn(b))
  <2>1. ActiveTicket \in issued
    BY <1>4 DEF SelectRunTerminal, RequireRun, ActiveIsIssued
  <2>2. TerminalNext
    BY <1>2, <1>4, <2>1 DEF TerminalNext, TicketStep
  <2> QED BY <1>4, <2>2, SelectStands, StandingTicket
<1> HIDE DEF b
<1>5. UNCHANGED terminalVars \/ SelectRunTerminal(ActiveTicket, TerminalIn(b))
  BY DEF PassBarrier, PrepareTerminal, b
<1> QED BY <1>3, <1>4, <1>5

LEMMA DoneMachine ==
  ASSUME SocketTypeOK, IInv, ActiveIsIssued, PushesAreTrue, NEW p \in Pushes, ReplyDone(p)
  PROVE  [TerminalNext]_terminalVars /\ ActiveIsIssued'
<1>1. CASE UNCHANGED terminalVars
  BY <1>1 DEF ActiveIsIssued, ActiveTicket, terminalVars, machineVars, historyVars
<1>2. ASSUME IsTerminal(push[p].batch), NEW seq \in Seqs,
             AckRunTerminal(push[p].ticket, [eventId |-> push[p].batch[1].id, seq |-> seq])
      PROVE  [TerminalNext]_terminalVars /\ ActiveIsIssued'
  <2>1. push[p].ticket = ActiveTicket /\ activeRun # NullRun
    <3>1. push[p].ticket \in [revision : Nat, runId : Runs \cup {NoRun}]
      BY DEF SocketTypeOK, PushRecord
    <3> QED BY <1>2, <3>1 DEF AckRunTerminal, RequireRun, ActiveTicket
  <2>2. push[p].batch[1].id \in SourceIds
    BY <1>2, BatchShape DEF ReplyDone, PushesAreTrue, PushIsTrue
  <2>3. push[p].ticket \in issued /\ [eventId |-> push[p].batch[1].id, seq |-> seq] \in Receipt
    BY <2>1, <2>2 DEF ActiveIsIssued, Receipt
  <2>4. TerminalNext
    BY <1>2, <2>3 DEF TerminalNext, TicketStep
  <2> QED BY <1>2, <2>4, AckStands, StandingTicket
<1>3. \/ UNCHANGED terminalVars
      \/ IsTerminal(push[p].batch) /\ \E seq \in Seqs :
           AckRunTerminal(push[p].ticket, [eventId |-> push[p].batch[1].id, seq |-> seq])
  BY DEF ReplyDone, FailPush
<1> QED BY <1>1, <1>2, <1>3

LEMMA ReportsMachine ==
  ASSUME SocketTypeOK, IInv, ActiveIsIssued, DeliverReport \/ ReportDone
  PROVE  [TerminalNext]_terminalVars /\ ActiveIsIssued'
<1>1. CASE UNCHANGED terminalVars
  BY <1>1 DEF ActiveIsIssued, ActiveTicket, terminalVars, machineVars, historyVars
<1>2. ASSUME NEW terminal \in InstanceTerminal,
             SelectInstanceTerminal(terminal) \/ AckInstanceTerminal(terminal)
      PROVE  [TerminalNext]_terminalVars /\ ActiveIsIssued'
  BY <1>2 DEF TerminalNext, InstanceStep, SelectInstanceTerminal, AckInstanceTerminal,
              ActiveIsIssued, ActiveTicket, historyVars
<1>3. ASSUME DeliverReport, ~UNCHANGED terminalVars
      PROVE  \E terminal \in InstanceTerminal : SelectInstanceTerminal(terminal)
  <2>1. PICK status \in {"completed", "failed"}, fallback \in Runs :
          LET terminal == [runId |-> TerminalRunId(fallback), status |-> status]
          IN  instanceTerminal.phase = "open" /\ SelectInstanceTerminal(terminal)
    BY <1>3 DEF DeliverReport
  <2>2. TerminalRunId(fallback) \in Runs
    BY <2>1, ActiveShape DEF IInv, TerminalTypeOK, TerminalRunId
  <2> QED BY <2>1, <2>2 DEF InstanceTerminal
<1>4. ASSUME ReportDone, ~UNCHANGED terminalVars
      PROVE  \E terminal \in InstanceTerminal : AckInstanceTerminal(terminal)
  BY <1>4 DEF ReportDone, FailReport, AckInstanceTerminal, IInv, TerminalTypeOK
<1> QED BY <1>1, <1>2, <1>3, <1>4

LEMMA SocketStepsMachine ==
  ASSUME SocketTypeOK, IInv, ActiveIsIssued, PushesAreTrue, [SocketNext]_vars
  PROVE  [TerminalNext]_terminalVars /\ ActiveIsIssued'
<1>1. CASE UNCHANGED terminalVars
  BY <1>1 DEF ActiveIsIssued, ActiveTicket, terminalVars, machineVars, historyVars
<1>2. CASE Hello
  <2>1. ASSUME NEW run \in Runs, RememberOwnedRunId(run)
        PROVE  [TerminalNext]_terminalVars /\ ActiveIsIssued'
    BY <2>1 DEF TerminalNext, RememberOwnedRunId, ActiveIsIssued, ActiveTicket, historyVars
  <2> QED BY <1>1, <1>2, <2>1 DEF Hello
<1>3. CASE SocketBeginsRun
  <2>1. PICK run \in Runs : BeginRun(run) /\ revision < MaxRevision
    BY <1>3 DEF SocketBeginsRun
  <2> QED BY <2>1, BegunTicket DEF TerminalNext
<1>4. CASE SocketClaims
  <2>1. PICK ticket \in issued, source \in ClaimSources : ClaimCancellation(ticket, source)
    BY <1>4 DEF SocketClaims
  <2>2. TerminalNext
    BY <2>1, SocketBounds DEF TerminalNext, TicketStep
  <2> QED BY <2>1, <2>2, ClaimStands, StandingTicket
<1>5. CASE SocketReleasesRun
  <2>1. PICK ticket \in issued, reason \in {"command_acked", "driver_failing"} : ReleaseRun(ticket, reason)
    BY <1>5 DEF SocketReleasesRun
  <2>2. TerminalNext
    BY <2>1 DEF TerminalNext, TicketStep
  <2> QED BY <2>1, <2>2, ReleasedTicket
<1>6. ASSUME NEW p \in Pushes, PassBarrier(p) \/ ReplyDone(p)
      PROVE  [TerminalNext]_terminalVars /\ ActiveIsIssued'
  BY <1>6, PassesMachine, DoneMachine
<1>7. CASE DeliverReport \/ ReportDone
  BY <1>7, ReportsMachine
<1>8. ASSUME NEW p \in Pushes,
             \/ PushEvents(p) \/ BarrierFails(p) \/ AbortWaiting(p)
             \/ StartDelivery(p) \/ RpcFails(p) \/ ReplyPartial(p) \/ ReplyConflict(p)
      PROVE  UNCHANGED terminalVars
  BY <1>8 DEF PushEvents, BarrierFails, AbortWaiting, StartDelivery, RpcFails, ReplyPartial,
              ReplyConflict, FailPush
<1>9. ASSUME \/ Connect \/ Close \/ StartReport \/ ReportFails \/ ReportConflict \/ HostTakes \/ HostDecides
             \/ UNCHANGED vars
      PROVE  UNCHANGED terminalVars
  BY <1>9 DEF Connect, Close, StartReport, ReportFails, ReportConflict, FailReport, HostTakes, HostDecides, vars
<1> QED BY <1>1, <1>2, <1>3, <1>4, <1>5, <1>6, <1>7, <1>8, <1>9 DEF SocketNext

-----------------------------------------------------------------------------
(* What the steps do to the pushes, the lane and the task.                 *)

LaneAndPushes == LaneIsTrue /\ PushesAreTrue /\ TaskIsTrue

(* Nothing, but the run and its terminal task may be given up.             *)
Rests ==
  /\ UNCHANGED <<push, lane, report>> /\ task' \in {task, 0}
  /\ task' # 0 => activeRun'.runId = activeRun.runId

(* A push before the lane is refused, told to wait, or joins the task.     *)
Turned(p) ==
  /\ push[p].state \in {"new", "barrier"}
  /\ push' \in [Pushes -> PushRecord]
  /\ \A q \in Pushes : q # p => push'[q] = push[q]
  /\ push'[p].state \in {"barrier", "failed", "resolved", "joined"}
  /\ push'[p].state \in {"barrier", "joined"} => BatchOK(push'[p].batch) /\ IsTerminal(push'[p].batch)
  /\ push'[p].state = "joined" => /\ task # 0 /\ push'[p].task = task
                                  /\ push'[p].batch = push[task].batch
  /\ UNCHANGED <<lane, task, report>>

Queues(p, b) ==
  /\ push[p].state \in {"new", "barrier"} /\ Enqueue(p, b)
  /\ BatchOK(b) /\ b[1].run = activeRun.runId
  /\ task' = task \/ (task' = p /\ IsTerminal(b))
  /\ UNCHANGED report

Ending(p, how) ==
  /\ Live(p) /\ Ends(p, how) /\ UNCHANGED report

(* A message is sent: all of a waiting push, or the rest of one at work.   *)
Sends(p) ==
  /\ Live(p) /\ MyTurn(p)
  /\ push' \in [Pushes -> PushRecord]
  /\ \A q \in Pushes : q # p => push'[q] = push[q]
  /\ push'[p].state = "sent" /\ push'[p].reply = 0
  /\ push'[p].batch = push[p].batch /\ push'[p].ticket = push[p].ticket
  /\ BatchOK(push'[p].left)
  /\ \A i \in 1..Len(push'[p].left) : \E j \in 1..Len(push[p].left) : push'[p].left[i] = push[p].left[j]
  /\ UNCHANGED <<lane, task, report>>

(* An answer reaches the push, or the report, that is at work.             *)
SameButReply(q) ==
  /\ push'[q].state = push[q].state /\ push'[q].batch = push[q].batch /\ push'[q].left = push[q].left
  /\ push'[q].ticket = push[q].ticket /\ push'[q].task = push[q].task
Answered ==
  /\ push' \in [Pushes -> PushRecord] /\ report' \in ReportRecord
  /\ \A q \in Pushes : SameButReply(q)
  /\ report'.state = report.state /\ report'.terminal = report.terminal
  /\ UNCHANGED <<lane, task>>

LEMMA PushStaysTrue ==
  ASSUME NEW q, PushIsTrue(q), push'[q] = push[q],
         push[q].state = "joined" =>
           Live(push[q].task)' /\ push'[push[q].task].batch = push[push[q].task].batch
  PROVE  PushIsTrue(q)'
BY DEF PushIsTrue, Live

LEMMA OutOfLane ==
  ASSUME LaneIsTrue, NEW p \in Pushes, push[p].state \in {"new", "barrier"}
  PROVE  ~Live(p) /\ ~InLane(p)
BY DEF LaneIsTrue, Live

LEMMA RestsKeeps ==
  ASSUME SocketTypeOK, LaneAndPushes, Rests
  PROVE  LaneAndPushes'
<1>1. LaneIsTrue'
  BY LaneStands DEF LaneAndPushes, Rests, LaneIsTrue, Live
<1>2. PushesAreTrue'
  BY DEF LaneAndPushes, Rests, PushesAreTrue, PushIsTrue, Live
<1>3. TaskIsTrue'
  BY DEF LaneAndPushes, Rests, TaskIsTrue, Live
<1> QED BY <1>1, <1>2, <1>3 DEF LaneAndPushes

LEMMA TurnedKeeps ==
  ASSUME SocketTypeOK, LaneAndPushes, UNCHANGED <<activeRun>>, NEW p \in Pushes, Turned(p)
  PROVE  LaneAndPushes'
<1>1. \A q \in Pushes : /\ Live(q)' <=> Live(q)
                        /\ Live(q) => push'[q] = push[q]
                        /\ push'[q].state = "sent" <=> push[q].state = "sent"
  BY DEF Turned, Live
<1>2. LaneIsTrue'
  BY <1>1, LaneStands DEF LaneAndPushes, Turned, LaneIsTrue
<1>3. task # 0 => task \in Pushes /\ Live(task) /\ push'[task] = push[task]
  BY <1>1 DEF SocketTypeOK, LaneAndPushes, TaskIsTrue
<1>4. ASSUME NEW q \in Pushes PROVE PushIsTrue(q)'
  <2>1. CASE q = p
    BY <1>1, <1>3, <2>1 DEF Turned, PushIsTrue, Live
  <2>2. CASE q # p
    BY <1>1, <2>2, PushStaysTrue DEF Turned, LaneAndPushes, PushesAreTrue, PushIsTrue
  <2> QED BY <2>1, <2>2
<1>5. TaskIsTrue'
  BY <1>1, <1>3 DEF LaneAndPushes, Turned, TaskIsTrue
<1> QED BY <1>2, <1>4, <1>5 DEF LaneAndPushes, PushesAreTrue

LEMMA QueuedShape ==
  ASSUME SocketTypeOK, IInv, NEW p \in Pushes, NEW b \in Seq(Events), Enqueue(p, b)
  PROVE  /\ push' \in [Pushes -> PushRecord]
         /\ \A q \in Pushes : q # p => push'[q] = push[q]
         /\ push'[p].state = "queued" /\ push'[p].batch = b /\ push'[p].left = b
         /\ push'[p].ticket = ActiveTicket /\ push'[p].reply = 0
<1>1. Queued(p, b) \in PushRecord /\ Queued(p, b).state = "queued" /\ Queued(p, b).batch = b
      /\ Queued(p, b).left = b /\ Queued(p, b).ticket = ActiveTicket /\ Queued(p, b).reply = 0
  <2>1. ActiveTicket \in [revision : Nat, runId : Runs \cup {NoRun}]
    BY ActiveShape
  <2>2. ASSUME NEW r \in PushRecord, NEW t \in [revision : Nat, runId : Runs \cup {NoRun}]
        PROVE  LET n == [r EXCEPT !.state = "queued", !.batch = b, !.ticket = t, !.left = b]
               IN  /\ n \in PushRecord /\ n.state = "queued" /\ n.batch = b
                   /\ n.left = b /\ n.ticket = t /\ n.reply = r.reply
    BY DEF PushRecord, PushStates
  <2>3. NoPush.reply = 0
    BY DEF NoPush
  <2>4. LET n == [NoPush EXCEPT !.state = "queued", !.batch = b, !.ticket = ActiveTicket, !.left = b]
        IN  /\ n \in PushRecord /\ n.state = "queued" /\ n.batch = b
            /\ n.left = b /\ n.ticket = ActiveTicket /\ n.reply = NoPush.reply
    BY <2>1, <2>2, NoPushTyped
  <2> QED BY <2>3, <2>4 DEF Queued
<1>2. push \in [Pushes -> PushRecord] /\ push' = [push EXCEPT ![p] = Queued(p, b)]
  BY DEF SocketTypeOK, Enqueue
<1> QED BY <1>1, <1>2, OnePushChanges

LEMMA QueuesKeeps ==
  ASSUME SocketTypeOK, IInv, LaneAndPushes, NEW p \in Pushes, NEW b, Queues(p, b),
         activeRun'.runId = activeRun.runId
  PROVE  LaneAndPushes' /\ lane' \in Seq(Entries) /\ push' \in [Pushes -> PushRecord]
<1>1. /\ push' \in [Pushes -> PushRecord]
      /\ \A q \in Pushes : q # p => push'[q] = push[q]
      /\ push'[p].state = "queued" /\ push'[p].batch = b /\ push'[p].left = b
      /\ push'[p].ticket = ActiveTicket /\ push'[p].reply = 0
  BY QueuedShape DEF Queues, BatchOK
<1>2. /\ lane' \in Seq(Entries) /\ PlacesDiffer'
      /\ \A a : InLane(a)' <=> InLane(a) \/ a = p
      /\ \A a : MyTurn(a) => MyTurn(a)'
  BY OutOfLane, EntryKinds, LaneAppends DEF SocketTypeOK, LaneAndPushes, LaneIsTrue, Queues, Enqueue
<1>3. LaneIsTrue'
  BY <1>1, <1>2, EntryKinds DEF LaneAndPushes, LaneIsTrue, Queues, Live
<1>4. ASSUME NEW q \in Pushes PROVE PushIsTrue(q)'
  <2>1. CASE q = p
    BY <1>1, <2>1 DEF Queues, PushIsTrue, Live, ActiveTicket
  <2>2. CASE q # p
    <3>1. push[q].state = "joined" => push[q].task \in Pushes /\ Live(push[q].task) /\ push[q].task # p
      BY OutOfLane DEF Queues, LaneAndPushes, PushesAreTrue, PushIsTrue
    <3>2. push[q].state = "joined" => push'[push[q].task] = push[push[q].task]
      BY <1>1, <3>1
    <3> QED BY <1>1, <2>2, <3>1, <3>2, PushStaysTrue DEF LaneAndPushes, PushesAreTrue, Live
  <2> QED BY <2>1, <2>2
<1>5. TaskIsTrue'
  <2>1. CASE task' = p /\ IsTerminal(b)
    BY <1>1, <2>1 DEF Queues, TaskIsTrue, Live
  <2>2. CASE task' = task
    <3>1. task # 0 => task \in Pushes /\ Live(task) /\ task # p
      BY OutOfLane DEF SocketTypeOK, Queues, LaneAndPushes, TaskIsTrue
    <3> QED BY <1>1, <2>2, <3>1 DEF LaneAndPushes, TaskIsTrue, Live
  <2> QED BY <2>1, <2>2 DEF Queues
<1> QED BY <1>1, <1>2, <1>3, <1>4, <1>5 DEF LaneAndPushes, PushesAreTrue

LEMMA EndingShape ==
  ASSUME SocketTypeOK, LaneAndPushes, NEW p \in Pushes, NEW how \in {"failed", "resolved"}, Ending(p, how)
  PROVE  /\ push' \in [Pushes -> PushRecord] /\ Ended(p, how)
         /\ lane' \in Seq(Entries) /\ PlacesDiffer'
         /\ \A a : InLane(a)' <=> InLane(a) /\ a # p
         /\ \A a, b : Before(a, b)' => Before(a, b)
         /\ \A a : MyTurn(a) /\ a # p => MyTurn(a)'
         /\ \A q \in Pushes : Live(q)' <=> Live(q) /\ q # p
         /\ \A q \in Pushes : Live(q) /\ q # p => push'[q] = push[q]
<1>1. push' \in [Pushes -> PushRecord] /\ Ended(p, how)
  BY SettledShape DEF SocketTypeOK, Ending, Ends
<1>2. InLane(p) /\ PlacesDiffer /\ lane \in Seq(Entries) /\ Leave(p)
  BY DEF SocketTypeOK, LaneAndPushes, LaneIsTrue, Ending, Ends
<1>3. \A q \in Pushes : Live(q) => ~Joins(q, p)
  BY DEF Live, Joins
<1> QED BY <1>1, <1>2, <1>3, LaneLeaves DEF Ended, Live

LEMMA EndingKeeps ==
  ASSUME SocketTypeOK, LaneAndPushes, NEW p \in Pushes, NEW how \in {"failed", "resolved"}, Ending(p, how),
         activeRun'.runId = activeRun.runId
  PROVE  LaneAndPushes' /\ lane' \in Seq(Entries) /\ push' \in [Pushes -> PushRecord]
<1> USE EndingShape
<1>1. LaneIsTrue'
  BY EntryKinds DEF LaneAndPushes, LaneIsTrue, Ending, Live
<1>2. ASSUME NEW q \in Pushes PROVE PushIsTrue(q)'
  <2>1. CASE q = p \/ Joins(q, p)
    BY <2>1 DEF Ended, PushIsTrue, Live
  <2>2. CASE ~(q = p \/ Joins(q, p))
    <3>1. push'[q] = push[q]
      BY <2>2 DEF Ended
    <3>2. push[q].state = "joined" => push[q].task \in Pushes /\ Live(push[q].task) /\ push[q].task # p
      BY <2>2 DEF LaneAndPushes, PushesAreTrue, PushIsTrue, Joins
    <3> QED BY <3>1, <3>2, PushStaysTrue DEF LaneAndPushes, PushesAreTrue
  <2> QED BY <2>1, <2>2
<1>3. TaskIsTrue'
  <2>1. task' # 0 => task' = task /\ task \in Pushes /\ task # p
    BY DEF Ending, Ends, SocketTypeOK
  <2> QED BY <2>1 DEF LaneAndPushes, TaskIsTrue
<1> QED BY <1>1, <1>2, <1>3 DEF LaneAndPushes, PushesAreTrue

LEMMA SendsKeeps ==
  ASSUME SocketTypeOK, LaneAndPushes, UNCHANGED activeRun, NEW p \in Pushes, Sends(p)
  PROVE  LaneAndPushes'
<1>1. \A q \in Pushes : /\ Live(q)' <=> Live(q)
                        /\ push'[q].batch = push[q].batch
  BY DEF Sends, Live
<1>2. LaneIsTrue'
  BY <1>1, LaneStands DEF LaneAndPushes, LaneIsTrue, Sends
<1>3. ASSUME NEW q \in Pushes PROVE PushIsTrue(q)'
  <2>1. CASE q = p
    <3>1. PushIsTrue(p) /\ Live(p)
      BY DEF LaneAndPushes, PushesAreTrue, Sends
    <3>2. \A i \in 1..Len(push'[p].left) : \E j \in 1..Len(push[p].batch) : push'[p].left[i] = push[p].batch[j]
      <4> TAKE i \in 1..Len(push'[p].left)
      <4>1. PICK k \in 1..Len(push[p].left) : push'[p].left[i] = push[p].left[k]
        BY DEF Sends
      <4>2. \E j \in 1..Len(push[p].batch) : push[p].left[k] = push[p].batch[j]
        BY <3>1, LeftIsOfBatch
      <4> QED BY <4>1, <4>2
    <3>3. BatchOK(push[p].batch) /\ push[p].ticket.runId = push[p].batch[1].run
      BY <3>1 DEF PushIsTrue, Live
    <3> QED BY <2>1, <3>2, <3>3 DEF Sends, PushIsTrue, Live
  <2>2. CASE q # p
    BY <1>1, <2>2, PushStaysTrue DEF Sends, LaneAndPushes, PushesAreTrue, PushIsTrue
  <2> QED BY <2>1, <2>2
<1>4. TaskIsTrue'
  <2>1. task # 0 => task \in Pushes
    BY DEF SocketTypeOK
  <2> QED BY <1>1, <2>1 DEF LaneAndPushes, Sends, TaskIsTrue
<1> QED BY <1>2, <1>3, <1>4 DEF LaneAndPushes, PushesAreTrue

LEMMA AnsweredKeeps ==
  ASSUME SocketTypeOK, LaneAndPushes, UNCHANGED activeRun, Answered
  PROVE  LaneAndPushes'
<1>1. \A q \in Pushes : SameButReply(q) /\ (Live(q)' <=> Live(q))
  BY DEF Answered, SameButReply, Live
<1>2. LaneIsTrue'
  BY <1>1, LaneStands DEF LaneAndPushes, LaneIsTrue, Answered, SameButReply
<1>3. ASSUME NEW q \in Pushes PROVE PushIsTrue(q)'
  BY <1>1 DEF LaneAndPushes, PushesAreTrue, PushIsTrue, SameButReply
<1>4. TaskIsTrue'
  <2>1. task # 0 => task \in Pushes
    BY DEF SocketTypeOK
  <2> QED BY <1>1, <2>1 DEF LaneAndPushes, Answered, TaskIsTrue, SameButReply
<1> QED BY <1>2, <1>3, <1>4 DEF LaneAndPushes, PushesAreTrue

(* The report of the instance takes its place in the lane.                 *)
Reporting ==
  /\ UNCHANGED <<push, task>> /\ report' \in ReportRecord
  /\ \/ /\ report.state = "idle" /\ lane' = Append(lane, Report)
        /\ report'.state = "queued"
     \/ /\ report.state = "queued" /\ MyTurn(Report) /\ UNCHANGED lane
        /\ report'.state = "sent"
     \/ /\ report.state # "idle" /\ Leave(Report)
        /\ report'.state = "idle"

LEMMA ReportingLane ==
  ASSUME SocketTypeOK, LaneAndPushes, Reporting
  PROVE  /\ lane' \in Seq(Entries) /\ PlacesDiffer'
         /\ \A p \in Pushes : InLane(p)' <=> InLane(p)
         /\ \A p \in Pushes : MyTurn(p) => MyTurn(p)'
         /\ \A p, q \in Pushes : Before(p, q)' => Before(p, q)
         /\ report'.state # "idle" <=> InLane(Report)'
         /\ report'.state = "sent" => MyTurn(Report)'
<1>0. lane \in Seq(Entries) /\ PlacesDiffer /\ (report.state # "idle" <=> InLane(Report))
  BY DEF SocketTypeOK, LaneAndPushes, LaneIsTrue
<1>1. CASE report.state = "idle" /\ lane' = Append(lane, Report) /\ report'.state = "queued"
  BY <1>0, <1>1, LaneAppends, EntryKinds
<1>2. CASE report.state = "queued" /\ MyTurn(Report) /\ UNCHANGED lane /\ report'.state = "sent"
  BY <1>0, <1>2, LaneStands
<1>3. CASE report.state # "idle" /\ Leave(Report) /\ report'.state = "idle"
  BY <1>0, <1>3, LaneLeaves, EntryKinds
<1> QED BY <1>1, <1>2, <1>3 DEF Reporting

LEMMA ReportingKeeps ==
  ASSUME SocketTypeOK, LaneAndPushes, Reporting, activeRun'.runId = activeRun.runId
  PROVE  LaneAndPushes'
<1>1. LaneIsTrue'
  BY ReportingLane DEF LaneAndPushes, LaneIsTrue, Reporting, Live
<1>2. PushesAreTrue'
  BY DEF LaneAndPushes, Reporting, PushesAreTrue, PushIsTrue, Live
<1>3. TaskIsTrue'
  BY DEF LaneAndPushes, Reporting, TaskIsTrue, Live
<1> QED BY <1>1, <1>2, <1>3 DEF LaneAndPushes

-----------------------------------------------------------------------------
(* Which step does what.                                                   *)

StillSteps == Connect \/ Hello \/ Close \/ SocketBeginsRun \/ SocketClaims \/ SocketReleasesRun \/ HostDecides

LEMMA StillRests ==
  ASSUME SocketTypeOK, IInv, LaneAndPushes, StillSteps \/ UNCHANGED vars
  PROVE  Rests
<1>1. CASE Connect \/ Close \/ HostDecides \/ UNCHANGED vars
  BY <1>1 DEF Connect, Close, HostDecides, vars, socketVars, terminalVars, machineVars, Rests
<1>2. CASE Hello
  BY <1>2 DEF Hello, Rests, terminalVars, machineVars, RememberOwnedRunId
<1>3. CASE SocketBeginsRun
  <2>1. activeRun = NullRun /\ UNCHANGED socketVars
    BY <1>3 DEF SocketBeginsRun, BeginRun
  <2>2. task # 0 => Live(task) /\ PushIsTrue(task) /\ push[task].batch[1].run = activeRun.runId
    BY DEF LaneAndPushes, TaskIsTrue, PushesAreTrue, SocketTypeOK
  <2>3. task # 0 => activeRun.runId \in Runs
    BY <2>2, LeftIsOfBatch, BatchShape
  <2> QED BY <2>1, <2>3, NoRunAssumption DEF NullRun, Rests, socketVars
<1>4. CASE SocketClaims
  BY <1>4, ClaimStands DEF SocketClaims, Rests, RunStands, socketVars
<1>5. CASE SocketReleasesRun
  BY <1>5 DEF SocketReleasesRun, Rests
<1> QED BY <1>1, <1>2, <1>3, <1>4, <1>5 DEF StillSteps

LEMMA RefusedShape ==
  ASSUME SocketTypeOK, NEW p \in Pushes, push' = [push EXCEPT ![p] = Refused]
  PROVE  /\ push' \in [Pushes -> PushRecord] /\ push'[p].state = "failed"
         /\ \A q \in Pushes : q # p => push'[q] = push[q]
BY NoPushTyped, OnePushChanges DEF SocketTypeOK

(* An event that was admitted.                                             *)
Admits(p, b) ==
  /\ Queues(p, b) /\ b \in Batches /\ ~IsTerminal(b) /\ ~Excluded(b) /\ Retain(p, b)
  /\ UNCHANGED task

LEMMA PushEventsEffect ==
  ASSUME SocketTypeOK, LaneAndPushes, NEW p \in Pushes, PushEvents(p)
  PROVE  /\ \/ Turned(p) /\ UNCHANGED <<retained, prior>> /\ push'[p].state \in {"barrier", "failed"}
            \/ \E b \in Batches : Admits(p, b)
         /\ UNCHANGED <<terminalVars, link, rejection, task, report, wire, hostVars>>
<1>1. PICK b \in Batches :
        \/ push' = Settled(p, "failed") /\ UNCHANGED <<lane, retained, prior>>
        \/ /\ IsTerminal(b)
           /\ push' = [push EXCEPT ![p].state = "barrier", ![p].batch = b]
           /\ UNCHANGED <<lane, retained, prior>>
        \/ ~IsTerminal(b) /\ ~Excluded(b) /\ Retain(p, b) /\ Enqueue(p, b)
  BY DEF PushEvents
<1>2. /\ push[p].state = "new" /\ push \in [Pushes -> PushRecord]
      /\ UNCHANGED <<terminalVars, link, rejection, task, report, wire, hostVars>>
  BY DEF PushEvents, SocketTypeOK
<1>3. BatchOK(b) /\ b \in Seq(Events)
  BY BatchesOK DEF BatchOK
<1>4. CASE push' = Settled(p, "failed") /\ UNCHANGED <<lane, retained, prior>>
  <2>1. \A q \in Pushes : ~Joins(q, p)
    BY <1>2 DEF LaneAndPushes, PushesAreTrue, PushIsTrue, Joins, Live
  <2>2. push' \in [Pushes -> PushRecord] /\ Ended(p, "failed")
    BY <1>2, <1>4, SettledShape
  <2>3. Turned(p) /\ push'[p].state = "failed"
    BY <1>2, <1>4, <2>1, <2>2 DEF Ended, Turned
  <2> QED BY <1>2, <1>4, <2>3
<1>5. CASE /\ IsTerminal(b)
           /\ push' = [push EXCEPT ![p].state = "barrier", ![p].batch = b]
           /\ UNCHANGED <<lane, retained, prior>>
  <2> DEFINE r == [push[p] EXCEPT !.state = "barrier", !.batch = b]
  <2>1. r \in PushRecord /\ r.state = "barrier" /\ r.batch = b
    <3>1. ASSUME NEW a \in PushRecord
          PROVE  LET t == [a EXCEPT !.state = "barrier", !.batch = b]
                 IN  t \in PushRecord /\ t.state = "barrier" /\ t.batch = b
      BY <1>3 DEF PushStates, PushRecord
    <3> QED BY <1>2, <3>1
  <2>2. push' = [push EXCEPT ![p] = r]
    BY <1>5
  <2> HIDE DEF r
  <2>3. Turned(p) /\ push'[p].state = "barrier"
    BY <1>2, <1>3, <1>5, <2>1, <2>2 DEF Turned
  <2> QED BY <1>2, <1>5, <2>3
<1>6. CASE ~IsTerminal(b) /\ ~Excluded(b) /\ Retain(p, b) /\ Enqueue(p, b)
  <2>1. Queues(p, b)
    BY <1>2, <1>3, <1>6 DEF Queues, Excluded
  <2> QED BY <1>2, <1>6, <2>1 DEF Admits
<1> QED BY <1>1, <1>4, <1>5, <1>6

LEMMA ReportingEffect ==
  ASSUME SocketTypeOK, IInv, DeliverReport \/ StartReport \/ ReportFails \/ ReportDone \/ ReportConflict
  PROVE  Reporting
<1>1. ASSUME EndReport, UNCHANGED <<push, task>>, report.state # "idle" PROVE Reporting
  BY <1>1 DEF EndReport, Reporting, SocketTypeOK, ReportRecord
<1>2. CASE ReportFails \/ ReportDone \/ ReportConflict
  BY <1>1, <1>2 DEF ReportFails, ReportDone, ReportConflict, FailReport
<1>3. CASE StartReport
  <2>1. CASE report.bound /\ Connected
    <3>1. [report EXCEPT !.state = "sent", !.reply = 0] \in ReportRecord
          /\ [report EXCEPT !.state = "sent", !.reply = 0].state = "sent"
      BY DEF SocketTypeOK, ReportRecord
    <3> QED BY <1>3, <2>1, <3>1 DEF StartReport, Reporting
  <2> QED BY <1>1, <1>3, <2>1 DEF StartReport, FailReport
<1>4. CASE DeliverReport
  <2>1. PICK status \in {"completed", "failed"}, fallback \in Runs :
          LET terminal == [runId |-> TerminalRunId(fallback), status |-> status]
          IN  /\ SameReport(terminal)
              /\ report' = [state |-> "queued", terminal |-> terminal, bound |-> Connected, reply |-> 0,
                            n |-> report.n + 1]
    BY <1>4 DEF DeliverReport
  <2>2. TerminalRunId(fallback) \in Runs
    BY ActiveShape DEF IInv, TerminalTypeOK, TerminalRunId, InstanceTerminal
  <2>3. report' \in ReportRecord /\ report'.state = "queued"
    BY <2>1, <2>2 DEF ReportRecord, ReportTerminal, SocketTypeOK, Connected
  <2> QED BY <1>4, <2>3 DEF DeliverReport, Reporting
<1> QED BY <1>2, <1>3, <1>4

LEMMA SelectedSame ==
  ASSUME NEW e \in Events, Selected(e), NEW b, BatchOK(b), IsTerminal(b),
         activeRun.terminal.value = TerminalIn(b)
  PROVE  e = b[1]
<1>1. b[1] \in Events
  BY BatchShape
<1>2. e.run = b[1].run /\ e.status = b[1].status /\ e.id = b[1].id
  BY DEF Selected, TerminalIn
<1> QED BY <1>1, <1>2, KindsDiffer

LEMMA BatchIsSent ==
  ASSUME NEW p \in Pushes, Live(p), BatchOK(push[p].batch)
  PROVE  Sent(push[p].batch[1]) /\ push[p].batch[1] \in Events
BY BatchShape DEF Sent, InPush

LEMMA PassBarrierEffect ==
  ASSUME SocketTypeOK, IInv, LaneAndPushes, TerminalIsOne, NEW p \in Pushes, PassBarrier(p)
  PROVE  LET b == push[p].batch
         IN  /\ push[p].state = "barrier" /\ BatchOK(b) /\ IsTerminal(b)
             /\ UNCHANGED <<link, rejection, report, wire, hostVars>>
             /\ \/ /\ Turned(p) /\ push'[p].state = "failed"
                   /\ UNCHANGED <<terminalVars, retained, prior>>
                \/ /\ Turned(p) /\ UNCHANGED terminalVars /\ Retain(p, b) /\ ~Excluded(b)
                   /\ \/ push'[p].state = "joined"
                      \/ /\ push'[p].state = "resolved" /\ push'[p].batch = b
                         /\ SelectionResult(TerminalIn(b)) = "acked"
                \/ /\ Queues(p, b) /\ task' = p /\ Retain(p, b) /\ ~Excluded(b)
                   /\ \/ SelectRunTerminal(ActiveTicket, TerminalIn(b))
                      \/ UNCHANGED terminalVars /\ SelectionResult(TerminalIn(b)) = "pending"
<1> DEFINE b == push[p].batch
<1>1. /\ push[p].state = "barrier" /\ BatchOK(b) /\ IsTerminal(b) /\ b \in Seq(Events)
      /\ push \in [Pushes -> PushRecord] /\ push[p] \in PushRecord
      /\ UNCHANGED <<link, rejection, report, wire, hostVars>>
  BY DEF PassBarrier, LaneAndPushes, PushesAreTrue, PushIsTrue, BatchOK, SocketTypeOK
<1>2. \A q \in Pushes : ~Joins(q, p)
  BY <1>1 DEF LaneAndPushes, PushesAreTrue, PushIsTrue, Joins, Live
<1>3. CASE Excluded(b)
  <2>1. /\ push' = [push EXCEPT ![p] = Refused]
        /\ UNCHANGED <<terminalVars, lane, task, retained, prior>>
    BY <1>3 DEF PassBarrier
  <2>2. Turned(p) /\ push'[p].state = "failed"
    BY <1>1, <2>1, RefusedShape DEF Turned
  <2> QED BY <1>1, <2>1, <2>2
<1>4. CASE ~Excluded(b) /\ SelectionResult(TerminalIn(b)) = "acked"
  <2>1. push' = Settled(p, "resolved") /\ UNCHANGED <<terminalVars, lane, task>> /\ Retain(p, b)
    BY <1>4 DEF PassBarrier, PrepareTerminal
  <2>2. push' \in [Pushes -> PushRecord] /\ Ended(p, "resolved")
    BY <1>1, <2>1, SettledShape
  <2>3. Turned(p) /\ push'[p].state = "resolved" /\ push'[p].batch = b
    BY <1>1, <1>2, <2>1, <2>2 DEF Ended, Turned
  <2> QED BY <1>1, <1>4, <2>1, <2>3
<1>5. CASE ~Excluded(b) /\ SelectionResult(TerminalIn(b)) = "pending" /\ task # 0
  <2>1. /\ push' = [push EXCEPT ![p].state = "joined", ![p].task = task]
        /\ UNCHANGED <<terminalVars, lane, task>> /\ Retain(p, b)
    BY <1>5 DEF PassBarrier, PrepareTerminal
  <2> DEFINE r == [push[p] EXCEPT !.state = "joined", !.task = task]
  <2>2. r \in PushRecord /\ r.state = "joined" /\ r.batch = b /\ r.task = task
    <3>1. ASSUME NEW a \in PushRecord, NEW n \in {0} \cup Pushes
          PROVE  LET t == [a EXCEPT !.state = "joined", !.task = n]
                 IN  t \in PushRecord /\ t.state = "joined" /\ t.task = n /\ t.batch = a.batch
      BY DEF PushStates, PushRecord
    <3>2. task \in {0} \cup Pushes
      BY DEF SocketTypeOK
    <3> QED BY <1>1, <3>1, <3>2
  <2>3. push' = [push EXCEPT ![p] = r]
    BY <2>1
  <2> HIDE DEF r
  <2>4. /\ push' \in [Pushes -> PushRecord] /\ push'[p] = r
        /\ \A q \in Pushes : q # p => push'[q] = push[q]
    BY <1>1, <2>2, <2>3
  <2>5. /\ task \in Pushes /\ Live(task) /\ PushIsTrue(task) /\ IsTerminal(push[task].batch)
        /\ push[task].batch[1].run = activeRun.runId
    BY <1>5 DEF SocketTypeOK, LaneAndPushes, PushesAreTrue, TaskIsTrue
  <2>6. BatchOK(push[task].batch)
    BY <2>5 DEF PushIsTrue, Live
  <2>7. Selected(push[task].batch[1])
    BY <2>5, <2>6, BatchIsSent, BatchShape DEF TerminalIsOne
  <2>8. activeRun.terminal.value = TerminalIn(b)
    BY <1>5 DEF SelectionResult
  <2>9. push[task].batch = b
    BY <1>1, <2>5, <2>6, <2>7, <2>8, SelectedSame, BatchShape
  <2>10. Turned(p) /\ push'[p].state = "joined"
    BY <1>1, <1>5, <2>1, <2>2, <2>4, <2>9 DEF Turned
  <2> QED BY <1>1, <1>5, <2>1, <2>10
<1>6. CASE /\ ~Excluded(b) /\ SelectionResult(TerminalIn(b)) # "acked"
           /\ ~(SelectionResult(TerminalIn(b)) = "pending" /\ task # 0)
  <2>1. /\ Enqueue(p, b) /\ task' = p /\ Retain(p, b)
        /\ \/ SelectRunTerminal(ActiveTicket, TerminalIn(b))
           \/ UNCHANGED terminalVars /\ SelectionResult(TerminalIn(b)) # "selected"
    BY <1>6 DEF PassBarrier, PrepareTerminal
  <2>2. SelectionResult(TerminalIn(b)) \in {"selected", "pending"}
    BY <1>1, <1>6 DEF Excluded, SelectionResult
  <2>3. Queues(p, b)
    BY <1>1, <1>6, <2>1 DEF Queues, Excluded
  <2> QED BY <1>1, <1>6, <2>1, <2>2, <2>3
<1> QED BY <1>3, <1>4, <1>5, <1>6

LEMMA BarrierFailsEffect ==
  ASSUME SocketTypeOK, NEW p \in Pushes, BarrierFails(p)
  PROVE  /\ Turned(p) /\ push'[p].state = "failed"
         /\ UNCHANGED <<terminalVars, link, rejection, lane, task, retained, report, prior, wire, hostVars>>
BY RefusedShape DEF BarrierFails, Turned

(* The deliveries.                                                         *)
GivesUp(p) ==
  /\ Ending(p, "failed") /\ UNCHANGED <<terminalVars, prior, hostVars>>
  /\ \/ UNCHANGED <<link, rejection, retained, wire>>
     \/ Fence
Transmits(p, events) ==
  /\ Sends(p)
  /\ push'[p].left = events
  /\ wire' = Append(wire, [from |-> p, events |-> events, report |-> NoReport])
  /\ UNCHANGED <<terminalVars, link, rejection, lane, task, retained, report, prior, hostVars>>

LEMMA FailEffect ==
  ASSUME NEW p, Live(p), FailPush(p)
  PROVE  GivesUp(p)
BY DEF FailPush, GivesUp, Ending

LEMMA StartEffect ==
  ASSUME SocketTypeOK, LaneAndPushes, NEW p \in Pushes, StartDelivery(p)
  PROVE  GivesUp(p) \/ (Transmits(p, push[p].left) /\ push[p].state = "queued")
<1>1. /\ push[p].state = "queued" /\ MyTurn(p) /\ Live(p) /\ push[p] \in PushRecord
      /\ push[p].left = push[p].batch /\ BatchOK(push[p].batch)
      /\ push \in [Pushes -> PushRecord]
  BY DEF StartDelivery, Live, LaneAndPushes, PushesAreTrue, PushIsTrue, SocketTypeOK
<1>2. CASE ~StillMine(p)
  BY <1>1, <1>2, FailEffect DEF StartDelivery
<1>3. CASE StillMine(p)
  <2> DEFINE r == [push[p] EXCEPT !.state = "sent", !.reply = 0]
  <2>1. /\ push' = [push EXCEPT ![p] = r]
        /\ wire' = Append(wire, [from |-> p, events |-> push[p].left, report |-> NoReport])
        /\ UNCHANGED <<terminalVars, link, rejection, lane, task, retained, report, prior, hostVars>>
    BY <1>3 DEF StartDelivery, Transmit
  <2>2. /\ r \in PushRecord /\ r.state = "sent" /\ r.reply = 0
        /\ r.batch = push[p].batch /\ r.left = push[p].left /\ r.ticket = push[p].ticket
    <3>1. ASSUME NEW a \in PushRecord
          PROVE  LET t == [a EXCEPT !.state = "sent", !.reply = 0]
                 IN  /\ t \in PushRecord /\ t.state = "sent" /\ t.reply = 0
                     /\ t.batch = a.batch /\ t.left = a.left /\ t.ticket = a.ticket
      BY DEF PushStates, PushRecord
    <3> QED BY <1>1, <3>1
  <2> HIDE DEF r
  <2>3. /\ push' \in [Pushes -> PushRecord] /\ push'[p] = r
        /\ \A q \in Pushes : q # p => push'[q] = push[q]
    BY <1>1, <2>1, <2>2
  <2>4. Sends(p)
    BY <1>1, <2>1, <2>2, <2>3 DEF Sends
  <2> QED BY <1>1, <2>1, <2>2, <2>3, <2>4 DEF Transmits
<1> QED BY <1>2, <1>3

LEMMA PartialEffect ==
  ASSUME SocketTypeOK, LaneAndPushes, NEW p \in Pushes, ReplyPartial(p)
  PROVE  \/ GivesUp(p)
         \/ \E rest : /\ Transmits(p, rest) /\ ~IsTerminal(push[p].batch)
                      /\ push[p].state = "sent" /\ push[p].reply \in 2..Len(push[p].left)
                      /\ Len(rest) = Len(push[p].left) - push[p].reply + 1
                      /\ \A i \in 1..Len(rest) : rest[i] = push[p].left[push[p].reply + i - 1]
<1> DEFINE l == push[p].left
           n == push[p].reply
           rest == SubSeq(l, n, Len(l))
<1>1. /\ push[p].state = "sent" /\ n \in 2..Len(l) /\ Live(p) /\ push[p] \in PushRecord
      /\ PushIsTrue(p) /\ BatchOK(l) /\ MyTurn(p)
      /\ push \in [Pushes -> PushRecord]
  BY DEF ReplyPartial, Live, LaneAndPushes, LaneIsTrue, PushesAreTrue, PushIsTrue, SocketTypeOK
<1>2. CASE ~StillMine(p)
  BY <1>1, <1>2, FailEffect DEF ReplyPartial
<1>3. CASE StillMine(p)
  <2> DEFINE r == [push[p] EXCEPT !.left = rest, !.reply = 0]
  <2>1. /\ push' = [push EXCEPT ![p] = r]
        /\ wire' = Append(wire, [from |-> p, events |-> rest, report |-> NoReport])
        /\ UNCHANGED <<terminalVars, link, rejection, lane, task, retained, report, prior, hostVars>>
    BY <1>3 DEF ReplyPartial
  <2>2. l \in Seq(Events) /\ Len(l) \in Nat /\ Len(l) <= MaxBatch
        /\ (\A i \in 1..Len(l) : l[i] \in Events /\ l[i].run = l[1].run) /\ ~IsTerminal(l)
        /\ \A i \in 1..Len(l) : ~Decides(l[i])
    BY <1>1, BatchShape
  <2>3. /\ rest \in Seq(Events) /\ Len(rest) = Len(l) - n + 1
        /\ \A i \in 1..Len(rest) : rest[i] = l[n + i - 1]
    <3>1. n \in Int /\ Len(l) \in Int /\ \A i \in n..Len(l) : l[i] \in Events
      BY <1>1, <2>2
    <3> HIDE DEF l, n
    <3>2. /\ rest \in Seq(Events) /\ Len(rest) = IF n <= Len(l) THEN Len(l) - n + 1 ELSE 0
          /\ \A i \in 1..(Len(l) - n + 1) : rest[i] = l[n + i - 1]
      BY <3>1, SubSeqProperties
    <3> QED BY <1>1, <3>2
  <2> HIDE DEF rest
  <2>4. BatchOK(rest)
    <3>1. Len(rest) \in 1..MaxBatch
      BY <1>1, <2>2, <2>3, SocketBounds
    <3>2. \A i \in 1..Len(rest) : rest[i].run = l[1].run /\ rest[i].status = "none"
      <4> TAKE i \in 1..Len(rest)
      <4>1. n + i - 1 \in 1..Len(l)
        BY <1>1, <2>2, <2>3
      <4> QED BY <2>2, <2>3, <4>1 DEF Decides
    <3> QED BY <2>3, <3>1, <3>2 DEF BatchOK
  <2>5. /\ r \in PushRecord /\ r.state = "sent" /\ r.reply = 0
        /\ r.batch = push[p].batch /\ r.left = rest /\ r.ticket = push[p].ticket
    <3>1. ASSUME NEW a \in PushRecord, NEW s \in Seq(Events)
          PROVE  LET t == [a EXCEPT !.left = s, !.reply = 0]
                 IN  /\ t \in PushRecord /\ t.state = a.state /\ t.reply = 0 /\ t.left = s
                     /\ t.batch = a.batch /\ t.ticket = a.ticket
      BY DEF PushRecord
    <3> QED BY <1>1, <2>3, <3>1
  <2> HIDE DEF r
  <2>6. /\ push' \in [Pushes -> PushRecord] /\ push'[p] = r
        /\ \A q \in Pushes : q # p => push'[q] = push[q]
    BY <1>1, <2>1, <2>5
  <2>7. \A i \in 1..Len(rest) : \E j \in 1..Len(l) : rest[i] = l[j]
    <3> TAKE i \in 1..Len(rest)
    <3>1. n + i - 1 \in 1..Len(l)
      BY <1>1, <2>2, <2>3
    <3> QED BY <2>3, <3>1
  <2>8. Transmits(p, rest)
    <3>1. Sends(p)
      <4>1. /\ push'[p].left = rest /\ push'[p].state = "sent" /\ push'[p].reply = 0
            /\ push'[p].batch = push[p].batch /\ push'[p].ticket = push[p].ticket
        BY <2>5, <2>6
      <4>2. /\ BatchOK(push'[p].left)
            /\ \A i \in 1..Len(push'[p].left) : \E j \in 1..Len(push[p].left) :
                 push'[p].left[i] = push[p].left[j]
        BY <2>4, <2>7, <4>1
      <4>3. Live(p) /\ MyTurn(p) /\ UNCHANGED <<lane, task, report>>
        BY <1>1, <2>1
      <4> QED BY <2>6, <4>1, <4>2, <4>3 DEF Sends
    <3> QED BY <2>1, <2>5, <2>6, <3>1 DEF Transmits
  <2>9. ~IsTerminal(push[p].batch)
    BY <1>1, <2>2, LeftIsOfBatch
  <2> QED BY <1>1, <2>3, <2>8, <2>9
<1> QED BY <1>2, <1>3

LEMMA DoneEffect ==
  ASSUME SocketTypeOK, IInv, LaneAndPushes, NEW p \in Pushes, ReplyDone(p)
  PROVE  \/ GivesUp(p)
         \/ /\ push[p].state = "sent" /\ AllAccepted(p) /\ Ending(p, "resolved") /\ Completed(p)
            /\ \/ UNCHANGED terminalVars /\ (IsTerminal(push[p].batch) => activeRun.terminal.phase = "acked")
               \/ /\ IsTerminal(push[p].batch)
                  /\ \E receipt : AckRunTerminal(push[p].ticket, receipt)
<1>1. push[p].state = "sent" /\ AllAccepted(p) /\ Live(p)
  BY DEF ReplyDone, Live
<1>2. CASE ~StillMine(p)
  BY <1>1, <1>2, FailEffect DEF ReplyDone
<1>3. CASE StillMine(p)
  <2>1. Ending(p, "resolved")
    BY <1>1, <1>3 DEF ReplyDone, Completed, Ending
  <2> QED BY <1>1, <1>3, <2>1 DEF ReplyDone
<1> QED BY <1>2, <1>3

LEMMA ConflictEffect ==
  ASSUME NEW p, ReplyConflict(p)
  PROVE  GivesUp(p)
BY DEF ReplyConflict, GivesUp, Ending, Live, hostVars

LEMMA GiveUps ==
  ASSUME SocketTypeOK, IInv, LaneAndPushes, NEW p \in Pushes, AbortWaiting(p) \/ RpcFails(p) \/ ReplyConflict(p)
  PROVE  GivesUp(p)
BY FailEffect, ConflictEffect DEF AbortWaiting, RpcFails, Live

(* The host takes the next message: of the report, or of a push, which it  *)
(* refuses or takes a prefix of.                                           *)
Takes(m) ==
  /\ wire # << >> /\ m = Head(wire) /\ wire' = Tail(wire) /\ Answered
  /\ \A q \in Pushes : push'[q].reply # push[q].reply => q = m.from /\ push[q].state = "sent"
  /\ UNCHANGED <<terminalVars, link, rejection, retained, prior, hostRuns>>
TakesReport(m) ==
  /\ Takes(m) /\ m.from = Report /\ UNCHANGED <<push, log>>
  /\ \/ report'.reply = Conflict /\ UNCHANGED hostReport
     \/ report'.reply = 1 /\ hostReport' = hostReport \cup {m.report}
     \/ report.state # "sent" /\ report'.reply = report.reply /\ hostReport \subseteq hostReport'
RefusesPush(m) ==
  /\ Takes(m) /\ m.from # Report /\ UNCHANGED <<report, log, hostReport>>
  /\ \A q \in Pushes : push'[q].reply # push[q].reply => push'[q].reply = Conflict
Prefix(m, n) == {m.events[i] : i \in 1..n}
TakesPrefix(m, n) ==
  /\ Takes(m) /\ m.from # Report /\ UNCHANGED <<report, hostReport>>
  /\ n \in 1..Len(m.events)
  /\ \A q \in Pushes : push'[q].reply # push[q].reply => push'[q].reply = n + 1
  /\ LET fresh == {e \in Prefix(m, n) : ~Known(e)}
     IN  log' = IF fresh = {} THEN log ELSE Append(log, fresh)

LEMMA MessageShape ==
  ASSUME SocketTypeOK, wire # << >>
  PROVE  /\ Head(wire) \in Message /\ Head(wire) = wire[1] /\ 1 \in 1..Len(wire)
         /\ Tail(wire) \in Seq(Message) /\ Len(Tail(wire)) = Len(wire) - 1
         /\ \A k \in 1..Len(Tail(wire)) : Tail(wire)[k] = wire[k + 1] /\ k + 1 \in 1..Len(wire)
BY HeadTailProperties DEF SocketTypeOK

LEMMA AnswerEffect ==
  ASSUME SocketTypeOK, NEW m \in Message, NEW n \in Nat, Answer(m, n), UNCHANGED <<lane, task>>
  PROVE  /\ Answered
         /\ \A q \in Pushes : push'[q].reply # push[q].reply =>
              q = m.from /\ push[q].state = "sent" /\ push'[q].reply = n
         /\ m.from = Report => UNCHANGED push
         /\ m.from # Report => UNCHANGED report
         /\ m.from = Report => IF report.state = "sent" THEN report'.reply = n ELSE report'.reply = report.reply
<1>1. push \in [Pushes -> PushRecord] /\ report \in ReportRecord /\ (m.from # Report => m.from \in Pushes)
  BY DEF SocketTypeOK, Message, Entries
<1>2. CASE m.from # Report /\ push[m.from].state = "sent"
  <2> DEFINE r == [push[m.from] EXCEPT !.reply = n]
  <2>1. /\ r \in PushRecord /\ r.reply = n /\ r.state = push[m.from].state /\ r.batch = push[m.from].batch
        /\ r.left = push[m.from].left /\ r.ticket = push[m.from].ticket /\ r.task = push[m.from].task
    <3>1. ASSUME NEW a \in PushRecord
          PROVE  LET t == [a EXCEPT !.reply = n]
                 IN  /\ t \in PushRecord /\ t.reply = n /\ t.state = a.state /\ t.batch = a.batch
                     /\ t.left = a.left /\ t.ticket = a.ticket /\ t.task = a.task
      BY DEF PushRecord
    <3> QED BY <1>1, <1>2, <3>1
  <2>2. push' = [push EXCEPT ![m.from] = r] /\ report' = report
    BY <1>2 DEF Answer
  <2> HIDE DEF r
  <2>3. /\ push' \in [Pushes -> PushRecord] /\ push'[m.from] = r
        /\ \A q \in Pushes : q # m.from => push'[q] = push[q]
    BY <1>1, <1>2, <2>1, <2>2
  <2> QED BY <1>1, <1>2, <2>1, <2>2, <2>3 DEF Answered, SameButReply
<1>3. CASE m.from # Report /\ push[m.from].state # "sent"
  BY <1>1, <1>3 DEF Answer, Answered, SameButReply
<1>4. CASE m.from = Report
  <2>1. push' = push
    BY <1>4 DEF Answer
  <2>2. /\ report' \in ReportRecord /\ report'.state = report.state /\ report'.terminal = report.terminal
        /\ IF report.state = "sent" THEN report'.reply = n ELSE report'.reply = report.reply
    <3>1. LET t == [report EXCEPT !.reply = n]
          IN  t \in ReportRecord /\ t.state = report.state /\ t.terminal = report.terminal /\ t.reply = n
      BY <1>1 DEF ReportRecord
    <3> QED BY <1>1, <1>4, <3>1 DEF Answer
  <2> QED BY <1>1, <1>4, <2>1, <2>2 DEF Answered, SameButReply
<1> QED BY <1>2, <1>3, <1>4

LEMMA HostTakesEffect ==
  ASSUME SocketTypeOK, HostTakes
  PROVE  \E m \in Message : \/ TakesReport(m) \/ RefusesPush(m)
                            \/ \E n \in Nat : TakesPrefix(m, n)
<1> DEFINE m == Head(wire)
<1>1. /\ wire # << >> /\ wire' = Tail(wire)
      /\ UNCHANGED <<terminalVars, link, rejection, lane, task, retained, prior, hostRuns>>
      /\ UNCHANGED <<lane, task>>
  BY DEF HostTakes
<1>2. m \in Message
  BY <1>1, MessageShape
<1> HIDE DEF m
<1>3. Conflict \in Nat /\ 1 \in Nat
  BY SocketBounds DEF Conflict
<1>4. CASE m.from = Report
  <2>1. \/ Answer(m, Conflict) /\ UNCHANGED <<log, hostReport>>
        \/ Answer(m, 1) /\ hostReport' = hostReport \cup {m.report} /\ UNCHANGED log
    BY <1>4 DEF HostTakes, m
  <2>2. TakesReport(m)
    BY <1>1, <1>2, <1>3, <1>4, <2>1, AnswerEffect DEF TakesReport, Takes, m
  <2> QED BY <1>2, <2>2
<1>5. ASSUME m.from # Report, Answer(m, Conflict), UNCHANGED <<log, hostReport>>
      PROVE  RefusesPush(m)
  BY <1>1, <1>2, <1>3, <1>5, AnswerEffect DEF RefusesPush, Takes, m
<1>6. ASSUME m.from # Report, NEW n \in 1..Len(m.events), Answer(m, n + 1), UNCHANGED hostReport,
             LET fresh == {e \in {m.events[i] : i \in 1..n} : ~Known(e)}
             IN  log' = IF fresh = {} THEN log ELSE Append(log, fresh)
      PROVE  n \in Nat /\ TakesPrefix(m, n)
  <2>1. n + 1 \in Nat /\ n \in Nat
    OBVIOUS
  <2>2. Takes(m) /\ UNCHANGED report /\ \A q \in Pushes : push'[q].reply # push[q].reply => push'[q].reply = n + 1
    BY <1>1, <1>2, <1>6, <2>1, AnswerEffect DEF Takes, m
  <2> QED BY <1>6, <2>1, <2>2 DEF TakesPrefix, Prefix
<1>7. \/ m.from = Report
      \/ m.from # Report /\ Answer(m, Conflict) /\ UNCHANGED <<log, hostReport>>
      \/ /\ m.from # Report
         /\ \E n \in 1..Len(m.events) :
              /\ Answer(m, n + 1) /\ UNCHANGED hostReport
              /\ LET fresh == {e \in {m.events[i] : i \in 1..n} : ~Known(e)}
                 IN  log' = IF fresh = {} THEN log ELSE Append(log, fresh)
  BY DEF HostTakes, m
<1> QED BY <1>2, <1>4, <1>5, <1>6, <1>7

-----------------------------------------------------------------------------
(* Types, the lane and the pushes.                                         *)

LEMMA RetainTyped ==
  ASSUME SocketTypeOK, IInv, NEW p \in Pushes, NEW b, Retain(p, b)
  PROVE  /\ retained' \in [Ids -> Slot] /\ prior' \in [Ids -> Trace]
         /\ \A s \in Ids : IF s \in IdsOf(b)
              THEN /\ retained'[s].env = prior'[s].env /\ retained'[s].owner = p
                   /\ prior'[s].push = p /\ prior'[s].env # 0 /\ prior'[s].revision = activeRun.revision
              ELSE retained'[s] = retained[s] /\ prior'[s] = prior[s]
<1>1. activeRun.revision \in Nat
  BY ActiveShape DEF NullRun, ActiveRun
<1>2. \A s \in Ids : Envelope(p, s) \in {0} \cup Pushes /\ retained[s] \in Slot /\ prior[s] \in Trace
  BY DEF SocketTypeOK, Envelope, Slot
<1>3. \A s \in Ids : Envelope(p, s) # 0
  BY EntryKinds DEF Envelope
<1> QED BY <1>1, <1>2, <1>3 DEF Retain, Slot, Trace

LEMMA NoEnvelopesTyped == NoEnvelopes \in [Ids -> Slot]
BY DEF NoEnvelopes, Slot

LEMMA MessageTyped ==
  /\ NoReport \in ReportTerminal
  /\ \A p \in Pushes, l \in Seq(Events) : [from |-> p, events |-> l, report |-> NoReport] \in Message
  /\ \A t \in ReportTerminal : [from |-> Report, events |-> << >>, report |-> t] \in Message
BY EntryKinds DEF NoReport, ReportTerminal, Message

LEMMA LostWireTyped == wire \in Seq(Message) /\ wire' \in {wire, << >>} => wire' \in Seq(Message)
<1>1. << >> \in Seq(Message)
  BY EmptySeq
<1> QED BY <1>1

LEMMA StillTyped ==
  ASSUME SocketTypeOK, IInv, LaneAndPushes, StillSteps \/ UNCHANGED vars
  PROVE  SocketTypeOK' /\ LaneAndPushes' /\ UNCHANGED <<push, lane, report, log, hostReport, prior>>
         /\ wire' \in {wire, << >>}
<1>1. Rests
  BY StillRests
<1>2. /\ link' \in Links /\ retained' \in [Ids -> Slot]
      /\ UNCHANGED <<prior, log, hostReport>> /\ wire' \in {wire, << >>}
  <2>1. CASE Connect \/ Hello \/ SocketBeginsRun \/ SocketClaims \/ HostDecides \/ UNCHANGED vars
    BY <2>1 DEF SocketTypeOK, Connect, Hello, SocketBeginsRun, SocketClaims, HostDecides, vars, socketVars,
                hostVars, Links
  <2>2. CASE Close
    BY <2>2, NoEnvelopesTyped DEF SocketTypeOK, Close, Links, hostVars
  <2>3. CASE SocketReleasesRun
    BY <2>3 DEF SocketTypeOK, SocketReleasesRun, hostVars, Slot
  <2> QED BY <2>1, <2>2, <2>3 DEF StillSteps
<1>3. SocketTypeOK'
  BY <1>1, <1>2, LostWireTyped DEF SocketTypeOK, Rests
<1> QED BY <1>1, <1>2, <1>3, RestsKeeps DEF Rests

LEMMA AdmittingTyped ==
  ASSUME SocketTypeOK, IInv, LaneAndPushes, TerminalIsOne, NEW p \in Pushes,
         PushEvents(p) \/ PassBarrier(p) \/ BarrierFails(p)
  PROVE  SocketTypeOK' /\ LaneAndPushes'
<1>1. CASE BarrierFails(p)
  <2>1. /\ Turned(p)
        /\ UNCHANGED <<terminalVars, link, rejection, lane, task, retained, report, prior, wire, hostVars>>
    BY <1>1, BarrierFailsEffect
  <2> QED BY <2>1, TurnedKeeps DEF SocketTypeOK, Turned, hostVars, terminalVars, machineVars
<1>2. CASE PushEvents(p)
  <2>1. UNCHANGED <<terminalVars, link, rejection, task, report, wire, hostVars>>
    BY <1>2, PushEventsEffect
  <2>2. CASE Turned(p) /\ UNCHANGED <<retained, prior>>
    BY <2>1, <2>2, TurnedKeeps DEF SocketTypeOK, Turned, hostVars, terminalVars, machineVars
  <2>3. ASSUME NEW b \in Batches, Admits(p, b) PROVE SocketTypeOK' /\ LaneAndPushes'
    <3>1. activeRun'.runId = activeRun.runId
      BY <2>1 DEF terminalVars, machineVars
    <3>2. LaneAndPushes' /\ lane' \in Seq(Entries) /\ push' \in [Pushes -> PushRecord]
      BY <2>3, <3>1, QueuesKeeps DEF Admits
    <3>3. retained' \in [Ids -> Slot] /\ prior' \in [Ids -> Trace]
      BY <2>3, RetainTyped DEF Admits
    <3> QED BY <2>1, <3>2, <3>3 DEF SocketTypeOK, hostVars
  <2> QED BY <1>2, <2>2, <2>3, PushEventsEffect
<1>3. CASE PassBarrier(p)
  <2> DEFINE b == push[p].batch
  <2>1. UNCHANGED <<link, rejection, report, wire, hostVars>>
    BY <1>3, PassBarrierEffect
  <2>2. CASE Turned(p) /\ UNCHANGED terminalVars /\ (UNCHANGED <<retained, prior>> \/ Retain(p, b))
    <3>1. retained' \in [Ids -> Slot] /\ prior' \in [Ids -> Trace]
      BY <2>2, RetainTyped DEF SocketTypeOK
    <3> QED BY <2>1, <2>2, <3>1, TurnedKeeps DEF SocketTypeOK, Turned, hostVars, terminalVars, machineVars
  <2>3. CASE /\ Queues(p, b) /\ Retain(p, b)
             /\ SelectRunTerminal(ActiveTicket, TerminalIn(b)) \/ UNCHANGED terminalVars
    <3>1. activeRun'.runId = activeRun.runId
      BY <2>3, SelectStands DEF terminalVars, machineVars, RunStands
    <3>2. LaneAndPushes' /\ lane' \in Seq(Entries) /\ push' \in [Pushes -> PushRecord]
      BY <2>3, <3>1, QueuesKeeps
    <3>3. retained' \in [Ids -> Slot] /\ prior' \in [Ids -> Trace]
      BY <2>3, RetainTyped
    <3>4. task' \in {0} \cup Pushes
      BY <2>3 DEF Queues, SocketTypeOK
    <3> QED BY <2>1, <3>2, <3>3, <3>4 DEF SocketTypeOK, hostVars
  <2> HIDE DEF b
  <2>4. \/ Turned(p) /\ UNCHANGED terminalVars /\ (UNCHANGED <<retained, prior>> \/ Retain(p, b))
        \/ /\ Queues(p, b) /\ Retain(p, b)
           /\ SelectRunTerminal(ActiveTicket, TerminalIn(b)) \/ UNCHANGED terminalVars
    BY <1>3, PassBarrierEffect DEF b
  <2> QED BY <2>2, <2>3, <2>4
<1> QED BY <1>1, <1>2, <1>3

LEMMA GivesUpTyped ==
  ASSUME SocketTypeOK, IInv, LaneAndPushes, NEW p \in Pushes, GivesUp(p)
  PROVE  SocketTypeOK' /\ LaneAndPushes'
<1>1. LaneAndPushes' /\ lane' \in Seq(Entries) /\ push' \in [Pushes -> PushRecord]
  BY EndingKeeps DEF GivesUp, terminalVars, machineVars
<1>2. task' \in {0} \cup Pushes /\ report' = report
  BY DEF GivesUp, Ending, Ends, SocketTypeOK
<1>3. link' \in Links /\ retained' \in [Ids -> Slot] /\ wire' \in Seq(Message)
  BY NoEnvelopesTyped, LostWireTyped DEF GivesUp, Fence, SocketTypeOK, Links
<1> QED BY <1>1, <1>2, <1>3 DEF GivesUp, SocketTypeOK, hostVars

LEMMA DeliveringTyped ==
  ASSUME SocketTypeOK, IInv, LaneAndPushes, NEW p \in Pushes,
         \/ AbortWaiting(p) \/ StartDelivery(p) \/ RpcFails(p) \/ ReplyPartial(p) \/ ReplyDone(p)
         \/ ReplyConflict(p)
  PROVE  SocketTypeOK' /\ LaneAndPushes'
<1>1. ASSUME NEW events, Transmits(p, events) PROVE SocketTypeOK' /\ LaneAndPushes'
  <2>1. LaneAndPushes' /\ push' \in [Pushes -> PushRecord] /\ events \in Seq(Events)
    BY <1>1, SendsKeeps DEF Transmits, Sends, BatchOK, terminalVars, machineVars
  <2>2. wire' \in Seq(Message)
    BY <1>1, <2>1, MessageTyped DEF Transmits, SocketTypeOK
  <2> QED BY <1>1, <2>1, <2>2 DEF Transmits, SocketTypeOK, hostVars
<1>2. ASSUME Ending(p, "resolved"), Completed(p), ReplyDone(p),
             \/ UNCHANGED terminalVars
             \/ \E receipt : AckRunTerminal(push[p].ticket, receipt)
      PROVE  SocketTypeOK' /\ LaneAndPushes'
  <2>1. activeRun'.runId = activeRun.runId
    BY <1>2, AckStands DEF terminalVars, machineVars, RunStands
  <2>2. LaneAndPushes' /\ lane' \in Seq(Entries) /\ push' \in [Pushes -> PushRecord]
    BY <1>2, <2>1, EndingKeeps
  <2>3. task' \in {0} \cup Pushes /\ retained' \in [Ids -> Slot]
    BY <1>2 DEF Ending, Ends, Completed, SocketTypeOK, Slot
  <2> QED BY <1>2, <2>2, <2>3 DEF Completed, SocketTypeOK, hostVars
<1>3. CASE ReplyDone(p)
  BY <1>2, <1>3, DoneEffect, GivesUpTyped
<1> QED BY <1>1, <1>3, GiveUps, StartEffect, PartialEffect, GivesUpTyped

LEMMA ReportingTyped ==
  ASSUME SocketTypeOK, IInv, LaneAndPushes,
         DeliverReport \/ StartReport \/ ReportFails \/ ReportDone \/ ReportConflict
  PROVE  SocketTypeOK' /\ LaneAndPushes' /\ Reporting
         /\ UNCHANGED <<log, hostReport, prior>> /\ RunStands /\ TerminalStands
<1>1. Reporting
  BY ReportingEffect
<1>2. RunStands /\ TerminalStands
  BY DEF DeliverReport, StartReport, ReportFails, FailReport, ReportDone, ReportConflict, RunStands,
         TerminalStands, SelectInstanceTerminal, AckInstanceTerminal, terminalVars, machineVars, historyVars
<1>3. /\ link' \in Links /\ retained' \in [Ids -> Slot] /\ UNCHANGED <<prior, log, hostReport>>
  BY NoEnvelopesTyped
     DEF DeliverReport, StartReport, ReportFails, FailReport, ReportDone, ReportConflict, Fence,
         SocketTypeOK, Links, hostVars
<1>4. wire' \in Seq(Message)
  <2>1. CASE StartReport /\ report.bound /\ Connected
    <3>1. report.terminal \in ReportTerminal
      BY DEF SocketTypeOK, ReportRecord
    <3>2. [from |-> Report, events |-> << >>, report |-> report.terminal] \in Message
      BY <3>1, MessageTyped
    <3>3. wire' = Append(wire, [from |-> Report, events |-> << >>, report |-> report.terminal])
      BY <2>1 DEF StartReport
    <3> QED BY <3>2, <3>3 DEF SocketTypeOK
  <2>2. CASE wire' \in {wire, << >>}
    BY <2>2, LostWireTyped DEF SocketTypeOK
  <2> QED BY <2>1, <2>2
          DEF DeliverReport, StartReport, ReportFails, FailReport, ReportDone, ReportConflict, Fence
<1>5. LaneAndPushes' /\ lane' \in Seq(Entries)
  BY <1>1, <1>2, ReportingKeeps, ReportingLane DEF RunStands
<1> QED BY <1>1, <1>2, <1>3, <1>4, <1>5 DEF SocketTypeOK, Reporting

LEMMA TakesTyped ==
  ASSUME SocketTypeOK, LaneAndPushes, HostTakes
  PROVE  SocketTypeOK' /\ LaneAndPushes'
<1>1. PICK m \in Message : TakesReport(m) \/ RefusesPush(m) \/ \E n \in Nat : TakesPrefix(m, n)
  BY HostTakesEffect
<1>2. Takes(m) /\ Answered
  BY <1>1 DEF TakesReport, RefusesPush, TakesPrefix, Takes
<1>3. LaneAndPushes'
  BY <1>2, AnsweredKeeps DEF Takes, terminalVars, machineVars
<1>4. wire' \in Seq(Message)
  BY <1>2, MessageShape DEF Takes
<1>5. log' \in Seq(SUBSET Events)
  <2>1. ASSUME NEW n \in Nat, TakesPrefix(m, n) PROVE log' \in Seq(SUBSET Events)
    <3>1. \A i \in 1..n : m.events[i] \in Events
      BY <1>1, <2>1 DEF TakesPrefix, Message
    <3>2. {e \in Prefix(m, n) : ~Known(e)} \in SUBSET Events
      BY <3>1 DEF Prefix
    <3> QED BY <2>1, <3>2 DEF TakesPrefix, SocketTypeOK
  <2> QED BY <1>1, <2>1 DEF TakesReport, RefusesPush, SocketTypeOK
<1> QED BY <1>2, <1>3, <1>4, <1>5 DEF SocketTypeOK, Takes, Answered

-----------------------------------------------------------------------------
(* The envelopes.                                                          *)

Advances ==
  \A q \in Pushes : /\ push[q].state # "new" => push'[q].state # "new"
                    /\ push[q].state = "resolved" => push'[q].state = "resolved"

LEMMA ShapesAdvance ==
  ASSUME SocketTypeOK
  PROVE  /\ UNCHANGED push => Advances
         /\ \A p \in Pushes : Turned(p) => Advances /\ push'[p].state # "new"
         /\ \A p \in Pushes : Sends(p) => Advances
         /\ Answered => Advances
<1>1. UNCHANGED push => Advances
  BY DEF Advances
<1>2. ASSUME NEW p \in Pushes, Turned(p) PROVE Advances /\ push'[p].state # "new"
  BY <1>2 DEF Advances, Turned
<1>3. ASSUME NEW p \in Pushes, Sends(p) PROVE Advances
  BY <1>3 DEF Advances, Sends, Live
<1>4. Answered => Advances
  BY DEF Advances, Answered, SameButReply
<1> QED BY <1>1, <1>2, <1>3, <1>4

LEMMA QueuesAdvances ==
  ASSUME SocketTypeOK, IInv, NEW p \in Pushes, NEW b, Queues(p, b)
  PROVE  Advances /\ push'[p].state # "new"
BY QueuedShape DEF Queues, BatchOK, Advances

LEMMA EndingAdvances ==
  ASSUME SocketTypeOK, LaneAndPushes, NEW p \in Pushes, NEW how \in {"failed", "resolved"}, Ending(p, how)
  PROVE  Advances /\ push'[p].state = how
<1>1. Ended(p, how) /\ Live(p)
  BY EndingShape DEF Ending
<1> QED BY <1>1 DEF Ended, Joins, Advances, Live

LEMMA EnvelopesStay ==
  ASSUME SocketTypeOK, EnvelopesKept, UNCHANGED prior, Advances,
         revision \in Nat, revision' \in Nat, revision <= revision',
         link \in {"greeted", "closed"} => link' \in {"greeted", "closed"},
         \A s \in Ids : retained'[s] = retained[s] \/ retained'[s].env = 0,
         link' = "greeted" => \A s \in EventIds :
           prior[s].push # 0 /\ prior[s].revision = activeRun'.revision
             /\ push'[prior[s].push].state # "resolved"
           => link = "greeted" /\ prior[s].revision = activeRun.revision /\ retained'[s] = retained[s]
  PROVE  EnvelopesKept'
<1>1. \A s \in Ids : prior[s] \in Trace
  BY DEF SocketTypeOK
<1>2. \A s \in Ids : prior[s].push # 0 => prior[s].push \in Pushes
  BY <1>1 DEF Trace
<1>3. \A s \in Ids : prior'[s].push # 0 => /\ prior'[s].env # 0 /\ prior'[s].revision \in 1..revision'
                                           /\ push'[prior'[s].push].state # "new"
                                           /\ link' \in {"greeted", "closed"}
  BY <1>2 DEF EnvelopesKept, Advances
<1>4. \A s \in Ids : retained'[s].env # 0 => retained'[s].owner = prior'[s].push
  BY DEF EnvelopesKept
<1>5. UnknownKeepsEnvelope'
  <2> SUFFICES ASSUME link' = "greeted", NEW s \in EventIds, prior'[s].push # 0,
                      prior'[s].revision = activeRun'.revision, push'[prior'[s].push].state # "resolved"
               PROVE  retained'[s].env = prior'[s].env
    BY DEF UnknownKeepsEnvelope
  <2>1. s \in Ids /\ prior[s].push \in Pushes
    BY <1>2 DEF Ids
  <2>2. push[prior[s].push].state # "resolved"
    BY <2>1 DEF Advances
  <2>3. link = "greeted" /\ prior[s].revision = activeRun.revision /\ retained'[s] = retained[s]
    OBVIOUS
  <2>4. retained[s].env = prior[s].env
    BY <2>2, <2>3 DEF EnvelopesKept, UnknownKeepsEnvelope
  <2> QED BY <2>3, <2>4
<1> QED BY <1>3, <1>4, <1>5 DEF EnvelopesKept

LEMMA EnvelopesRetained ==
  ASSUME SocketTypeOK, IInv, EnvelopesKept, NEW p \in Pushes, NEW b, Retain(p, b), ~Excluded(b),
         BatchOK(b), Advances, push'[p].state # "new", UNCHANGED <<link, revision>>,
         activeRun'.revision = activeRun.revision
  PROVE  EnvelopesKept'
<1>1. link = "greeted" /\ activeRun # NullRun
  BY BatchShape, ActiveShape DEF Excluded
<1>2. activeRun.revision \in 1..revision
  BY <1>1, ActiveShape
<1>3. \A s \in Ids : prior[s].push # 0 => prior[s].push \in Pushes
  BY DEF SocketTypeOK, Trace
<1>4. \A s \in Ids : IF s \in IdsOf(b)
        THEN /\ retained'[s].env = prior'[s].env /\ retained'[s].owner = p
             /\ prior'[s].push = p /\ prior'[s].env # 0 /\ prior'[s].revision = activeRun.revision
        ELSE retained'[s] = retained[s] /\ prior'[s] = prior[s]
  BY RetainTyped
<1>5. \A s \in Ids : prior'[s].push # 0 => /\ prior'[s].env # 0 /\ prior'[s].revision \in 1..revision'
                                           /\ push'[prior'[s].push].state # "new"
                                           /\ link' \in {"greeted", "closed"}
  BY <1>1, <1>2, <1>3, <1>4 DEF EnvelopesKept, Advances
<1>6. \A s \in Ids : retained'[s].env # 0 => retained'[s].owner = prior'[s].push
  BY <1>4 DEF EnvelopesKept
<1>7. UnknownKeepsEnvelope'
  <2> SUFFICES ASSUME NEW s \in EventIds, prior'[s].push # 0,
                      prior'[s].revision = activeRun'.revision, push'[prior'[s].push].state # "resolved"
               PROVE  retained'[s].env = prior'[s].env
    BY DEF UnknownKeepsEnvelope
  <2>1. s \in Ids
    BY DEF Ids
  <2>2. CASE s \in IdsOf(b)
    BY <1>4, <2>1, <2>2
  <2>3. CASE s \notin IdsOf(b)
    <3>1. retained'[s] = retained[s] /\ prior'[s] = prior[s]
      BY <1>4, <2>1, <2>3
    <3>2. push[prior[s].push].state # "resolved"
      BY <1>3, <2>1, <3>1 DEF Advances
    <3> QED BY <1>1, <3>1, <3>2 DEF EnvelopesKept, UnknownKeepsEnvelope
  <2> QED BY <2>2, <2>3
<1> QED BY <1>5, <1>6, <1>7 DEF EnvelopesKept

LEMMA RevisionIsNat == IInv => revision \in Nat
BY DEF IInv, TerminalTypeOK

LEMMA StillEnvelopes ==
  ASSUME SocketTypeOK, IInv, LaneAndPushes, EnvelopesKept, StillSteps \/ UNCHANGED vars
  PROVE  EnvelopesKept'
<1>1. UNCHANGED <<push, prior>> /\ Advances
  BY StillTyped, ShapesAdvance
<1>2. \A s \in Ids : prior[s].push # 0 => prior[s].revision \in 1..revision /\ link \in {"greeted", "closed"}
  BY DEF EnvelopesKept
<1>3. \A s \in EventIds : s \in Ids
  BY DEF Ids
<1>4. CASE SocketClaims \/ HostDecides \/ UNCHANGED vars
  <2>1. UNCHANGED <<link, retained, revision>> /\ activeRun'.revision = activeRun.revision
    BY <1>4, ClaimStands
       DEF SocketClaims, HostDecides, vars, socketVars, terminalVars, machineVars, RunStands
  <2> QED BY <1>1, <2>1, EnvelopesStay, RevisionIsNat
<1>5. CASE Connect \/ Hello
  <2>1. UNCHANGED <<retained, revision>> /\ link \notin {"greeted", "closed"}
    BY <1>5 DEF Connect, Hello, terminalVars, machineVars, RememberOwnedRunId
  <2> QED BY <1>1, <1>2, <1>3, <2>1, EnvelopesStay, RevisionIsNat
<1>6. CASE Close
  <2>1. link' = "closed" /\ UNCHANGED revision
    BY <1>6 DEF Close, terminalVars, machineVars
  <2>2. \A s \in Ids : retained'[s] = retained[s] \/ retained'[s].env = 0
    BY <1>6 DEF Close, NoEnvelopes
  <2> QED BY <1>1, <2>1, <2>2, EnvelopesStay, RevisionIsNat
<1>7. CASE SocketBeginsRun
  <2>1. UNCHANGED <<retained, link>> /\ revision' = revision + 1 /\ activeRun'.revision = revision + 1
    BY <1>7 DEF SocketBeginsRun, BeginRun, socketVars
  <2>2. \A s \in EventIds : prior[s].push # 0 => prior[s].revision # activeRun'.revision
    BY <1>2, <1>3, <2>1, RevisionIsNat
  <2>3. revision' \in Nat /\ revision <= revision'
    BY <2>1, RevisionIsNat
  <2> QED BY <1>1, <2>1, <2>2, <2>3, EnvelopesStay, RevisionIsNat
<1>8. CASE SocketReleasesRun
  <2>1. UNCHANGED <<link, revision>> /\ activeRun'.revision = 0
    BY <1>8, ReleasedTicket DEF SocketReleasesRun, NullRun
  <2>2. \A s \in Ids : retained'[s] = retained[s] \/ retained'[s].env = 0
    BY <1>8 DEF SocketReleasesRun
  <2>3. \A s \in EventIds : prior[s].push # 0 => prior[s].revision # activeRun'.revision
    BY <1>2, <1>3, <2>1, RevisionIsNat
  <2> QED BY <1>1, <2>1, <2>2, <2>3, EnvelopesStay, RevisionIsNat
<1> QED BY <1>4, <1>5, <1>6, <1>7, <1>8 DEF StillSteps

LEMMA AdmittingEnvelopes ==
  ASSUME SocketTypeOK, IInv, LaneAndPushes, TerminalIsOne, EnvelopesKept, NEW p \in Pushes,
         PushEvents(p) \/ PassBarrier(p) \/ BarrierFails(p)
  PROVE  EnvelopesKept'
<1>1. ASSUME Turned(p), UNCHANGED <<terminalVars, link, retained, prior>> PROVE EnvelopesKept'
  BY <1>1, ShapesAdvance, EnvelopesStay, RevisionIsNat DEF terminalVars, machineVars
<1>2. CASE BarrierFails(p)
  BY <1>1, <1>2, BarrierFailsEffect
<1>3. CASE PushEvents(p)
  <2>1. UNCHANGED <<terminalVars, link>>
    BY <1>3, PushEventsEffect
  <2>2. ASSUME NEW b \in Batches, Admits(p, b) PROVE EnvelopesKept'
    <3>1. Queues(p, b) /\ Retain(p, b) /\ ~Excluded(b) /\ BatchOK(b)
      BY <2>2, BatchesOK DEF Admits
    <3>2. Advances /\ push'[p].state # "new"
      BY <3>1, QueuesAdvances
    <3> QED BY <2>1, <3>1, <3>2, EnvelopesRetained DEF terminalVars, machineVars
  <2> QED BY <1>1, <1>3, <2>1, <2>2, PushEventsEffect
<1>4. CASE PassBarrier(p)
  <2> DEFINE b == push[p].batch
  <2>1. BatchOK(b) /\ UNCHANGED link
    BY <1>4, PassBarrierEffect
  <2>2. ASSUME Retain(p, b), ~Excluded(b), Advances, push'[p].state # "new",
               UNCHANGED terminalVars \/ SelectRunTerminal(ActiveTicket, TerminalIn(b))
        PROVE  EnvelopesKept'
    <3>1. UNCHANGED revision /\ activeRun'.revision = activeRun.revision
      BY <2>2, SelectStands DEF terminalVars, machineVars, RunStands
    <3> QED BY <2>1, <2>2, <3>1, EnvelopesRetained
  <2>3. Turned(p) => Advances /\ push'[p].state # "new"
    BY ShapesAdvance
  <2>4. Queues(p, b) => Advances /\ push'[p].state # "new"
    BY QueuesAdvances
  <2> HIDE DEF b
  <2>5. \/ Turned(p) /\ UNCHANGED <<terminalVars, retained, prior>>
        \/ /\ Turned(p) \/ Queues(p, b)
           /\ Retain(p, b) /\ ~Excluded(b)
           /\ UNCHANGED terminalVars \/ SelectRunTerminal(ActiveTicket, TerminalIn(b))
    BY <1>4, PassBarrierEffect DEF b
  <2> QED BY <1>1, <2>1, <2>2, <2>3, <2>4, <2>5
<1> QED BY <1>2, <1>3, <1>4

LEMMA OtherEnvelopes ==
  ASSUME SocketTypeOK, IInv, EnvelopesKept, Advances, UNCHANGED <<prior, revision>>,
         activeRun'.revision = activeRun.revision,
         \/ UNCHANGED <<link, retained>>
         \/ link' = "closed" /\ retained' = NoEnvelopes
  PROVE  EnvelopesKept'
BY EnvelopesStay, RevisionIsNat DEF NoEnvelopes

LEMMA DeliveringEnvelopes ==
  ASSUME SocketTypeOK, IInv, LaneAndPushes, EnvelopesKept, NEW p \in Pushes,
         \/ AbortWaiting(p) \/ StartDelivery(p) \/ RpcFails(p) \/ ReplyPartial(p) \/ ReplyDone(p)
         \/ ReplyConflict(p)
  PROVE  EnvelopesKept'
<1>1. ASSUME GivesUp(p) PROVE EnvelopesKept'
  <2>1. Advances
    BY <1>1, EndingAdvances DEF GivesUp
  <2> QED BY <1>1, <2>1, OtherEnvelopes DEF GivesUp, Fence, terminalVars, machineVars
<1>2. ASSUME NEW events, Transmits(p, events) PROVE EnvelopesKept'
  BY <1>2, ShapesAdvance, OtherEnvelopes DEF Transmits, terminalVars, machineVars
<1>3. ASSUME Ending(p, "resolved"), Completed(p),
             UNCHANGED terminalVars \/ \E receipt : AckRunTerminal(push[p].ticket, receipt)
      PROVE  EnvelopesKept'
  <2>1. Advances /\ push'[p].state = "resolved"
    BY <1>3, EndingAdvances
  <2>2. UNCHANGED <<link, prior, revision>> /\ activeRun'.revision = activeRun.revision
    BY <1>3, AckStands DEF Completed, terminalVars, machineVars, RunStands
  <2>3. \A s \in Ids : retained'[s] = retained[s] \/ (retained'[s].env = 0 /\ retained[s].owner = p)
    BY <1>3 DEF Completed, Owns
  <2>4. \A s \in EventIds : s \in Ids
    BY DEF Ids
  <2>5. p # 0 /\ p \in Nat
    BY EntryKinds
  <2>6. ASSUME NEW s \in EventIds, link' = "greeted", prior[s].push # 0,
               prior[s].revision = activeRun'.revision, push'[prior[s].push].state # "resolved"
        PROVE  retained'[s] = retained[s]
    <3>1. prior[s].push # p /\ push[prior[s].push].state # "resolved"
      BY <2>1, <2>4, <2>6 DEF Advances, SocketTypeOK, Trace
    <3>2. retained[s].env = prior[s].env
      BY <2>2, <2>6, <3>1 DEF EnvelopesKept, UnknownKeepsEnvelope
    <3>3. retained[s].env # 0
      BY <2>4, <2>6, <3>2 DEF EnvelopesKept
    <3> QED BY <2>3, <2>4, <3>1, <3>3 DEF EnvelopesKept
  <2> QED BY <2>1, <2>2, <2>3, <2>4, <2>6, EnvelopesStay, RevisionIsNat
<1> QED BY <1>1, <1>2, <1>3, GiveUps, StartEffect, PartialEffect, DoneEffect

LEMMA RestEnvelopes ==
  ASSUME SocketTypeOK, IInv, LaneAndPushes, EnvelopesKept,
         \/ DeliverReport \/ StartReport \/ ReportFails \/ ReportDone \/ ReportConflict \/ HostTakes
  PROVE  EnvelopesKept'
<1>1. CASE HostTakes
  <2>1. \E m : Takes(m)
    BY <1>1, HostTakesEffect DEF TakesReport, RefusesPush, TakesPrefix
  <2> QED BY <2>1, ShapesAdvance, OtherEnvelopes DEF Takes, terminalVars, machineVars
<1>2. CASE DeliverReport \/ StartReport \/ ReportFails \/ ReportDone \/ ReportConflict
  <2>1. Reporting /\ RunStands /\ UNCHANGED prior
    BY <1>2, ReportingTyped
  <2>2. \/ UNCHANGED <<link, retained>>
        \/ link' = "closed" /\ retained' = NoEnvelopes
    BY <1>2 DEF DeliverReport, StartReport, ReportFails, FailReport, ReportDone, ReportConflict, Fence
  <2> QED BY <2>1, <2>2, ShapesAdvance, OtherEnvelopes DEF Reporting, RunStands
<1> QED BY <1>1, <1>2

-----------------------------------------------------------------------------
(* What is sent, and the one terminal among it.                            *)

Fades == \A e \in Events : Sent(e)' => Sent(e)

LEMMA PushesFade ==
  ASSUME \A q \in Pushes : Live(q)' => Live(q) /\ push'[q].batch = push[q].batch, NEW e
  PROVE  InPush(e)' => InPush(e)
BY DEF InPush

LEMMA LogStands == ASSUME UNCHANGED log, NEW e PROVE InLog(e)' <=> InLog(e)
BY DEF InLog

LEMMA WireFades == ASSUME wire' \in {wire, << >>}, NEW e PROVE OnWire(e)' => OnWire(e)
BY DEF OnWire

LEMMA StillFades ==
  ASSUME UNCHANGED <<push, log>>, wire' \in {wire, << >>}
  PROVE  Fades
BY PushesFade, LogStands, WireFades DEF Fades, Sent, Live

LEMMA TurnedFades ==
  ASSUME NEW p \in Pushes, Turned(p), UNCHANGED <<log, wire>>
  PROVE  Fades
<1>1. \A q \in Pushes : Live(q)' => Live(q) /\ push'[q].batch = push[q].batch
  BY DEF Turned, Live
<1> QED BY <1>1, PushesFade, LogStands, WireFades DEF Fades, Sent

LEMMA EndingFades ==
  ASSUME SocketTypeOK, LaneAndPushes, NEW p \in Pushes, NEW how \in {"failed", "resolved"}, Ending(p, how),
         UNCHANGED log, wire' \in {wire, << >>}
  PROVE  Fades
<1>1. \A q \in Pushes : Live(q)' => Live(q) /\ push'[q].batch = push[q].batch
  BY EndingShape
<1> QED BY <1>1, PushesFade, LogStands, WireFades DEF Fades, Sent

LEMMA WireAppended ==
  ASSUME SocketTypeOK, NEW m \in Message, wire' = Append(wire, m)
  PROVE  /\ Len(wire) \in Nat /\ Len(wire') = Len(wire) + 1
         /\ \A k \in 1..Len(wire) : wire'[k] = wire[k]
         /\ wire'[Len(wire) + 1] = m
BY DEF SocketTypeOK

LEMMA TransmitsBatch ==
  ASSUME SocketTypeOK, LaneAndPushes, NEW p \in Pushes, NEW events, Transmits(p, events)
  PROVE  /\ BatchOK(events) /\ BatchOK(push[p].batch) /\ PushIsTrue(p)
         /\ \A i \in 1..Len(events) : \E j \in 1..Len(push[p].batch) : events[i] = push[p].batch[j]
         /\ IsTerminal(events) <=> IsTerminal(push[p].batch)
         /\ events[1].run = push[p].batch[1].run
<1>1. /\ Live(p) /\ PushIsTrue(p) /\ events = push'[p].left /\ BatchOK(events)
      /\ \A i \in 1..Len(events) : \E j \in 1..Len(push[p].left) : events[i] = push[p].left[j]
  BY DEF LaneAndPushes, PushesAreTrue, Transmits, Sends
<1>2. LaneAndPushes'
  BY SendsKeeps DEF Transmits, terminalVars, machineVars
<1>3. /\ PushIsTrue(p)' /\ Live(p)' /\ push'[p].batch = push[p].batch
  BY <1>2 DEF LaneAndPushes, PushesAreTrue, Transmits, Sends, Live
<1>4. BatchOK(push[p].batch)
  BY <1>1, LeftIsOfBatch
<1>5. \A i \in 1..Len(events) : \E j \in 1..Len(push[p].batch) : events[i] = push[p].batch[j]
  <2> TAKE i \in 1..Len(events)
  <2>1. PICK k \in 1..Len(push[p].left) : events[i] = push[p].left[k]
    BY <1>1
  <2>2. \E j \in 1..Len(push[p].batch) : push[p].left[k] = push[p].batch[j]
    BY <1>1, LeftIsOfBatch
  <2> QED BY <2>1, <2>2
<1>6. PICK j \in 1..Len(push[p].batch) : events[1] = push[p].batch[j]
  BY <1>1, <1>5, BatchShape
<1>7. events[1].run = push[p].batch[1].run /\ (IsTerminal(events) => IsTerminal(push[p].batch))
  BY <1>1, <1>4, <1>6, BatchShape
<1>8. IsTerminal(push[p].batch) => IsTerminal(events)
  BY <1>1, <1>4, <1>6, BatchShape
<1> QED BY <1>1, <1>4, <1>5, <1>7, <1>8

LEMMA TransmitsMessage ==
  ASSUME SocketTypeOK, LaneAndPushes, NEW p \in Pushes, NEW events, Transmits(p, events)
  PROVE  /\ [from |-> p, events |-> events, report |-> NoReport] \in Message
         /\ BatchOK(events) /\ BatchOK(push[p].batch) /\ PushIsTrue(p)
         /\ \A i \in 1..Len(events) : \E j \in 1..Len(push[p].batch) : events[i] = push[p].batch[j]
         /\ IsTerminal(events) <=> IsTerminal(push[p].batch)
         /\ events[1].run = push[p].batch[1].run
<1>1. [from |-> p, events |-> events, report |-> NoReport] \in Message
  <2>1. BatchOK(events)
    BY TransmitsBatch
  <2> QED BY <2>1, MessageTyped DEF BatchOK
<1> QED BY <1>1, TransmitsBatch

LEMMA TransmitsFades ==
  ASSUME SocketTypeOK, LaneAndPushes, NEW p \in Pushes, NEW events, Transmits(p, events)
  PROVE  Fades
<1> DEFINE m == [from |-> p, events |-> events, report |-> NoReport]
<1>1. /\ m \in Message /\ m.events = events
      /\ \A i \in 1..Len(events) : \E j \in 1..Len(push[p].batch) : events[i] = push[p].batch[j]
  <2>1. m \in Message /\ m.events = events
    BY TransmitsMessage
  <2>2. \A i \in 1..Len(events) : \E j \in 1..Len(push[p].batch) : events[i] = push[p].batch[j]
    BY TransmitsBatch
  <2> QED BY <2>1, <2>2
<1>2. wire' = Append(wire, m) /\ UNCHANGED log
  BY DEF Transmits, hostVars
<1> HIDE DEF m
<1>3. \A q \in Pushes : Live(q)' => Live(q) /\ push'[q].batch = push[q].batch
  BY DEF Transmits, Sends, Live
<1>4. ASSUME NEW e \in Events, OnWire(e)' PROVE OnWire(e) \/ InPush(e)
  <2>1. PICK k \in 1..Len(wire') : wire'[k].from # Report /\ \E i \in 1..Len(wire'[k].events) : wire'[k].events[i] = e
    BY <1>4 DEF OnWire
  <2>2. CASE k \in 1..Len(wire)
    BY <1>1, <1>2, <2>1, <2>2, WireAppended DEF OnWire
  <2>3. CASE k = Len(wire) + 1
    <3>1. \E i \in 1..Len(events) : events[i] = e
      BY <1>1, <1>2, <2>1, <2>3, WireAppended
    <3>2. \E j \in 1..Len(push[p].batch) : push[p].batch[j] = e
      BY <1>1, <3>1
    <3> QED BY <3>2 DEF InPush, Transmits, Sends
  <2> QED BY <1>1, <1>2, <2>1, <2>2, <2>3, WireAppended
<1> QED BY <1>2, <1>3, <1>4, PushesFade, LogStands DEF Fades, Sent

LEMMA TakesFades ==
  ASSUME SocketTypeOK, NEW m \in Message, TakesReport(m) \/ RefusesPush(m) \/ \E n \in Nat : TakesPrefix(m, n)
  PROVE  Fades
<1>1. Takes(m)
  BY DEF TakesReport, RefusesPush, TakesPrefix
<1>2. \A q \in Pushes : Live(q)' => Live(q) /\ push'[q].batch = push[q].batch
  BY <1>1 DEF Takes, Answered, SameButReply, Live
<1>3. ASSUME NEW e, OnWire(e)' PROVE OnWire(e)
  BY <1>1, <1>3, MessageShape DEF Takes, OnWire
<1>4. ASSUME NEW e \in Events, InLog(e)' PROVE InLog(e) \/ OnWire(e)
  <2>1. CASE UNCHANGED log
    BY <1>4, <2>1, LogStands
  <2>2. ASSUME NEW n \in Nat, TakesPrefix(m, n) PROVE InLog(e) \/ OnWire(e)
    <3> DEFINE fresh == {x \in Prefix(m, n) : ~Known(x)}
    <3>1. log' = (IF fresh = {} THEN log ELSE Append(log, fresh)) /\ log \in Seq(SUBSET Events)
      BY <2>2 DEF TakesPrefix, SocketTypeOK
    <3>2. fresh \in SUBSET Events
      BY <2>2 DEF TakesPrefix, Message, Prefix
    <3>3. e \in fresh => OnWire(e)
      BY <1>1, <2>2, MessageShape DEF TakesPrefix, Takes, OnWire, Prefix
    <3> HIDE DEF fresh
    <3>4. PICK i \in 1..Len(log') : e \in log'[i]
      BY <1>4 DEF InLog
    <3> QED BY <3>1, <3>2, <3>3, <3>4 DEF InLog
  <2> QED BY <2>1, <2>2 DEF TakesReport, RefusesPush
<1> QED BY <1>2, <1>3, <1>4, PushesFade DEF Fades, Sent

LEMMA ReportingFades ==
  ASSUME SocketTypeOK, Reporting, UNCHANGED log,
         \/ wire' \in {wire, << >>}
         \/ \E m \in Message : m.from = Report /\ wire' = Append(wire, m)
  PROVE  Fades
<1>1. CASE wire' \in {wire, << >>}
  BY <1>1, StillFades DEF Reporting
<1>2. ASSUME NEW m \in Message, m.from = Report, wire' = Append(wire, m) PROVE Fades
  <2>1. ASSUME NEW e, OnWire(e)' PROVE OnWire(e)
    BY <1>2, <2>1, WireAppended DEF OnWire
  <2> QED BY <2>1, PushesFade, LogStands DEF Fades, Sent, Live, Reporting
<1> QED BY <1>1, <1>2

LEMMA OneTerminalStays ==
  ASSUME TerminalIsOne, Fades, RunStands
  PROVE  TerminalIsOne'
<1>1. \A e \in Events : Selected(e) => Selected(e)'
  BY DEF Selected, RunStands
<1> QED BY <1>1 DEF TerminalIsOne, Fades, RunStands

LEMMA OneTerminalBegins ==
  ASSUME IInv, TerminalIsOne, Fades, NEW run \in Runs, BeginRun(run), \A ticket \in issued : ticket.runId # run
  PROVE  TerminalIsOne'
<1>1. issued \subseteq issued' /\ activeRun'.runId = run
  BY BegunTicket DEF BeginRun
<1> QED BY <1>1 DEF TerminalIsOne, Fades

LEMMA OneTerminalReleased ==
  ASSUME TerminalIsOne, Fades, UNCHANGED issued, activeRun' = NullRun
  PROVE  TerminalIsOne'
<1>1. \A e \in Events : e.run # activeRun'.runId
  BY KindsDiffer, NoRunAssumption DEF NullRun
<1> QED BY <1>1 DEF TerminalIsOne, Fades

LEMMA QueuesSends ==
  ASSUME SocketTypeOK, IInv, LaneAndPushes, NEW p \in Pushes, NEW b, Queues(p, b), UNCHANGED <<wire, log>>
  PROVE  \A e \in Events : Sent(e)' => Sent(e) \/ \E i \in 1..Len(b) : e = b[i]
<1>1. /\ \A q \in Pushes : q # p => push'[q] = push[q]
      /\ push'[p].batch = b
  BY QueuedShape DEF Queues, BatchOK
<1>2. ASSUME NEW e, InPush(e)' PROVE InPush(e) \/ \E i \in 1..Len(b) : e = b[i]
  BY <1>1, <1>2 DEF InPush, Live
<1> QED BY <1>2, LogStands, WireFades DEF Sent

LEMMA OneTerminalQueues ==
  ASSUME SocketTypeOK, IInv, ActiveIsIssued, LaneAndPushes, TerminalIsOne, NEW p \in Pushes, NEW b, Queues(p, b),
         UNCHANGED <<wire, log>>, RunStands,
         IsTerminal(b) =>
           /\ Selected(b[1])'
           /\ \A e \in Events : Sent(e) /\ Decides(e) /\ e.run = b[1].run => e = b[1]
  PROVE  TerminalIsOne'
<1>1. BatchOK(b) /\ b[1].run = activeRun.runId
  BY DEF Queues
<1>2. ActiveTicket \in issued /\ ActiveTicket.runId = b[1].run
  BY <1>1, BatchShape, ActiveShape DEF ActiveIsIssued, ActiveTicket
<1>3. \A e \in Events : Selected(e) => Selected(e)'
  BY DEF Selected, RunStands
<1>4. \A e \in Events : Sent(e)' => Sent(e) \/ \E i \in 1..Len(b) : e = b[i]
  BY QueuesSends
<1>5. \A i \in 1..Len(b) : b[i].run = b[1].run /\ (Decides(b[i]) => IsTerminal(b) /\ b[i] = b[1])
  BY <1>1, BatchShape
<1>6. UNCHANGED issued /\ activeRun'.runId = activeRun.runId
  BY DEF RunStands
<1>7. ASSUME NEW e \in Events, Sent(e)' PROVE \E ticket \in issued' : ticket.runId = e.run
  BY <1>2, <1>4, <1>5, <1>6, <1>7 DEF TerminalIsOne
<1>8. ASSUME NEW e \in Events, Sent(e)', Decides(e) PROVE Sent(e) \/ (IsTerminal(b) /\ e = b[1])
  BY <1>4, <1>5, <1>8
<1>9. ASSUME NEW e \in Events, Sent(e)', Decides(e), e.run = activeRun'.runId PROVE Selected(e)'
  BY <1>3, <1>6, <1>8, <1>9 DEF TerminalIsOne
<1>10. ASSUME NEW e \in Events, NEW f \in Events, Sent(e)', Sent(f)', Decides(e), Decides(f), e.run = f.run
       PROVE  e = f
  BY <1>8, <1>10 DEF TerminalIsOne
<1> QED BY <1>7, <1>9, <1>10 DEF TerminalIsOne

LEMMA MachineStands == UNCHANGED terminalVars => RunStands /\ TerminalStands /\ InstanceStands
BY DEF terminalVars, machineVars, historyVars, RunStands, TerminalStands, InstanceStands

LEMMA StillOneTerminal ==
  ASSUME SocketTypeOK, IInv, LaneAndPushes, TerminalIsOne, StillSteps \/ UNCHANGED vars
  PROVE  TerminalIsOne'
<1>1. Fades
  BY StillTyped, StillFades
<1>2. CASE Connect \/ Close \/ HostDecides \/ UNCHANGED vars
  BY <1>1, <1>2, MachineStands, OneTerminalStays DEF Connect, Close, HostDecides, vars
<1>3. CASE Hello
  <2>1. RunStands
    BY <1>3 DEF Hello, RememberOwnedRunId, terminalVars, machineVars, historyVars, RunStands
  <2> QED BY <1>1, <2>1, OneTerminalStays
<1>4. CASE SocketClaims
  BY <1>1, <1>4, ClaimStands, OneTerminalStays DEF SocketClaims
<1>5. CASE SocketBeginsRun
  BY <1>1, <1>5, OneTerminalBegins DEF SocketBeginsRun
<1>6. CASE SocketReleasesRun
  BY <1>1, <1>6, ReleasedTicket, OneTerminalReleased DEF SocketReleasesRun
<1> QED BY <1>2, <1>3, <1>4, <1>5, <1>6 DEF StillSteps

LEMMA AdmittingOneTerminal ==
  ASSUME SocketTypeOK, IInv, ActiveIsIssued, LaneAndPushes, TerminalIsOne, NEW p \in Pushes,
         PushEvents(p) \/ PassBarrier(p) \/ BarrierFails(p)
  PROVE  TerminalIsOne'
<1>1. ASSUME Turned(p), UNCHANGED <<terminalVars, wire, log>> PROVE TerminalIsOne'
  BY <1>1, TurnedFades, MachineStands, OneTerminalStays
<1>2. CASE BarrierFails(p)
  BY <1>1, <1>2, BarrierFailsEffect DEF hostVars
<1>3. CASE PushEvents(p)
  <2>1. UNCHANGED <<terminalVars, wire, log>>
    BY <1>3, PushEventsEffect DEF hostVars
  <2>2. ASSUME NEW b \in Batches, Admits(p, b) PROVE TerminalIsOne'
    BY <2>1, <2>2, MachineStands, OneTerminalQueues DEF Admits
  <2> QED BY <1>1, <1>3, <2>1, <2>2, PushEventsEffect
<1>4. CASE PassBarrier(p)
  <2>0. PICK b : b = push[p].batch
    OBVIOUS
  <2>1. BatchOK(b) /\ IsTerminal(b) /\ UNCHANGED <<wire, log>>
    BY <1>4, <2>0, PassBarrierEffect DEF hostVars
  <2>2. TerminalIn(b) = [runId |-> b[1].run, status |-> b[1].status, sourceEventId |-> b[1].id]
    BY DEF TerminalIn
  <2>3. Decides(b[1]) /\ b[1] \in Events
    BY <2>1, BatchShape
  <2>4. ASSUME Queues(p, b), SelectRunTerminal(ActiveTicket, TerminalIn(b)) PROVE TerminalIsOne'
    <3>1. /\ RunStands /\ activeRun.terminal = Null
          /\ activeRun'.terminal = [phase |-> "selected", value |-> TerminalIn(b)]
      BY <2>4, SelectStands
    <3>2. Selected(b[1])'
      BY <2>2, <3>1 DEF Selected, Null
    <3>3. \A e \in Events : Sent(e) /\ Decides(e) => e.run # b[1].run
      BY <2>4, <3>1 DEF TerminalIsOne, Selected, Queues
    <3> QED BY <2>1, <2>4, <3>1, <3>2, <3>3, OneTerminalQueues
  <2>5. ASSUME Queues(p, b), UNCHANGED terminalVars, SelectionResult(TerminalIn(b)) = "pending"
        PROVE  TerminalIsOne'
    <3>1. activeRun.terminal # Null /\ activeRun.terminal.value = TerminalIn(b)
      BY <2>5 DEF SelectionResult
    <3>2. Selected(b[1])'
      BY <2>2, <2>5, <3>1 DEF Selected, terminalVars, machineVars
    <3>3. \A e \in Events : Sent(e) /\ Decides(e) /\ e.run = b[1].run => e = b[1]
      BY <2>1, <2>5, <3>1, SelectedSame DEF TerminalIsOne, Queues
    <3> QED BY <2>1, <2>5, <3>2, <3>3, MachineStands, OneTerminalQueues
  <2>6. \/ Turned(p) /\ UNCHANGED terminalVars
        \/ /\ Queues(p, b)
           /\ \/ SelectRunTerminal(ActiveTicket, TerminalIn(b))
              \/ UNCHANGED terminalVars /\ SelectionResult(TerminalIn(b)) = "pending"
    BY <1>4, <2>0, PassBarrierEffect
  <2> QED BY <1>1, <2>1, <2>4, <2>5, <2>6
<1> QED BY <1>2, <1>3, <1>4

LEMMA GivesUpWire == ASSUME NEW p, GivesUp(p) PROVE UNCHANGED <<log, hostReport>> /\ wire' \in {wire, << >>}
BY DEF GivesUp, Fence, hostVars

LEMMA DeliveringOneTerminal ==
  ASSUME SocketTypeOK, IInv, LaneAndPushes, TerminalIsOne, NEW p \in Pushes,
         \/ AbortWaiting(p) \/ StartDelivery(p) \/ RpcFails(p) \/ ReplyPartial(p) \/ ReplyDone(p)
         \/ ReplyConflict(p)
  PROVE  TerminalIsOne'
<1>1. ASSUME GivesUp(p) PROVE TerminalIsOne'
  BY <1>1, GivesUpWire, EndingFades, MachineStands, OneTerminalStays DEF GivesUp
<1>2. ASSUME NEW events, Transmits(p, events) PROVE TerminalIsOne'
  BY <1>2, TransmitsFades, MachineStands, OneTerminalStays DEF Transmits
<1>3. ASSUME Ending(p, "resolved"), Completed(p),
             UNCHANGED terminalVars \/ \E receipt : AckRunTerminal(push[p].ticket, receipt)
      PROVE  TerminalIsOne'
  <2>1. Fades
    BY <1>3, EndingFades DEF Completed, hostVars
  <2> QED BY <1>3, <2>1, AckStands, MachineStands, OneTerminalStays
<1> QED BY <1>1, <1>2, <1>3, GiveUps, StartEffect, PartialEffect, DoneEffect

LEMMA ReportingWire ==
  ASSUME SocketTypeOK, DeliverReport \/ StartReport \/ ReportFails \/ ReportDone \/ ReportConflict
  PROVE  \/ wire' \in {wire, << >>}
         \/ \E m \in Message : /\ m.from = Report /\ wire' = Append(wire, m)
                               /\ m.report = report.terminal /\ report.state # "idle"
                               /\ UNCHANGED terminalVars
<1>1. CASE StartReport /\ report.bound /\ Connected
  <2>1. report.terminal \in ReportTerminal
    BY DEF SocketTypeOK, ReportRecord
  <2> DEFINE m == [from |-> Report, events |-> << >>, report |-> report.terminal]
  <2>2. m \in Message /\ m.from = Report /\ m.report = report.terminal
    BY <2>1, MessageTyped
  <2>3. wire' = Append(wire, m) /\ report.state # "idle" /\ UNCHANGED terminalVars
    BY <1>1 DEF StartReport
  <2> QED BY <2>2, <2>3
<1> QED BY <1>1
        DEF DeliverReport, StartReport, ReportFails, FailReport, ReportDone, ReportConflict, Fence

LEMMA RestOneTerminal ==
  ASSUME SocketTypeOK, IInv, LaneAndPushes, TerminalIsOne,
         \/ DeliverReport \/ StartReport \/ ReportFails \/ ReportDone \/ ReportConflict \/ HostTakes
  PROVE  TerminalIsOne'
<1>1. CASE HostTakes
  <2>1. PICK m \in Message : TakesReport(m) \/ RefusesPush(m) \/ \E n \in Nat : TakesPrefix(m, n)
    BY <1>1, HostTakesEffect
  <2>2. Takes(m)
    BY <2>1 DEF TakesReport, RefusesPush, TakesPrefix
  <2> QED BY <2>1, <2>2, TakesFades, MachineStands, OneTerminalStays DEF Takes
<1>2. CASE DeliverReport \/ StartReport \/ ReportFails \/ ReportDone \/ ReportConflict
  BY <1>2, ReportingTyped, ReportingWire, ReportingFades, OneTerminalStays
<1> QED BY <1>1, <1>2

-----------------------------------------------------------------------------
(* The wire.                                                               *)

Replied == {"sent", "failed", "resolved"}
(* A push that was sent stays so as it is, or ends.                        *)
SentStands ==
  \A q \in Pushes : push[q].state \in Replied =>
    push'[q].state \in Replied /\ (push'[q].state = "sent" => push'[q] = push[q])

LEMMA WireSenders ==
  ASSUME SocketTypeOK, NEW k \in 1..Len(wire), wire[k].from # Report
  PROVE  wire[k].from \in Pushes /\ wire[k] \in Message
<1>1. wire[k] \in Message
  BY ElementOfSeq DEF SocketTypeOK
<1>2. wire[k].from \in Pushes \cup {Report}
  BY <1>1 DEF Message, Entries
<1> QED BY <1>1, <1>2

LEMMA WireStays ==
  ASSUME SocketTypeOK, WireIsTrue, SentStands,
         \/ wire' \in {wire, << >>}
         \/ \E m \in Message : m.from = Report /\ wire' = Append(wire, m)
  PROVE  WireIsTrue'
<1>1. \A k \in 1..Len(wire') : wire'[k].from # Report => k \in 1..Len(wire) /\ wire'[k] = wire[k]
  <2>1. CASE wire' = << >>
    BY <2>1
  <2>2. CASE wire' = wire
    BY <2>2
  <2>3. ASSUME NEW m \in Message, m.from = Report, wire' = Append(wire, m)
        PROVE  \A k \in 1..Len(wire') : wire'[k].from # Report => k \in 1..Len(wire) /\ wire'[k] = wire[k]
    BY <2>3, WireAppended
  <2> QED BY <2>1, <2>2, <2>3
<1>2. \A k \in 1..Len(wire) : wire[k].from # Report => wire[k].from \in Pushes
  BY WireSenders
<1>3. ASSUME NEW k \in 1..Len(wire'), wire'[k].from # Report
      PROVE  /\ BatchOK(wire'[k].events)
             /\ push'[wire'[k].from].state \in Replied
             /\ push'[wire'[k].from].state = "sent" =>
                  push'[wire'[k].from].reply = 0 /\ wire'[k].events = push'[wire'[k].from].left
  BY <1>1, <1>2, <1>3 DEF WireIsTrue, SentStands, Replied
<1>4. ASSUME NEW k \in 1..Len(wire'), NEW l \in 1..Len(wire'), k # l, wire'[k].from = wire'[l].from,
             wire'[k].from # Report
      PROVE  push'[wire'[k].from].state # "sent"
  <2>1. /\ k \in 1..Len(wire) /\ l \in 1..Len(wire) /\ wire[k].from = wire[l].from /\ wire[k].from # Report
        /\ wire'[k].from = wire[k].from
    BY <1>1, <1>4
  <2>2. push[wire[k].from].state # "sent"
    BY <1>4, <2>1 DEF WireIsTrue
  <2>3. wire[k].from \in Pushes /\ push[wire[k].from].state \in Replied
    BY <1>2, <2>1 DEF WireIsTrue, Replied
  <2>4. push'[wire[k].from].state = "sent" => push'[wire[k].from] = push[wire[k].from]
    BY <2>3 DEF SentStands
  <2> QED BY <2>1, <2>2, <2>4
<1> QED BY <1>3, <1>4 DEF WireIsTrue, Replied

LEMMA ShapesSentStand ==
  ASSUME SocketTypeOK
  PROVE  /\ UNCHANGED push => SentStands
         /\ \A p \in Pushes : Turned(p) => SentStands
<1>1. UNCHANGED push => SentStands
  BY DEF SentStands
<1>2. ASSUME NEW p \in Pushes, Turned(p) PROVE SentStands
  BY <1>2 DEF SentStands, Turned, Replied
<1> QED BY <1>1, <1>2

LEMMA QueuesSentStands ==
  ASSUME SocketTypeOK, IInv, NEW p \in Pushes, NEW b, Queues(p, b)
  PROVE  SentStands
BY QueuedShape DEF Queues, BatchOK, SentStands, Replied

LEMMA EndingSentStands ==
  ASSUME SocketTypeOK, LaneAndPushes, NEW p \in Pushes, NEW how \in {"failed", "resolved"}, Ending(p, how)
  PROVE  SentStands
<1>1. Ended(p, how)
  BY EndingShape
<1> QED BY <1>1 DEF Ended, SentStands, Replied

LEMMA TransmitsWire ==
  ASSUME SocketTypeOK, LaneAndPushes, WireIsTrue, NEW p \in Pushes, NEW events, Transmits(p, events),
         push[p].state = "sent" => push[p].reply # 0
  PROVE  WireIsTrue'
<1> DEFINE m == [from |-> p, events |-> events, report |-> NoReport]
<1>1. m \in Message /\ m.events = events /\ m.from = p /\ BatchOK(events) /\ wire' = Append(wire, m)
  BY TransmitsMessage DEF Transmits
<1> HIDE DEF m
<1>2. /\ \A q \in Pushes : q # p => push'[q] = push[q]
      /\ push'[p].state = "sent" /\ push'[p].reply = 0 /\ push'[p].left = events /\ Live(p)
  BY DEF Transmits, Sends
<1>3. \A k \in 1..Len(wire) : wire[k].from # p /\ (wire[k].from # Report => wire[k].from \in Pushes)
  <2> TAKE k \in 1..Len(wire)
  <2>1. wire[k].from # Report => wire[k].from \in Pushes
    BY WireSenders
  <2>2. wire[k].from = p => p # Report /\ push[p].state \in {"sent"} /\ push[p].reply = 0
    BY <1>2, EntryKinds DEF WireIsTrue, Live
  <2> QED BY <2>1, <2>2
<1>4. /\ Len(wire) \in Nat /\ Len(wire') = Len(wire) + 1 /\ wire'[Len(wire) + 1] = m
      /\ \A k \in 1..Len(wire) : wire'[k] = wire[k]
  BY <1>1, WireAppended
<1>5. ASSUME NEW k \in 1..Len(wire'), wire'[k].from # Report
      PROVE  /\ BatchOK(wire'[k].events)
             /\ push'[wire'[k].from].state \in Replied
             /\ push'[wire'[k].from].state = "sent" =>
                  push'[wire'[k].from].reply = 0 /\ wire'[k].events = push'[wire'[k].from].left
  <2>1. CASE k = Len(wire) + 1
    BY <1>1, <1>2, <1>4, <2>1 DEF Replied
  <2>2. CASE k \in 1..Len(wire)
    BY <1>2, <1>3, <1>4, <1>5, <2>2 DEF Replied, WireIsTrue
  <2> QED BY <1>4, <2>1, <2>2
<1>6. ASSUME NEW k \in 1..Len(wire'), NEW l \in 1..Len(wire'), k # l, wire'[k].from = wire'[l].from,
             wire'[k].from # Report
      PROVE  push'[wire'[k].from].state # "sent"
  <2>1. k \in 1..Len(wire) /\ l \in 1..Len(wire)
    BY <1>1, <1>3, <1>4, <1>6
  <2>2. wire'[k] = wire[k] /\ wire'[l] = wire[l] /\ wire[k].from \in Pushes /\ wire[k].from # p
    BY <1>3, <1>4, <1>6, <2>1
  <2>3. push[wire[k].from].state # "sent"
    BY <1>6, <2>1, <2>2 DEF WireIsTrue
  <2> QED BY <1>2, <2>2, <2>3
<1> QED BY <1>5, <1>6 DEF WireIsTrue, Replied

LEMMA TakesWire ==
  ASSUME SocketTypeOK, WireIsTrue, NEW m, Takes(m)
  PROVE  WireIsTrue'
<1>1. /\ m = wire[1] /\ 1 \in 1..Len(wire) /\ Len(wire') = Len(wire) - 1
      /\ \A k \in 1..Len(wire') : wire'[k] = wire[k + 1] /\ k + 1 \in 1..Len(wire) /\ k + 1 # 1
  BY MessageShape DEF Takes
<1>2. \A q \in Pushes : SameButReply(q) /\ (push'[q].reply # push[q].reply => q = m.from /\ push[q].state = "sent")
  BY DEF Takes, Answered
<1>3. ASSUME NEW k \in 1..Len(wire'), wire'[k].from # Report
      PROVE  /\ BatchOK(wire'[k].events)
             /\ push'[wire'[k].from].state \in Replied
             /\ push'[wire'[k].from].state = "sent" =>
                  push'[wire'[k].from].reply = 0 /\ wire'[k].events = push'[wire'[k].from].left
  <2> DEFINE q == wire[k + 1].from
  <2>1. q \in Pushes /\ wire'[k] = wire[k + 1] /\ q # Report
    BY <1>1, <1>3, WireSenders
  <2>2. push[q].state = "sent" => q # m.from
    BY <1>1, <2>1 DEF WireIsTrue
  <2>3. /\ BatchOK(wire[k + 1].events) /\ push[q].state \in Replied
        /\ push[q].state = "sent" => push[q].reply = 0 /\ wire[k + 1].events = push[q].left
    BY <1>1, <2>1 DEF WireIsTrue, Replied
  <2> HIDE DEF q
  <2>4. SameButReply(q) /\ (push[q].state = "sent" => push'[q].reply = push[q].reply)
    BY <1>2, <2>1, <2>2
  <2> QED BY <2>1, <2>3, <2>4 DEF SameButReply, q
<1>4. ASSUME NEW k \in 1..Len(wire'), NEW l \in 1..Len(wire'), k # l, wire'[k].from = wire'[l].from,
             wire'[k].from # Report
      PROVE  push'[wire'[k].from].state # "sent"
  <2>1. /\ wire'[k] = wire[k + 1] /\ wire'[l] = wire[l + 1] /\ k + 1 # l + 1
        /\ k + 1 \in 1..Len(wire) /\ l + 1 \in 1..Len(wire)
    BY <1>1, <1>4
  <2>2. wire[k + 1].from \in Pushes /\ push[wire[k + 1].from].state # "sent"
    BY <1>4, <2>1, WireSenders DEF WireIsTrue
  <2> QED BY <1>2, <2>1, <2>2 DEF SameButReply
<1> QED BY <1>3, <1>4 DEF WireIsTrue, Replied

LEMMA StillWire ==
  ASSUME SocketTypeOK, IInv, LaneAndPushes, WireIsTrue, StillSteps \/ UNCHANGED vars
  PROVE  WireIsTrue'
BY StillTyped, ShapesSentStand, WireStays

LEMMA AdmittingWire ==
  ASSUME SocketTypeOK, IInv, LaneAndPushes, TerminalIsOne, WireIsTrue, NEW p \in Pushes,
         PushEvents(p) \/ PassBarrier(p) \/ BarrierFails(p)
  PROVE  WireIsTrue'
<1>1. SentStands
  <2>1. Turned(p) => SentStands
    BY ShapesSentStand
  <2>2. ASSUME NEW b, Queues(p, b) PROVE SentStands
    BY <2>2, QueuesSentStands
  <2>3. Turned(p) \/ \E b : Queues(p, b)
    BY PushEventsEffect, PassBarrierEffect, BarrierFailsEffect DEF Admits
  <2> QED BY <2>1, <2>2, <2>3
<1>2. UNCHANGED wire
  BY DEF PushEvents, PassBarrier, BarrierFails
<1> QED BY <1>1, <1>2, WireStays

LEMMA DeliveringWire ==
  ASSUME SocketTypeOK, IInv, LaneAndPushes, WireIsTrue, NEW p \in Pushes,
         \/ AbortWaiting(p) \/ StartDelivery(p) \/ RpcFails(p) \/ ReplyPartial(p) \/ ReplyDone(p)
         \/ ReplyConflict(p)
  PROVE  WireIsTrue'
<1>1. ASSUME GivesUp(p) PROVE WireIsTrue'
  BY <1>1, GivesUpWire, EndingSentStands, WireStays DEF GivesUp
<1>2. ASSUME StartDelivery(p), NEW events, Transmits(p, events) PROVE WireIsTrue'
  <2>1. push[p].state = "queued"
    BY <1>2 DEF StartDelivery
  <2> QED BY <1>2, <2>1, TransmitsWire
<1>3. ASSUME ReplyPartial(p), NEW events, Transmits(p, events) PROVE WireIsTrue'
  <2>1. push[p].reply # 0
    BY <1>3 DEF ReplyPartial
  <2> QED BY <1>3, <2>1, TransmitsWire
<1>4. ASSUME Ending(p, "resolved"), Completed(p) PROVE WireIsTrue'
  <2>1. UNCHANGED wire
    BY <1>4 DEF Completed
  <2> QED BY <1>4, <2>1, EndingSentStands, WireStays
<1> QED BY <1>1, <1>2, <1>3, <1>4, GiveUps, StartEffect, PartialEffect, DoneEffect

LEMMA RestWire ==
  ASSUME SocketTypeOK, IInv, LaneAndPushes, WireIsTrue,
         \/ DeliverReport \/ StartReport \/ ReportFails \/ ReportDone \/ ReportConflict \/ HostTakes
  PROVE  WireIsTrue'
<1>1. CASE HostTakes
  <2>1. \E m : Takes(m)
    BY <1>1, HostTakesEffect DEF TakesReport, RefusesPush, TakesPrefix
  <2> QED BY <2>1, TakesWire
<1>2. CASE DeliverReport \/ StartReport \/ ReportFails \/ ReportDone \/ ReportConflict
  <2>1. SentStands
    BY <1>2, ReportingTyped, ShapesSentStand DEF Reporting
  <2>2. \/ wire' \in {wire, << >>}
        \/ \E m \in Message : m.from = Report /\ wire' = Append(wire, m)
    BY <1>2, ReportingWire
  <2> QED BY <2>1, <2>2, WireStays
<1> QED BY <1>1, <1>2

-----------------------------------------------------------------------------
(* The report of the instance.                                             *)

ReportsOnWire ==
  \A k \in 1..Len(wire) : wire[k].from = Report =>
    instanceTerminal.phase # "open" /\ wire[k].report = instanceTerminal.terminal

LEMMA ReportStays ==
  ASSUME SocketTypeOK, ReportIsTrue, InstanceStands, UNCHANGED <<report, hostReport>>,
         \/ wire' \in {wire, << >>}
         \/ \E m \in Message : m.from # Report /\ wire' = Append(wire, m)
  PROVE  ReportIsTrue'
<1>1. ReportsOnWire'
  <2>1. CASE wire' \in {wire, << >>}
    BY <2>1 DEF ReportIsTrue, ReportsOnWire, InstanceStands
  <2>2. ASSUME NEW m \in Message, m.from # Report, wire' = Append(wire, m) PROVE ReportsOnWire'
    BY <2>2, WireAppended DEF ReportIsTrue, ReportsOnWire, InstanceStands
  <2> QED BY <2>1, <2>2
<1> QED BY <1>1 DEF ReportIsTrue, ReportsOnWire, InstanceStands

LEMMA StillReport ==
  ASSUME SocketTypeOK, IInv, LaneAndPushes, ReportIsTrue, StillSteps \/ UNCHANGED vars
  PROVE  ReportIsTrue'
<1>1. InstanceStands
  <2>1. CASE Connect \/ Close \/ HostDecides \/ UNCHANGED vars
    BY <2>1, MachineStands DEF Connect, Close, HostDecides, vars
  <2>2. CASE Hello
    BY <2>2, MachineStands DEF Hello, RememberOwnedRunId, InstanceStands
  <2>3. CASE SocketBeginsRun \/ SocketClaims \/ SocketReleasesRun
    BY <2>3, BegunTicket, ClaimStands, ReleasedTicket
       DEF SocketBeginsRun, SocketClaims, SocketReleasesRun, InstanceStands, BeginRun
  <2> QED BY <2>1, <2>2, <2>3 DEF StillSteps
<1> QED BY <1>1, StillTyped, ReportStays

LEMMA AdmittingReport ==
  ASSUME SocketTypeOK, IInv, LaneAndPushes, TerminalIsOne, ReportIsTrue, NEW p \in Pushes,
         PushEvents(p) \/ PassBarrier(p) \/ BarrierFails(p)
  PROVE  ReportIsTrue'
<1>1. UNCHANGED <<wire, report, hostReport>>
  BY DEF PushEvents, PassBarrier, BarrierFails, hostVars
<1>2. InstanceStands
  <2>1. UNCHANGED terminalVars \/ \E t, x : SelectRunTerminal(t, x)
    BY PushEventsEffect, PassBarrierEffect, BarrierFailsEffect
  <2> QED BY <2>1, MachineStands, SelectStands
<1> QED BY <1>1, <1>2, ReportStays

LEMMA DeliveringReport ==
  ASSUME SocketTypeOK, IInv, LaneAndPushes, ReportIsTrue, NEW p \in Pushes,
         \/ AbortWaiting(p) \/ StartDelivery(p) \/ RpcFails(p) \/ ReplyPartial(p) \/ ReplyDone(p)
         \/ ReplyConflict(p)
  PROVE  ReportIsTrue'
<1>1. ASSUME GivesUp(p) PROVE ReportIsTrue'
  <2>1. UNCHANGED report /\ InstanceStands
    BY <1>1, MachineStands DEF GivesUp, Ending
  <2> QED BY <1>1, <2>1, GivesUpWire, ReportStays
<1>2. ASSUME NEW events, Transmits(p, events) PROVE ReportIsTrue'
  <2> DEFINE m == [from |-> p, events |-> events, report |-> NoReport]
  <2>1. m \in Message /\ m.from # Report /\ wire' = Append(wire, m)
    BY <1>2, TransmitsMessage, EntryKinds DEF Transmits
  <2>2. UNCHANGED <<report, hostReport>> /\ InstanceStands
    BY <1>2, MachineStands DEF Transmits, hostVars
  <2> HIDE DEF m
  <2> QED BY <2>1, <2>2, ReportStays
<1>3. ASSUME Ending(p, "resolved"), Completed(p),
             UNCHANGED terminalVars \/ \E receipt : AckRunTerminal(push[p].ticket, receipt)
      PROVE  ReportIsTrue'
  <2>1. InstanceStands
    BY <1>3, MachineStands, AckStands
  <2> QED BY <1>3, <2>1, ReportStays DEF Completed, hostVars
<1> QED BY <1>1, <1>2, <1>3, GiveUps, StartEffect, PartialEffect, DoneEffect

LEMMA ReportingReport ==
  ASSUME SocketTypeOK, IInv, LaneAndPushes, ReportIsTrue,
         DeliverReport \/ StartReport \/ ReportFails \/ ReportDone \/ ReportConflict
  PROVE  ReportIsTrue'
<1>1. report \in ReportRecord /\ UNCHANGED hostReport
  BY ReportingTyped DEF SocketTypeOK
<1>2. ASSUME EndReport PROVE report'.state = "idle"
  BY <1>1, <1>2 DEF EndReport, ReportRecord
<1>3. CASE ReportFails \/ ReportConflict \/ (FailReport /\ (StartReport \/ ReportDone))
  <2>1. EndReport /\ UNCHANGED terminalVars /\ wire' \in {wire, << >>}
    BY <1>3 DEF ReportFails, ReportConflict, FailReport, Fence
  <2>2. ReportsOnWire'
    BY <2>1, MachineStands DEF ReportIsTrue, ReportsOnWire, InstanceStands
  <2> QED BY <1>1, <1>2, <2>1, <2>2, MachineStands DEF ReportIsTrue, ReportsOnWire, InstanceStands
<1>4. CASE StartReport /\ report.bound /\ Connected
  <2> DEFINE m == [from |-> Report, events |-> << >>, report |-> report.terminal]
  <2>1. /\ report.state = "queued" /\ UNCHANGED terminalVars /\ wire' = Append(wire, m)
        /\ report' = [report EXCEPT !.state = "sent", !.reply = 0]
    BY <1>4 DEF StartReport
  <2>2. report'.state = "sent" /\ report'.reply = 0 /\ report'.terminal = report.terminal
    BY <1>1, <2>1 DEF ReportRecord
  <2>3. m \in Message /\ m.from = Report /\ m.report = report.terminal
    BY <1>1, MessageTyped DEF ReportRecord
  <2>4. InstanceStands /\ instanceTerminal.phase # "open" /\ report.terminal = instanceTerminal.terminal
    BY <2>1, MachineStands DEF ReportIsTrue
  <2> HIDE DEF m
  <2>5. ReportsOnWire'
    BY <2>1, <2>3, <2>4, WireAppended DEF ReportIsTrue, ReportsOnWire, InstanceStands
  <2> QED BY <1>1, <2>2, <2>4, <2>5 DEF ReportIsTrue, ReportsOnWire, InstanceStands
<1>5. CASE ReportDone /\ Connected
  <2>1. EndReport /\ UNCHANGED wire /\ report.state = "sent" /\ report.reply = 1
        /\ instanceTerminal' = [phase |-> "acked", terminal |-> report.terminal]
        /\ instanceTerminal.phase # "open" /\ instanceTerminal.terminal = report.terminal
    BY <1>5 DEF ReportDone, AckInstanceTerminal
  <2>2. instanceTerminal'.phase = "acked" /\ instanceTerminal'.terminal = instanceTerminal.terminal
    BY <2>1
  <2>3. instanceTerminal.terminal \in hostReport
    BY <2>1 DEF ReportIsTrue
  <2> QED BY <1>1, <1>2, <2>1, <2>2, <2>3 DEF ReportIsTrue
<1>6. CASE DeliverReport
  <2>1. PICK status \in {"completed", "failed"}, fallback \in Runs :
          LET terminal == [runId |-> TerminalRunId(fallback), status |-> status]
          IN  /\ SameReport(terminal)
              /\ instanceTerminal.phase # "acked"
              /\ IF instanceTerminal.phase = "open" THEN SelectInstanceTerminal(terminal)
                 ELSE UNCHANGED terminalVars
              /\ report' = [state |-> "queued", terminal |-> terminal, bound |-> Connected, reply |-> 0,
                            n |-> report.n + 1]
    BY <1>6 DEF DeliverReport
  <2> DEFINE t == [runId |-> TerminalRunId(fallback), status |-> status]
  <2>2. /\ report'.state = "queued" /\ report'.terminal = t /\ report'.reply = 0
        /\ instanceTerminal'.phase # "open" /\ instanceTerminal'.terminal = t
        /\ instanceTerminal'.phase # "acked"
        /\ instanceTerminal.phase # "open" => instanceTerminal' = instanceTerminal
    BY <2>1 DEF SameReport, SelectInstanceTerminal, terminalVars, machineVars
  <2> HIDE DEF t
  <2>3. UNCHANGED wire
    BY <1>6 DEF DeliverReport
  <2> QED BY <1>1, <2>2, <2>3 DEF ReportIsTrue
<1> QED BY <1>3, <1>4, <1>5, <1>6 DEF StartReport, ReportDone

LEMMA TakesReports ==
  ASSUME SocketTypeOK, ReportIsTrue, NEW m, TakesReport(m) \/ RefusesPush(m) \/ \E n \in Nat : TakesPrefix(m, n)
  PROVE  ReportIsTrue'
<1>1. Takes(m)
  BY DEF TakesReport, RefusesPush, TakesPrefix
<1>2. InstanceStands /\ report'.state = report.state /\ report'.terminal = report.terminal
  BY <1>1, MachineStands DEF Takes, Answered
<1>3. /\ m = wire[1] /\ 1 \in 1..Len(wire)
      /\ \A k \in 1..Len(wire') : wire'[k] = wire[k + 1] /\ k + 1 \in 1..Len(wire)
  BY <1>1, MessageShape DEF Takes
<1>4. ReportsOnWire'
  BY <1>2, <1>3 DEF ReportIsTrue, ReportsOnWire, InstanceStands
<1>5. hostReport \subseteq hostReport'
  BY DEF TakesReport, RefusesPush, TakesPrefix
<1>6. report.state # "idle" /\ report'.reply = 1 => instanceTerminal.terminal \in hostReport'
  <2>1. CASE UNCHANGED report
    BY <1>5, <2>1 DEF ReportIsTrue
  <2>2. CASE TakesReport(m)
    <3>1. m.report = instanceTerminal.terminal
      BY <1>3, <2>2 DEF ReportIsTrue, TakesReport
    <3>2. Conflict # 1
      BY SocketBounds DEF Conflict
    <3> QED BY <1>5, <2>2, <3>1, <3>2 DEF ReportIsTrue, TakesReport
  <2> QED BY <2>1, <2>2 DEF RefusesPush, TakesPrefix
<1> QED BY <1>2, <1>4, <1>5, <1>6 DEF ReportIsTrue, ReportsOnWire, InstanceStands

LEMMA RestReport ==
  ASSUME SocketTypeOK, IInv, LaneAndPushes, ReportIsTrue,
         \/ DeliverReport \/ StartReport \/ ReportFails \/ ReportDone \/ ReportConflict \/ HostTakes
  PROVE  ReportIsTrue'
BY ReportingReport, HostTakesEffect, TakesReports

-----------------------------------------------------------------------------
(* The order.                                                              *)

InOrder == EventsInOrder /\ TerminalIsLastOfRun
LiveFades ==
  \A q \in Pushes : /\ Live(q)' => Live(q)
                    /\ Live(q) => push'[q].batch = push[q].batch

LEMMA BeforeLive ==
  ASSUME LaneIsTrue, NEW p \in Pushes, NEW q \in Pushes, Before(p, q)
  PROVE  Live(p) /\ Live(q)
BY DEF LaneIsTrue, Before, InLane

LEMMA OrderStays ==
  ASSUME SocketTypeOK, LaneIsTrue, InOrder, LiveFades, UNCHANGED log,
         \A p, q \in Pushes : Before(p, q)' => Before(p, q),
         \/ wire' \in {wire, << >>}
         \/ \E m \in Message : m.from = Report /\ wire' = Append(wire, m)
  PROVE  InOrder'
<1>1. /\ \A k \in 1..Len(wire') : wire'[k].from # Report => k \in 1..Len(wire) /\ wire'[k] = wire[k]
  <2>1. CASE wire' = << >>
    BY <2>1
  <2>2. CASE wire' = wire
    BY <2>2
  <2>3. ASSUME NEW m \in Message, m.from = Report, wire' = Append(wire, m)
        PROVE  \A k \in 1..Len(wire') : wire'[k].from # Report => k \in 1..Len(wire) /\ wire'[k] = wire[k]
    BY <2>3, WireAppended
  <2> QED BY <2>1, <2>2, <2>3
<1>2. \A p, q \in Pushes : Before(p, q)' => Closes(push'[p].batch, push'[q].batch)
  BY BeforeLive DEF LiveFades, InOrder, EventsInOrder
<1>3. \A k \in 1..Len(wire'), p \in Pushes : wire'[k].from # Report /\ Live(p)'
        => Closes(wire'[k].events, push'[p].batch)
  BY <1>1 DEF LiveFades, InOrder, EventsInOrder
<1>4. \A k, l \in 1..Len(wire') : k < l /\ wire'[k].from # Report /\ wire'[l].from # Report
        => Closes(wire'[k].events, wire'[l].events)
  BY <1>1 DEF InOrder, EventsInOrder
<1>5. ASSUME NEW e \in Events, InLog(e)', Decides(e)
      PROVE  /\ \A k \in 1..Len(wire') : wire'[k].from # Report => Closes(<<e>>, wire'[k].events)
             /\ \A p \in Pushes : Live(p)' => Closes(<<e>>, push'[p].batch)
  <2>1. InLog(e)
    BY <1>5, LogStands
  <2> QED BY <1>1, <1>5, <2>1 DEF LiveFades, InOrder, EventsInOrder
<1>6. TerminalIsLastOfRun'
  BY DEF InOrder, TerminalIsLastOfRun
<1> QED BY <1>2, <1>3, <1>4, <1>5, <1>6 DEF InOrder, EventsInOrder, Closes

LEMMA WireBatch ==
  ASSUME SocketTypeOK, WireIsTrue, NEW k \in 1..Len(wire), wire[k].from # Report
  PROVE  BatchOK(wire[k].events) /\ OnWire(wire[k].events[1]) /\ Sent(wire[k].events[1])
<1>1. BatchOK(wire[k].events)
  BY DEF WireIsTrue
<1> QED BY <1>1, BatchShape DEF OnWire, Sent

LEMMA OrderQueues ==
  ASSUME SocketTypeOK, IInv, LaneAndPushes, WireIsTrue, InOrder, NEW p \in Pushes, NEW b, Queues(p, b),
         UNCHANGED <<wire, log>>,
         \A e \in Events : Sent(e) /\ Decides(e) /\ e.run = b[1].run => IsTerminal(b)
  PROVE  InOrder'
<1>1. /\ \A q \in Pushes : q # p => push'[q] = push[q]
      /\ push'[p].batch = b /\ ~Live(p)
  BY QueuedShape, OutOfLane DEF Queues, BatchOK, LaneAndPushes
<1>2. \A a, c : Before(a, c)' => Before(a, c) \/ (c = p /\ InLane(a))
  BY OutOfLane, EntryKinds, LaneAppends DEF SocketTypeOK, LaneAndPushes, LaneIsTrue, Queues, Enqueue
<1>3. \A q \in Pushes : Live(q) => push'[q] = push[q]
  BY <1>1
<1>4. \A q \in Pushes : Live(q)' => Live(q) \/ q = p
  BY <1>1 DEF Live
<1>5. \A e \in Events : Sent(e) => Closes(<<e>>, b)
  BY DEF Closes, IsTerminal, Decides
<1>6. ASSUME NEW q \in Pushes, Live(q) PROVE Closes(push[q].batch, b)
  <2>1. BatchOK(push[q].batch)
    BY <1>6 DEF LaneAndPushes, PushesAreTrue, PushIsTrue, Live
  <2>2. Closes(<<push[q].batch[1]>>, b)
    BY <1>5, <1>6, <2>1, BatchIsSent
  <2> QED BY <2>2 DEF Closes, IsTerminal
<1>7. ASSUME NEW k \in 1..Len(wire), wire[k].from # Report PROVE Closes(wire[k].events, b)
  <2>1. BatchOK(wire[k].events) /\ Sent(wire[k].events[1]) /\ wire[k].events[1] \in Events
    BY <1>7, WireBatch, BatchShape
  <2>2. Closes(<<wire[k].events[1]>>, b)
    BY <1>5, <2>1
  <2> QED BY <2>2 DEF Closes, IsTerminal
<1>8. ASSUME NEW a \in Pushes, NEW c \in Pushes, Before(a, c)' PROVE Closes(push'[a].batch, push'[c].batch)
  <2>1. CASE Before(a, c)
    <3>1. Live(a) /\ Live(c)
      BY <2>1, BeforeLive DEF LaneAndPushes
    <3> QED BY <1>3, <2>1, <3>1 DEF InOrder, EventsInOrder
  <2>2. CASE c = p /\ InLane(a)
    <3>1. Live(a)
      BY <2>2 DEF LaneAndPushes, LaneIsTrue
    <3> QED BY <1>1, <1>3, <1>6, <2>2, <3>1
  <2> QED BY <1>2, <1>8, <2>1, <2>2
<1>9. ASSUME NEW k \in 1..Len(wire'), NEW q \in Pushes, wire'[k].from # Report, Live(q)'
      PROVE  Closes(wire'[k].events, push'[q].batch)
  <2>1. wire' = wire
    OBVIOUS
  <2>2. CASE Live(q)
    BY <1>3, <1>9, <2>1, <2>2 DEF InOrder, EventsInOrder
  <2>3. CASE q = p
    BY <1>1, <1>7, <1>9, <2>1, <2>3
  <2> QED BY <1>4, <1>9, <2>2, <2>3
<1>10. ASSUME NEW e \in Events, InLog(e)', Decides(e)
       PROVE  /\ \A k \in 1..Len(wire') : wire'[k].from # Report => Closes(<<e>>, wire'[k].events)
              /\ \A q \in Pushes : Live(q)' => Closes(<<e>>, push'[q].batch)
  <2>1. InLog(e) /\ Sent(e)
    BY <1>10, LogStands DEF Sent
  <2>2. \A k \in 1..Len(wire') : wire'[k].from # Report => Closes(<<e>>, wire'[k].events)
    BY <1>10, <2>1 DEF InOrder, EventsInOrder
  <2>3. ASSUME NEW q \in Pushes, Live(q)' PROVE Closes(<<e>>, push'[q].batch)
    <3>1. CASE Live(q)
      BY <1>3, <1>10, <2>1, <3>1 DEF InOrder, EventsInOrder
    <3>2. CASE q = p
      BY <1>1, <1>5, <2>1, <3>2
    <3> QED BY <1>4, <2>3, <3>1, <3>2
  <2> QED BY <2>2, <2>3
<1>11. TerminalIsLastOfRun'
  BY DEF InOrder, TerminalIsLastOfRun
<1>12. \A k, l \in 1..Len(wire') : k < l /\ wire'[k].from # Report /\ wire'[l].from # Report
        => Closes(wire'[k].events, wire'[l].events)
  BY DEF InOrder, EventsInOrder
<1> QED BY <1>8, <1>9, <1>10, <1>11, <1>12 DEF InOrder, EventsInOrder, Closes

LEMMA OrderTransmits ==
  ASSUME SocketTypeOK, LaneAndPushes, WireIsTrue, InOrder, NEW p \in Pushes, NEW events, Transmits(p, events)
  PROVE  InOrder'
<1> DEFINE m == [from |-> p, events |-> events, report |-> NoReport]
<1>1. /\ m \in Message /\ m.events = events /\ wire' = Append(wire, m) /\ UNCHANGED <<log, lane>>
      /\ IsTerminal(events) <=> IsTerminal(push[p].batch)
      /\ events[1].run = push[p].batch[1].run
  BY TransmitsMessage DEF Transmits, hostVars
<1> HIDE DEF m
<1>2. /\ Len(wire) \in Nat /\ Len(wire') = Len(wire) + 1 /\ wire'[Len(wire) + 1] = m
      /\ \A k \in 1..Len(wire) : wire'[k] = wire[k]
  BY <1>1, WireAppended
<1>3. /\ \A q \in Pushes : push'[q].batch = push[q].batch /\ (Live(q)' <=> Live(q))
      /\ Live(p) /\ MyTurn(p)
  BY DEF Transmits, Sends, Live
<1>4. ASSUME NEW q \in Pushes, Live(q) PROVE Closes(events, push[q].batch)
  <2>1. q # p => Before(p, q)
    BY <1>3, <1>4, HeadIsFirst DEF SocketTypeOK, LaneAndPushes, LaneIsTrue
  <2>2. q # p => Closes(push[p].batch, push[q].batch)
    BY <2>1 DEF InOrder, EventsInOrder
  <2> QED BY <1>1, <2>2 DEF Closes
<1>5. ASSUME NEW k \in 1..Len(wire), wire[k].from # Report PROVE Closes(wire[k].events, events)
  <2>1. Closes(wire[k].events, push[p].batch)
    BY <1>3, <1>5 DEF InOrder, EventsInOrder
  <2> QED BY <1>1, <2>1 DEF Closes
<1>6. ASSUME NEW e \in Events, InLog(e), Decides(e) PROVE Closes(<<e>>, events)
  <2>1. Closes(<<e>>, push[p].batch)
    BY <1>3, <1>6 DEF InOrder, EventsInOrder
  <2> QED BY <1>1, <2>1 DEF Closes
<1>7. \A a, c \in Pushes : Before(a, c)' => Closes(push'[a].batch, push'[c].batch)
  BY <1>1, <1>3, LaneStands DEF InOrder, EventsInOrder
<1>8. ASSUME NEW k \in 1..Len(wire'), NEW q \in Pushes, wire'[k].from # Report, Live(q)'
      PROVE  Closes(wire'[k].events, push'[q].batch)
  BY <1>1, <1>2, <1>3, <1>4, <1>8 DEF InOrder, EventsInOrder
<1>9. ASSUME NEW k \in 1..Len(wire'), NEW l \in 1..Len(wire'), k < l, wire'[k].from # Report, wire'[l].from # Report
      PROVE  Closes(wire'[k].events, wire'[l].events)
  BY <1>1, <1>2, <1>5, <1>9 DEF InOrder, EventsInOrder
<1>10. ASSUME NEW e \in Events, InLog(e)', Decides(e)
       PROVE  /\ \A k \in 1..Len(wire') : wire'[k].from # Report => Closes(<<e>>, wire'[k].events)
              /\ \A q \in Pushes : Live(q)' => Closes(<<e>>, push'[q].batch)
  <2>1. InLog(e)
    BY <1>1, <1>10, LogStands
  <2> QED BY <1>1, <1>2, <1>3, <1>6, <1>10, <2>1 DEF InOrder, EventsInOrder
<1>11. TerminalIsLastOfRun'
  BY <1>1 DEF InOrder, TerminalIsLastOfRun
<1> QED BY <1>7, <1>8, <1>9, <1>10, <1>11 DEF InOrder, EventsInOrder, Closes

LEMMA FreshOrder ==
  ASSUME SocketTypeOK, WireIsTrue, TerminalIsOne, InOrder, NEW m \in Message, NEW n \in Nat, TakesPrefix(m, n)
  PROVE  /\ TerminalIsLastOfRun'
         /\ \A e \in Events : InLog(e)' /\ Decides(e) =>
              InLog(e) \/ (IsTerminal(m.events) /\ e = m.events[1])
<1> DEFINE fresh == {e \in Prefix(m, n) : ~Known(e)}
<1>1. /\ m = wire[1] /\ 1 \in 1..Len(wire) /\ m.from # Report /\ n \in 1..Len(m.events)
      /\ log' = IF fresh = {} THEN log ELSE Append(log, fresh)
      /\ log \in Seq(SUBSET Events) /\ Len(log) \in Nat
  BY MessageShape DEF TakesPrefix, Takes, SocketTypeOK
<1>2. BatchOK(m.events)
  BY <1>1, WireBatch
<1>3. \A e \in fresh : \E i \in 1..Len(m.events) : e = m.events[i]
  BY <1>1 DEF Prefix
<1>4. /\ \A e \in fresh : e \in Events /\ e.run = m.events[1].run /\ OnWire(e) /\ Sent(e) /\ ~Known(e)
      /\ \A e \in fresh : Decides(e) => IsTerminal(m.events)
      /\ IsTerminal(m.events) => \A e \in fresh : e = m.events[1] /\ Decides(e)
  <2> SUFFICES ASSUME NEW e \in fresh
               PROVE  /\ e \in Events /\ e.run = m.events[1].run /\ OnWire(e) /\ Sent(e) /\ ~Known(e)
                      /\ Decides(e) => IsTerminal(m.events)
                      /\ IsTerminal(m.events) => e = m.events[1] /\ Decides(e)
    OBVIOUS
  <2>1. PICK i \in 1..Len(m.events) : e = m.events[i]
    BY <1>3
  <2>2. e \in Events /\ e.run = m.events[1].run /\ (Decides(e) => IsTerminal(m.events))
        /\ (IsTerminal(m.events) => e = m.events[1] /\ Decides(e))
    BY <1>2, <2>1, BatchShape
  <2>3. OnWire(e)
    BY <1>1, <2>1 DEF OnWire
  <2> QED BY <2>2, <2>3 DEF Sent
<1> HIDE DEF fresh
<1>5. CASE fresh = {}
  BY <1>1, <1>5, LogStands DEF InOrder, TerminalIsLastOfRun
<1>6. CASE fresh # {}
  <2>1. /\ fresh \in SUBSET Events
        /\ Len(log') = Len(log) + 1 /\ log'[Len(log) + 1] = fresh
        /\ \A i \in 1..Len(log) : log'[i] = log[i]
        /\ DOMAIN log' = 1..(Len(log) + 1) /\ DOMAIN log = 1..Len(log)
    BY <1>1, <1>4, <1>6
  <2>2. ASSUME NEW i \in 1..Len(log), NEW e \in log[i], NEW f \in fresh, Decides(e), f.run = e.run
        PROVE  FALSE
    <3>1. e \in Events /\ InLog(e) /\ Sent(e)
      BY <1>1, <2>2 DEF InLog, Sent
    <3>2. Closes(<<e>>, m.events)
      BY <1>1, <2>2, <3>1 DEF InOrder, EventsInOrder
    <3>3. IsTerminal(m.events)
      BY <1>4, <2>2, <3>2 DEF Closes, IsTerminal, Decides
    <3>4. f = e
      BY <1>4, <2>2, <3>1, <3>3 DEF TerminalIsOne
    <3>5. Known(f)
      BY <2>1, <2>2, <3>4 DEF Known
    <3> QED BY <1>4, <2>2, <3>5
  <2>3. ASSUME NEW i \in 1..(Len(log) + 1), NEW j \in 1..(Len(log) + 1), NEW e \in log'[i], NEW f \in log'[j],
               i <= j, Decides(e), f.run = e.run
        PROVE  i = j /\ f = e
    <3>1. CASE j <= Len(log)
      <4>1. i \in DOMAIN log /\ j \in DOMAIN log /\ e \in log[i] /\ f \in log[j]
        BY <1>1, <2>1, <2>3, <3>1
      <4> QED BY <2>3, <4>1 DEF InOrder, TerminalIsLastOfRun
    <3>2. CASE j = Len(log) + 1 /\ i <= Len(log)
      BY <1>1, <2>1, <2>2, <2>3, <3>2
    <3>3. CASE j = Len(log) + 1 /\ i = Len(log) + 1
      BY <1>4, <2>1, <2>3, <3>3
    <3> QED BY <1>1, <2>3, <3>1, <3>2, <3>3
  <2>4. TerminalIsLastOfRun'
    BY <2>1, <2>3 DEF TerminalIsLastOfRun
  <2>5. ASSUME NEW e \in Events, InLog(e)', Decides(e)
        PROVE  InLog(e) \/ (IsTerminal(m.events) /\ e = m.events[1])
    BY <1>1, <1>4, <2>1, <2>5 DEF InLog
  <2> QED BY <2>4, <2>5
<1> QED BY <1>5, <1>6

LEMMA TakesOrder ==
  ASSUME SocketTypeOK, WireIsTrue, TerminalIsOne, InOrder, NEW m \in Message,
         TakesReport(m) \/ RefusesPush(m) \/ \E n \in Nat : TakesPrefix(m, n)
  PROVE  InOrder'
<1>1. Takes(m)
  BY DEF TakesReport, RefusesPush, TakesPrefix
<1>2. /\ \A q \in Pushes : push'[q].batch = push[q].batch /\ (Live(q)' <=> Live(q))
      /\ UNCHANGED lane
  BY <1>1 DEF Takes, Answered, SameButReply, Live
<1>3. /\ m = wire[1] /\ 1 \in 1..Len(wire)
      /\ \A k \in 1..Len(wire') : wire'[k] = wire[k + 1] /\ k + 1 \in 1..Len(wire) /\ 1 < k + 1
      /\ \A k, l \in 1..Len(wire') : k < l => k + 1 < l + 1
  BY <1>1, MessageShape DEF Takes
<1>4. /\ TerminalIsLastOfRun'
      /\ \A e \in Events : InLog(e)' /\ Decides(e) =>
           InLog(e) \/ (m.from # Report /\ IsTerminal(m.events) /\ e = m.events[1])
  <2>1. CASE UNCHANGED log
    BY <2>1, LogStands DEF InOrder, TerminalIsLastOfRun
  <2>2. ASSUME NEW n \in Nat, TakesPrefix(m, n)
        PROVE  /\ TerminalIsLastOfRun'
               /\ \A e \in Events : InLog(e)' /\ Decides(e) =>
                    InLog(e) \/ (m.from # Report /\ IsTerminal(m.events) /\ e = m.events[1])
    BY <2>2, FreshOrder DEF TakesPrefix
  <2> QED BY <2>1, <2>2 DEF TakesReport, RefusesPush
<1>5. \A p, q \in Pushes : Before(p, q)' => Closes(push'[p].batch, push'[q].batch)
  BY <1>2, LaneStands DEF InOrder, EventsInOrder
<1>6. \A k \in 1..Len(wire'), p \in Pushes : wire'[k].from # Report /\ Live(p)'
        => Closes(wire'[k].events, push'[p].batch)
  BY <1>2, <1>3 DEF InOrder, EventsInOrder
<1>7. \A k, l \in 1..Len(wire') : k < l /\ wire'[k].from # Report /\ wire'[l].from # Report
        => Closes(wire'[k].events, wire'[l].events)
  BY <1>3 DEF InOrder, EventsInOrder
<1>8. ASSUME NEW e \in Events, InLog(e)', Decides(e)
      PROVE  /\ \A k \in 1..Len(wire') : wire'[k].from # Report => Closes(<<e>>, wire'[k].events)
             /\ \A p \in Pushes : Live(p)' => Closes(<<e>>, push'[p].batch)
  <2>1. CASE InLog(e)
    BY <1>2, <1>3, <1>8, <2>1 DEF InOrder, EventsInOrder
  <2>2. CASE m.from # Report /\ IsTerminal(m.events) /\ e = m.events[1]
    <3>1. \A k \in 1..Len(wire') : wire'[k].from # Report => Closes(m.events, wire'[k].events)
      BY <1>3, <2>2 DEF InOrder, EventsInOrder
    <3>2. \A p \in Pushes : Live(p)' => Closes(m.events, push'[p].batch)
      BY <1>2, <1>3, <2>2 DEF InOrder, EventsInOrder
    <3>3. \A c : Closes(m.events, c) => Closes(<<e>>, c)
      BY <2>2 DEF Closes, IsTerminal
    <3> QED BY <3>1, <3>2, <3>3
  <2> QED BY <1>4, <1>8, <2>1, <2>2
<1> QED BY <1>4, <1>5, <1>6, <1>7, <1>8 DEF InOrder, EventsInOrder, Closes

LEMMA StillOrder ==
  ASSUME SocketTypeOK, IInv, LaneAndPushes, InOrder, StillSteps \/ UNCHANGED vars
  PROVE  InOrder'
<1>1. UNCHANGED <<push, lane, log>> /\ wire' \in {wire, << >>}
  BY StillTyped
<1>2. LiveFades /\ \A p, q \in Pushes : Before(p, q)' => Before(p, q)
  BY <1>1, LaneStands DEF LiveFades, Live
<1> QED BY <1>1, <1>2, OrderStays DEF LaneAndPushes

LEMMA AdmittingOrder ==
  ASSUME SocketTypeOK, IInv, LaneAndPushes, WireIsTrue, TerminalIsOne, InOrder, NEW p \in Pushes,
         PushEvents(p) \/ PassBarrier(p) \/ BarrierFails(p)
  PROVE  InOrder'
<1>0. UNCHANGED <<wire, log>>
  BY DEF PushEvents, PassBarrier, BarrierFails, hostVars
<1>1. ASSUME Turned(p) PROVE InOrder'
  <2>1. LiveFades
    BY <1>1 DEF Turned, LiveFades, Live
  <2>2. \A a, c \in Pushes : Before(a, c)' => Before(a, c)
    BY <1>1, LaneStands DEF Turned
  <2> QED BY <1>0, <2>1, <2>2, OrderStays DEF LaneAndPushes
<1>2. ASSUME NEW b \in Batches, Admits(p, b) PROVE InOrder'
  <2>1. activeRun.terminal = Null /\ b[1].run = activeRun.runId
    BY <1>2 DEF Admits, Excluded
  <2>2. \A e \in Events : Sent(e) /\ Decides(e) => e.run # b[1].run
    BY <2>1 DEF TerminalIsOne, Selected
  <2> QED BY <1>0, <1>2, <2>2, OrderQueues DEF Admits
<1>3. ASSUME NEW b, Queues(p, b), IsTerminal(b) PROVE InOrder'
  BY <1>0, <1>3, OrderQueues
<1> QED BY <1>1, <1>2, <1>3, PushEventsEffect, PassBarrierEffect, BarrierFailsEffect

LEMMA EndingOrder ==
  ASSUME SocketTypeOK, LaneAndPushes, InOrder, NEW p \in Pushes, NEW how \in {"failed", "resolved"},
         Ending(p, how), UNCHANGED log, wire' \in {wire, << >>}
  PROVE  InOrder'
<1>1. LiveFades
  <2>1. \A q \in Pushes : Live(q)' => Live(q)
    BY EndingShape
  <2>2. \A q \in Pushes : push'[q].batch = push[q].batch
    BY EndingShape DEF Ended
  <2> QED BY <2>1, <2>2 DEF LiveFades
<1>2. \A a, c \in Pushes : Before(a, c)' => Before(a, c)
  BY EndingShape
<1> QED BY <1>1, <1>2, OrderStays DEF LaneAndPushes

LEMMA DeliveringOrder ==
  ASSUME SocketTypeOK, IInv, LaneAndPushes, WireIsTrue, InOrder, NEW p \in Pushes,
         \/ AbortWaiting(p) \/ StartDelivery(p) \/ RpcFails(p) \/ ReplyPartial(p) \/ ReplyDone(p)
         \/ ReplyConflict(p)
  PROVE  InOrder'
<1>1. ASSUME GivesUp(p) PROVE InOrder'
  BY <1>1, GivesUpWire, EndingOrder DEF GivesUp
<1>2. ASSUME Ending(p, "resolved"), Completed(p) PROVE InOrder'
  BY <1>2, EndingOrder DEF Completed, hostVars
<1> QED BY <1>1, <1>2, OrderTransmits, GiveUps, StartEffect, PartialEffect, DoneEffect

LEMMA RestOrder ==
  ASSUME SocketTypeOK, IInv, LaneAndPushes, WireIsTrue, TerminalIsOne, InOrder,
         \/ DeliverReport \/ StartReport \/ ReportFails \/ ReportDone \/ ReportConflict \/ HostTakes
  PROVE  InOrder'
<1>1. CASE HostTakes
  BY <1>1, HostTakesEffect, TakesOrder
<1>2. CASE DeliverReport \/ StartReport \/ ReportFails \/ ReportDone \/ ReportConflict
  <2>1. Reporting /\ UNCHANGED log
    BY <1>2, ReportingTyped
  <2>2. LiveFades
    BY <2>1 DEF Reporting, LiveFades, Live
  <2>3. \A a, c \in Pushes : Before(a, c)' => Before(a, c)
    BY <2>1, ReportingLane
  <2> QED BY <1>2, <2>1, <2>2, <2>3, ReportingWire, OrderStays DEF LaneAndPushes
<1> QED BY <1>1, <1>2

-----------------------------------------------------------------------------
(* What the driver takes for told.                                         *)

Has(s) == \E i \in DOMAIN log : \E e \in log[i] : e.id = s
RunsAreTold ==
  \A a \in published : \E i \in DOMAIN log :
    [id |-> a.value.sourceEventId, run |-> a.value.runId, status |-> a.value.status] \in log[i]
PushesAreTold ==
  \A p \in Pushes : push[p].state = "resolved" => \A s \in IdsOf(push[p].batch) : Has(s)
Told == RunsAreTold /\ PushesAreTold /\ HostKnows

Grows ==
  /\ \A e : InLog(e) => InLog(e)'
  /\ \A i \in DOMAIN log : i \in DOMAIN log' /\ log'[i] = log[i]
MachineTold ==
  /\ UNCHANGED published
  /\ activeRun'.terminal.phase = "acked" => activeRun'.terminal = activeRun.terminal
PushesTold ==
  \A q \in Pushes :
    /\ push'[q].state = "sent" => push'[q] = push[q]
    /\ push'[q].state = "resolved" => push[q].state = "resolved" /\ push'[q].batch = push[q].batch

LEMMA LogGrows ==
  ASSUME SocketTypeOK
  PROVE  /\ UNCHANGED log => Grows
         /\ \A m \in Message, n \in Nat : TakesPrefix(m, n) =>
              Grows /\ \A i \in 1..n : Known(m.events[i])'
<1>0. log \in Seq(SUBSET Events) /\ DOMAIN log = 1..Len(log) /\ Len(log) \in Nat
  BY DEF SocketTypeOK
<1>1. UNCHANGED log => Grows
  BY DEF Grows, InLog
<1>2. ASSUME NEW m \in Message, NEW n \in Nat, TakesPrefix(m, n)
      PROVE  Grows /\ \A i \in 1..n : Known(m.events[i])'
  <2> DEFINE fresh == {e \in Prefix(m, n) : ~Known(e)}
  <2>1. /\ log' = IF fresh = {} THEN log ELSE Append(log, fresh)
        /\ \A i \in 1..n : m.events[i] \in Events
    BY <1>2 DEF TakesPrefix, Message
  <2>2. fresh \in SUBSET Events /\ \A i \in 1..n : Known(m.events[i]) \/ m.events[i] \in fresh
    BY <2>1 DEF Prefix
  <2> HIDE DEF fresh
  <2>3. Grows
    <3>1. CASE fresh = {}
      BY <1>1, <2>1, <3>1
    <3>2. CASE fresh # {}
      <4>1. /\ Len(log') = Len(log) + 1 /\ DOMAIN log' = 1..(Len(log) + 1)
            /\ \A i \in 1..Len(log) : log'[i] = log[i]
        BY <1>0, <2>1, <2>2, <3>2
      <4> QED BY <1>0, <4>1 DEF Grows, InLog
    <3> QED BY <3>1, <3>2
  <2>4. ASSUME NEW i \in 1..n PROVE Known(m.events[i])'
    <3>1. CASE Known(m.events[i])
      BY <2>3, <3>1 DEF Known, Grows
    <3>2. CASE m.events[i] \in fresh
      <4>1. Len(log) + 1 \in DOMAIN log' /\ log'[Len(log) + 1] = fresh
        BY <1>0, <2>1, <2>2, <3>2
      <4> QED BY <3>2, <4>1 DEF Known
    <3> QED BY <2>2, <3>1, <3>2
  <2> QED BY <2>3, <2>4
<1> QED BY <1>1, <1>2

LEMMA KnownGrows ==
  ASSUME Grows
  PROVE  /\ \A e : Known(e) => Known(e)'
         /\ \A s : Has(s) => Has(s)'
BY DEF Grows, Known, Has

LEMMA RunsToldStay == ASSUME RunsAreTold, Grows, UNCHANGED published PROVE RunsAreTold'
BY DEF RunsAreTold, Grows

LEMMA ToldStays ==
  ASSUME Told, Grows, MachineTold, PushesTold
  PROVE  Told'
<1>1. RunsAreTold'
  BY RunsToldStay DEF Told, MachineTold
<1>2. PushesAreTold'
  BY KnownGrows DEF Told, PushesAreTold, PushesTold, IdsOf
<1>3. ASSUME NEW q \in Pushes, push'[q].state = "sent" PROVE Arrived(q)'
  <2>1. push'[q] = push[q] /\ Arrived(q)
    BY <1>3 DEF PushesTold, Told, HostKnows
  <2> QED BY <2>1, KnownGrows DEF Arrived
<1>4. activeRun'.terminal.phase = "acked" => \E e \in Events : InLog(e)' /\ Selected(e)'
  BY DEF Told, HostKnows, MachineTold, Grows, Selected
<1> QED BY <1>1, <1>2, <1>3, <1>4 DEF Told, HostKnows

LEMMA MachineToldShapes ==
  /\ TerminalStands => MachineTold
  /\ UNCHANGED published /\ activeRun'.terminal = Null => MachineTold
  /\ \A v : UNCHANGED published /\ activeRun'.terminal = [phase |-> "selected", value |-> v] => MachineTold
BY DEF TerminalStands, MachineTold, Null

LEMMA StillTold ==
  ASSUME SocketTypeOK, IInv, LaneAndPushes, Told, StillSteps \/ UNCHANGED vars
  PROVE  Told'
<1>1. PushesTold /\ Grows
  BY StillTyped, LogGrows DEF PushesTold
<1>2. MachineTold
  <2>1. CASE Connect \/ Close \/ HostDecides \/ UNCHANGED vars
    BY <2>1, MachineStands, MachineToldShapes DEF Connect, Close, HostDecides, vars
  <2>2. CASE Hello
    BY <2>2, MachineToldShapes DEF Hello, RememberOwnedRunId, TerminalStands, terminalVars, machineVars, historyVars
  <2>3. CASE SocketBeginsRun
    BY <2>3, BegunTicket, MachineToldShapes DEF SocketBeginsRun
  <2>4. CASE SocketClaims
    BY <2>4, ClaimStands, MachineToldShapes DEF SocketClaims
  <2>5. CASE SocketReleasesRun
    BY <2>5, ReleasedTicket, MachineToldShapes DEF SocketReleasesRun, NullRun
  <2> QED BY <2>1, <2>2, <2>3, <2>4, <2>5 DEF StillSteps
<1> QED BY <1>1, <1>2, ToldStays

LEMMA AdmittingTold ==
  ASSUME SocketTypeOK, IInv, LaneAndPushes, TerminalIsOne, Told, NEW p \in Pushes,
         PushEvents(p) \/ PassBarrier(p) \/ BarrierFails(p)
  PROVE  Told'
<1>0. Grows
  BY LogGrows DEF PushEvents, PassBarrier, BarrierFails, hostVars
<1>1. ASSUME Turned(p), UNCHANGED terminalVars, push'[p].state # "resolved" PROVE Told'
  <2>1. PushesTold
    BY <1>1 DEF Turned, PushesTold
  <2> QED BY <1>0, <1>1, <2>1, MachineStands, MachineToldShapes, ToldStays
<1>2. ASSUME NEW b, Queues(p, b), MachineTold PROVE Told'
  <2>1. PushesTold
    BY <1>2, QueuedShape DEF Queues, BatchOK, PushesTold
  <2> QED BY <1>0, <1>2, <2>1, ToldStays
<1>3. CASE PushEvents(p) \/ BarrierFails(p)
  <2>1. UNCHANGED terminalVars
    BY <1>3 DEF PushEvents, BarrierFails
  <2>2. \/ Turned(p) /\ push'[p].state # "resolved"
        \/ \E b : Queues(p, b)
    BY <1>3, PushEventsEffect, BarrierFailsEffect DEF Admits
  <2> QED BY <1>1, <1>2, <2>1, <2>2, MachineStands, MachineToldShapes
<1>4. CASE PassBarrier(p)
  <2>0. PICK b : b = push[p].batch
    OBVIOUS
  <2>1. ASSUME Turned(p), UNCHANGED terminalVars, push'[p].state = "resolved", push'[p].batch = b,
               SelectionResult(TerminalIn(b)) = "acked", BatchOK(b), IsTerminal(b)
        PROVE  Told'
    <3>1. MachineTold
      BY <2>1, MachineStands, MachineToldShapes
    <3>2. activeRun.terminal.phase = "acked" /\ activeRun.terminal.value = TerminalIn(b)
      BY <2>1 DEF SelectionResult
    <3>3. PICK e \in Events : InLog(e) /\ Selected(e)
      BY <3>2 DEF Told, HostKnows
    <3>4. e = b[1] /\ \A s \in IdsOf(b) : s = b[1].id
      BY <2>1, <3>2, <3>3, SelectedSame, BatchShape DEF IdsOf
    <3>5. \A s \in IdsOf(b) : Has(s)
      BY <3>3, <3>4 DEF InLog, Has, SocketTypeOK
    <3>6. \A s \in IdsOf(b) : Has(s)'
      BY <1>0, <3>5, KnownGrows
    <3>7. PushesAreTold'
      BY <1>0, <2>1, <3>6, KnownGrows DEF Turned, Told, PushesAreTold
    <3>8. ASSUME NEW q \in Pushes, push'[q].state = "sent" PROVE Arrived(q)'
      <4>1. push'[q] = push[q] /\ Arrived(q)
        BY <2>1, <3>8 DEF Turned, Told, HostKnows
      <4> QED BY <1>0, <4>1, KnownGrows DEF Arrived
    <3>9. activeRun'.terminal.phase = "acked" => \E x \in Events : InLog(x)' /\ Selected(x)'
      BY <1>0, <3>1 DEF Told, HostKnows, MachineTold, Grows, Selected
    <3>10. RunsAreTold'
      BY <1>0, <3>1, RunsToldStay DEF Told, MachineTold
    <3> QED BY <3>7, <3>8, <3>9, <3>10 DEF Told, HostKnows
  <2>2. ASSUME SelectRunTerminal(ActiveTicket, TerminalIn(b)) PROVE MachineTold
    BY <2>2, SelectStands, MachineToldShapes
  <2>3. \/ Turned(p) /\ UNCHANGED terminalVars /\ push'[p].state # "resolved"
        \/ /\ Turned(p) /\ UNCHANGED terminalVars /\ push'[p].state = "resolved" /\ push'[p].batch = b
           /\ SelectionResult(TerminalIn(b)) = "acked" /\ BatchOK(b) /\ IsTerminal(b)
        \/ Queues(p, b) /\ (UNCHANGED terminalVars \/ SelectRunTerminal(ActiveTicket, TerminalIn(b)))
    BY <1>4, <2>0, PassBarrierEffect
  <2> QED BY <1>1, <1>2, <2>1, <2>2, <2>3, MachineStands, MachineToldShapes
<1> QED BY <1>3, <1>4

LEMMA TransmitsTold ==
  ASSUME SocketTypeOK, LaneAndPushes, Told, NEW p \in Pushes, NEW events, Transmits(p, events),
         \A i \in 1..Len(push[p].batch) :
           Known(push[p].batch[i]) \/ \E j \in 1..Len(events) : push[p].batch[i] = events[j]
  PROVE  Told'
<1>1. Grows /\ MachineTold
  BY LogGrows, MachineStands, MachineToldShapes DEF Transmits, hostVars
<1>2. /\ \A q \in Pushes : q # p => push'[q] = push[q]
      /\ push'[p].state = "sent" /\ push'[p].reply = 0 /\ push'[p].batch = push[p].batch
      /\ push'[p].left = events
  BY DEF Transmits, Sends
<1>3. RunsAreTold'
  BY <1>1, RunsToldStay DEF Told, MachineTold
<1>4. PushesAreTold'
  BY <1>1, <1>2, KnownGrows DEF Told, PushesAreTold
<1>5. ASSUME NEW q \in Pushes, push'[q].state = "sent" PROVE Arrived(q)'
  <2>1. CASE q = p
    BY <1>1, <1>2, <2>1, KnownGrows DEF Arrived
  <2>2. CASE q # p
    <3>1. push'[q] = push[q] /\ Arrived(q)
      BY <1>2, <1>5, <2>2 DEF Told, HostKnows
    <3> QED BY <1>1, <3>1, KnownGrows DEF Arrived
  <2> QED BY <2>1, <2>2
<1>6. activeRun'.terminal.phase = "acked" => \E x \in Events : InLog(x)' /\ Selected(x)'
  BY <1>1 DEF Told, HostKnows, MachineTold, Grows, Selected
<1> QED BY <1>3, <1>4, <1>5, <1>6 DEF Told, HostKnows

LEMMA EndingTold ==
  ASSUME SocketTypeOK, LaneAndPushes, Told, NEW p \in Pushes, NEW how \in {"failed", "resolved"},
         Ending(p, how), Grows,
         how = "resolved" => \A i \in 1..Len(push[p].batch) : Known(push[p].batch[i]),
         RunsAreTold', (activeRun.terminal.phase = "acked" => \E x \in Events : InLog(x) /\ Selected(x))'
  PROVE  Told'
<1>1. Ended(p, how)
  BY EndingShape
<1>2. PushesAreTold'
  <2>1. ASSUME NEW q \in Pushes, push'[q].state = "resolved", NEW s \in IdsOf(push'[q].batch) PROVE Has(s)'
    <3>1. CASE push'[q] = push[q]
      BY <2>1, <3>1, KnownGrows DEF Told, PushesAreTold
    <3>2. CASE how = "resolved" /\ (q = p \/ Joins(q, p))
      <4>1. push'[q].batch = push[p].batch
        BY <1>1, <3>2 DEF Ended, Joins, LaneAndPushes, PushesAreTrue, PushIsTrue
      <4>2. BatchOK(push[p].batch)
        BY DEF Ending, Live, LaneAndPushes, PushesAreTrue, PushIsTrue
      <4>3. PICK i \in 1..Len(push[p].batch) : s = push[p].batch[i].id
        BY <2>1, <4>1, <4>2, BatchShape DEF IdsOf
      <4>4. Has(s)
        BY <3>2, <4>3 DEF Known, Has
      <4> QED BY <4>4, KnownGrows
    <3>3. push'[q] = push[q] \/ (how = "resolved" /\ (q = p \/ Joins(q, p)))
      BY <1>1, <2>1 DEF Ended
    <3> QED BY <3>1, <3>2, <3>3
  <2> QED BY <2>1 DEF PushesAreTold, IdsOf
<1>3. ASSUME NEW q \in Pushes, push'[q].state = "sent" PROVE Arrived(q)'
  <2>1. push'[q] = push[q] /\ Arrived(q)
    BY <1>1, <1>3 DEF Ended, Told, HostKnows
  <2> QED BY <2>1, KnownGrows DEF Arrived
<1> QED BY <1>2, <1>3 DEF Told, HostKnows

(* All of a push was accepted.                                             *)
LEMMA AcceptedKnown ==
  ASSUME LaneAndPushes, Told, NEW p \in Pushes, push[p].state = "sent", AllAccepted(p)
  PROVE  \A i \in 1..Len(push[p].batch) : Known(push[p].batch[i])
<1>1. BatchOK(push[p].left) /\ Arrived(p)
  BY DEF LaneAndPushes, PushesAreTrue, PushIsTrue, Told, HostKnows
<1>2. push[p].reply \in 2..(Len(push[p].left) + 1) /\ push[p].reply - 1 = Len(push[p].left)
  BY <1>1, BatchShape DEF AllAccepted
<1>3. \A j \in 1..Len(push[p].left) : Known(push[p].left[j])
  BY <1>1, <1>2 DEF Arrived
<1> QED BY <1>1, <1>3 DEF Arrived

LEMMA AcknowledgedRun ==
  ASSUME SocketTypeOK, IInv, LaneAndPushes, TerminalIsOne, Told, NEW p \in Pushes, push[p].state = "sent",
         IsTerminal(push[p].batch), Known(push[p].batch[1]), UNCHANGED log,
         NEW receipt, AckRunTerminal(push[p].ticket, receipt)
  PROVE  /\ RunsAreTold'
         /\ (activeRun.terminal.phase = "acked" => \E x \in Events : InLog(x) /\ Selected(x))'
<1>0. PICK e : e = push[p].batch[1]
  OBVIOUS
<1>1. /\ BatchOK(push[p].batch) /\ Live(p) /\ push[p].ticket.runId = e.run
  BY <1>0 DEF LaneAndPushes, PushesAreTrue, PushIsTrue, Live
<1>2. e \in Events /\ Decides(e) /\ Sent(e)
  BY <1>0, <1>1, BatchIsSent, BatchShape
<1>3. /\ RunStands /\ activeRun.runId = e.run
      /\ published' = published \cup {[revision |-> push[p].ticket.revision, value |-> activeRun.terminal.value]}
  BY <1>1, AckStands
<1>4. Selected(e)
  BY <1>2, <1>3 DEF TerminalIsOne
<1>5. InLog(e)
  <2>1. PICK i \in DOMAIN log : \E f \in log[i] : f.id = e.id /\ f.run = e.run
    BY <1>0 DEF Known
  <2>2. PICK f \in log[i] : f.id = e.id /\ f.run = e.run
    BY <2>1
  <2>3. i \in 1..Len(log) /\ f \in Events
    BY <2>1, <2>2 DEF SocketTypeOK
  <2>4. InLog(f) /\ Sent(f)
    BY <2>2, <2>3 DEF InLog, Sent
  <2>5. Decides(f)
    BY <1>2, <2>2, <2>3, KindsDiffer
  <2>6. f = e
    BY <1>2, <2>2, <2>3, <2>4, <2>5 DEF TerminalIsOne
  <2> QED BY <2>4, <2>6
<1>6. RunsAreTold'
  <2>1. e = [id |-> e.id, run |-> e.run, status |-> e.status]
    BY <1>2, KindsDiffer
  <2>2. PICK i \in DOMAIN log : e \in log[i]
    BY <1>5 DEF InLog, SocketTypeOK
  <2>3. ASSUME NEW a \in published'
        PROVE  \E k \in DOMAIN log' :
                 [id |-> a.value.sourceEventId, run |-> a.value.runId, status |-> a.value.status] \in log'[k]
    <3>1. CASE a \in published
      BY <3>1 DEF Told, RunsAreTold
    <3>2. CASE a.value = activeRun.terminal.value
      <4>1. [id |-> a.value.sourceEventId, run |-> a.value.runId, status |-> a.value.status] = e
        BY <1>4, <2>1, <3>2 DEF Selected
      <4> QED BY <2>2, <4>1
    <3> QED BY <1>3, <2>3, <3>1, <3>2
  <2> QED BY <2>3 DEF RunsAreTold
<1>7. InLog(e)' /\ Selected(e)'
  BY <1>3, <1>4, <1>5, LogStands DEF Selected, RunStands
<1> QED BY <1>2, <1>6, <1>7

LEMMA DeliveringTold ==
  ASSUME SocketTypeOK, IInv, LaneAndPushes, TerminalIsOne, Told, NEW p \in Pushes,
         \/ AbortWaiting(p) \/ StartDelivery(p) \/ RpcFails(p) \/ ReplyPartial(p) \/ ReplyDone(p)
         \/ ReplyConflict(p)
  PROVE  Told'
<1>1. ASSUME UNCHANGED <<terminalVars, log>>
      PROVE  /\ Grows /\ RunsAreTold'
             /\ (activeRun.terminal.phase = "acked" => \E x \in Events : InLog(x) /\ Selected(x))'
  <2>1. Grows /\ MachineTold
    BY <1>1, LogGrows, MachineStands, MachineToldShapes
  <2>2. RunsAreTold'
    BY <2>1, RunsToldStay DEF Told, MachineTold
  <2>3. (activeRun.terminal.phase = "acked" => \E x \in Events : InLog(x) /\ Selected(x))'
    BY <2>1 DEF Told, HostKnows, MachineTold, Grows, Selected
  <2> QED BY <2>1, <2>2, <2>3
<1>2. ASSUME GivesUp(p) PROVE Told'
  <2>1. Ending(p, "failed") /\ UNCHANGED <<terminalVars, log>>
    BY <1>2, GivesUpWire DEF GivesUp
  <2> QED BY <1>1, <2>1, EndingTold
<1>3. ASSUME push[p].state = "sent", AllAccepted(p), Ending(p, "resolved"), Completed(p),
             \/ UNCHANGED terminalVars
             \/ IsTerminal(push[p].batch) /\ \E receipt : AckRunTerminal(push[p].ticket, receipt)
      PROVE  Told'
  <2>1. UNCHANGED log /\ Grows /\ \A i \in 1..Len(push[p].batch) : Known(push[p].batch[i])
    BY <1>3, LogGrows, AcceptedKnown DEF Completed, hostVars
  <2>2. Known(push[p].batch[1])
    <3>1. BatchOK(push[p].batch)
      BY <1>3 DEF LaneAndPushes, PushesAreTrue, PushIsTrue
    <3> QED BY <2>1, <3>1, BatchShape
  <2>3. /\ RunsAreTold'
        /\ (activeRun.terminal.phase = "acked" => \E x \in Events : InLog(x) /\ Selected(x))'
    BY <1>1, <1>3, <2>1, <2>2, AcknowledgedRun
  <2> QED BY <1>3, <2>1, <2>3, EndingTold
<1>4. CASE StartDelivery(p)
  <2>1. push[p].left = push[p].batch
    BY <1>4 DEF StartDelivery, LaneAndPushes, PushesAreTrue, PushIsTrue
  <2>2. ASSUME Transmits(p, push[p].left) PROVE Told'
    BY <2>1, <2>2, TransmitsTold
  <2> QED BY <1>2, <1>4, <2>2, StartEffect
<1>5. CASE ReplyPartial(p)
  <2>1. ASSUME NEW rest, Transmits(p, rest), push[p].state = "sent", push[p].reply \in 2..Len(push[p].left),
               Len(rest) = Len(push[p].left) - push[p].reply + 1,
               \A i \in 1..Len(rest) : rest[i] = push[p].left[push[p].reply + i - 1]
        PROVE  Told'
    <3>1. Arrived(p) /\ BatchOK(push[p].left)
      BY <2>1 DEF Told, HostKnows, LaneAndPushes, PushesAreTrue, PushIsTrue
    <3>2. Len(push[p].left) \in Nat
      BY <3>1, BatchShape
    <3>3. ASSUME NEW i \in 1..Len(push[p].batch), ~Known(push[p].batch[i])
          PROVE  \E j \in 1..Len(rest) : push[p].batch[i] = rest[j]
      <4>1. PICK j \in 1..Len(push[p].left) : push[p].batch[i] = push[p].left[j]
        BY <3>1, <3>3 DEF Arrived
      <4>2. PICK n, l : n = push[p].reply /\ l = Len(push[p].left)
        OBVIOUS
      <4>3. n \in 2..l /\ l \in Nat /\ j \in 1..l /\ Len(rest) = l - n + 1
        BY <2>1, <3>2, <4>1, <4>2
      <4>4. \A k \in 1..(n - 1) : Known(push[p].left[k])
        <5>1. n \in 2..(l + 1)
          BY <4>3
        <5> QED BY <3>1, <4>2, <5>1 DEF Arrived
      <4>5. j \notin 1..(n - 1)
        BY <3>3, <4>1, <4>4
      <4>6. j - n + 1 \in 1..Len(rest) /\ n + (j - n + 1) - 1 = j
        BY <4>3, <4>5
      <4>7. rest[j - n + 1] = push[p].left[j]
        BY <2>1, <4>2, <4>6
      <4> QED BY <4>1, <4>6, <4>7
    <3> QED BY <2>1, <3>3, TransmitsTold
  <2> QED BY <1>2, <1>5, <2>1, PartialEffect
<1> QED BY <1>2, <1>3, <1>4, <1>5, GiveUps, DoneEffect

LEMMA TakesTold ==
  ASSUME SocketTypeOK, LaneAndPushes, WireIsTrue, Told, NEW m \in Message,
         TakesReport(m) \/ RefusesPush(m) \/ \E n \in Nat : TakesPrefix(m, n)
  PROVE  Told'
<1>1. Takes(m)
  BY DEF TakesReport, RefusesPush, TakesPrefix
<1>2. /\ m = wire[1] /\ 1 \in 1..Len(wire)
      /\ \A q \in Pushes : SameButReply(q)
      /\ \A q \in Pushes : push'[q].reply # push[q].reply => q = m.from /\ push[q].state = "sent"
      /\ MachineTold
  BY <1>1, MessageShape, MachineStands, MachineToldShapes DEF Takes, Answered
<1>3. Grows
  BY LogGrows DEF TakesReport, RefusesPush, TakesPrefix
<1>4. RunsAreTold'
  BY <1>2, <1>3, RunsToldStay DEF Told, MachineTold
<1>5. PushesAreTold'
  BY <1>2, <1>3, KnownGrows DEF Told, PushesAreTold, SameButReply
<1>6. activeRun'.terminal.phase = "acked" => \E x \in Events : InLog(x)' /\ Selected(x)'
  BY <1>2, <1>3 DEF Told, HostKnows, MachineTold, Grows, Selected
<1>7. ASSUME NEW q \in Pushes, push'[q].state = "sent" PROVE Arrived(q)'
  <2>1. /\ push'[q].batch = push[q].batch /\ push'[q].left = push[q].left /\ push[q].state = "sent"
        /\ Arrived(q) /\ BatchOK(push[q].left)
    BY <1>2, <1>7 DEF SameButReply, Told, HostKnows, LaneAndPushes, PushesAreTrue, PushIsTrue
  <2>2. CASE push'[q].reply = push[q].reply
    BY <1>3, <2>1, <2>2, KnownGrows DEF Arrived
  <2>3. CASE push'[q].reply # push[q].reply
    <3>1. q = m.from /\ m.from # Report
      BY <1>2, <2>3, EntryKinds
    <3>2. m.events = push[q].left
      BY <1>2, <2>1, <3>1 DEF WireIsTrue
    <3>3. CASE RefusesPush(m)
      <4>1. push'[q].reply = Conflict /\ Conflict \notin 2..(Len(push[q].left) + 1)
        BY <2>1, <2>3, <3>3, BatchShape, SocketBounds DEF RefusesPush, Conflict
      <4> QED BY <1>3, <2>1, <4>1, KnownGrows DEF Arrived
    <3>4. ASSUME NEW n \in Nat, TakesPrefix(m, n) PROVE Arrived(q)'
      <4>1. push'[q].reply - 1 = n /\ push'[q].left = m.events
        BY <2>1, <2>3, <3>2, <3>4 DEF TakesPrefix
      <4>2. \A i \in 1..n : Known(m.events[i])'
        BY <3>4, LogGrows
      <4>3. \A i \in 1..n : Known(push[q].left[i])'
        BY <4>1, <4>2 DEF Known
      <4> QED BY <1>3, <2>1, <4>1, <4>3, KnownGrows DEF Arrived
    <3> QED BY <3>1, <3>3, <3>4 DEF TakesReport
  <2> QED BY <2>2, <2>3
<1> QED BY <1>4, <1>5, <1>6, <1>7 DEF Told, HostKnows

LEMMA RestTold ==
  ASSUME SocketTypeOK, IInv, LaneAndPushes, WireIsTrue, Told,
         \/ DeliverReport \/ StartReport \/ ReportFails \/ ReportDone \/ ReportConflict \/ HostTakes
  PROVE  Told'
<1>1. CASE HostTakes
  BY <1>1, HostTakesEffect, TakesTold
<1>2. CASE DeliverReport \/ StartReport \/ ReportFails \/ ReportDone \/ ReportConflict
  <2>1. Reporting /\ UNCHANGED log /\ TerminalStands
    BY <1>2, ReportingTyped
  <2>2. PushesTold
    BY <2>1 DEF Reporting, PushesTold
  <2> QED BY <2>1, <2>2, LogGrows, MachineToldShapes, ToldStays
<1> QED BY <1>1, <1>2

-----------------------------------------------------------------------------
(* The invariant and the theorems.                                         *)

Reached == SocketTypeOK /\ IInv /\ ActiveIsIssued /\ LaneAndPushes /\ TerminalIsOne
Settles == WireIsTrue /\ ReportIsTrue /\ EnvelopesKept /\ InOrder /\ Told
SocketIInv == Reached /\ Settles

LEMMA SocketInitially == SocketInit => SocketIInv
<1> SUFFICES ASSUME SocketInit PROVE SocketIInv
  OBVIOUS
<1>1. IInv /\ activeRun = NullRun /\ published = {} /\ instanceTerminal.phase = "open"
  BY InitIInv DEF SocketInit, TerminalInit
<1>2. /\ lane = << >> /\ wire = << >> /\ log = << >> /\ task = 0 /\ link = "new"
      /\ push = [p \in Pushes |-> NoPush] /\ retained = [s \in Ids |-> [env |-> 0, owner |-> 0]]
      /\ prior = [s \in Ids |-> [push |-> 0, env |-> 0, revision |-> 0]]
      /\ report = [state |-> "idle", terminal |-> NoReport, bound |-> FALSE, reply |-> 0, n |-> 0]
  BY DEF SocketInit
<1>3. \A p \in Pushes : push[p].state = "new"
  BY <1>2 DEF NoPush
<1>4. << >> \in Seq(Entries) /\ << >> \in Seq(Message) /\ << >> \in Seq(SUBSET Events)
  BY EmptySeq
<1>5. SocketTypeOK
  <2>1. link \in Links /\ task \in {0} \cup Pushes
    BY <1>2 DEF Links
  <2>2. push \in [Pushes -> PushRecord] /\ retained \in [Ids -> Slot] /\ prior \in [Ids -> Trace]
    BY <1>2, NoPushTyped DEF Slot, Trace
  <2>3. report \in ReportRecord
    BY <1>2, MessageTyped DEF ReportRecord
  <2> QED BY <1>2, <1>4, <2>1, <2>2, <2>3 DEF SocketTypeOK
<1>6. LaneAndPushes
  BY <1>2, <1>3 DEF LaneAndPushes, LaneIsTrue, PushesAreTrue, PushIsTrue, TaskIsTrue, Live, InLane,
                    PlacesDiffer
<1>7. ActiveIsIssued /\ TerminalIsOne
  BY <1>1, <1>2, <1>3 DEF ActiveIsIssued, TerminalIsOne, Sent, InLog, OnWire, InPush, Live
<1>8. WireIsTrue /\ ReportIsTrue
  BY <1>1, <1>2 DEF WireIsTrue, ReportIsTrue
<1>9. EnvelopesKept
  BY <1>2 DEF EnvelopesKept, UnknownKeepsEnvelope, Ids
<1>10. InOrder
  BY <1>2, <1>3 DEF InOrder, EventsInOrder, TerminalIsLastOfRun, Before, InLog
<1>11. Told
  BY <1>1, <1>3 DEF Told, RunsAreTold, PushesAreTold, HostKnows, NullRun, Null
<1> QED BY <1>1, <1>5, <1>6, <1>7, <1>8, <1>9, <1>10, <1>11 DEF SocketIInv, Reached, Settles

LEMMA SocketSteps ==
  ASSUME [SocketNext]_vars
  PROVE  \/ StillSteps \/ UNCHANGED vars
         \/ \E p \in Pushes : PushEvents(p) \/ PassBarrier(p) \/ BarrierFails(p)
         \/ \E p \in Pushes :
              \/ AbortWaiting(p) \/ StartDelivery(p) \/ RpcFails(p) \/ ReplyPartial(p) \/ ReplyDone(p)
              \/ ReplyConflict(p)
         \/ DeliverReport \/ StartReport \/ ReportFails \/ ReportDone \/ ReportConflict \/ HostTakes
BY DEF SocketNext, StillSteps

LEMMA SocketKept ==
  ASSUME SocketIInv, [SocketNext]_vars
  PROVE  SocketIInv'
<1>1. /\ SocketTypeOK /\ IInv /\ ActiveIsIssued /\ LaneAndPushes /\ TerminalIsOne
      /\ WireIsTrue /\ ReportIsTrue /\ EnvelopesKept /\ InOrder /\ Told
  BY DEF SocketIInv, Reached, Settles
<1>2. IInv' /\ ActiveIsIssued'
  BY <1>1, SocketStepsMachine, NextIInv DEF LaneAndPushes
<1>3. CASE StillSteps \/ UNCHANGED vars
  BY <1>1, <1>2, <1>3, StillTyped, StillOneTerminal, StillWire, StillReport, StillEnvelopes, StillOrder,
     StillTold DEF SocketIInv, Reached, Settles
<1>4. ASSUME NEW p \in Pushes, PushEvents(p) \/ PassBarrier(p) \/ BarrierFails(p)
      PROVE  SocketIInv'
  BY <1>1, <1>2, <1>4, AdmittingTyped, AdmittingOneTerminal, AdmittingWire, AdmittingReport,
     AdmittingEnvelopes, AdmittingOrder, AdmittingTold DEF SocketIInv, Reached, Settles
<1>5. ASSUME NEW p \in Pushes,
             \/ AbortWaiting(p) \/ StartDelivery(p) \/ RpcFails(p) \/ ReplyPartial(p) \/ ReplyDone(p)
             \/ ReplyConflict(p)
      PROVE  SocketIInv'
  BY <1>1, <1>2, <1>5, DeliveringTyped, DeliveringOneTerminal, DeliveringWire, DeliveringReport,
     DeliveringEnvelopes, DeliveringOrder, DeliveringTold DEF SocketIInv, Reached, Settles
<1>6. CASE \/ DeliverReport \/ StartReport \/ ReportFails \/ ReportDone \/ ReportConflict \/ HostTakes
  BY <1>1, <1>2, <1>6, ReportingTyped, TakesTyped, RestOneTerminal, RestWire, RestReport, RestEnvelopes,
     RestOrder, RestTold DEF SocketIInv, Reached, Settles
<1> QED BY <1>3, <1>4, <1>5, <1>6, SocketSteps

(* The invariant holds of every behaviour of the socket.                   *)
THEOREM SocketInvariant == SocketSpec => []SocketIInv
BY SocketInitially, SocketKept, PTL DEF SocketSpec

(* Every variable of the socket keeps the type its declaration gives it.   *)
THEOREM SocketTyped == SocketSpec => []SocketTypeOK
<1>1. SocketIInv => SocketTypeOK
  BY DEF SocketIInv, Reached
<1> QED BY <1>1, SocketInvariant, PTL

(* The socket uses the terminal state machine as its specification says:   *)
(* with tickets that were issued, one run at a time; so whatever holds of  *)
(* the machine alone holds of the machine behind the socket.               *)
THEOREM SocketDrivesMachine == SocketSpec => TerminalSpec
<1>1. SocketInit => TerminalInit
  BY DEF SocketInit
<1>2. SocketIInv /\ [SocketNext]_vars => [TerminalNext]_terminalVars
  BY SocketStepsMachine DEF SocketIInv, Reached, LaneAndPushes
<1> QED BY <1>1, <1>2, SocketInvariant, PTL DEF SocketSpec, TerminalSpec

(* As long as a run lasts, an event whose last push has not succeeded      *)
(* keeps the envelope it was first sent with.                              *)
THEOREM EnvelopesStand == SocketSpec => []UnknownKeepsEnvelope
<1>1. SocketIInv => UnknownKeepsEnvelope
  BY DEF SocketIInv, Settles, EnvelopesKept
<1> QED BY <1>1, SocketInvariant, PTL

(* What the driver takes for acknowledged the host has, and in the log of  *)
(* the host the terminal of a run is one and is the last of the run.       *)
THEOREM HostLogStands == SocketSpec => []HostLogIsTrue
<1>1. SocketIInv => HostLogIsTrue
  BY DEF SocketIInv, Settles, InOrder, Told, RunsAreTold, PushesAreTold, Has, ReportIsTrue,
         HostLogIsTrue, AcknowledgedIsReceived
<1> QED BY <1>1, SocketInvariant, PTL
=============================================================================
