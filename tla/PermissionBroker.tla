--------------------------- MODULE PermissionBroker ---------------------------
(***************************************************************************)
(* DriverPermissionBroker (core/driver-permission-broker.ts): permission   *)
(* requests of the backend during one run.  A request is announced to the  *)
(* host, decided by a command, a timeout, an abort or a rejectAll, and     *)
(* closed at the host before the backend is told.  A delivery with an      *)
(* unknown outcome is repaired by the request itself, by what it leaves    *)
(* running, or by the recovery of a later rejectAllAndWait.                *)
(*                                                                         *)
(* Delivery is external: what is on the wire of a request may reach the    *)
(* host at any time, in order and once (events carry source ids); an       *)
(* acknowledged push has reached it, a refused one has not.                *)
(***************************************************************************)
EXTENDS Naturals, FiniteSets

CONSTANTS
  Permissions,             \* request ids, each used once
  MaxPending,              \* #maxPendingRequests
  MaxWaits                 \* bound: calls of rejectAllAndWait

ASSUME BrokerBounds == IsFiniteSet(Permissions) /\ MaxPending \in Nat /\ MaxWaits \in Nat

Waits == 1..MaxWaits
Reasons == {"approved", "rejected", "cancelled", "timed_out"}

VARIABLES
  current,                 \* the run is still current: isCurrentRun()
  closedRun,               \* #closedRunId is the run
  pc,                      \* request |-> where its call is
  leased,                  \* #activeRequestIds
  resolvers,               \* #resolvers
  settled,                 \* request |-> the reason its deferred resolved with
  reason,                  \* request |-> the resolution it closes with
  lateDelivery,            \* request |-> the delivery it left running
  failures,                \* #deliveryFailures
  answer,                  \* request |-> what the backend was told
  wire,                    \* request |-> events that may reach the host
  host,                    \* request |-> what the host knows of it
  wait,                    \* rejectAllAndWait calls: [state, task, targets, covered]
  cancellation,            \* #cancellationTask: the call that owns it or 0
  lateRecovery             \* recoveries that outlasted their timeout

requestVars == <<pc, leased, resolvers, settled, reason, lateDelivery, answer>>
brokerVars == <<current, closedRun, requestVars, failures, wire, host, wait, cancellation,
                lateRecovery>>

BrokerInit ==
  /\ current = TRUE /\ closedRun = FALSE
  /\ pc = [r \in Permissions |-> "idle"]
  /\ leased = {} /\ resolvers = {} /\ failures = {} /\ lateRecovery = {}
  /\ settled = [r \in Permissions |-> "none"]
  /\ reason = [r \in Permissions |-> "none"]
  /\ lateDelivery = [r \in Permissions |-> "none"]
  /\ answer = [r \in Permissions |-> "none"]
  /\ wire = [r \in Permissions |-> {}]
  /\ host = [r \in Permissions |-> "none"]
  /\ wait = [w \in Waits |-> [state |-> "none", task |-> 0, targets |-> {}, covered |-> {}]]
  /\ cancellation = 0

-----------------------------------------------------------------------------
(* The host                                                                *)

Closed(r) == host[r] \in Reasons
Send(r, events) == wire' = [wire EXCEPT ![r] = @ \cup events]

(* The events of a request arrive in the order in which they are sent.     *)
Arrive ==
  \E r \in Permissions :
    /\ \/ /\ host[r] = "none" /\ "requested" \in wire[r]
          /\ host' = [host EXCEPT ![r] = "requested"]
       \/ /\ host[r] = "requested" /\ "resolved" \in wire[r]
          /\ host' = [host EXCEPT ![r] = reason[r]]
    /\ UNCHANGED <<current, closedRun, requestVars, failures, wire, wait, cancellation, lateRecovery>>

(* The run ends: its terminal is acknowledged or another run takes over.   *)
RunEnds ==
  /\ current
  /\ current' = FALSE
  /\ UNCHANGED <<closedRun, requestVars, failures, wire, host, wait, cancellation, lateRecovery>>

-----------------------------------------------------------------------------
(* request                                                                 *)

(* Once no request is pending, the idle promise of the waits resolves.     *)
IdleReached(pending, waits) ==
  IF pending # {} THEN waits
  ELSE [w \in Waits |-> IF waits[w].state = "waiting" THEN [waits[w] EXCEPT !.state = "idle"]
                        ELSE waits[w]]

Release(r) ==
  /\ leased' = leased \ {r}
  /\ wait' = IdleReached(leased \ {r}, wait)

Unregister(r) == resolvers \ {r}

(* The call returns.  A delivery it leaves running keeps the lease.        *)
Return(r, result, running) ==
  /\ pc' = [pc EXCEPT ![r] = "done"]
  /\ answer' = [answer EXCEPT ![r] = result]
  /\ lateDelivery' = [lateDelivery EXCEPT ![r] = running]
  /\ resolvers' = Unregister(r)
  /\ IF running = "none" THEN Release(r) ELSE UNCHANGED <<leased, wait>>

Request(r) ==
  /\ pc[r] = "idle"
  /\ IF ~current \/ closedRun
     THEN /\ pc' = [pc EXCEPT ![r] = "done"]
          /\ answer' = [answer EXCEPT ![r] = "reject"]
          /\ UNCHANGED <<leased, resolvers, wire, cancellation>>
     ELSE IF Cardinality(leased) >= MaxPending
     THEN /\ pc' = [pc EXCEPT ![r] = "done"]
          /\ answer' = [answer EXCEPT ![r] = "error"]
          /\ UNCHANGED <<leased, resolvers, wire, cancellation>>
     ELSE /\ pc' = [pc EXCEPT ![r] = "requesting"]
          /\ leased' = leased \cup {r}
          /\ resolvers' = resolvers \cup {r}
          /\ Send(r, {"requested"})
          /\ cancellation' = IF leased = {} THEN 0 ELSE cancellation
          /\ UNCHANGED answer
  /\ UNCHANGED <<current, closedRun, settled, reason, lateDelivery, failures, host, wait, lateRecovery>>

(* resolve, a command of the host, and the abort of the request's signal.  *)
Decide(r, decision) ==
  /\ r \in resolvers
  /\ decision # "cancelled" => host[r] = "requested"
  /\ settled' = [settled EXCEPT ![r] = decision]
  /\ resolvers' = resolvers \ {r}
  /\ UNCHANGED <<current, closedRun, pc, leased, reason, lateDelivery, answer, failures, wire, host, wait,
                 cancellation, lateRecovery>>

(* It is refused, or aborted before it is sent: the host never sees it.    *)
RequestRefused(r) ==
  /\ pc[r] = "requesting" /\ host[r] = "none"
  /\ wire' = [wire EXCEPT ![r] = {}]
  /\ Return(r, "error", "none")
  /\ UNCHANGED <<current, closedRun, settled, reason, failures, host, cancellation, lateRecovery>>

(* Its outcome is unknown: close the lifecycle, announcing it again.       *)
RequestUnknown(r) ==
  /\ pc[r] = "requesting"
  /\ pc' = [pc EXCEPT ![r] = "recovering"]
  /\ reason' = [reason EXCEPT ![r] = "cancelled"]
  /\ failures' = failures \cup {r}
  /\ Send(r, {"requested", "resolved"})
  /\ UNCHANGED <<current, closedRun, leased, resolvers, settled, lateDelivery, answer, host, wait,
                 cancellation, lateRecovery>>

(* It times out and is left running.                                       *)
FailsForgotten(r) == failures              \* bug: the failure is not remembered
Fails(r) == failures \cup {r}
RequestTimesOut(r) ==
  /\ pc[r] = "requesting"
  /\ reason' = [reason EXCEPT ![r] = "cancelled"]
  /\ failures' = Fails(r)
  /\ Return(r, "error", "requesting")
  /\ UNCHANGED <<current, closedRun, settled, wire, host, cancellation, lateRecovery>>

Recovered(r) ==
  /\ pc[r] = "recovering" /\ Closed(r)
  /\ failures' = failures \ {r}
  /\ Return(r, "reject", "none")
  /\ UNCHANGED <<current, closedRun, settled, reason, wire, host, cancellation, lateRecovery>>
RecoveryFails(r) ==
  /\ pc[r] = "recovering"
  /\ \E running \in {"none", "closing"} : Return(r, "error", running)
  /\ UNCHANGED <<current, closedRun, settled, reason, failures, wire, host, cancellation, lateRecovery>>

(* The decision or the timeout; a run that ended meanwhile cancels it.     *)
BrokerVerdict(r, decision) == IF current THEN decision ELSE "cancelled"
Resolve(r, decision) ==
  /\ pc' = [pc EXCEPT ![r] = "resolving"]
  /\ reason' = [reason EXCEPT ![r] = BrokerVerdict(r, decision)]
  /\ resolvers' = Unregister(r)
  /\ Send(r, {"resolved"})
  /\ UNCHANGED <<current, closedRun, leased, settled, lateDelivery, answer, failures, host, wait,
                 cancellation, lateRecovery>>
(* The requested event is acknowledged: wait for the decision.             *)
Requested(r) ==
  /\ pc[r] = "requesting" /\ host[r] # "none"
  /\ current
  /\ pc' = [pc EXCEPT ![r] = "asking"]
  /\ UNCHANGED <<current, closedRun, leased, resolvers, settled, reason, lateDelivery, answer, failures, wire,
                 host, wait, cancellation, lateRecovery>>
RequestedTooLate(r) ==
  /\ pc[r] = "requesting" /\ host[r] # "none"
  /\ ~current
  /\ Resolve(r, "cancelled")
(* The decision is there, or its time is over.                             *)
Decided(r) == pc[r] = "asking" /\ settled[r] # "none" /\ Resolve(r, settled[r])
DecisionTimesOut(r) == pc[r] = "asking" /\ settled[r] = "none" /\ Resolve(r, "timed_out")

(* The resolution is acknowledged: only now the backend may go on.         *)
Allowed(r) == current /\ reason[r] = "approved"
AcknowledgedEarly(r) == TRUE               \* bug: answers before the host knows
Acknowledged(r) == Closed(r)
Resolved(r) ==
  /\ pc[r] = "resolving" /\ Acknowledged(r)
  /\ failures' = failures \ {r}
  /\ Return(r, IF Allowed(r) THEN "allow" ELSE "reject", "none")
  /\ UNCHANGED <<current, closedRun, settled, reason, wire, host, cancellation, lateRecovery>>

(* It fails, or times out and is left running.                             *)
ResolutionFails(r) ==
  /\ pc[r] = "resolving"
  /\ failures' = Fails(r)
  /\ \E running \in {"none", "resolving"} : Return(r, "error", running)
  /\ UNCHANGED <<current, closedRun, settled, reason, wire, host, cancellation, lateRecovery>>

-----------------------------------------------------------------------------
(* What a request left running                                             *)

(* The late requested event is acknowledged or lost: close the lifecycle.  *)
LateRequested(r) ==
  /\ lateDelivery[r] = "requesting"
  /\ IF host[r] = "none" THEN Send(r, {"requested", "resolved"}) ELSE Send(r, {"resolved"})
  /\ lateDelivery' = [lateDelivery EXCEPT ![r] = "closing"]
  /\ UNCHANGED <<current, closedRun, pc, leased, resolvers, settled, reason, answer, failures, host,
                 wait, cancellation, lateRecovery>>

(* The late closing is acknowledged, or fails for good.                    *)
LateSettlesResolved == {"resolving"}       \* bug: a late closing keeps its lease
LateSettlesIn == {"closing", "resolving"}
LateDelivered(r) ==
  /\ lateDelivery[r] \in LateSettlesIn /\ Closed(r)
  /\ failures' = failures \ {r}
  /\ lateDelivery' = [lateDelivery EXCEPT ![r] = "none"]
  /\ Release(r)
  /\ UNCHANGED <<current, closedRun, pc, resolvers, settled, reason, answer, wire, host, cancellation,
                 lateRecovery>>
LateFails(r) ==
  /\ lateDelivery[r] \in LateSettlesIn
  /\ lateDelivery' = [lateDelivery EXCEPT ![r] = "none"]
  /\ Release(r)
  /\ UNCHANGED <<current, closedRun, pc, resolvers, settled, reason, answer, failures, wire, host,
                 cancellation, lateRecovery>>

-----------------------------------------------------------------------------
(* rejectAll, rejectAllAndWait, rejectRunAndWait                           *)

RejectsAll ==
  /\ settled' = [r \in Permissions |-> IF r \in resolvers THEN "cancelled" ELSE settled[r]]
  /\ resolvers' = {}

RejectAll ==
  /\ resolvers # {}
  /\ RejectsAll
  /\ UNCHANGED <<current, closedRun, pc, leased, reason, lateDelivery, answer, failures, wire, host, wait,
                 cancellation, lateRecovery>>

(* The wait ends at once in the recovery, joins one, or starts one.        *)
Recovering(w) == [state |-> "recovering", task |-> w, targets |-> failures,
                  covered |-> leased \cup failures]
Ends(w) == IF cancellation = w THEN 0 ELSE cancellation
SendAgain(targets) ==
  wire' = [r \in Permissions |-> IF r \in targets THEN {"requested", "resolved"} ELSE wire[r]]

RejectAllAndWait(w, closing) ==
  /\ wait[w].state = "none"
  /\ \A v \in 1..(w - 1) : wait[v].state # "none"
  /\ closedRun' = (closedRun \/ closing)
  /\ RejectsAll
  /\ IF leased = {}
     THEN /\ wait' = [wait EXCEPT ![w] = Recovering(w)]
          /\ SendAgain(failures)
          /\ UNCHANGED cancellation
     ELSE IF cancellation # 0
     THEN /\ wait' = [wait EXCEPT ![w] = [state |-> "joined", task |-> cancellation, targets |-> {},
                                          covered |-> leased \cup failures]]
          /\ UNCHANGED <<cancellation, wire>>
     ELSE /\ wait' = [wait EXCEPT ![w] = [state |-> "waiting", task |-> w, targets |-> {},
                                          covered |-> leased \cup failures]]
          /\ cancellation' = w
          /\ UNCHANGED wire
  /\ UNCHANGED <<current, pc, leased, reason, lateDelivery, answer, failures, host, lateRecovery>>

WaitTimesOut(w) ==
  /\ wait[w].state = "waiting"
  /\ wait' = [wait EXCEPT ![w].state = "failed"]
  /\ cancellation' = Ends(w)
  /\ UNCHANGED <<current, closedRun, requestVars, failures, wire, host, lateRecovery>>

(* #recoverDeliveryFailures                                                *)
StartsRecovery(w) ==
  /\ wait[w].state = "idle"
  /\ wait' = [wait EXCEPT ![w].state = "recovering", ![w].targets = failures]
  /\ SendAgain(failures)
  /\ UNCHANGED <<current, closedRun, requestVars, failures, host, cancellation, lateRecovery>>

Remaining(w, r) == wait[w].targets \ {r}
RecoverySettles(w, r) ==
  /\ wait[w].state = "recovering" /\ r \in wait[w].targets
  /\ wait' = [wait EXCEPT ![w].targets = Remaining(w, r)]
  /\ \/ Closed(r) /\ failures' = failures \ {r} /\ UNCHANGED lateRecovery
     \/ UNCHANGED <<failures, lateRecovery>>
     \/ lateRecovery' = lateRecovery \cup {r} /\ UNCHANGED failures
  /\ UNCHANGED <<current, closedRun, requestVars, wire, host, cancellation>>

LateRecovered(r) ==
  /\ r \in lateRecovery
  /\ Closed(r)
  /\ lateRecovery' = lateRecovery \ {r}
  /\ failures' = failures \ {r}
  /\ UNCHANGED <<current, closedRun, requestVars, wire, host, wait, cancellation>>

RecoveryIgnored == TRUE                    \* bug: reports success whatever is left open
Recovery == failures = {}
RecoveryOver(w) == wait[w].targets = {}
RecoveryEnds(w) ==
  /\ wait[w].state = "recovering" /\ RecoveryOver(w)
  /\ wait' = [wait EXCEPT ![w].state = IF Recovery THEN "ok" ELSE "failed"]
  /\ cancellation' = Ends(w)
  /\ UNCHANGED <<current, closedRun, requestVars, failures, wire, host, lateRecovery>>

-----------------------------------------------------------------------------

(* What settles a delivery: its acknowledgement, its failure, its timeout. *)
RequestStep(r) ==
  \/ Requested(r) \/ RequestedTooLate(r) \/ RequestRefused(r) \/ RequestUnknown(r) \/ RequestTimesOut(r)
  \/ Recovered(r) \/ RecoveryFails(r) \/ Decided(r) \/ DecisionTimesOut(r)
  \/ Resolved(r) \/ ResolutionFails(r)
LateStep(r) == LateRequested(r) \/ LateDelivered(r) \/ LateFails(r)
WaitStep(w) ==
  \/ WaitTimesOut(w) \/ StartsRecovery(w) \/ RecoveryEnds(w)
  \/ \E r \in Permissions : RecoverySettles(w, r)

BrokerNext ==
  \/ Arrive \/ RunEnds \/ RejectAll
  \/ \E r \in Permissions :
       \/ Request(r)
       \/ \E decision \in {"approved", "rejected", "cancelled"} : Decide(r, decision)
       \/ Requested(r) \/ RequestedTooLate(r) \/ RequestRefused(r) \/ RequestUnknown(r) \/ RequestTimesOut(r)
       \/ Recovered(r) \/ RecoveryFails(r) \/ Decided(r) \/ DecisionTimesOut(r)
       \/ Resolved(r) \/ ResolutionFails(r)
       \/ LateRequested(r) \/ LateDelivered(r) \/ LateFails(r) \/ LateRecovered(r)
  \/ \E w \in Waits :
       \/ \E closing \in BOOLEAN : RejectAllAndWait(w, closing)
       \/ WaitTimesOut(w) \/ StartsRecovery(w) \/ RecoveryEnds(w)
       \/ \E r \in Permissions : RecoverySettles(w, r)

(* Every delivery and every wait has a timer.                              *)
BrokerSpec ==
  /\ BrokerInit /\ [][BrokerNext]_brokerVars
  /\ \A r \in Permissions : WF_brokerVars(RequestStep(r)) /\ WF_brokerVars(LateStep(r))
  /\ \A w \in Waits : WF_brokerVars(WaitStep(w))

-----------------------------------------------------------------------------
(* Properties                                                              *)

BrokerTypeOK ==
  /\ current \in BOOLEAN /\ closedRun \in BOOLEAN
  /\ pc \in [Permissions -> {"idle", "requesting", "recovering", "asking", "resolving", "done"}]
  /\ leased \subseteq Permissions /\ resolvers \subseteq leased /\ failures \subseteq Permissions
  /\ lateRecovery \subseteq Permissions
  /\ settled \in [Permissions -> Reasons \cup {"none"}]
  /\ reason \in [Permissions -> Reasons \cup {"none"}]
  /\ lateDelivery \in [Permissions -> {"none", "requesting", "closing", "resolving"}]
  /\ answer \in [Permissions -> {"none", "allow", "reject", "error"}]
  /\ wire \in [Permissions -> SUBSET {"requested", "resolved"}]
  /\ host \in [Permissions -> Reasons \cup {"none", "requested"}]
  /\ wait \in [Waits -> [state : {"none", "waiting", "joined", "idle", "recovering", "ok", "failed"},
                         task : 0..MaxWaits, targets : SUBSET Permissions, covered : SUBSET Permissions]]
  /\ cancellation \in 0..MaxWaits

(* A request the host was told of is never forgotten half way: while the   *)
(* host shows it as open, its call, a delivery it left running or a        *)
(* recorded failure still owes the host its resolution.                    *)
NoOpenRequestForgotten ==
  \A r \in Permissions :
    host[r] = "requested" => pc[r] # "done" \/ lateDelivery[r] # "none" \/ r \in failures

(* The backend acts on a permission only after the host has recorded the   *)
(* approval, and what is rejected in a live run is not approved there.     *)
AnswerAgreesWithHost ==
  \A r \in Permissions :
    /\ answer[r] = "allow" => host[r] = "approved"
    /\ answer[r] = "reject" /\ current => host[r] \notin {"approved", "requested"}

WaitOutcome(w) == IF wait[w].task = 0 THEN "none" ELSE wait[wait[w].task].state

(* A wait that ends well has closed, at the host, every request that was   *)
(* pending or had a failed delivery when it was called.                    *)
WaitMeansClosed ==
  \A w \in Waits :
    WaitOutcome(w) = "ok" =>
      \A r \in wait[w].covered : host[r] # "requested"

(* Every request gives its lease back and every wait ends, whatever the    *)
(* host acknowledges.                                                      *)
BrokerAwaited ==
  \/ leased # {}
  \/ \E w \in Waits : wait[w].state # "none" /\ WaitOutcome(w) \notin {"ok", "failed"}
WaitsEnd == []<>~BrokerAwaited

(* No request stays open at the host, and nobody acts on an answer the     *)
(* host does not have.                                                     *)
RequestsAreSettled == AnswerAgreesWithHost /\ NoOpenRequestForgotten /\ WaitMeansClosed
=============================================================================
