--------------------------- MODULE CommandDelivery ---------------------------
(***************************************************************************)
(* DriverCommandDelivery (core/driver-command-delivery.ts): the status     *)
(* updates of a command travel through one promise chain per command.      *)
(* accept is tried once; a terminal status is fixed by the first finish    *)
(* and tried up to three times before a deadline.  An RPC that timed out   *)
(* may still reach the host later, and its reply may be lost.  reject      *)
(* refuses a command or a replay of one: it sends "failed" the way a       *)
(* terminal is sent, but past the chain and past what is tracked.          *)
(*                                                                         *)
(* A call of accept, finish or reject is one of DeliveryCalls.  The host   *)
(* is external: it logs each update it receives, in the order they arrive. *)
(* The "failed" of a refusal is logged as "refused", to tell it apart.     *)
(***************************************************************************)
EXTENDS Naturals, Sequences, FiniteSets

CONSTANTS
  Commands,                \* command ids
  DeliveryCalls,           \* the calls of accept, finish and reject that will be made
  NoCall,
  Terminals,               \* terminal statuses
  MaxTracked,              \* MAX_TRACKED_COMMANDS
  MaxAttempts              \* TERMINAL_UPDATE_MAX_ATTEMPTS

ASSUME NoCallAssumption == NoCall \notin DeliveryCalls
ASSUME TerminalsAssumption == {"none", "accepted", "refused"} \cap Terminals = {}
ASSUME DeliveryBounds == MaxTracked \in Nat /\ MaxAttempts \in Nat \ {0}

VARIABLES
  tracked,                 \* #trackedCommands: [known, terminal, task]
  chain,                   \* command |-> calls queued on tracked.delivery
  broken,                  \* commands whose tracked.delivery is rejected
  delivery,                \* the state of every call
  net,                     \* updates sent and not (yet) received
  answered,                \* [delivery, attempt] whose update the host received
  received                 \* command |-> the updates it received, in order

deliveryVars == <<tracked, chain, broken, delivery, net, answered, received>>

Idle == [op |-> "none", cmd |-> "none", update |-> "none", replay |-> FALSE,
         state |-> "idle", attempt |-> 0, joined |-> NoCall,
         asked |-> FALSE, mark |-> 0]   \* asked, mark: history, a replay and the log it saw
Unsettled == {"queued", "sending", "joined"}
SettledStates == {"resolved", "rejected"}

DeliveryInit ==
  /\ tracked = [c \in Commands |-> [known |-> FALSE, terminal |-> "none", task |-> NoCall]]
  /\ chain = [c \in Commands |-> << >>]
  /\ broken = {}
  /\ delivery = [k \in DeliveryCalls |-> Idle]
  /\ net = {}
  /\ answered = {}
  /\ received = [c \in Commands |-> << >>]

(* receive, for a command id seen for the first time; a replay changes nothing. *)
Receive(c) ==
  /\ ~tracked[c].known
  /\ Cardinality({d \in Commands : tracked[d].known}) < MaxTracked
  /\ tracked' = [tracked EXCEPT ![c].known = TRUE]
  /\ UNCHANGED <<chain, broken, delivery, net, answered, received>>

(* The dispatcher accepts a command only while it has no terminal. *)
Accept(k, c) ==
  /\ delivery[k].state = "idle"
  /\ tracked[c].known /\ tracked[c].terminal = "none"
  /\ delivery' = [delivery EXCEPT ![k] = [Idle EXCEPT !.op = "accept", !.cmd = c,
                                              !.update = "accepted", !.state = "queued"]]
  /\ chain' = [chain EXCEPT ![c] = Append(@, k)]
  /\ UNCHANGED <<tracked, broken, net, answered, received>>

(* Mutant: the status of the latest finish replaces the first one. *)
TerminalOfLatest(c, update) == update

TerminalOf(c, update) == IF tracked[c].terminal = "none" THEN update ELSE tracked[c].terminal

(* finish up to its first await: join the task in progress, or queue one. *)
EnterFinish(k, c, update, replay, asked, mark) ==
  /\ tracked' = [tracked EXCEPT ![c].terminal = TerminalOf(c, update),
                                ![c].task = IF @ = NoCall THEN k ELSE @]
  /\ chain' = IF tracked[c].task = NoCall THEN [chain EXCEPT ![c] = Append(@, k)] ELSE chain
  /\ delivery' = [delivery EXCEPT ![k] =
       [op |-> "finish", cmd |-> c, update |-> TerminalOf(c, update), replay |-> replay,
        state |-> IF tracked[c].task = NoCall THEN "queued" ELSE "joined",
        attempt |-> 0, joined |-> tracked[c].task, asked |-> asked, mark |-> mark]]
  /\ UNCHANGED <<broken, net, answered, received>>

Finish(k, c, update, replay) ==
  /\ delivery[k].state = "idle"
  /\ tracked[c].known
  /\ replay => tracked[c].terminal = update
  /\ EnterFinish(k, c, update, replay, replay, Len(received[c]))

(* reject sends at once, whatever is tracked of the command. *)
Reject(k, c) ==
  /\ delivery[k].state = "idle"
  /\ delivery' = [delivery EXCEPT ![k] =
       [Idle EXCEPT !.op = "reject", !.cmd = c, !.update = "refused", !.state = "sending",
                    !.attempt = 1, !.asked = TRUE, !.mark = Len(received[c])]]
  /\ net' = net \cup {[delivery |-> k, attempt |-> 1]}
  /\ UNCHANGED <<tracked, chain, broken, answered, received>>

(* Mutant: a replayed finish is content with the task it joined. *)
RedeliversNever(k) == FALSE

Redelivers(k) == delivery[k].replay

(* The task a finish awaited has settled. *)
AfterJoined(k) ==
  /\ delivery[k].state = "joined"
  /\ \/ /\ delivery[delivery[k].joined].state = "resolved"
        /\ Redelivers(k)
        /\ EnterFinish(k, delivery[k].cmd, delivery[k].update, FALSE, delivery[k].asked, delivery[k].mark)
     \/ /\ delivery[delivery[k].joined].state \in SettledStates
        /\ ~(delivery[delivery[k].joined].state = "resolved" /\ Redelivers(k))
        /\ delivery' = [delivery EXCEPT ![k].state = delivery[delivery[k].joined].state]
        /\ UNCHANGED <<tracked, chain, broken, net, answered, received>>

Sends(k, attempt) ==
  /\ delivery' = [delivery EXCEPT ![k].state = "sending", ![k].attempt = attempt]
  /\ net' = net \cup {[delivery |-> k, attempt |-> attempt]}

(* The chain reaches the call: the first attempt is sent. *)
Begin(k) ==
  LET c == delivery[k].cmd IN
  /\ delivery[k].state = "queued"
  /\ c \notin broken
  /\ Head(chain[c]) = k
  /\ Sends(k, 1)
  /\ UNCHANGED <<tracked, chain, broken, answered, received>>

(* Mutant: a call behind a rejected link is forgotten. *)
BeginBrokenNever(k) == FALSE

(* A chain whose earlier link was rejected rejects the call unsent. *)
BeginBroken(k) ==
  LET c == delivery[k].cmd IN
  /\ delivery[k].state = "queued"
  /\ c \in broken
  /\ Head(chain[c]) = k
  /\ delivery' = [delivery EXCEPT ![k].state = "rejected"]
  /\ chain' = [chain EXCEPT ![c] = Tail(@)]
  /\ UNCHANGED <<tracked, broken, net, answered, received>>

Succeed(k) ==
  LET c == delivery[k].cmd IN
  /\ delivery[k].state = "sending" /\ delivery[k].op # "reject"
  /\ [delivery |-> k, attempt |-> delivery[k].attempt] \in answered
  /\ delivery' = [delivery EXCEPT ![k].state = "resolved"]
  /\ chain' = [chain EXCEPT ![c] = Tail(@)]
  /\ tracked' = [tracked EXCEPT ![c].task = IF @ = k THEN NoCall ELSE @]
  /\ UNCHANGED <<broken, net, answered, received>>

(* Mutant: a failed accept leaves the chain usable. *)
BreaksUnlessAccept(k) == delivery[k].op # "accept"

Breaks(k) == TRUE

(* The only attempt of an accept, or the last of a terminal, failed. *)
GiveUp(k) ==
  LET c == delivery[k].cmd IN
  /\ delivery[k].state = "sending" /\ delivery[k].op # "reject"
  /\ delivery' = [delivery EXCEPT ![k].state = "rejected"]
  /\ chain' = [chain EXCEPT ![c] = Tail(@)]
  /\ broken' = IF Breaks(k) THEN broken \cup {c} ELSE broken
  /\ UNCHANGED <<tracked, net, answered, received>>

(* A refusal was answered, or its last attempt failed: the chain does not  *)
(* hear of it.                                                             *)
RefusalSettles(k) ==
  /\ delivery[k].state = "sending" /\ delivery[k].op = "reject"
  /\ \E final \in SettledStates :
       /\ final = "resolved" => [delivery |-> k, attempt |-> delivery[k].attempt] \in answered
       /\ delivery' = [delivery EXCEPT ![k].state = final]
  /\ UNCHANGED <<tracked, chain, broken, net, answered, received>>

MayRetry(k) == delivery[k].op # "accept" /\ delivery[k].attempt < MaxAttempts

(* An attempt failed or timed out and the deadline has not passed. *)
Retry(k) ==
  /\ delivery[k].state = "sending"
  /\ MayRetry(k)
  /\ Sends(k, delivery[k].attempt + 1)
  /\ UNCHANGED <<tracked, chain, broken, answered, received>>

(* The host receives an update, whether or not its sender still waits. *)
HostReceive(m) ==
  /\ net' = net \ {m}
  /\ answered' = answered \cup {m}
  /\ received' = [received EXCEPT ![delivery[m.delivery].cmd] = Append(@, delivery[m.delivery].update)]
  /\ UNCHANGED <<tracked, chain, broken, delivery>>

AllSettled == \A k \in DeliveryCalls : delivery[k].state \in SettledStates

(* Every call made so far has settled and no call is left to make. *)
Done == AllSettled /\ UNCHANGED deliveryVars

(* The calls differ in nothing but their names: one that is idle is made.  *)
NextCall == CHOOSE k \in DeliveryCalls : delivery[k].state = "idle"

Asks ==
  /\ \E k \in DeliveryCalls : delivery[k].state = "idle"
  /\ \E c \in Commands :
       \/ Accept(NextCall, c) \/ Reject(NextCall, c)
       \/ \E update \in Terminals, replay \in BOOLEAN : Finish(NextCall, c, update, replay)

Progress(k) ==
  \/ AfterJoined(k) \/ Begin(k) \/ BeginBroken(k)
  \/ Succeed(k) \/ GiveUp(k) \/ RefusalSettles(k) \/ Retry(k)

DeliveryNext ==
  \/ \E c \in Commands : Receive(c)
  \/ Asks
  \/ \E k \in DeliveryCalls : Progress(k)
  \/ \E m \in net : HostReceive(m)
  \/ Done

(* Timers fire and promise reactions run: a call that can move does.  The  *)
(* network owes nothing.                                                   *)
DeliveryFairness == \A k \in DeliveryCalls : WF_deliveryVars(Progress(k))

DeliverySpec == DeliveryInit /\ [][DeliveryNext]_deliveryVars /\ DeliveryFairness

-----------------------------------------------------------------------------
DeliveryTypeOK ==
  /\ tracked \in [Commands -> [known : BOOLEAN, terminal : Terminals \cup {"none"},
                               task : DeliveryCalls \cup {NoCall}]]
  /\ \A c \in Commands : chain[c] \in Seq(DeliveryCalls)
  /\ broken \subseteq Commands
  /\ \A k \in DeliveryCalls : delivery[k].state \in Unsettled \cup SettledStates \cup {"idle"}
  /\ net \cup answered \subseteq [delivery : DeliveryCalls, attempt : 1..MaxAttempts]
  /\ \A c \in Commands : received[c] \in Seq(Terminals \cup {"accepted", "refused"})

(* What the chain of a command sends is one verdict: after it the host     *)
(* sees that verdict again or the refusal of a replay, never another       *)
(* verdict, nor an "accepted" whose RPC timed out and which arrives after  *)
(* the terminal was sent: a failed accept breaks the chain, so no terminal *)
(* can follow it.  A refusal is sent past the chain, so it may come before *)
(* the verdict or after it.                                                *)
NothingAfterVerdict ==
  \A c \in Commands : \A i, j \in DOMAIN received[c] :
    i < j /\ received[c][i] \in Terminals => received[c][j] \in {received[c][i], "refused"}

(* A finish that resolved was received, with the status the caller asked   *)
(* for or the one fixed before; and a replayed finish was received again   *)
(* after the replay, which is why it was asked for.  A refusal that        *)
(* resolved was received after it was asked for.                           *)
ResolvedFinishWasReceived ==
  \A k \in DeliveryCalls :
    delivery[k].op \in {"finish", "reject"} /\ delivery[k].state = "resolved" =>
      \E i \in DOMAIN received[delivery[k].cmd] :
        /\ received[delivery[k].cmd][i] = delivery[k].update
        /\ delivery[k].asked => i > delivery[k].mark

(* No call waits for ever, whatever the network loses.                     *)
DeliveryAwaited == \E k \in DeliveryCalls : delivery[k].state \in Unsettled
CallsSettle == []<>~DeliveryAwaited

(* A verdict the host has stands but for a refusal, and a caller that is   *)
(* told of a delivery is told the truth.                                   *)
VerdictStands == NothingAfterVerdict /\ ResolvedFinishWasReceived
=============================================================================
