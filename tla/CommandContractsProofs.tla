------------------------ MODULE CommandContractsProofs ------------------------
(***************************************************************************)
(* What the commands of a driver rest on, for every value of the constants:*)
(* the external call of an mcp.execute happens at most once over any number*)
(* of driver instances; the chain of a command sends one verdict; a        *)
(* permission request is settled for both of its sides; the backend is     *)
(* stopped in order; and a run is charged its own tokens, once.            *)
(***************************************************************************)
EXTENDS McpEffect, CommandDelivery, PermissionBroker, BackendLifecycle, RunUsage, TLAPS

(***************************************************************************)
(* The external call.  The strengthening says which step of a life knows   *)
(* what: a life that has not called yet, one that is settling its call, and*)
(* one that carries an outcome each agree with the ledger about the call,  *)
(* and a request that is still on its way belongs to a life that was       *)
(* started.                                                                *)
(***************************************************************************)

(* The steps of a life that has not called the tool.                       *)
NotCalled ==
  \/ task.pc \in {"pushRunning", "observe", "prepare", "claim", "claimAgain", "execute",
                  "pushCancelled", "cancelled"}
  \/ task.pc = "catch" /\ task.error \in {"aborted", "failed"}
  \/ task.pc \in {"pushFailed", "failed"} /\ task.error # "unknown"

Called(token) == Len(executed) = 1 /\ executed[1] = token

(* At most one call, made under the token of the ledger, and settled as    *)
(* succeeded only if it was made.                                          *)
CallsAreClaimed ==
  /\ Len(executed) \in {0, 1}
  /\ Len(executed) = 1 => executed[1] = ledger.token /\ ledger.kind # "intent"
  /\ ledger.kind = "succeeded" => Len(executed) = 1
  /\ ledger.kind # "intent" => ledger.token >= 1

(* What a life knows at each step.                                         *)
LifeKnows ==
  /\ task.pc # "none" => life >= 1
  /\ NotCalled => ~Called(life)
  /\ task.pc = "execute" => ledger.token = life /\ ledger.kind # "intent"
  /\ task.pc \in {"settle", "settleAgain"} =>
       Len(executed) = 1 /\ executed[1] = life /\ task.settlement # "none"
  /\ task.pc \in {"pushCompleted", "completed"} => ledger.kind = "succeeded"
  /\ (task.pc \in {"catch", "pushFailed", "failed"} /\ task.error = "unknown") =>
       ledger.kind = "unknown"
  /\ task.pc = "catch" => task.error # "none"

(* Tokens are those of lives that were started; a settlement on its way    *)
(* is that of the call.                                                    *)
TokensAreOfLives ==
  /\ ledger.token <= life
  /\ \A request \in late :
       request.token <= life /\ (request.op = "settle" => Called(request.token))

McpIndInv ==
  /\ McpTypeOK /\ CallsAreClaimed /\ LifeKnows /\ TokensAreOfLives
  /\ VerdictIsTrue
  /\ verdict # "none" => task.pc \in Ended

(* The ledger, given a request of a started life, keeps its promises.      *)
LEMMA LedgerKeeps ==
  ASSUME McpIndInv, NEW request \in Requests, request.token <= life,
         request.op = "settle" => Called(request.token)
  PROVE  LET after == LedgerAfter(request) IN
         /\ after \in [kind : {"intent", "claimed", "succeeded", "unknown"}, token : 0..MaxLives]
         /\ after.token <= life
         /\ ledger.kind # "intent" => after.token = ledger.token /\ after.kind # "intent"
         /\ ledger.kind \in {"succeeded", "unknown"} => after = ledger
         /\ after.kind # "intent" => after.token >= 1
         /\ after.kind = "succeeded" => Len(executed) = 1
         /\ (ledger.kind = "intent" /\ after # ledger) => after.token = request.token
         /\ (~LedgerRefuses(request) /\ request.op = "claim" /\ after.kind = "claimed")
              => after.token = request.token
  BY LivesBound DEF McpIndInv, McpTypeOK, CallsAreClaimed, TokensAreOfLives, LedgerAfter, Called,
     LedgerRefuses, Requests, Lives

(* The initial state has its types.                                        *)
LEMMA InitTypes == McpInit => McpTypeOK
<1> SUFFICES ASSUME McpInit PROVE McpTypeOK OBVIOUS
<1> USE DEF McpInit
<1>1. At("none") \in [pc : Ended \cup AfterPrepare \cup Outcomes \cup
                    {"pushRunning", "observe", "prepare", "catch",
                     "completed", "cancelled", "failed"},
               error : {"none", "aborted", "failed", "unknown", "unsettled"},
               settlement : {"none", "succeeded", "unknown"}] BY DEF At, Ended
<1>2. executed \in Seq(Lives) OBVIOUS
<1>3. ledger \in [kind : {"intent", "claimed", "succeeded", "unknown"}, token : 0..MaxLives]
  BY LivesBound
<1> QED BY LivesBound, <1>1, <1>2, <1>3 DEF McpTypeOK

(* The call: the life holds the claim and nobody has called.                *)
LEMMA ExecuteStep == ASSUME McpIndInv, Execute PROVE McpIndInv'
<1> USE DEF McpIndInv, Execute
<1>1. life \in Lives /\ Lives \subseteq Nat
  BY LivesBound DEF Lives, LifeKnows, McpTypeOK
<1>2. Len(executed) \in Nat /\ executed \in Seq(Lives)
  BY DEF McpTypeOK
<1>3. ~Called(life) BY DEF NotCalled, LifeKnows
<1>4. ledger.token = life BY DEF LifeKnows
<1>5. Len(executed) = 0 BY <1>2, <1>3, <1>4 DEF CallsAreClaimed, Called
<1>6. executed' \in Seq(Lives) /\ Called(life)' BY <1>1, <1>2, <1>5 DEF Called
<1>7. McpTypeOK' BY <1>6 DEF McpTypeOK, AfterPrepare
<1>8. CallsAreClaimed' BY <1>6, <1>4 DEF CallsAreClaimed, LifeKnows, Called
<1>9. LifeKnows' BY <1>6 DEF LifeKnows, NotCalled, McpTypeOK, Called
<1>10. TokensAreOfLives' BY <1>5 DEF TokensAreOfLives, Called
<1>11. VerdictIsTrue' BY DEF VerdictIsTrue, Ended
<1> QED BY <1>7, <1>8, <1>9, <1>10, <1>11 DEF Ended

(* A crash may leave a call made, a request sent or a verdict recorded.     *)
LEMMA CrashStep == ASSUME McpIndInv, Crash PROVE McpIndInv'
<1> USE DEF McpIndInv, Crash
<1>1. life \in Lives /\ Lives \subseteq Nat
  BY LivesBound DEF Lives, LifeKnows, McpTypeOK, Ended
<1>2. Len(executed) \in Nat /\ executed \in Seq(Lives)
  BY DEF McpTypeOK
<1>3. late' \subseteq late \cup {ClaimRequest, SettleRequest} OBVIOUS
<1>4. CASE task.pc = "execute" /\ executed' = Append(executed, life)
  <2>3. ~Called(life) /\ ledger.token = life BY <1>4 DEF NotCalled, LifeKnows
  <2>5. Len(executed) = 0 BY <1>2, <2>3 DEF CallsAreClaimed, Called
  <2>6. executed' \in Seq(Lives) /\ Called(life)' BY <1>1, <1>2, <2>5, <1>4 DEF Called
  <2>7. McpTypeOK' BY <2>6, <1>4 DEF McpTypeOK, Ended, At
  <2>8. CallsAreClaimed' BY <2>6, <2>3, <1>4 DEF CallsAreClaimed, LifeKnows, Called
  <2>9. LifeKnows' BY <1>1, <1>4 DEF LifeKnows, NotCalled, McpTypeOK, At, Ended
  <2>10. TokensAreOfLives' BY <2>5, <1>4 DEF TokensAreOfLives, Called
  <2>11. VerdictIsTrue' BY <1>4 DEF VerdictIsTrue, Ended
  <2> QED BY <2>7, <2>8, <2>9, <2>10, <2>11 DEF Ended, At
<1>5. CASE executed' = executed
  <2>7. McpTypeOK' BY <1>5, <1>1 DEF McpTypeOK, LifeKnows, Ended, At, Requests, ClaimRequest, SettleRequest, Verdict
  <2>8. CallsAreClaimed' BY <1>5 DEF CallsAreClaimed
  <2>9. LifeKnows' BY <1>5, <1>1 DEF LifeKnows, NotCalled, McpTypeOK, Called, At, Ended
  <2>10. TokensAreOfLives' BY <1>5, <1>1 DEF TokensAreOfLives, Called, LifeKnows, ClaimRequest, SettleRequest, McpTypeOK
  <2>11. VerdictIsTrue'
    <3>1. verdict = "none" BY DEF Ended
    <3>2. CASE verdict' = "none" BY <3>2 DEF VerdictIsTrue
    <3>3. CASE task.pc = "completed" /\ verdict' = "completed"
      BY <3>3 DEF VerdictIsTrue, LifeKnows, CallsAreClaimed
    <3>4. CASE task.pc = "failed" /\ task.error = "unknown" /\ verdict' = "failedUnknown"
      BY <3>4 DEF VerdictIsTrue, LifeKnows
    <3>5. CASE NotCalled /\ verdict' \in {"cancelled", "failed"}
      <4>1. ~Called(life) BY <3>5 DEF LifeKnows
      <4> QED BY <3>5, <4>1, <1>5 DEF VerdictIsTrue, Called, CallsAreClaimed
    <3> QED BY <3>1, <3>2, <3>3, <3>4, <3>5 DEF Verdict, NotCalled
  <2> QED BY <2>7, <2>8, <2>9, <2>10, <2>11 DEF Ended, At
<1> QED BY <1>4, <1>5

(* Every step keeps the strengthening.                                     *)
LEMMA McpInductive == McpSpec => []McpIndInv
<1> USE LivesBound
<1>1. McpInit => McpIndInv
  <2> SUFFICES ASSUME McpInit PROVE McpIndInv
    OBVIOUS
  <2> USE DEF McpInit, At
  <2>1. McpTypeOK
    BY InitTypes
  <2>2. CallsAreClaimed /\ LifeKnows /\ TokensAreOfLives /\ VerdictIsTrue
    BY DEF CallsAreClaimed, LifeKnows, TokensAreOfLives, VerdictIsTrue, NotCalled, Called
  <2> QED BY <2>1, <2>2 DEF McpIndInv
<1>2. McpIndInv /\ [McpNext]_mcpVars => McpIndInv'
  <2> SUFFICES ASSUME McpIndInv, [McpNext]_mcpVars PROVE McpIndInv'
    OBVIOUS
  <2> USE DEF McpIndInv, McpTypeOK, CallsAreClaimed, LifeKnows, TokensAreOfLives,
              VerdictIsTrue, NotCalled, Called, Ended, AfterPrepare, Outcomes
  <2>1. CASE StartTask
    <3>1. life' \in 0..MaxLives /\ life' = life + 1 /\ task'.pc = "pushRunning"
      BY <2>1 DEF StartTask, At
    <3>2. McpTypeOK'
      <4>1. task' \in [pc : Ended \cup AfterPrepare \cup Outcomes \cup
                          {"pushRunning", "observe", "prepare", "catch",
                           "completed", "cancelled", "failed"},
                     error : {"none", "aborted", "failed", "unknown", "unsettled"},
                     settlement : {"none", "succeeded", "unknown"}]
        BY <2>1 DEF StartTask, At
      <4> QED BY <2>1, <3>1, <4>1 DEF StartTask
    <3>3. CallsAreClaimed' BY <2>1 DEF StartTask
    <3>4. LifeKnows' BY <2>1, <3>1 DEF StartTask
    <3>5. TokensAreOfLives'
      <4>1. \A request \in late : request.token <= life + 1
        BY DEF Requests, Lives
      <4> QED BY <2>1, <4>1 DEF StartTask
    <3>6. VerdictIsTrue' BY <2>1 DEF StartTask
    <3> QED BY <2>1, <3>2, <3>3, <3>4, <3>5, <3>6 DEF StartTask
  <2>2. CASE Abort \/ RunReleased
    <3>1. McpTypeOK' BY <2>2 DEF Abort, RunReleased
    <3>2. CallsAreClaimed' BY <2>2 DEF Abort, RunReleased
    <3>3. LifeKnows' BY <2>2 DEF Abort, RunReleased
    <3>4. TokensAreOfLives' BY <2>2 DEF Abort, RunReleased
    <3>5. VerdictIsTrue' BY <2>2 DEF Abort, RunReleased
    <3>6. (verdict # "none" => task.pc \in Ended)' BY <2>2 DEF Abort, RunReleased
    <3> QED BY <3>1, <3>2, <3>3, <3>4, <3>5, <3>6
  <2>3. CASE Crash
    BY <2>3, CrashStep
  <2>4. CASE PushRunning \/ Observe \/ Prepare \/ PrepareAborted
    BY <2>4 DEF PushRunning, Observe, Observed, Prepare, PrepareAborted, Stays, At, Catch,
                Resolution
  <2>5. CASE Claim
    <3>1. ClaimRequest \in Requests /\ ClaimRequest.token = life /\ ClaimRequest.op = "claim"
      BY <2>5 DEF Claim, ClaimRequest, Requests, Lives
    <3>2. ASSUME NEW next, Attempt(ClaimRequest, Claimed, next), task.pc \in {"claim", "claimAgain"},
                 next \in {At("claimAgain"), Unclaimed}
          PROVE McpIndInv'
      BY <3>1, <3>2, LedgerKeeps
         DEF Attempt, Leaving, Claimed, Unclaimed, Resolution, At, Catch
    <3> QED BY <2>5, <3>2 DEF Claim
  <2>6. CASE Execute
    BY <2>6, ExecuteStep
  <2>7. CASE Settle
    <3>1. SettleRequest \in Requests /\ SettleRequest.token = life /\ SettleRequest.op = "settle"
      BY <2>7 DEF Settle, SettleRequest, Requests, Lives
    <3>2. ASSUME NEW next, Attempt(SettleRequest, Settlement, next),
                 task.pc \in {"settle", "settleAgain"},
                 next \in {[task EXCEPT !.pc = "settleAgain"], Catch("unsettled")}
          PROVE McpIndInv'
      BY <3>1, <3>2, LedgerKeeps
         DEF Attempt, Leaving, Settlement, Resolution, At, Catch
    <3> QED BY <2>7, <3>2 DEF Settle
  <2>8. CASE Handle \/ PushOutcome
    BY <2>8 DEF Handle, Handled, PushOutcome, Outcome, Stays, At
  <2>9. CASE ReportVerdict
    BY <2>9 DEF ReportVerdict, Verdict, At
  <2>10. CASE LateRequest
    BY <2>10, LedgerKeeps DEF LateRequest
  <2>11. CASE Repair
    BY <2>11 DEF Repair
  <2>12. CASE Over \/ UNCHANGED mcpVars
    BY <2>12 DEF Over, mcpVars
  <2> QED BY <2>1, <2>2, <2>3, <2>4, <2>5, <2>6, <2>7, <2>8, <2>9, <2>10, <2>11, <2>12
          DEF McpNext
<1> QED BY <1>1, <1>2, PTL DEF McpSpec

(* Every variable keeps its type.                                          *)
THEOREM McpTypes == McpSpec => []McpTypeOK
<1>1. McpIndInv => McpTypeOK BY DEF McpIndInv
<1> QED BY <1>1, McpInductive, PTL

(* The external tool is called at most once, over all the instances the    *)
(* command is dispatched to.                                               *)
THEOREM CalledOnce == McpSpec => []CalledAtMostOnce
<1>1. McpIndInv => CalledAtMostOnce
  <2>1. CASE Len(executed) = 0 BY <2>1 DEF CalledAtMostOnce
  <2>2. CASE Len(executed) = 1 BY <2>2 DEF CalledAtMostOnce
  <2> QED BY <2>1, <2>2 DEF McpIndInv, CallsAreClaimed
<1> QED BY <1>1, McpInductive, PTL

(* What the host is told agrees with the call and with the ledger.         *)
THEOREM VerdictsAreTrue == McpSpec => []VerdictIsTrue
<1>1. McpIndInv => VerdictIsTrue BY DEF McpIndInv
<1> QED BY <1>1, McpInductive, PTL

-----------------------------------------------------------------------------
(***************************************************************************)
(* The delivery of a status.  A chain sends no second verdict because of   *)
(* the order of the chain: an accept is queued before every finish of its  *)
(* command, so a terminal is sent only after the accept has settled, and   *)
(* then either its update was received or the chain is broken and nothing  *)
(* follows it.  A replayed finish was received again because the task it   *)
(* waited for at last was queued after the replay was asked for.  A        *)
(* refusal is in no chain, so nothing that is ordered waits for it.        *)
(***************************************************************************)

DeliveryStates == [op : {"none", "accept", "finish", "reject"}, cmd : Commands \cup {"none"},
                   update : Terminals \cup {"accepted", "refused", "none"}, replay : BOOLEAN,
                   state : Unsettled \cup SettledStates \cup {"idle"},
                   attempt : 0..MaxAttempts, joined : DeliveryCalls \cup {NoCall},
                   asked : BOOLEAN, mark : Nat]

TrackedStates == [known : BOOLEAN, terminal : Terminals \cup {"none"},
                  task : DeliveryCalls \cup {NoCall}]

TypesAreKept ==
  /\ tracked \in [Commands -> [known : BOOLEAN, terminal : Terminals \cup {"none"},
                               task : DeliveryCalls \cup {NoCall}]]
  /\ broken \subseteq Commands
  /\ net \cup answered \subseteq [delivery : DeliveryCalls, attempt : 1..MaxAttempts]
  /\ chain \in [Commands -> Seq(DeliveryCalls)]
  /\ delivery \in [DeliveryCalls -> DeliveryStates]
  /\ received \in [Commands -> Seq(Terminals \cup {"accepted", "refused"})]

IsOf(k, op, c) == delivery[k].op = op /\ delivery[k].cmd = c
WasSent(k) == delivery[k].attempt > 0
Message(k, attempt) == [delivery |-> k, attempt |-> attempt]

(* What a call carries: an accept the one update, a finish the terminal    *)
(* fixed for its command, a reject the refusal, which it never queues.     *)
(* Its mark is a place of the log.                                         *)
CallsCarryTheTerminal ==
  \A k \in DeliveryCalls :
    /\ delivery[k].state = "idle" <=> delivery[k].op = "none"
    /\ delivery[k].op # "none" =>
         delivery[k].cmd \in Commands /\ delivery[k].mark <= Len(received[delivery[k].cmd])
    /\ delivery[k].op = "accept" =>
         /\ delivery[k].update = "accepted" /\ delivery[k].attempt <= 1
         /\ delivery[k].state # "joined"
    /\ delivery[k].op = "finish" =>
         delivery[k].update \in Terminals /\ tracked[delivery[k].cmd].terminal = delivery[k].update
    /\ delivery[k].op = "reject" =>
         delivery[k].update = "refused" /\ delivery[k].state \notin {"queued", "joined"}
    /\ delivery[k].state \in {"idle", "queued", "joined"} => ~WasSent(k)
    /\ delivery[k].state = "sending" => WasSent(k)

(* The chain holds the calls that are queued or sending, in the order in   *)
(* which they were queued: the accepts first, and only its head sends.     *)
ChainIsAQueue ==
  \A c \in Commands : \A i \in 1..Len(chain[c]) :
    /\ delivery[chain[c][i]].cmd = c /\ delivery[chain[c][i]].op # "reject"
    /\ delivery[chain[c][i]].state \in {"queued", "sending"}
    /\ delivery[chain[c][i]].state = "sending" => i = 1
    /\ \A j \in 1..Len(chain[c]) :
         /\ chain[c][i] = chain[c][j] => i = j
         /\ i < j /\ delivery[chain[c][i]].op = "finish" => delivery[chain[c][j]].op = "finish"
ChainHoldsAll ==
  \A k \in DeliveryCalls : delivery[k].state \in {"queued", "sending"} /\ delivery[k].op # "reject" =>
    \E i \in 1..Len(chain[delivery[k].cmd]) : chain[delivery[k].cmd][i] = k

(* An update on the wire, or received, was sent by its call, once.         *)
WireIsTrue ==
  /\ \A m \in net \cup answered : m.attempt <= delivery[m.delivery].attempt
  /\ net \cap answered = {}

(* An accept that has settled was received, or broke the chain.            *)
AcceptsSettle ==
  \A k \in DeliveryCalls : delivery[k].op = "accept" /\ WasSent(k) =>
    /\ delivery[k].state = "resolved" => Message(k, 1) \in answered
    /\ delivery[k].state = "rejected" => delivery[k].cmd \in broken

(* Once a finish of a command was sent, no accept is queued or on the wire.*)
FinishIsLast ==
  \A k, f \in DeliveryCalls : delivery[f].op = "finish" /\ WasSent(f) =>
    /\ IsOf(k, "accept", delivery[f].cmd) => Message(k, 1) \notin net
    /\ IsOf(k, "accept", delivery[f].cmd) => delivery[k].state \notin {"queued", "sending"}

(* A verdict the host has is the terminal, sent by a finish; after it come *)
(* that verdict and refusals.                                              *)
VerdictsAreSent ==
  \A c \in Commands : \A i \in 1..Len(received[c]) : received[c][i] \in Terminals =>
    /\ received[c][i] = tracked[c].terminal
    /\ \E f \in DeliveryCalls : IsOf(f, "finish", c) /\ WasSent(f)
    /\ \A j \in 1..Len(received[c]) : i < j => received[c][j] \in {received[c][i], "refused"}

WasReceived(t) == \E attempt \in 1..MaxAttempts : Message(t, attempt) \in answered
ReceivedAfter(t, place) ==
  WasReceived(t) =>
    \E i \in 1..Len(received[delivery[t].cmd]) :
      i > place /\ received[delivery[t].cmd][i] = delivery[t].update

(* The task of a command is a finish that was queued.                      *)
TasksAreQueued ==
  \A c \in Commands : tracked[c].task # NoCall =>
    /\ IsOf(tracked[c].task, "finish", c)
    /\ delivery[tracked[c].task].state \in {"queued", "sending", "rejected"}

(* What a finish or a reject sends is received after the place it marked.  *)
FinishesAreReceived ==
  \A k \in DeliveryCalls :
    delivery[k].op \in {"finish", "reject"} => ReceivedAfter(k, delivery[k].mark)

(* A finish joined a task; a replay was asked for before any later task    *)
(* was queued, and joins one of those when the first has settled.          *)
JoinIsLater(k) ==
  LET t == delivery[k].joined
      owning == tracked[delivery[k].cmd].task
  IN  /\ t \in DeliveryCalls /\ IsOf(t, "finish", delivery[k].cmd)
      /\ delivery[t].state \in {"queued", "sending", "resolved", "rejected"}
      /\ delivery[t].state = "resolved" => WasReceived(t)
      /\ delivery[k].asked /\ ~delivery[k].replay => ReceivedAfter(t, delivery[k].mark)
      /\ delivery[k].asked /\ delivery[k].replay /\ owning \notin {NoCall, t} =>
           ReceivedAfter(owning, delivery[k].mark)
JoinsAreLater ==
  \A k \in DeliveryCalls :
    delivery[k].op = "finish" /\ delivery[k].state = "joined" => JoinIsLater(k)

DeliveryIndInv ==
  /\ TypesAreKept /\ CallsCarryTheTerminal /\ ChainIsAQueue /\ ChainHoldsAll /\ WireIsTrue
  /\ AcceptsSettle /\ FinishIsLast /\ VerdictsAreSent /\ TasksAreQueued /\ FinishesAreReceived
  /\ JoinsAreLater /\ ResolvedFinishWasReceived

-----------------------------------------------------------------------------
(* A step that leaves of the calls everything but their states.            *)
SameStories ==
  \A q \in DeliveryCalls :
    /\ delivery'[q].op = delivery[q].op /\ delivery'[q].cmd = delivery[q].cmd
    /\ delivery'[q].update = delivery[q].update /\ delivery'[q].replay = delivery[q].replay
    /\ delivery'[q].attempt = delivery[q].attempt /\ delivery'[q].joined = delivery[q].joined
    /\ delivery'[q].asked = delivery[q].asked /\ delivery'[q].mark = delivery[q].mark

(* The chain's queued or sending head: its command, and that it is one.    *)
LEMMA HeadOfChain ==
  ASSUME TypesAreKept, CallsCarryTheTerminal, ChainIsAQueue, ChainHoldsAll,
         NEW k \in DeliveryCalls, delivery[k].state \in {"queued", "sending"}, delivery[k].op # "reject"
  PROVE  LET c == delivery[k].cmd IN
         /\ c \in Commands /\ delivery[k].op \in {"accept", "finish"}
         /\ chain[c] \in Seq(DeliveryCalls) /\ chain[c] # << >>
         /\ delivery[k].state = "sending" => Head(chain[c]) = k
<1>1. delivery[k].op \in {"accept", "finish"} /\ delivery[k].cmd \in Commands
  BY DEF TypesAreKept, DeliveryStates, CallsCarryTheTerminal
<1>2. PICK i \in 1..Len(chain[delivery[k].cmd]) : chain[delivery[k].cmd][i] = k
  BY DEF ChainHoldsAll
<1>3. chain[delivery[k].cmd] \in Seq(DeliveryCalls)
  BY <1>1 DEF TypesAreKept
<1>4. delivery[k].state = "sending" => i = 1
  BY <1>1, <1>2 DEF ChainIsAQueue
<1> QED BY <1>1, <1>2, <1>3, <1>4

LEMMA StateIsTyped ==
  ASSUME NEW msg \in DeliveryStates, NEW final \in SettledStates
  PROVE  [msg EXCEPT !.state = final] \in DeliveryStates
BY DEF DeliveryStates

(* The head settles: its chain has been rejected, its update was received, *)
(* or no attempt is left.                                                  *)
HeadLeaves(k, final) ==
  /\ delivery[k].state \in {"queued", "sending"} /\ Head(chain[delivery[k].cmd]) = k
  /\ delivery[k].op # "reject"
  /\ delivery' = [delivery EXCEPT ![k].state = final]
  /\ chain' = [chain EXCEPT ![delivery[k].cmd] = Tail(@)]
  /\ \/ /\ final = "resolved" /\ Message(k, delivery[k].attempt) \in answered
        /\ tracked' = [tracked EXCEPT ![delivery[k].cmd].task = IF @ = k THEN NoCall ELSE @]
        /\ broken' = broken
     \/ /\ final = "rejected"
        /\ tracked' = tracked
        /\ broken' = broken \cup {delivery[k].cmd}
  /\ UNCHANGED <<net, answered, received>>

LEMMA HeadSettles ==
  ASSUME DeliveryIndInv, NEW k \in DeliveryCalls, NEW final \in SettledStates,
         HeadLeaves(k, final)
  PROVE  DeliveryIndInv'
<1> DEFINE c == delivery[k].cmd
<1>0. /\ TypesAreKept /\ CallsCarryTheTerminal /\ ChainIsAQueue /\ ChainHoldsAll /\ WireIsTrue
      /\ AcceptsSettle /\ FinishIsLast /\ VerdictsAreSent /\ TasksAreQueued
      /\ FinishesAreReceived /\ JoinsAreLater /\ ResolvedFinishWasReceived
  BY DEF DeliveryIndInv
<1>a. /\ UNCHANGED <<net, answered, received>> /\ delivery[k].state \in {"queued", "sending"}
      /\ delivery[k].op # "reject"
  BY DEF HeadLeaves
<1>1. /\ c \in Commands /\ delivery[k].op \in {"accept", "finish"}
      /\ chain[c] \in Seq(DeliveryCalls) /\ chain[c] # << >>
  BY <1>0, <1>a, HeadOfChain
<1>2. /\ SameStories
      /\ \A q \in DeliveryCalls : delivery'[q].state = IF q = k THEN final ELSE delivery[q].state
  BY <1>0 DEF HeadLeaves, SameStories, TypesAreKept, DeliveryStates
<1>3. /\ \A d \in Commands \ {c} : chain'[d] = chain[d]
      /\ chain[c][1] = k
      /\ Len(chain[c]) \in Nat /\ Len(chain'[c]) = Len(chain[c]) - 1
      /\ \A i \in 1..Len(chain'[c]) : chain'[c][i] = chain[c][i + 1]
  BY <1>0, <1>1 DEF HeadLeaves, TypesAreKept
<1>4. /\ \A d \in Commands : /\ tracked'[d].terminal = tracked[d].terminal
                             /\ tracked'[d].task \in {tracked[d].task, NoCall}
      /\ final = "resolved" => tracked'[c].task # k
  <2>1. CASE final = "resolved"
    <3>1. tracked' = [tracked EXCEPT ![c].task = IF @ = k THEN NoCall ELSE @]
      BY <2>1 DEF HeadLeaves
    <3> QED BY <1>0, <1>1, <3>1, NoCallAssumption DEF TypesAreKept
  <2>2. CASE final = "rejected"
    BY <2>2 DEF HeadLeaves
  <2> QED BY <2>1, <2>2 DEF SettledStates
<1>5. /\ final = "resolved" => Message(k, delivery[k].attempt) \in answered
      /\ final = "rejected" => c \in broken'
      /\ final \in {"resolved", "rejected"} /\ broken \subseteq broken' /\ broken' \subseteq Commands
  BY <1>0, <1>1 DEF HeadLeaves, TypesAreKept
<1>6. TypesAreKept'
  <2>1. delivery' \in [DeliveryCalls -> DeliveryStates]
    BY <1>0, StateIsTyped DEF TypesAreKept, HeadLeaves
  <2>2. chain' \in [Commands -> Seq(DeliveryCalls)]
    BY <1>0, <1>1 DEF TypesAreKept, HeadLeaves
  <2>3. tracked' \in [Commands -> [known : BOOLEAN, terminal : Terminals \cup {"none"},
                                  task : DeliveryCalls \cup {NoCall}]]
    <3>1. CASE final = "resolved"
      <4>1. tracked' = [tracked EXCEPT ![c].task = IF @ = k THEN NoCall ELSE @]
        BY <3>1 DEF HeadLeaves
      <4> DEFINE next == [tracked[c] EXCEPT !.task = IF @ = k THEN NoCall ELSE @]
      <4>2. tracked' = [tracked EXCEPT ![c] = next]
        BY <4>1
      <4>3. next \in TrackedStates
        <5>1. tracked[c] \in TrackedStates
          BY <1>0, <1>1 DEF TypesAreKept, TrackedStates
        <5>2. CASE tracked[c].task = k
          BY <5>1, <5>2 DEF TrackedStates
        <5>3. CASE tracked[c].task # k
          BY <5>1, <5>3 DEF TrackedStates
        <5> QED BY <5>2, <5>3
      <4> HIDE DEF next
      <4> QED BY <1>0, <4>2, <4>3 DEF TypesAreKept, TrackedStates
    <3>2. CASE final = "rejected"
      BY <1>0, <3>2 DEF TypesAreKept, HeadLeaves
    <3> QED BY <1>5, <3>1, <3>2
  <2> QED BY <1>0, <1>a, <1>5, <2>1, <2>2, <2>3 DEF TypesAreKept
<1>7. CallsCarryTheTerminal'
  BY <1>0, <1>a, <1>1, <1>2, <1>4, <1>5 DEF CallsCarryTheTerminal, SameStories, WasSent
<1>8. ChainIsAQueue'
  <2>1. \A d \in Commands : \A i \in 1..Len(chain[d]) : chain[d][i] \in DeliveryCalls
    BY <1>0, <1>a, <1>5 DEF TypesAreKept
  <2>2. ASSUME NEW i \in 1..Len(chain'[c])
        PROVE  i + 1 \in 1..Len(chain[c]) /\ chain'[c][i] = chain[c][i + 1] /\ chain'[c][i] # k
    <3>1. i \in Nat /\ i + 1 \in 1..Len(chain[c]) /\ 1 \in 1..Len(chain[c]) /\ i + 1 # 1
      BY <1>3
    <3>2. chain[c][i + 1] # chain[c][1]
      BY <1>0, <1>a, <1>1, <3>1 DEF ChainIsAQueue
    <3> QED BY <1>3, <3>1, <3>2
  <2>3. ASSUME NEW d \in Commands, d # c, NEW i \in 1..Len(chain[d])
        PROVE  chain[d][i] # k
    BY <1>0, <2>3 DEF ChainIsAQueue
  <2>4. ASSUME NEW i \in 1..Len(chain'[c])
        PROVE  /\ delivery'[chain'[c][i]].cmd = c /\ delivery'[chain'[c][i]].op # "reject"
               /\ delivery'[chain'[c][i]].state = "queued"
               /\ \A j \in 1..Len(chain'[c]) :
                    /\ chain'[c][i] = chain'[c][j] => i = j
                    /\ i < j /\ delivery'[chain'[c][i]].op = "finish" =>
                         delivery'[chain'[c][j]].op = "finish"
    <3>1. /\ delivery'[chain'[c][i]].cmd = c /\ delivery'[chain'[c][i]].op # "reject"
          /\ delivery'[chain'[c][i]].state = "queued"
      <4>1. /\ delivery[chain[c][i + 1]].cmd = c /\ delivery[chain[c][i + 1]].op # "reject"
            /\ delivery[chain[c][i + 1]].state \in {"queued", "sending"}
            /\ delivery[chain[c][i + 1]].state = "sending" => i + 1 = 1
        BY <1>0, <1>a, <1>1, <2>2 DEF ChainIsAQueue
      <4>2. i + 1 # 1 /\ chain'[c][i] \in DeliveryCalls
        <5>1. i \in Nat /\ i >= 1
          BY <1>3
        <5> QED BY <1>1, <2>1, <2>2, <5>1
      <4>3. /\ delivery'[chain'[c][i]].cmd = delivery[chain'[c][i]].cmd
            /\ delivery'[chain'[c][i]].op = delivery[chain'[c][i]].op
            /\ delivery'[chain'[c][i]].state = delivery[chain'[c][i]].state
        BY <1>2, <2>2, <4>2 DEF SameStories
      <4> QED BY <2>2, <4>1, <4>2, <4>3
    <3>2. ASSUME NEW j \in 1..Len(chain'[c])
          PROVE  /\ chain'[c][i] = chain'[c][j] => i = j
                 /\ i < j /\ delivery'[chain'[c][i]].op = "finish" =>
                      delivery'[chain'[c][j]].op = "finish"
      <4>1. /\ chain[c][i + 1] = chain[c][j + 1] => i + 1 = j + 1
            /\ i + 1 < j + 1 /\ delivery[chain[c][i + 1]].op = "finish" =>
                 delivery[chain[c][j + 1]].op = "finish"
        <5> DEFINE x == i + 1
                   y == j + 1
        <5>1. x \in 1..Len(chain[c]) /\ y \in 1..Len(chain[c])
          BY <2>2
        <5> HIDE DEF x, y
        <5>2. /\ chain[c][x] = chain[c][y] => x = y
              /\ x < y /\ delivery[chain[c][x]].op = "finish" => delivery[chain[c][y]].op = "finish"
          BY <1>0, <1>1, <5>1 DEF ChainIsAQueue
        <5> QED BY <5>2 DEF x, y
      <4>2. i \in Nat /\ j \in Nat /\ chain[c][i + 1] \in DeliveryCalls /\ chain[c][j + 1] \in DeliveryCalls
        BY <1>0, <1>a, <1>1, <1>3, <2>1, <2>2
      <4>3. /\ delivery'[chain'[c][i]].op = delivery[chain[c][i + 1]].op
            /\ delivery'[chain'[c][j]].op = delivery[chain[c][j + 1]].op
        <5>1. \A q \in DeliveryCalls : delivery'[q].op = delivery[q].op
          BY <1>2 DEF SameStories
        <5>2. chain'[c][i] = chain[c][i + 1] /\ chain'[c][j] = chain[c][j + 1]
          BY <2>2
        <5> QED BY <4>2, <5>1, <5>2
      <4>4. /\ i + 1 = j + 1 => i = j
            /\ i < j => i + 1 < j + 1
        BY <4>2
      <4> QED BY <2>2, <4>1, <4>3, <4>4
    <3> QED BY <3>1, <3>2
  <2>5. ASSUME NEW d \in Commands, d # c, NEW i \in 1..Len(chain'[d])
        PROVE  /\ delivery'[chain'[d][i]].cmd = d /\ delivery'[chain'[d][i]].op # "reject"
               /\ delivery'[chain'[d][i]].state \in {"queued", "sending"}
               /\ delivery'[chain'[d][i]].state = "sending" => i = 1
               /\ \A j \in 1..Len(chain'[d]) :
                    /\ chain'[d][i] = chain'[d][j] => i = j
                    /\ i < j /\ delivery'[chain'[d][i]].op = "finish" =>
                         delivery'[chain'[d][j]].op = "finish"
    <3>1. chain'[d] = chain[d]
      BY <1>3, <2>5
    <3>2. ASSUME NEW j \in 1..Len(chain[d])
          PROVE  /\ chain[d][j] \in DeliveryCalls
                 /\ delivery'[chain[d][j]].cmd = delivery[chain[d][j]].cmd
                 /\ delivery'[chain[d][j]].op = delivery[chain[d][j]].op
                 /\ delivery'[chain[d][j]].state = delivery[chain[d][j]].state
      BY <1>2, <2>1, <2>3, <2>5, <3>2 DEF SameStories
    <3>3. i \in 1..Len(chain[d])
      BY <3>1
    <3>4. /\ delivery[chain[d][i]].cmd = d /\ delivery[chain[d][i]].op # "reject"
          /\ delivery[chain[d][i]].state \in {"queued", "sending"}
          /\ delivery[chain[d][i]].state = "sending" => i = 1
          /\ \A j \in 1..Len(chain[d]) :
               /\ chain[d][i] = chain[d][j] => i = j
               /\ i < j /\ delivery[chain[d][i]].op = "finish" => delivery[chain[d][j]].op = "finish"
      BY <1>0, <3>3 DEF ChainIsAQueue
    <3> QED BY <3>1, <3>2, <3>3, <3>4
  <2>6. ASSUME NEW d \in Commands, NEW i \in 1..Len(chain'[d])
        PROVE  /\ delivery'[chain'[d][i]].cmd = d /\ delivery'[chain'[d][i]].op # "reject"
               /\ delivery'[chain'[d][i]].state \in {"queued", "sending"}
               /\ delivery'[chain'[d][i]].state = "sending" => i = 1
               /\ \A j \in 1..Len(chain'[d]) :
                    /\ chain'[d][i] = chain'[d][j] => i = j
                    /\ i < j /\ delivery'[chain'[d][i]].op = "finish" =>
                         delivery'[chain'[d][j]].op = "finish"
    <3>1. CASE d = c
      <4>1. \A x \in 1..Len(chain'[c]) : x + 1 # 1
        BY <1>0, <1>a, <1>1, <1>3
      <4> QED BY <3>1, <2>4
    <3>2. CASE d # c
      BY <3>2, <2>5
    <3> QED BY <3>1, <3>2
  <2> QED BY <2>6 DEF ChainIsAQueue
<1>9. ChainHoldsAll'
  <2> SUFFICES ASSUME NEW q \in DeliveryCalls, delivery'[q].state \in {"queued", "sending"},
                      delivery'[q].op # "reject"
               PROVE  \E i \in 1..Len(chain'[delivery'[q].cmd]) : chain'[delivery'[q].cmd][i] = q
    BY <1>0, <1>a, <1>5 DEF ChainHoldsAll
  <2>1. /\ q # k /\ delivery[q].state \in {"queued", "sending"} /\ delivery'[q].cmd = delivery[q].cmd
        /\ delivery[q].op # "reject"
    BY <1>0, <1>a, <1>2, <1>5 DEF SameStories
  <2>2. PICK i \in 1..Len(chain[delivery[q].cmd]) : chain[delivery[q].cmd][i] = q
    BY <1>0, <2>1 DEF ChainHoldsAll
  <2>3. delivery[q].cmd \in Commands
    BY <1>0, <2>1, HeadOfChain
  <2>4. CASE delivery[q].cmd = c
    <3>0. i # 1 /\ i \in 1..Len(chain[c])
      BY <1>3, <2>1, <2>2, <2>4
    <3>1. i - 1 \in 1..Len(chain'[c]) /\ (i - 1) + 1 = i
      BY <1>3, <3>0
    <3>2. chain'[c][i - 1] = q
      BY <1>3, <2>2, <2>4, <3>1
    <3> QED BY <3>1, <3>2, <2>1, <2>4
  <2>5. CASE delivery[q].cmd # c
    BY <2>1, <2>2, <2>3, <2>5, <1>3
  <2> QED BY <2>4, <2>5
<1>10. WireIsTrue'
  BY <1>0, <1>a, <1>2 DEF WireIsTrue, SameStories, TypesAreKept
<1>11. AcceptsSettle'
  BY <1>0, <1>a, <1>2, <1>5 DEF AcceptsSettle, SameStories, WasSent, CallsCarryTheTerminal, TypesAreKept, DeliveryStates
<1>12. FinishIsLast'
  BY <1>0, <1>a, <1>2, <1>5 DEF FinishIsLast, SameStories, WasSent, IsOf
<1>13. VerdictsAreSent'
  BY <1>0, <1>a, <1>2, <1>4 DEF VerdictsAreSent, SameStories, WasSent, IsOf
<1>14. TasksAreQueued'
  <2> SUFFICES ASSUME NEW d \in Commands, tracked'[d].task # NoCall
               PROVE  /\ IsOf(tracked[d].task, "finish", d)' /\ tracked'[d].task = tracked[d].task
                      /\ delivery'[tracked[d].task].state \in {"queued", "sending", "rejected"}
    BY DEF TasksAreQueued, IsOf
  <2>1. /\ tracked'[d].task = tracked[d].task /\ tracked[d].task \in DeliveryCalls
        /\ delivery[tracked[d].task].op = "finish" /\ delivery[tracked[d].task].cmd = d
        /\ delivery[tracked[d].task].state \in {"queued", "sending", "rejected"}
    BY <1>0, <1>4 DEF TasksAreQueued, IsOf, TypesAreKept
  <2>2. CASE tracked[d].task = k
    BY <1>2, <1>4, <1>5, <2>1, <2>2 DEF SameStories, IsOf
  <2>3. CASE tracked[d].task # k
    BY <1>2, <2>1, <2>3 DEF SameStories, IsOf
  <2> QED BY <2>2, <2>3
<1>15. \A t \in DeliveryCalls : \A place : ReceivedAfter(t, place)' <=> ReceivedAfter(t, place)
  BY <1>a, <1>2 DEF ReceivedAfter, WasReceived, SameStories
<1>16. FinishesAreReceived'
  BY <1>0, <1>a, <1>2, <1>15 DEF FinishesAreReceived, SameStories
<1>17. JoinsAreLater'
  <2> SUFFICES ASSUME NEW q \in DeliveryCalls, delivery'[q].op = "finish",
                      delivery'[q].state = "joined"
               PROVE  JoinIsLater(q)'
    BY DEF JoinsAreLater
  <2> DEFINE t == delivery[q].joined
             owning == tracked[delivery[q].cmd].task
  <2>1. q # k /\ delivery[q].op = "finish" /\ delivery[q].state = "joined"
    BY <1>2, <1>5 DEF SameStories
  <2>2. JoinIsLater(q) /\ delivery[q].cmd \in Commands
    BY <1>0, <2>1 DEF JoinsAreLater, CallsCarryTheTerminal
  <2>3. /\ delivery'[q].joined = t /\ delivery'[q].cmd = delivery[q].cmd
        /\ delivery'[q].mark = delivery[q].mark /\ delivery'[q].asked = delivery[q].asked
        /\ delivery'[q].replay = delivery[q].replay
    BY <1>2 DEF SameStories
  <2>4. t \in DeliveryCalls /\ IsOf(t, "finish", delivery[q].cmd)'
    BY <1>2, <2>2 DEF SameStories, JoinIsLater, IsOf
  <2>5. delivery'[t].state \in {"queued", "sending", "resolved", "rejected"}
    BY <1>2, <1>5, <2>2 DEF JoinIsLater
  <2>6. final = "resolved" => WasReceived(k)
    BY <1>0, <1>5 DEF TypesAreKept, Message, WasReceived
  <2>7. delivery'[t].state = "resolved" => WasReceived(t)'
    <3>1. delivery[t].state = "resolved" => WasReceived(t)
      BY <2>2 DEF JoinIsLater
    <3>2. delivery'[t].state = "resolved" => WasReceived(t)
      BY <1>2, <1>5, <2>4, <2>6, <3>1
    <3> QED BY <1>a, <2>3, <3>2 DEF WasReceived, Message
  <2>8. delivery[q].asked /\ ~delivery[q].replay => ReceivedAfter(t, delivery[q].mark)'
    <3>1. delivery[q].asked /\ ~delivery[q].replay => ReceivedAfter(t, delivery[q].mark)
      BY <2>2 DEF JoinIsLater
    <3> QED BY <1>15, <2>3, <2>4, <3>1
  <2>9. tracked'[delivery[q].cmd].task \in {owning, NoCall} /\ owning \in DeliveryCalls \cup {NoCall}
    BY <1>0, <1>4, <2>2 DEF TypesAreKept
  <2>10. delivery[q].asked /\ delivery[q].replay /\ tracked'[delivery[q].cmd].task \notin {NoCall, t} =>
           ReceivedAfter(tracked[delivery[q].cmd].task, delivery[q].mark)'
    <3>1. delivery[q].asked /\ delivery[q].replay /\ owning \notin {NoCall, t} =>
            ReceivedAfter(owning, delivery[q].mark)
      BY <2>2 DEF JoinIsLater
    <3>2. tracked'[delivery[q].cmd].task # NoCall =>
            tracked'[delivery'[q].cmd].task = owning /\ owning \in DeliveryCalls
      BY <2>3, <2>9
    <3> QED BY <1>15, <2>3, <3>1, <3>2
  <2> QED BY <2>3, <2>4, <2>5, <2>7, <2>8, <2>9, <2>10 DEF JoinIsLater
<1>18. ResolvedFinishWasReceived'
  <2>1. final = "resolved" => WasReceived(k)
    BY <1>0, <1>a, <1>5 DEF TypesAreKept, Message, WasReceived
  <2>2. \A q \in DeliveryCalls : delivery[q].op # "none" => delivery[q].cmd \in Commands
    BY <1>0, <1>a, <1>5 DEF CallsCarryTheTerminal
  <2>3. \A d \in Commands : DOMAIN received[d] = 1..Len(received[d])
    BY <1>0, <1>a, <1>5 DEF TypesAreKept
  <2> QED BY <1>0, <1>a, <1>2, <1>5, <2>1, <2>2, <2>3
          DEF ResolvedFinishWasReceived, FinishesAreReceived, ReceivedAfter, SameStories
<1> QED BY <1>6, <1>7, <1>8, <1>9, <1>10, <1>11, <1>12, <1>13, <1>14, <1>16, <1>17, <1>18 DEF DeliveryIndInv

-----------------------------------------------------------------------------
LEMMA InvAtInit == DeliveryInit => DeliveryIndInv
<1> SUFFICES ASSUME DeliveryInit PROVE DeliveryIndInv
  OBVIOUS
<1>1. /\ \A k \in DeliveryCalls : /\ delivery[k].op = "none" /\ delivery[k].state = "idle"
                                  /\ delivery[k].attempt = 0
      /\ \A c \in Commands : chain[c] = << >> /\ received[c] = << >> /\ tracked[c].task = NoCall
      /\ net = {} /\ answered = {}
  BY DEF DeliveryInit, Idle
<1>2. TypesAreKept
  <2>1. Idle \in DeliveryStates
    BY DeliveryBounds DEF Idle, DeliveryStates
  <2>2. << >> \in Seq(DeliveryCalls) /\ << >> \in Seq(Terminals \cup {"accepted", "refused"})
    OBVIOUS
  <2> QED BY <2>1, <2>2 DEF DeliveryInit, TypesAreKept
<1>3. CallsCarryTheTerminal /\ AcceptsSettle /\ FinishIsLast
  BY <1>1 DEF CallsCarryTheTerminal, AcceptsSettle, FinishIsLast, WasSent
<1>4. ChainIsAQueue /\ ChainHoldsAll /\ WireIsTrue
  BY <1>1 DEF ChainIsAQueue, ChainHoldsAll, WireIsTrue
<1>5. VerdictsAreSent /\ TasksAreQueued /\ FinishesAreReceived /\ JoinsAreLater
  BY <1>1 DEF VerdictsAreSent, TasksAreQueued, FinishesAreReceived, JoinsAreLater
<1>6. ResolvedFinishWasReceived
  BY <1>1 DEF ResolvedFinishWasReceived
<1> QED BY <1>2, <1>3, <1>4, <1>5, <1>6 DEF DeliveryIndInv

-----------------------------------------------------------------------------
(* receive only makes the command known.                                   *)
LEMMA ReceiveKeeps ==
  ASSUME DeliveryIndInv, NEW c \in Commands, Receive(c)
  PROVE  DeliveryIndInv'
<1>0. /\ TypesAreKept /\ CallsCarryTheTerminal /\ ChainIsAQueue /\ ChainHoldsAll /\ WireIsTrue
      /\ AcceptsSettle /\ FinishIsLast /\ VerdictsAreSent /\ TasksAreQueued
      /\ FinishesAreReceived /\ JoinsAreLater /\ ResolvedFinishWasReceived
  BY DEF DeliveryIndInv
<1>a. UNCHANGED <<chain, broken, delivery, net, answered, received>>
  BY DEF Receive
<1>1. \A d \in Commands : tracked'[d].terminal = tracked[d].terminal /\ tracked'[d].task = tracked[d].task
  BY <1>0 DEF Receive, TypesAreKept
<1>2. TypesAreKept'
  BY <1>0 DEF Receive, TypesAreKept
<1>3. CallsCarryTheTerminal'
  BY <1>0, <1>a, <1>1 DEF CallsCarryTheTerminal, WasSent
<1>4. /\ ChainIsAQueue' /\ ChainHoldsAll' /\ WireIsTrue' /\ AcceptsSettle' /\ FinishIsLast'
      /\ FinishesAreReceived' /\ ResolvedFinishWasReceived'
  BY <1>0, <1>a DEF ChainIsAQueue, ChainHoldsAll, WireIsTrue, AcceptsSettle, FinishIsLast, WasSent, IsOf,
                    Message, FinishesAreReceived, ReceivedAfter, WasReceived, ResolvedFinishWasReceived
<1>5. VerdictsAreSent' /\ TasksAreQueued'
  BY <1>0, <1>a, <1>1 DEF VerdictsAreSent, TasksAreQueued, IsOf, WasSent
<1>6. JoinsAreLater'
  <2> SUFFICES ASSUME NEW q \in DeliveryCalls, delivery[q].op = "finish", delivery[q].state = "joined"
               PROVE  JoinIsLater(q)'
    BY <1>a DEF JoinsAreLater
  <2>1. JoinIsLater(q) /\ tracked'[delivery[q].cmd].task = tracked[delivery[q].cmd].task
    BY <1>0, <1>1 DEF JoinsAreLater, CallsCarryTheTerminal
  <2> QED BY <1>a, <2>1 DEF JoinIsLater, IsOf, ReceivedAfter, WasReceived, Message
<1> QED BY <1>2, <1>3, <1>4, <1>5, <1>6 DEF DeliveryIndInv

-----------------------------------------------------------------------------
(* A call that is idle or joined is in no chain, is no task, was never     *)
(* sent and is joined by nobody.                                           *)
LEMMA OutOfTheChain ==
  ASSUME DeliveryIndInv, NEW k \in DeliveryCalls, delivery[k].state \in {"idle", "joined"}
  PROVE  /\ \A c \in Commands : \A i \in 1..Len(chain[c]) : chain[c][i] # k
         /\ \A c \in Commands : tracked[c].task # k
         /\ delivery[k].attempt = 0 /\ ~WasReceived(k)
         /\ \A attempt : Message(k, attempt) \notin net \cup answered
         /\ \A q \in DeliveryCalls :
              delivery[q].op = "finish" /\ delivery[q].state = "joined" => delivery[q].joined # k
<1>0. /\ TypesAreKept /\ CallsCarryTheTerminal /\ ChainIsAQueue /\ WireIsTrue
      /\ TasksAreQueued /\ JoinsAreLater
  BY DEF DeliveryIndInv
<1>1. delivery[k].attempt = 0
  BY <1>0 DEF TypesAreKept, DeliveryStates, CallsCarryTheTerminal, WasSent
<1>2. \A attempt : Message(k, attempt) \notin net \cup answered
  BY <1>0, <1>1 DEF WireIsTrue, Message, TypesAreKept
<1>3. \A c \in Commands : \A i \in 1..Len(chain[c]) : chain[c][i] # k
  BY <1>0 DEF ChainIsAQueue
<1>4. \A c \in Commands : tracked[c].task # k
  BY <1>0, NoCallAssumption DEF TasksAreQueued
<1>5. \A q \in DeliveryCalls :
        delivery[q].op = "finish" /\ delivery[q].state = "joined" => delivery[q].joined # k
  BY <1>0 DEF JoinsAreLater, JoinIsLater
<1> QED BY <1>1, <1>2, <1>3, <1>4, <1>5 DEF WasReceived

(* The chain of c gets the call k, which was in no chain, at its end.      *)
Enqueues(k, c) ==
  /\ chain' = [chain EXCEPT ![c] = Append(@, k)]
  /\ \A q \in DeliveryCalls \ {k} : delivery'[q] = delivery[q]
  /\ delivery'[k].state = "queued" /\ delivery'[k].cmd = c /\ delivery[k].state \in {"idle", "joined"}
  /\ \/ delivery'[k].op = "finish"
     \/ delivery'[k].op = "accept" /\ \A q \in DeliveryCalls : ~IsOf(q, "finish", c)

LEMMA EnqueuedKeepsOrder ==
  ASSUME DeliveryIndInv, NEW k \in DeliveryCalls, NEW c \in Commands, Enqueues(k, c)
  PROVE  ChainIsAQueue' /\ ChainHoldsAll' /\ chain' \in [Commands -> Seq(DeliveryCalls)]
<1>0. TypesAreKept /\ CallsCarryTheTerminal /\ ChainIsAQueue /\ ChainHoldsAll
  BY DEF DeliveryIndInv
<1>1. /\ \A q \in DeliveryCalls \ {k} : delivery'[q] = delivery[q]
      /\ delivery'[k].state = "queued" /\ delivery'[k].cmd = c
      /\ delivery[k].state \in {"idle", "joined"}
      /\ delivery'[k].op = "finish" \/ (\A q \in DeliveryCalls : ~IsOf(q, "finish", c))
      /\ delivery'[k].op # "reject"
  BY DEF Enqueues
<1>2. \A d \in Commands : \A i \in 1..Len(chain[d]) : chain[d][i] \in DeliveryCalls /\ chain[d][i] # k
  BY <1>0, <1>1, OutOfTheChain DEF TypesAreKept
<1>3. chain' \in [Commands -> Seq(DeliveryCalls)]
  BY <1>0 DEF Enqueues, TypesAreKept
<1>4. /\ Len(chain[c]) \in Nat /\ Len(chain'[c]) = Len(chain[c]) + 1
      /\ \A i \in 1..Len(chain[c]) : chain'[c][i] = chain[c][i]
      /\ chain'[c][Len(chain[c]) + 1] = k
      /\ \A d \in Commands \ {c} : chain'[d] = chain[d]
  BY <1>0 DEF Enqueues, TypesAreKept
<1> DEFINE n == Len(chain[c]) + 1
<1>5. ASSUME NEW d \in Commands, NEW i \in 1..Len(chain'[d])
      PROVE  \/ i \in 1..Len(chain[d]) /\ chain'[d][i] = chain[d][i] /\ chain[d][i] # k
             \/ d = c /\ i = n /\ chain'[d][i] = k
  BY <1>2, <1>4
<1>6. \A d \in Commands : \A i \in 1..Len(chain[d]) : i \in 1..Len(chain'[d]) /\ chain'[d][i] = chain[d][i]
  BY <1>4
<1>7. ChainIsAQueue'
  <2> SUFFICES ASSUME NEW d \in Commands, NEW i \in 1..Len(chain'[d])
               PROVE  /\ delivery'[chain'[d][i]].cmd = d /\ delivery'[chain'[d][i]].op # "reject"
                      /\ delivery'[chain'[d][i]].state \in {"queued", "sending"}
                      /\ delivery'[chain'[d][i]].state = "sending" => i = 1
                      /\ \A j \in 1..Len(chain'[d]) :
                           /\ chain'[d][i] = chain'[d][j] => i = j
                           /\ i < j /\ delivery'[chain'[d][i]].op = "finish" =>
                                delivery'[chain'[d][j]].op = "finish"
    BY DEF ChainIsAQueue
  <2>1. /\ delivery'[chain'[d][i]].cmd = d /\ delivery'[chain'[d][i]].op # "reject"
        /\ delivery'[chain'[d][i]].state \in {"queued", "sending"}
        /\ delivery'[chain'[d][i]].state = "sending" => i = 1
    <3>1. CASE i \in 1..Len(chain[d]) /\ chain'[d][i] = chain[d][i] /\ chain[d][i] # k
      <4>1. delivery'[chain'[d][i]] = delivery[chain[d][i]]
        BY <1>1, <1>2, <3>1
      <4> QED BY <1>0, <3>1, <4>1 DEF ChainIsAQueue
    <3>2. CASE d = c /\ i = n /\ chain'[d][i] = k
      BY <1>1, <3>2
    <3> QED BY <1>5, <3>1, <3>2
  <2>2. ASSUME NEW j \in 1..Len(chain'[d])
        PROVE  chain'[d][i] = chain'[d][j] => i = j
    <3>1. i \in 1..Len(chain[d]) /\ j \in 1..Len(chain[d]) => (chain[d][i] = chain[d][j] => i = j)
      BY <1>0 DEF ChainIsAQueue
    <3> QED BY <1>5, <3>1
  <2>3. ASSUME NEW j \in 1..Len(chain'[d]), i < j, delivery'[chain'[d][i]].op = "finish"
        PROVE  delivery'[chain'[d][j]].op = "finish"
    <3>1. i \in 1..Len(chain[d]) /\ chain'[d][i] = chain[d][i] /\ chain[d][i] \in DeliveryCalls
      BY <1>2, <1>4, <1>5, <2>3
    <3>2. /\ delivery'[chain'[d][i]] = delivery[chain[d][i]]
          /\ delivery[chain[d][i]].op = "finish" /\ delivery[chain[d][i]].cmd = d /\ delivery[chain[d][i]].op # "reject"
      BY <1>0, <1>1, <1>2, <2>3, <3>1 DEF ChainIsAQueue
    <3>3. CASE j \in 1..Len(chain[d]) /\ chain'[d][j] = chain[d][j] /\ chain[d][j] # k
      <4>1. delivery'[chain'[d][j]] = delivery[chain[d][j]]
        BY <1>1, <1>2, <3>3
      <4> QED BY <1>0, <2>3, <3>1, <3>2, <3>3, <4>1 DEF ChainIsAQueue
    <3>4. CASE d = c /\ j = n /\ chain'[d][j] = k
      BY <1>1, <3>1, <3>2, <3>4 DEF IsOf
    <3> QED BY <1>5, <3>3, <3>4
  <2> QED BY <2>1, <2>2, <2>3
<1>8. ChainHoldsAll'
  <2> SUFFICES ASSUME NEW q \in DeliveryCalls, delivery'[q].state \in {"queued", "sending"},
                      delivery'[q].op # "reject"
               PROVE  \E i \in 1..Len(chain'[delivery'[q].cmd]) : chain'[delivery'[q].cmd][i] = q
    BY DEF ChainHoldsAll
  <2>1. CASE q = k
    <3>1. n \in 1..Len(chain'[c])
      BY <1>4
    <3> QED BY <1>1, <1>4, <2>1, <3>1
  <2>2. CASE q # k
    <3>1. delivery'[q] = delivery[q]
      BY <1>1, <2>2
    <3>2. delivery[q].cmd \in Commands
      BY <1>0, <3>1, HeadOfChain
    <3>3. PICK i \in 1..Len(chain[delivery[q].cmd]) : chain[delivery[q].cmd][i] = q
      BY <1>0, <3>1 DEF ChainHoldsAll
    <3> QED BY <1>6, <3>1, <3>2, <3>3
  <2> QED BY <2>1, <2>2
<1> QED BY <1>3, <1>7, <1>8

-----------------------------------------------------------------------------
(* A step that tells the story of k anew and leaves the others, the wire   *)
(* and the log as they are.                                                *)
Retells(k) ==
  /\ delivery[k].state \in {"idle", "joined"}
  /\ \A q \in DeliveryCalls \ {k} : delivery'[q] = delivery[q]
  /\ delivery'[k].attempt = 0
  /\ UNCHANGED <<broken, net, answered, received>>

LEMMA RetoldKeepsTheWire ==
  ASSUME DeliveryIndInv, NEW k \in DeliveryCalls, Retells(k), DeliveryStates # {},
         delivery'[k].state \in {"queued", "joined"},
         delivery'[k].op = "accept" =>
           delivery'[k].cmd \in Commands
           /\ \A q \in DeliveryCalls : ~IsOf(q, "finish", delivery'[k].cmd)
  PROVE  /\ WireIsTrue' /\ AcceptsSettle' /\ FinishIsLast' /\ FinishesAreReceived'
         /\ ResolvedFinishWasReceived'
         /\ \A t \in DeliveryCalls : WasReceived(t)' <=> WasReceived(t)
         /\ \A t \in DeliveryCalls : \A p : ReceivedAfter(t, p) => ReceivedAfter(t, p)'
<1>0. /\ TypesAreKept /\ WireIsTrue /\ AcceptsSettle /\ FinishIsLast /\ FinishesAreReceived
      /\ ResolvedFinishWasReceived
  BY DEF DeliveryIndInv
<1>1. /\ \A q \in DeliveryCalls \ {k} : delivery'[q] = delivery[q]
      /\ delivery'[k].attempt = 0 /\ delivery[k].state \in {"idle", "joined"}
      /\ UNCHANGED <<broken, net, answered, received>>
  BY DEF Retells
<1>2. /\ delivery[k].attempt = 0 /\ ~WasReceived(k)
      /\ \A attempt : Message(k, attempt) \notin net \cup answered
  BY <1>1, OutOfTheChain
<1>3. WireIsTrue'
  BY <1>0, <1>1, <1>2 DEF WireIsTrue, TypesAreKept
<1>4. AcceptsSettle'
  BY <1>0, <1>1 DEF AcceptsSettle, WasSent, Message
<1>5. FinishIsLast'
  <2> SUFFICES ASSUME NEW q \in DeliveryCalls, NEW f \in DeliveryCalls,
                      delivery'[f].op = "finish", delivery'[f].attempt > 0,
                      delivery'[q].op = "accept", delivery'[q].cmd = delivery'[f].cmd
               PROVE  Message(q, 1) \notin net /\ delivery'[q].state \notin {"queued", "sending"}
    BY <1>1 DEF FinishIsLast, WasSent, IsOf, Message
  <2>1. f # k /\ delivery'[f] = delivery[f]
    BY <1>1
  <2>2. q # k
    BY <2>1 DEF IsOf
  <2> QED BY <1>0, <1>1, <2>1, <2>2 DEF FinishIsLast, WasSent, IsOf
<1>6. \A t \in DeliveryCalls : WasReceived(t)' <=> WasReceived(t)
  BY <1>1 DEF WasReceived, Message
<1>7. \A t \in DeliveryCalls : \A p : ReceivedAfter(t, p) => ReceivedAfter(t, p)'
  BY <1>1, <1>2, <1>6 DEF ReceivedAfter
<1>8. FinishesAreReceived'
  <2> SUFFICES ASSUME NEW q \in DeliveryCalls, delivery'[q].op \in {"finish", "reject"}
               PROVE  ReceivedAfter(q, delivery[q].mark)'
    BY DEF FinishesAreReceived
  <2>1. CASE q = k
    BY <1>2, <1>6, <2>1 DEF ReceivedAfter
  <2>2. CASE q # k
    BY <1>0, <1>1, <1>7, <2>2 DEF FinishesAreReceived
  <2> QED BY <2>1, <2>2
<1>9. ResolvedFinishWasReceived'
  BY <1>0, <1>1 DEF ResolvedFinishWasReceived
<1> QED BY <1>3, <1>4, <1>5, <1>6, <1>7, <1>8, <1>9

-----------------------------------------------------------------------------
LEMMA AcceptIsTyped ==
  ASSUME NEW c \in Commands, NEW msg \in DeliveryStates
  PROVE  [msg EXCEPT !.op = "accept", !.cmd = c, !.update = "accepted", !.state = "queued"]
           \in DeliveryStates
BY DEF DeliveryStates, Unsettled

(* accept: no finish of the command was asked for yet.                     *)
LEMMA AcceptKeeps ==
  ASSUME DeliveryIndInv, NEW k \in DeliveryCalls, NEW c \in Commands, Accept(k, c)
  PROVE  DeliveryIndInv'
<1>0. /\ TypesAreKept /\ CallsCarryTheTerminal /\ VerdictsAreSent /\ TasksAreQueued /\ JoinsAreLater
  BY DEF DeliveryIndInv
<1> DEFINE new == [Idle EXCEPT !.op = "accept", !.cmd = c, !.update = "accepted", !.state = "queued"]
<1>1. /\ delivery[k].state = "idle" /\ tracked[c].terminal = "none"
      /\ delivery' = [delivery EXCEPT ![k] = new]
      /\ chain' = [chain EXCEPT ![c] = Append(@, k)]
      /\ UNCHANGED <<tracked, broken, net, answered, received>>
  BY DEF Accept
<1>2. /\ delivery'[k] = new /\ \A q \in DeliveryCalls \ {k} : delivery'[q] = delivery[q]
  BY <1>0, <1>1 DEF TypesAreKept
<1>3. /\ new.op = "accept" /\ new.cmd = c /\ new.update = "accepted" /\ new.state = "queued"
      /\ new.attempt = 0 /\ new.mark = 0
  BY DEF Idle
<1>4. new \in DeliveryStates
  <2>1. Idle \in DeliveryStates
    BY DeliveryBounds DEF Idle, DeliveryStates
  <2> QED BY <2>1, AcceptIsTyped
<1>5. \A q \in DeliveryCalls : ~IsOf(q, "finish", c)
  BY <1>0, <1>1, TerminalsAssumption DEF CallsCarryTheTerminal, IsOf
<1> HIDE DEF new
<1>6. /\ ChainIsAQueue' /\ ChainHoldsAll' /\ chain' \in [Commands -> Seq(DeliveryCalls)]
  BY <1>1, <1>2, <1>3, <1>5, EnqueuedKeepsOrder DEF Enqueues
<1>7. Retells(k) /\ DeliveryStates # {}
  BY <1>1, <1>2, <1>3, <1>4 DEF Retells
<1>8. /\ WireIsTrue' /\ AcceptsSettle' /\ FinishIsLast' /\ FinishesAreReceived'
      /\ ResolvedFinishWasReceived'
      /\ \A t \in DeliveryCalls : WasReceived(t)' <=> WasReceived(t)
      /\ \A t \in DeliveryCalls : \A p : ReceivedAfter(t, p) => ReceivedAfter(t, p)'
  BY <1>2, <1>3, <1>5, <1>7, RetoldKeepsTheWire
<1>9. TypesAreKept'
  BY <1>0, <1>1, <1>4, <1>6 DEF TypesAreKept
<1>10. CallsCarryTheTerminal'
  <2>1. Len(received[c]) \in Nat
    BY <1>0 DEF TypesAreKept
  <2>2. ASSUME NEW q \in DeliveryCalls
        PROVE  /\ delivery'[q].state = "idle" <=> delivery'[q].op = "none"
               /\ delivery'[q].op # "none" =>
                    delivery'[q].cmd \in Commands /\ delivery'[q].mark <= Len(received[delivery'[q].cmd])
               /\ delivery'[q].op = "accept" =>
                    /\ delivery'[q].update = "accepted" /\ delivery'[q].attempt <= 1
                    /\ delivery'[q].state # "joined"
               /\ delivery'[q].op = "finish" =>
                    delivery'[q].update \in Terminals /\ tracked[delivery'[q].cmd].terminal = delivery'[q].update
               /\ delivery'[q].op = "reject" =>
                    delivery'[q].update = "refused" /\ delivery'[q].state \notin {"queued", "joined"}
               /\ delivery'[q].state \in {"idle", "queued", "joined"} => ~(delivery'[q].attempt > 0)
               /\ delivery'[q].state = "sending" => delivery'[q].attempt > 0
    <3>1. CASE q = k
      BY <1>2, <1>3, <2>1, <3>1
    <3>2. CASE q # k
      BY <1>0, <1>2, <3>2 DEF CallsCarryTheTerminal, WasSent
    <3> QED BY <3>1, <3>2
  <2> QED BY <1>1, <2>2 DEF CallsCarryTheTerminal, WasSent
<1>11. VerdictsAreSent'
  <2>1. \A f \in DeliveryCalls : IsOf(f, "finish", delivery[f].cmd) => f # k
    BY <1>0, <1>1 DEF CallsCarryTheTerminal, IsOf
  <2> QED BY <1>0, <1>1, <1>2, <2>1 DEF VerdictsAreSent, IsOf, WasSent
<1>12. TasksAreQueued'
  <2>1. \A d \in Commands : tracked[d].task # k
    BY <1>1, OutOfTheChain
  <2> QED BY <1>0, <1>1, <1>2, <2>1 DEF TasksAreQueued, IsOf, TypesAreKept
<1>13. JoinsAreLater'
  <2> SUFFICES ASSUME NEW q \in DeliveryCalls, delivery'[q].op = "finish", delivery'[q].state = "joined"
               PROVE  JoinIsLater(q)'
    BY DEF JoinsAreLater
  <2>1. q # k /\ delivery'[q] = delivery[q]
    BY <1>2, <1>3
  <2>2. JoinIsLater(q) /\ delivery[q].joined # k /\ delivery[q].cmd \in Commands
    BY <1>0, <1>1, <2>1, OutOfTheChain DEF JoinsAreLater, CallsCarryTheTerminal
  <2>3. delivery[q].joined \in DeliveryCalls /\ delivery'[delivery[q].joined] = delivery[delivery[q].joined]
    BY <1>2, <2>2 DEF JoinIsLater
  <2>4. tracked[delivery[q].cmd].task \in DeliveryCalls \cup {NoCall}
    BY <1>0, <2>2 DEF TypesAreKept
  <2> QED BY <1>1, <1>8, <2>1, <2>2, <2>3, <2>4 DEF JoinIsLater, IsOf
<1> QED BY <1>6, <1>8, <1>9, <1>10, <1>11, <1>12, <1>13 DEF DeliveryIndInv

-----------------------------------------------------------------------------
(* finish up to its first await, from a call that asks or asks again. What *)
(* it waits for, if it is a replay that asks again, marked no later place. *)
MayEnter(k, c, replay, asked, mark) ==
  /\ delivery[k].state \in {"idle", "joined"}
  /\ replay \in BOOLEAN /\ asked \in BOOLEAN
  /\ mark \in Nat /\ mark <= Len(received[c])
  /\ tracked[c].task # NoCall /\ asked /\ ~replay => ReceivedAfter(tracked[c].task, mark)

LEMMA EnterKeeps ==
  ASSUME DeliveryIndInv, NEW k \in DeliveryCalls, NEW c \in Commands, NEW update \in Terminals,
         NEW replay, NEW asked, NEW mark, MayEnter(k, c, replay, asked, mark),
         EnterFinish(k, c, update, replay, asked, mark)
  PROVE  DeliveryIndInv'
<1>0. /\ TypesAreKept /\ CallsCarryTheTerminal /\ ChainIsAQueue /\ ChainHoldsAll
      /\ VerdictsAreSent /\ TasksAreQueued /\ JoinsAreLater
  BY DEF DeliveryIndInv
<1>a. /\ delivery[k].state \in {"idle", "joined"} /\ replay \in BOOLEAN /\ asked \in BOOLEAN
      /\ mark \in Nat /\ mark <= Len(received[c])
      /\ tracked[c].task # NoCall /\ asked /\ ~replay => ReceivedAfter(tracked[c].task, mark)
  BY DEF MayEnter
<1> DEFINE free == tracked[c].task = NoCall
           terminal == TerminalOf(c, update)
           new == [op |-> "finish", cmd |-> c, update |-> terminal, replay |-> replay,
                   state |-> IF free THEN "queued" ELSE "joined",
                   attempt |-> 0, joined |-> tracked[c].task, asked |-> asked, mark |-> mark]
<1>1. /\ delivery' = [delivery EXCEPT ![k] = new]
      /\ chain' = IF free THEN [chain EXCEPT ![c] = Append(@, k)] ELSE chain
      /\ tracked' = [tracked EXCEPT ![c].terminal = terminal, ![c].task = IF @ = NoCall THEN k ELSE @]
      /\ UNCHANGED <<broken, net, answered, received>>
  BY DEF EnterFinish
<1>2. /\ delivery'[k] = new /\ \A q \in DeliveryCalls \ {k} : delivery'[q] = delivery[q]
  BY <1>0, <1>1 DEF TypesAreKept
<1>3. /\ new.op = "finish" /\ new.cmd = c /\ new.update = terminal /\ new.attempt = 0
      /\ new.joined = tracked[c].task /\ new.mark = mark /\ new.asked = asked /\ new.replay = replay
      /\ new.state = IF free THEN "queued" ELSE "joined"
  OBVIOUS
<1>4. terminal \in Terminals /\ (tracked[c].terminal # "none" => terminal = tracked[c].terminal)
  BY <1>0 DEF TypesAreKept, TerminalOf
<1>5. tracked[c].task \in DeliveryCalls \cup {NoCall}
  BY <1>0 DEF TypesAreKept
<1>6. new \in DeliveryStates
  BY <1>4, <1>5, <1>a, DeliveryBounds DEF DeliveryStates, Unsettled
<1>7. /\ tracked'[c].terminal = terminal
      /\ tracked'[c].task = IF free THEN k ELSE tracked[c].task
      /\ \A d \in Commands \ {c} : tracked'[d] = tracked[d]
  BY <1>0, <1>1 DEF TypesAreKept
<1>8. tracked' \in [Commands -> [known : BOOLEAN, terminal : Terminals \cup {"none"},
                                 task : DeliveryCalls \cup {NoCall}]]
  <2> DEFINE now == [tracked[c] EXCEPT !.terminal = terminal, !.task = IF @ = NoCall THEN k ELSE @]
  <2>1. tracked' = [tracked EXCEPT ![c] = now]
    BY <1>1
  <2>2. now \in TrackedStates
    <3>1. tracked[c] \in TrackedStates
      BY <1>0 DEF TypesAreKept, TrackedStates
    <3> HIDE DEF terminal
    <3> QED BY <1>4, <3>1 DEF TrackedStates
  <2> HIDE DEF now
  <2> QED BY <1>0, <2>1, <2>2 DEF TypesAreKept, TrackedStates
<1> HIDE DEF new, terminal
<1>9. ChainIsAQueue' /\ ChainHoldsAll' /\ chain' \in [Commands -> Seq(DeliveryCalls)]
  <2>1. CASE free
    BY <1>1, <1>2, <1>3, <1>a, <2>1, EnqueuedKeepsOrder DEF Enqueues
  <2>2. CASE ~free
    <3>1. chain' = chain /\ chain \in [Commands -> Seq(DeliveryCalls)]
      BY <1>0, <1>1, <2>2 DEF TypesAreKept
    <3>2. \A d \in Commands : \A i \in 1..Len(chain[d]) :
            chain[d][i] \in DeliveryCalls /\ delivery'[chain[d][i]] = delivery[chain[d][i]]
      BY <1>0, <1>2, <1>a, OutOfTheChain DEF TypesAreKept
    <3>3. ChainIsAQueue'
      <4> SUFFICES ASSUME NEW d \in Commands, NEW i \in 1..Len(chain[d])
                   PROVE  /\ delivery'[chain[d][i]].cmd = d /\ delivery'[chain[d][i]].op # "reject"
                          /\ delivery'[chain[d][i]].state \in {"queued", "sending"}
                          /\ delivery'[chain[d][i]].state = "sending" => i = 1
                          /\ \A j \in 1..Len(chain[d]) :
                               /\ chain[d][i] = chain[d][j] => i = j
                               /\ i < j /\ delivery'[chain[d][i]].op = "finish" =>
                                    delivery'[chain[d][j]].op = "finish"
        BY <3>1 DEF ChainIsAQueue
      <4>1. /\ delivery'[chain[d][i]] = delivery[chain[d][i]]
            /\ \A j \in 1..Len(chain[d]) : delivery'[chain[d][j]] = delivery[chain[d][j]]
        BY <3>2
      <4> QED BY <1>0, <4>1 DEF ChainIsAQueue
    <3>4. delivery'[k].state = "joined"
      BY <1>2, <1>3, <2>2
    <3>5. ChainHoldsAll'
      BY <1>0, <1>2, <3>1, <3>4 DEF ChainHoldsAll
    <3> QED BY <3>1, <3>3, <3>5
  <2> QED BY <2>1, <2>2
<1>10. Retells(k) /\ DeliveryStates # {} /\ delivery'[k].state \in {"queued", "joined"}
  BY <1>1, <1>2, <1>3, <1>6, <1>a DEF Retells
<1>11. /\ WireIsTrue' /\ AcceptsSettle' /\ FinishIsLast' /\ FinishesAreReceived'
       /\ ResolvedFinishWasReceived'
       /\ \A t \in DeliveryCalls : WasReceived(t)' <=> WasReceived(t)
       /\ \A t \in DeliveryCalls : \A p : ReceivedAfter(t, p) => ReceivedAfter(t, p)'
  BY <1>2, <1>3, <1>10, RetoldKeepsTheWire
<1>12. TypesAreKept'
  BY <1>0, <1>1, <1>6, <1>8, <1>9 DEF TypesAreKept
<1>13. ASSUME NEW q \in DeliveryCalls, delivery[q].op = "finish"
       PROVE  /\ delivery[q].update \in Terminals /\ delivery[q].cmd \in Commands
              /\ tracked'[delivery[q].cmd].terminal = delivery[q].update
  BY <1>0, <1>4, <1>7, <1>13, TerminalsAssumption DEF CallsCarryTheTerminal
<1>14. CallsCarryTheTerminal'
  <2>1. ASSUME NEW q \in DeliveryCalls
        PROVE  /\ delivery'[q].state = "idle" <=> delivery'[q].op = "none"
               /\ delivery'[q].op # "none" =>
                    delivery'[q].cmd \in Commands /\ delivery'[q].mark <= Len(received[delivery'[q].cmd])
               /\ delivery'[q].op = "accept" =>
                    /\ delivery'[q].update = "accepted" /\ delivery'[q].attempt <= 1
                    /\ delivery'[q].state # "joined"
               /\ delivery'[q].op = "finish" =>
                    delivery'[q].update \in Terminals /\ tracked'[delivery'[q].cmd].terminal = delivery'[q].update
               /\ delivery'[q].op = "reject" =>
                    delivery'[q].update = "refused" /\ delivery'[q].state \notin {"queued", "joined"}
               /\ delivery'[q].state \in {"idle", "queued", "joined"} => ~(delivery'[q].attempt > 0)
               /\ delivery'[q].state = "sending" => delivery'[q].attempt > 0
    <3>1. CASE q = k
      BY <1>2, <1>3, <1>4, <1>7, <1>a, <3>1
    <3>2. CASE q # k
      BY <1>0, <1>2, <1>13, <3>2 DEF CallsCarryTheTerminal, WasSent
    <3> QED BY <3>1, <3>2
  <2> QED BY <1>1, <2>1 DEF CallsCarryTheTerminal, WasSent
<1>15. VerdictsAreSent'
  <2> SUFFICES ASSUME NEW d \in Commands, NEW i \in 1..Len(received[d]), received[d][i] \in Terminals
               PROVE  /\ received[d][i] = tracked'[d].terminal
                      /\ \E f \in DeliveryCalls : IsOf(f, "finish", d)' /\ WasSent(f)'
                      /\ \A j \in 1..Len(received[d]) :
                           i < j => received[d][j] \in {received[d][i], "refused"}
    <3>1. received' = received
      BY <1>1
    <3> QED BY <3>1 DEF VerdictsAreSent
  <2>1. PICK f \in DeliveryCalls : IsOf(f, "finish", d) /\ WasSent(f)
    BY <1>0 DEF VerdictsAreSent
  <2>2. f # k
    BY <1>a, <2>1, OutOfTheChain DEF WasSent
  <2>3. IsOf(f, "finish", d)' /\ WasSent(f)'
    BY <1>2, <2>1, <2>2 DEF IsOf, WasSent
  <2>4. tracked'[d].terminal = delivery[f].update /\ tracked[d].terminal = delivery[f].update
    BY <1>0, <1>13, <2>1 DEF IsOf, CallsCarryTheTerminal
  <2> QED BY <1>0, <2>3, <2>4 DEF VerdictsAreSent
<1>16. \A d \in Commands : tracked[d].task # k
  BY <1>a, OutOfTheChain
<1>17. TasksAreQueued'
  <2> SUFFICES ASSUME NEW d \in Commands, tracked'[d].task # NoCall
               PROVE  /\ IsOf(tracked[d].task, "finish", d)'
                      /\ delivery'[tracked'[d].task].state \in {"queued", "sending", "rejected"}
    BY DEF TasksAreQueued
  <2>1. CASE d = c /\ free
    BY <1>2, <1>3, <1>7, <2>1 DEF IsOf
  <2>2. CASE ~(d = c /\ free)
    <3>1. /\ tracked'[d].task = tracked[d].task /\ tracked[d].task \in DeliveryCalls \ {k}
          /\ delivery'[tracked[d].task] = delivery[tracked[d].task]
      BY <1>0, <1>2, <1>7, <1>16, <2>2 DEF TypesAreKept
    <3> QED BY <1>0, <3>1 DEF TasksAreQueued, IsOf
  <2> QED BY <2>1, <2>2
<1>18. JoinIsLater(k)' \/ delivery'[k].state = "queued"
  <2> SUFFICES ASSUME ~free PROVE JoinIsLater(k)'
    BY <1>2, <1>3
  <2> DEFINE t == tracked[c].task
  <2>1. /\ t \in DeliveryCalls \ {k} /\ delivery'[t] = delivery[t] /\ tracked'[c].task = t
        /\ delivery[t].op = "finish" /\ delivery[t].cmd = c
        /\ delivery[t].state \in {"queued", "sending", "rejected"}
    BY <1>0, <1>2, <1>5, <1>7, <1>16 DEF TasksAreQueued, IsOf
  <2>2. /\ delivery'[k].joined = t /\ delivery'[k].cmd = c /\ delivery'[k].mark = mark
        /\ delivery'[k].asked = asked /\ delivery'[k].replay = replay
    BY <1>2, <1>3
  <2>3. asked /\ ~replay => ReceivedAfter(t, mark)
    BY <1>a
  <2>4. ASSUME NEW x \in DeliveryCalls, x = t, asked, ~replay
        PROVE  ReceivedAfter(x, mark)'
    BY <1>11, <2>3, <2>4
  <2> QED BY <2>1, <2>2, <2>4 DEF JoinIsLater, IsOf
<1>19. JoinsAreLater'
  <2> SUFFICES ASSUME NEW q \in DeliveryCalls, q # k, delivery'[q].op = "finish", delivery'[q].state = "joined"
               PROVE  JoinIsLater(q)'
    BY <1>18 DEF JoinsAreLater
  <2> DEFINE t == delivery[q].joined
             d == delivery[q].cmd
  <2>1. /\ delivery'[q] = delivery[q] /\ JoinIsLater(q) /\ d \in Commands /\ t # k
    BY <1>0, <1>2, <1>a, OutOfTheChain DEF JoinsAreLater, CallsCarryTheTerminal
  <2>2. t \in DeliveryCalls /\ delivery'[t] = delivery[t]
    BY <1>2, <2>1 DEF JoinIsLater
  <2>3. IsOf(t, "finish", d)' /\ delivery'[t].state \in {"queued", "sending", "resolved", "rejected"}
    BY <2>1, <2>2 DEF JoinIsLater, IsOf
  <2>4. delivery'[t].state = "resolved" => WasReceived(t)'
    BY <1>11, <2>1, <2>2 DEF JoinIsLater
  <2>5. delivery[q].asked /\ ~delivery[q].replay => ReceivedAfter(t, delivery[q].mark)'
    <3>1. delivery[q].asked /\ ~delivery[q].replay => ReceivedAfter(t, delivery[q].mark)
      BY <2>1 DEF JoinIsLater
    <3> QED BY <1>11, <2>1, <2>2, <3>1
  <2>6. \A p : ReceivedAfter(k, p)'
    <3>1. ~WasReceived(k)
      BY <1>a, OutOfTheChain
    <3> QED BY <1>11, <3>1 DEF ReceivedAfter
  <2>7. /\ tracked'[d].task \in {k, tracked[d].task}
        /\ tracked[d].task \in DeliveryCalls \cup {NoCall}
    BY <1>0, <1>7, <2>1 DEF TypesAreKept
  <2>8. ASSUME NEW x, x = tracked'[d].task, delivery[q].asked, delivery[q].replay, x \notin {NoCall, t}
        PROVE  ReceivedAfter(x, delivery[q].mark)'
    <3>1. CASE x = k
      BY <2>1, <2>6, <3>1
    <3>2. CASE x # k
      <4>1. ReceivedAfter(x, delivery[q].mark) /\ x \in DeliveryCalls
        BY <2>1, <2>7, <2>8, <3>2 DEF JoinIsLater
      <4> QED BY <1>11, <2>1, <4>1
    <3> QED BY <3>1, <3>2
  <2> QED BY <2>1, <2>2, <2>3, <2>4, <2>5, <2>8 DEF JoinIsLater
<1> QED BY <1>9, <1>11, <1>12, <1>14, <1>15, <1>17, <1>19 DEF DeliveryIndInv

-----------------------------------------------------------------------------
LEMMA FinishKeeps ==
  ASSUME DeliveryIndInv, NEW k \in DeliveryCalls, NEW c \in Commands, NEW update \in Terminals,
         NEW replay \in BOOLEAN, Finish(k, c, update, replay)
  PROVE  DeliveryIndInv'
<1>1. Len(received[c]) \in Nat
  BY DEF DeliveryIndInv, TypesAreKept
<1>2. MayEnter(k, c, replay, replay, Len(received[c]))
  BY <1>1 DEF MayEnter, Finish
<1>3. EnterFinish(k, c, update, replay, replay, Len(received[c]))
  BY DEF Finish
<1> QED BY <1>2, <1>3, EnterKeeps

(* A finish settles with the task it joined, a refusal with its answer:    *)
(* neither is in a chain.                                                  *)
LEMMA AsideSettles ==
  ASSUME DeliveryIndInv, NEW k \in DeliveryCalls, NEW final \in SettledStates,
         \/ /\ delivery[k].op = "finish" /\ delivery[k].state = "joined"
            /\ delivery[delivery[k].joined].state = final
            /\ ~(final = "resolved" /\ Redelivers(k))
         \/ /\ delivery[k].op = "reject" /\ delivery[k].state = "sending"
            /\ final = "resolved" => Message(k, delivery[k].attempt) \in answered,
         delivery' = [delivery EXCEPT ![k].state = final],
         UNCHANGED <<tracked, chain, broken, net, answered, received>>
  PROVE  DeliveryIndInv'
<1>0. /\ TypesAreKept /\ CallsCarryTheTerminal /\ ChainIsAQueue /\ ChainHoldsAll /\ WireIsTrue
      /\ AcceptsSettle /\ FinishIsLast /\ VerdictsAreSent /\ TasksAreQueued
      /\ FinishesAreReceived /\ JoinsAreLater /\ ResolvedFinishWasReceived
  BY DEF DeliveryIndInv
<1>1. /\ SameStories
      /\ \A q \in DeliveryCalls : delivery'[q].state = IF q = k THEN final ELSE delivery[q].state
  BY <1>0 DEF SameStories, TypesAreKept, DeliveryStates
<1>2. /\ \A d \in Commands : \A i \in 1..Len(chain[d]) : chain[d][i] \in DeliveryCalls /\ chain[d][i] # k
      /\ \A d \in Commands : tracked[d].task # k
      /\ \A q \in DeliveryCalls :
           delivery[q].op = "finish" /\ delivery[q].state = "joined" => delivery[q].joined # k
  <2>1. CASE delivery[k].state = "joined"
    BY <1>0, <2>1, OutOfTheChain DEF TypesAreKept
  <2>2. CASE delivery[k].op = "reject"
    BY <1>0, <2>2, NoCallAssumption DEF TypesAreKept, ChainIsAQueue, TasksAreQueued, JoinsAreLater,
                                        JoinIsLater, IsOf
  <2> QED BY <2>1, <2>2
<1>3. final \in {"resolved", "rejected"}
  BY DEF SettledStates
<1>4. TypesAreKept'
  <2>1. delivery' \in [DeliveryCalls -> DeliveryStates]
    BY <1>0, StateIsTyped DEF TypesAreKept
  <2> QED BY <1>0, <2>1 DEF TypesAreKept
<1>5. CallsCarryTheTerminal'
  BY <1>0, <1>1, <1>3 DEF CallsCarryTheTerminal, SameStories, WasSent
<1>6. ChainIsAQueue'
  <2>1. ASSUME NEW d \in Commands, NEW i \in 1..Len(chain[d])
        PROVE  /\ delivery'[chain[d][i]].cmd = delivery[chain[d][i]].cmd
               /\ delivery'[chain[d][i]].op = delivery[chain[d][i]].op
               /\ delivery'[chain[d][i]].state = delivery[chain[d][i]].state
    BY <1>1, <1>2 DEF SameStories
  <2> QED BY <1>0, <2>1 DEF ChainIsAQueue
<1>7. ChainHoldsAll'
  BY <1>0, <1>1, <1>3 DEF ChainHoldsAll, SameStories
<1>8. WireIsTrue'
  BY <1>0, <1>1 DEF WireIsTrue, SameStories, TypesAreKept
<1>9. AcceptsSettle' /\ FinishIsLast'
  BY <1>0, <1>1, <1>3 DEF AcceptsSettle, FinishIsLast, SameStories, WasSent, IsOf, Message
<1>10. VerdictsAreSent'
  BY <1>0, <1>1 DEF VerdictsAreSent, SameStories, WasSent, IsOf
<1>11. TasksAreQueued'
  BY <1>0, <1>1, <1>2 DEF TasksAreQueued, SameStories, IsOf, TypesAreKept
<1>12. /\ \A t \in DeliveryCalls : \A p : ReceivedAfter(t, p)' <=> ReceivedAfter(t, p)
       /\ \A t \in DeliveryCalls : WasReceived(t)' <=> WasReceived(t)
  <2>1. \A t \in DeliveryCalls : WasReceived(t)' <=> WasReceived(t)
    BY <1>1 DEF WasReceived, Message
  <2>2. ASSUME NEW t \in DeliveryCalls, NEW p PROVE ReceivedAfter(t, p)' <=> ReceivedAfter(t, p)
    <3>1. /\ delivery'[t].cmd = delivery[t].cmd /\ delivery'[t].update = delivery[t].update
          /\ received' = received
      BY <1>1 DEF SameStories
    <3> QED BY <2>1, <3>1 DEF ReceivedAfter
  <2> QED BY <2>1, <2>2
<1>13. FinishesAreReceived'
  BY <1>0, <1>1, <1>12 DEF FinishesAreReceived, SameStories
<1>14. JoinsAreLater'
  <2> SUFFICES ASSUME NEW q \in DeliveryCalls, delivery'[q].op = "finish", delivery'[q].state = "joined"
               PROVE  JoinIsLater(q)'
    BY DEF JoinsAreLater
  <2> DEFINE t == delivery[q].joined
             d == delivery[q].cmd
  <2>1. q # k /\ delivery[q].op = "finish" /\ delivery[q].state = "joined"
    BY <1>1, <1>3 DEF SameStories
  <2>2. JoinIsLater(q) /\ d \in Commands /\ t # k
    BY <1>0, <1>2, <2>1 DEF JoinsAreLater, CallsCarryTheTerminal
  <2>3. /\ delivery'[q].joined = t /\ delivery'[q].cmd = d
        /\ delivery'[q].mark = delivery[q].mark /\ delivery'[q].asked = delivery[q].asked
        /\ delivery'[q].replay = delivery[q].replay
    BY <1>1 DEF SameStories
  <2>4. t \in DeliveryCalls /\ IsOf(t, "finish", d)' /\ delivery'[t].state = delivery[t].state
    BY <1>1, <2>2 DEF SameStories, JoinIsLater, IsOf
  <2>5. tracked[d].task \in DeliveryCalls \cup {NoCall}
    BY <1>0, <2>2 DEF TypesAreKept
  <2>6. delivery[q].asked /\ ~delivery[q].replay => ReceivedAfter(t, delivery[q].mark)'
    <3>1. delivery[q].asked /\ ~delivery[q].replay => ReceivedAfter(t, delivery[q].mark)
      BY <2>2 DEF JoinIsLater
    <3> QED BY <1>12, <2>3, <2>4, <3>1
  <2>7. ASSUME NEW x \in DeliveryCalls, x = tracked[d].task, delivery[q].asked, delivery[q].replay,
               x \notin {NoCall, t}
        PROVE  ReceivedAfter(x, delivery[q].mark)'
    BY <1>12, <2>2, <2>3, <2>7 DEF JoinIsLater
  <2>8. delivery[t].state = "resolved" => WasReceived(t)'
    BY <1>12, <2>2 DEF JoinIsLater
  <2>9. delivery[t].state \in {"queued", "sending", "resolved", "rejected"}
    BY <2>2 DEF JoinIsLater
  <2> QED BY <2>3, <2>4, <2>5, <2>6, <2>7, <2>8, <2>9 DEF JoinIsLater
<1>15. ResolvedFinishWasReceived'
  <2>1. ASSUME final = "resolved"
        PROVE  \E i \in 1..Len(received[delivery[k].cmd]) :
                 /\ received[delivery[k].cmd][i] = delivery[k].update
                 /\ delivery[k].asked => i > delivery[k].mark
    <3>1. CASE delivery[k].op = "finish" /\ delivery[k].state = "joined"
               /\ delivery[delivery[k].joined].state = final /\ ~(final = "resolved" /\ Redelivers(k))
      <4> DEFINE t == delivery[k].joined
      <4>1. /\ JoinIsLater(k) /\ delivery[k].cmd \in Commands
            /\ tracked[delivery[k].cmd].terminal = delivery[k].update
        BY <1>0, <3>1 DEF JoinsAreLater, CallsCarryTheTerminal
      <4>2. /\ t \in DeliveryCalls /\ delivery[t].cmd = delivery[k].cmd /\ delivery[t].op = "finish"
            /\ WasReceived(t) /\ (delivery[k].asked => ReceivedAfter(t, delivery[k].mark))
        BY <2>1, <3>1, <4>1 DEF JoinIsLater, IsOf, Redelivers
      <4>3. delivery[t].update = delivery[k].update /\ ReceivedAfter(t, delivery[t].mark)
        BY <1>0, <4>1, <4>2 DEF CallsCarryTheTerminal, FinishesAreReceived
      <4> QED BY <4>2, <4>3 DEF ReceivedAfter
    <3>2. CASE delivery[k].op = "reject" /\ Message(k, delivery[k].attempt) \in answered
      <4>1. WasReceived(k)
        BY <1>0, <3>2 DEF TypesAreKept, Message, WasReceived
      <4> QED BY <1>0, <3>2, <4>1 DEF FinishesAreReceived, ReceivedAfter
    <3> QED BY <2>1, <3>1, <3>2
  <2>2. \A q \in DeliveryCalls : delivery[q].op # "none" => delivery[q].cmd \in Commands
    BY <1>0 DEF CallsCarryTheTerminal
  <2>3. \A d \in Commands : DOMAIN received[d] = 1..Len(received[d])
    BY <1>0 DEF TypesAreKept
  <2> QED BY <1>0, <1>1, <1>3, <2>1, <2>2, <2>3 DEF ResolvedFinishWasReceived, SameStories
<1> QED BY <1>4, <1>5, <1>6, <1>7, <1>8, <1>9, <1>10, <1>11, <1>13, <1>14, <1>15 DEF DeliveryIndInv

(* A finish that joined: asks again, or settles with the task it joined.   *)
LEMMA AfterJoinedKeeps ==
  ASSUME DeliveryIndInv, NEW k \in DeliveryCalls, AfterJoined(k)
  PROVE  DeliveryIndInv'
<1>0. TypesAreKept /\ CallsCarryTheTerminal /\ TasksAreQueued /\ JoinsAreLater
  BY DEF DeliveryIndInv
<1> DEFINE c == delivery[k].cmd
           t == delivery[k].joined
<1>1. /\ delivery[k].state = "joined" /\ delivery[k].op = "finish" /\ c \in Commands
      /\ delivery[k].update \in Terminals /\ delivery[k].mark <= Len(received[c])
      /\ delivery[k].mark \in Nat /\ delivery[k].asked \in BOOLEAN
  <2>1. delivery[k].state = "joined" /\ delivery[k] \in DeliveryStates
    BY <1>0 DEF AfterJoined, TypesAreKept
  <2>2. delivery[k].op \in {"accept", "finish"}
    BY <1>0, <2>1 DEF CallsCarryTheTerminal, DeliveryStates
  <2>3. delivery[k].op # "accept"
    BY <1>0, <2>1 DEF CallsCarryTheTerminal
  <2> QED BY <1>0, <2>1, <2>2, <2>3 DEF CallsCarryTheTerminal, DeliveryStates
<1>2. CASE delivery[t].state = "resolved" /\ Redelivers(k)
  <2>1. EnterFinish(k, c, delivery[k].update, FALSE, delivery[k].asked, delivery[k].mark)
    BY <1>2 DEF AfterJoined
  <2>2. tracked[c].task # NoCall /\ delivery[k].asked => ReceivedAfter(tracked[c].task, delivery[k].mark)
    <3>1. JoinIsLater(k)
      BY <1>0, <1>1 DEF JoinsAreLater
    <3>2. tracked[c].task # NoCall => delivery[tracked[c].task].state # "resolved"
      BY <1>0, <1>1 DEF TasksAreQueued
    <3> QED BY <1>2, <3>1, <3>2 DEF JoinIsLater, Redelivers
  <2>3. MayEnter(k, c, FALSE, delivery[k].asked, delivery[k].mark)
    BY <1>1, <2>2 DEF MayEnter
  <2> QED BY <1>1, <2>1, <2>3, EnterKeeps
<1>3. CASE ~(delivery[t].state = "resolved" /\ Redelivers(k))
  BY <1>1, <1>3, AsideSettles DEF AfterJoined
<1> QED BY <1>2, <1>3

-----------------------------------------------------------------------------
(* The head of a chain, or a refusal, sends its next attempt. A finish     *)
(* that begins has every accept of its command settled behind it, with its *)
(* chain intact.                                                           *)
HeadSends(k, attempt) ==
  /\ delivery[k].state \in {"queued", "sending"}
  /\ delivery[k].op # "reject" => Head(chain[delivery[k].cmd]) = k
  /\ attempt = delivery[k].attempt + 1 /\ attempt <= MaxAttempts
  /\ delivery[k].state = "queued" => delivery[k].cmd \notin broken
  /\ delivery[k].op = "accept" => delivery[k].state = "queued"
  /\ Sends(k, attempt)
  /\ UNCHANGED <<tracked, chain, broken, answered, received>>

LEMMA SendingIsTyped ==
  ASSUME NEW msg \in DeliveryStates, NEW attempt \in 0..MaxAttempts
  PROVE  /\ [msg EXCEPT !.state = "sending"] \in DeliveryStates
         /\ [msg EXCEPT !.attempt = attempt] \in DeliveryStates
<1>1. [msg EXCEPT !.state = "sending"] \in DeliveryStates
  BY DEF DeliveryStates, Unsettled
<1>2. [msg EXCEPT !.attempt = attempt] \in DeliveryStates
  BY DEF DeliveryStates
<1> QED BY <1>1, <1>2

LEMMA HeadSendsKeeps ==
  ASSUME DeliveryIndInv, NEW k \in DeliveryCalls, NEW attempt \in Nat, HeadSends(k, attempt)
  PROVE  DeliveryIndInv'
<1> DEFINE c == delivery[k].cmd
<1>0. /\ TypesAreKept /\ CallsCarryTheTerminal /\ ChainIsAQueue /\ ChainHoldsAll /\ WireIsTrue
      /\ AcceptsSettle /\ FinishIsLast /\ VerdictsAreSent /\ TasksAreQueued
      /\ FinishesAreReceived /\ JoinsAreLater /\ ResolvedFinishWasReceived
  BY DEF DeliveryIndInv
<1>a. /\ delivery[k].state \in {"queued", "sending"}
      /\ delivery[k].op # "reject" => Head(chain[c]) = k
      /\ attempt = delivery[k].attempt + 1 /\ attempt <= MaxAttempts
      /\ delivery[k].state = "queued" => c \notin broken
      /\ delivery[k].op = "accept" => delivery[k].state = "queued"
      /\ UNCHANGED <<tracked, chain, broken, answered, received>>
  BY DEF HeadSends
<1>1. /\ c \in Commands /\ delivery[k].op \in {"accept", "finish", "reject"}
      /\ chain[c] \in Seq(DeliveryCalls)
      /\ delivery[k].op # "reject" => chain[c] # << >>
  <2>1. delivery[k].op \in {"accept", "finish", "reject"} /\ c \in Commands
    BY <1>0, <1>a DEF TypesAreKept, DeliveryStates, CallsCarryTheTerminal
  <2> QED BY <1>0, <1>a, <2>1, HeadOfChain DEF TypesAreKept
<1>2. delivery[k].op # "reject" => chain[c][1] = k /\ 1 \in 1..Len(chain[c])
  BY <1>1, <1>a
<1>3. \A q \in DeliveryCalls :
        /\ delivery'[q].op = delivery[q].op /\ delivery'[q].cmd = delivery[q].cmd
        /\ delivery'[q].update = delivery[q].update /\ delivery'[q].replay = delivery[q].replay
        /\ delivery'[q].joined = delivery[q].joined
        /\ delivery'[q].asked = delivery[q].asked /\ delivery'[q].mark = delivery[q].mark
        /\ delivery'[q].state = IF q = k THEN "sending" ELSE delivery[q].state
        /\ delivery'[q].attempt = IF q = k THEN attempt ELSE delivery[q].attempt
  BY <1>0 DEF HeadSends, Sends, TypesAreKept, DeliveryStates
<1>4. net' = net \cup {Message(k, attempt)}
  BY DEF HeadSends, Sends, Message
<1>5. /\ delivery[k].attempt \in Nat /\ attempt > delivery[k].attempt /\ attempt \in 1..MaxAttempts
      /\ delivery[k].state = "queued" => attempt = 1
      /\ delivery[k].state = "sending" => delivery[k].attempt > 0
  <2>1. delivery[k].attempt \in Nat
    BY <1>0 DEF TypesAreKept, DeliveryStates
  <2> QED BY <1>0, <1>a, <2>1, DeliveryBounds DEF CallsCarryTheTerminal, WasSent
<1>6. TypesAreKept'
  <2>1. delivery' \in [DeliveryCalls -> DeliveryStates]
    <3> DEFINE sending == [delivery EXCEPT ![k].state = "sending"]
    <3>1. attempt \in 0..MaxAttempts /\ delivery \in [DeliveryCalls -> DeliveryStates]
      BY <1>0, <1>5 DEF TypesAreKept
    <3>2. sending \in [DeliveryCalls -> DeliveryStates]
      BY <3>1, SendingIsTyped
    <3>3. delivery' = [sending EXCEPT ![k].attempt = attempt]
      BY DEF HeadSends, Sends
    <3> HIDE DEF sending
    <3> QED BY <3>1, <3>2, <3>3, SendingIsTyped
  <2>2. Message(k, attempt) \in [delivery : DeliveryCalls, attempt : 1..MaxAttempts]
    BY <1>5 DEF Message
  <2> QED BY <1>0, <1>a, <1>4, <2>1, <2>2 DEF TypesAreKept
<1>7. CallsCarryTheTerminal'
  <2>1. ASSUME NEW q \in DeliveryCalls
        PROVE  /\ delivery'[q].state = "idle" <=> delivery[q].op = "none"
               /\ delivery[q].op = "accept" =>
                    /\ delivery[q].update = "accepted" /\ delivery'[q].attempt <= 1
                    /\ delivery'[q].state # "joined"
               /\ delivery[q].op = "reject" => delivery'[q].state \notin {"queued", "joined"}
               /\ delivery'[q].state \in {"idle", "queued", "joined"} => ~(delivery'[q].attempt > 0)
               /\ delivery'[q].state = "sending" => delivery'[q].attempt > 0
    BY <1>0, <1>1, <1>3, <1>5, <1>a DEF CallsCarryTheTerminal, WasSent
  <2> QED BY <1>0, <1>3, <1>a, <2>1 DEF CallsCarryTheTerminal, WasSent
<1>8. ChainIsAQueue'
  <2> SUFFICES ASSUME NEW d \in Commands, NEW i \in 1..Len(chain[d])
               PROVE  /\ delivery'[chain[d][i]].cmd = d /\ delivery'[chain[d][i]].op # "reject"
                      /\ delivery'[chain[d][i]].state \in {"queued", "sending"}
                      /\ delivery'[chain[d][i]].state = "sending" => i = 1
                      /\ \A j \in 1..Len(chain[d]) :
                           /\ chain[d][i] = chain[d][j] => i = j
                           /\ i < j /\ delivery'[chain[d][i]].op = "finish" =>
                                delivery'[chain[d][j]].op = "finish"
    BY <1>a DEF ChainIsAQueue
  <2>1. \A j \in 1..Len(chain[d]) : chain[d][j] \in DeliveryCalls
    BY <1>0 DEF TypesAreKept
  <2>2. /\ delivery[chain[d][i]].cmd = d /\ delivery[chain[d][i]].op # "reject"
        /\ delivery[chain[d][i]].state \in {"queued", "sending"}
        /\ delivery[chain[d][i]].state = "sending" => i = 1
        /\ \A j \in 1..Len(chain[d]) :
             /\ chain[d][i] = chain[d][j] => i = j
             /\ i < j /\ delivery[chain[d][i]].op = "finish" => delivery[chain[d][j]].op = "finish"
    BY <1>0 DEF ChainIsAQueue
  <2>3. chain[d][i] = k => i = 1
    <3>1. chain[d][i] = k => d = c
      BY <2>2
    <3> QED BY <1>2, <2>2, <3>1
  <2> QED BY <1>3, <2>1, <2>2, <2>3
<1>9. ChainHoldsAll'
  BY <1>0, <1>3, <1>a DEF ChainHoldsAll
<1>10. WireIsTrue'
  <2>1. \A m \in net \cup answered : m.delivery \in DeliveryCalls /\ m.attempt \in Nat
    BY <1>0 DEF TypesAreKept
  <2>2. \A m \in net \cup answered : m.attempt <= delivery'[m.delivery].attempt
    BY <1>0, <1>3, <1>5, <2>1 DEF WireIsTrue
  <2>3. Message(k, attempt).delivery = k /\ Message(k, attempt).attempt = attempt
    BY DEF Message
  <2>4. Message(k, attempt) \notin answered
    BY <1>0, <1>5, <2>3 DEF WireIsTrue
  <2> QED BY <1>0, <1>3, <1>4, <1>5, <1>a, <2>2, <2>3, <2>4 DEF WireIsTrue
<1>11. AcceptsSettle'
  BY <1>0, <1>3, <1>a DEF AcceptsSettle, WasSent, Message
<1>12. ASSUME delivery[k].op = "finish", NEW q \in DeliveryCalls, IsOf(q, "accept", c)
       PROVE  Message(q, 1) \notin net /\ delivery[q].state \notin {"queued", "sending"}
  <2>1. CASE delivery[k].state = "sending"
    BY <1>0, <1>5, <1>12, <2>1 DEF FinishIsLast, WasSent
  <2>2. CASE delivery[k].state = "queued"
    <3>1. q # k /\ delivery[q].op = "accept" /\ delivery[q].cmd = c
      BY <1>12 DEF IsOf
    <3>2. delivery[q].state \notin {"queued", "sending"}
      <4> SUFFICES ASSUME delivery[q].state \in {"queued", "sending"} PROVE FALSE
        OBVIOUS
      <4>1. PICK i \in 1..Len(chain[c]) : chain[c][i] = q
        BY <1>0, <3>1 DEF ChainHoldsAll
      <4>2. 1 < i
        BY <1>2, <1>12, <3>1, <4>1
      <4> QED BY <1>0, <1>1, <1>2, <1>12, <3>1, <4>1, <4>2 DEF ChainIsAQueue
    <3>3. Message(q, 1) \notin net
      <4> SUFFICES ASSUME Message(q, 1) \in net PROVE FALSE
        OBVIOUS
      <4>1. 1 <= delivery[q].attempt /\ delivery[q].attempt \in Nat
        BY <1>0 DEF WireIsTrue, Message, TypesAreKept, DeliveryStates
      <4>2. WasSent(q) /\ delivery[q].state \notin {"idle", "queued", "joined"}
        BY <1>0, <4>1 DEF WasSent, CallsCarryTheTerminal
      <4>3. delivery[q].state \in {"resolved", "rejected"}
        BY <1>0, <3>2, <4>2 DEF TypesAreKept, DeliveryStates, Unsettled, SettledStates
      <4> QED BY <1>0, <1>a, <2>2, <3>1, <4>2, <4>3 DEF AcceptsSettle, WireIsTrue
    <3> QED BY <3>2, <3>3
  <2> QED BY <1>a, <2>1, <2>2
<1>13. FinishIsLast'
  <2> SUFFICES ASSUME NEW q \in DeliveryCalls, NEW f \in DeliveryCalls,
                      delivery[f].op = "finish", delivery'[f].attempt > 0,
                      IsOf(q, "accept", delivery[f].cmd)
               PROVE  Message(q, 1) \notin net' /\ delivery'[q].state \notin {"queued", "sending"}
    BY <1>3 DEF FinishIsLast, WasSent, IsOf, Message
  <2>1. Message(q, 1) \notin net /\ delivery[q].state \notin {"queued", "sending"}
    <3>1. CASE f = k
      BY <1>12, <3>1
    <3>2. CASE f # k
      BY <1>0, <1>3, <3>2 DEF FinishIsLast, WasSent
    <3> QED BY <3>1, <3>2
  <2>2. q # k
    BY <1>a, <2>1
  <2>3. Message(q, 1) # Message(k, attempt)
    BY <2>2 DEF Message
  <2> QED BY <1>3, <1>4, <2>1, <2>2, <2>3
<1>14. VerdictsAreSent'
  <2>1. \A f \in DeliveryCalls : \A d : IsOf(f, "finish", d) /\ WasSent(f) => IsOf(f, "finish", d)' /\ WasSent(f)'
    BY <1>3, <1>5 DEF IsOf, WasSent
  <2> QED BY <1>0, <1>a, <2>1 DEF VerdictsAreSent
<1>15. TasksAreQueued'
  <2> SUFFICES ASSUME NEW d \in Commands, tracked[d].task # NoCall
               PROVE  /\ IsOf(tracked[d].task, "finish", d)'
                      /\ delivery'[tracked[d].task].state \in {"queued", "sending", "rejected"}
    BY <1>a DEF TasksAreQueued
  <2>1. /\ tracked[d].task \in DeliveryCalls /\ IsOf(tracked[d].task, "finish", d)
        /\ delivery[tracked[d].task].state \in {"queued", "sending", "rejected"}
    BY <1>0 DEF TasksAreQueued, TypesAreKept
  <2> QED BY <1>3, <1>a, <2>1 DEF IsOf
<1>16. /\ \A t \in DeliveryCalls : \A p : ReceivedAfter(t, p)' <=> ReceivedAfter(t, p)
       /\ \A t \in DeliveryCalls : WasReceived(t)' <=> WasReceived(t)
  BY <1>3, <1>a DEF ReceivedAfter, WasReceived, Message
<1>17. FinishesAreReceived'
  BY <1>0, <1>3, <1>16 DEF FinishesAreReceived
<1>18. JoinsAreLater'
  <2> SUFFICES ASSUME NEW q \in DeliveryCalls, delivery'[q].op = "finish", delivery'[q].state = "joined"
               PROVE  JoinIsLater(q)'
    BY DEF JoinsAreLater
  <2> DEFINE t == delivery[q].joined
             d == delivery[q].cmd
  <2>1. delivery[q].op = "finish" /\ delivery[q].state = "joined"
    BY <1>3
  <2>2. JoinIsLater(q) /\ d \in Commands
    BY <1>0, <2>1 DEF JoinsAreLater, CallsCarryTheTerminal
  <2>3. /\ delivery'[q].joined = t /\ delivery'[q].cmd = d
        /\ delivery'[q].mark = delivery[q].mark /\ delivery'[q].asked = delivery[q].asked
        /\ delivery'[q].replay = delivery[q].replay
    BY <1>3
  <2>4. t \in DeliveryCalls /\ IsOf(t, "finish", d)'
    BY <1>3, <2>2 DEF JoinIsLater, IsOf
  <2>5. tracked[d].task \in DeliveryCalls \cup {NoCall}
    BY <1>0, <2>2 DEF TypesAreKept
  <2>6. delivery[q].asked /\ ~delivery[q].replay => ReceivedAfter(t, delivery[q].mark)'
    <3>1. delivery[q].asked /\ ~delivery[q].replay => ReceivedAfter(t, delivery[q].mark)
      BY <2>2 DEF JoinIsLater
    <3> QED BY <1>16, <2>3, <2>4, <3>1
  <2>7. ASSUME NEW x \in DeliveryCalls, x = tracked[d].task, delivery[q].asked, delivery[q].replay,
               x \notin {NoCall, t}
        PROVE  ReceivedAfter(x, delivery[q].mark)'
    BY <1>16, <2>2, <2>3, <2>7 DEF JoinIsLater
  <2>8. /\ delivery'[t].state \in {"queued", "sending", "resolved", "rejected"}
        /\ delivery'[t].state = "resolved" => WasReceived(t)'
    <3>1. /\ delivery[t].state \in {"queued", "sending", "resolved", "rejected"}
          /\ delivery[t].state = "resolved" => WasReceived(t)
      BY <2>2 DEF JoinIsLater
    <3>2. delivery'[t].state \in {delivery[t].state, "sending"}
      BY <1>3, <2>4
    <3>3. delivery'[t].state \in {"queued", "sending", "resolved", "rejected"}
      BY <3>1, <3>2
    <3>4. delivery'[t].state = "resolved" => WasReceived(t)
      BY <3>1, <3>2
    <3>5. WasReceived(t) => WasReceived(t)'
      BY <1>16, <2>3, <2>4
    <3> QED BY <3>3, <3>4, <3>5
  <2> QED BY <1>a, <2>3, <2>4, <2>5, <2>6, <2>7, <2>8 DEF JoinIsLater
<1>19. ResolvedFinishWasReceived'
  BY <1>0, <1>3, <1>a DEF ResolvedFinishWasReceived
<1> QED BY <1>6, <1>7, <1>8, <1>9, <1>10, <1>11, <1>13, <1>14, <1>15, <1>17, <1>18, <1>19 DEF DeliveryIndInv

-----------------------------------------------------------------------------
LEMMA RejectIsTyped ==
  ASSUME NEW c \in Commands, NEW msg \in DeliveryStates, NEW place \in Nat
  PROVE  [msg EXCEPT !.op = "reject", !.cmd = c, !.update = "refused", !.state = "sending",
                     !.attempt = 1, !.asked = TRUE, !.mark = place] \in DeliveryStates
<1>1. 1 \in 0..MaxAttempts
  BY DeliveryBounds
<1>2. [msg EXCEPT !.op = "reject", !.cmd = c, !.update = "refused"] \in DeliveryStates
  BY DEF DeliveryStates
<1> DEFINE told == [msg EXCEPT !.op = "reject", !.cmd = c, !.update = "refused"]
<1>3. told \in DeliveryStates
  BY <1>2
<1>4. [msg EXCEPT !.op = "reject", !.cmd = c, !.update = "refused", !.state = "sending",
                  !.attempt = 1, !.asked = TRUE, !.mark = place]
        = [told EXCEPT !.state = "sending", !.attempt = 1, !.asked = TRUE, !.mark = place]
  OBVIOUS
<1> HIDE DEF told
<1> QED BY <1>1, <1>3, <1>4 DEF DeliveryStates, Unsettled

(* reject: a call in no chain sends the refusal.                           *)
LEMMA RejectKeeps ==
  ASSUME DeliveryIndInv, NEW k \in DeliveryCalls, NEW c \in Commands, Reject(k, c)
  PROVE  DeliveryIndInv'
<1> DEFINE new == [Idle EXCEPT !.op = "reject", !.cmd = c, !.update = "refused", !.state = "sending",
                               !.attempt = 1, !.asked = TRUE, !.mark = Len(received[c])]
<1>0. /\ TypesAreKept /\ CallsCarryTheTerminal /\ ChainIsAQueue /\ ChainHoldsAll /\ WireIsTrue
      /\ AcceptsSettle /\ FinishIsLast /\ VerdictsAreSent /\ TasksAreQueued
      /\ FinishesAreReceived /\ JoinsAreLater /\ ResolvedFinishWasReceived
  BY DEF DeliveryIndInv
<1>1. /\ delivery[k].state = "idle" /\ delivery[k].op = "none"
      /\ delivery' = [delivery EXCEPT ![k] = new] /\ net' = net \cup {Message(k, 1)}
      /\ UNCHANGED <<tracked, chain, broken, answered, received>>
  BY <1>0 DEF Reject, Message, CallsCarryTheTerminal
<1>2. /\ delivery'[k] = new /\ \A q \in DeliveryCalls \ {k} : delivery'[q] = delivery[q]
  BY <1>0, <1>1 DEF TypesAreKept
<1>3. /\ new.op = "reject" /\ new.cmd = c /\ new.update = "refused" /\ new.state = "sending"
      /\ new.attempt = 1 /\ new.mark = Len(received[c]) /\ new.mark \in Nat
  BY <1>0 DEF Idle, TypesAreKept
<1>4. new \in DeliveryStates
  <2>1. Idle \in DeliveryStates /\ Len(received[c]) \in Nat
    BY <1>0, DeliveryBounds DEF Idle, DeliveryStates, TypesAreKept
  <2> QED BY <2>1, RejectIsTyped
<1> HIDE DEF new
<1>5. /\ \A d \in Commands : \A i \in 1..Len(chain[d]) : chain[d][i] \in DeliveryCalls \ {k}
      /\ \A d \in Commands : tracked[d].task # k
      /\ ~WasReceived(k) /\ \A attempt : Message(k, attempt) \notin net \cup answered
      /\ \A q \in DeliveryCalls :
           delivery[q].op = "finish" /\ delivery[q].state = "joined" => delivery[q].joined # k
  BY <1>0, <1>1, OutOfTheChain DEF TypesAreKept
<1>6. TypesAreKept'
  BY <1>0, <1>1, <1>4, DeliveryBounds DEF TypesAreKept, Message
<1>7. CallsCarryTheTerminal'
  BY <1>0, <1>1, <1>2, <1>3 DEF CallsCarryTheTerminal, WasSent
<1>8. ChainIsAQueue' /\ ChainHoldsAll'
  <2>1. \A d \in Commands : \A i \in 1..Len(chain[d]) : delivery'[chain[d][i]] = delivery[chain[d][i]]
    BY <1>2, <1>5
  <2>2. ChainIsAQueue'
    BY <1>0, <1>1, <2>1 DEF ChainIsAQueue
  <2> QED BY <1>0, <1>1, <1>2, <1>3, <2>2 DEF ChainHoldsAll
<1>9. WireIsTrue'
  <2>1. Message(k, 1).delivery = k /\ Message(k, 1).attempt = 1 /\ Message(k, 1) \notin answered
    BY <1>5 DEF Message
  <2>2. \A m \in net \cup answered : m.delivery \in DeliveryCalls \ {k}
    BY <1>0, <1>5 DEF TypesAreKept, Message
  <2> QED BY <1>0, <1>1, <1>2, <1>3, <2>1, <2>2 DEF WireIsTrue
<1>10. AcceptsSettle'
  BY <1>0, <1>1, <1>2, <1>3 DEF AcceptsSettle, WasSent
<1>11. FinishIsLast'
  <2>1. \A q \in DeliveryCalls \ {k} : Message(q, 1) # Message(k, 1)
    BY DEF Message
  <2> QED BY <1>0, <1>1, <1>2, <1>3, <2>1 DEF FinishIsLast, WasSent, IsOf
<1>12. VerdictsAreSent'
  BY <1>0, <1>1, <1>2 DEF VerdictsAreSent, IsOf, WasSent
<1>13. TasksAreQueued'
  BY <1>0, <1>1, <1>2, <1>5 DEF TasksAreQueued, IsOf, TypesAreKept
<1>14. /\ \A t \in DeliveryCalls : WasReceived(t)' <=> WasReceived(t)
       /\ \A t \in DeliveryCalls : \A p : ReceivedAfter(t, p) => ReceivedAfter(t, p)'
  <2>1. \A t \in DeliveryCalls : WasReceived(t)' <=> WasReceived(t)
    BY <1>1 DEF WasReceived, Message
  <2> QED BY <1>1, <1>2, <1>5, <2>1 DEF ReceivedAfter
<1>15. FinishesAreReceived'
  <2>1. \A p : ReceivedAfter(k, p)'
    BY <1>5, <1>14 DEF ReceivedAfter
  <2> QED BY <1>0, <1>2, <1>14, <2>1 DEF FinishesAreReceived
<1>16. JoinsAreLater'
  <2> SUFFICES ASSUME NEW q \in DeliveryCalls, delivery'[q].op = "finish", delivery'[q].state = "joined"
               PROVE  JoinIsLater(q)'
    BY DEF JoinsAreLater
  <2>1. q # k /\ delivery'[q] = delivery[q]
    BY <1>2, <1>3
  <2>2. JoinIsLater(q) /\ delivery[q].joined # k /\ delivery[q].cmd \in Commands
    BY <1>0, <1>5, <2>1 DEF JoinsAreLater, CallsCarryTheTerminal
  <2>3. delivery[q].joined \in DeliveryCalls /\ delivery'[delivery[q].joined] = delivery[delivery[q].joined]
    BY <1>2, <2>2 DEF JoinIsLater
  <2>4. tracked[delivery[q].cmd].task \in DeliveryCalls \cup {NoCall}
    BY <1>0, <2>2 DEF TypesAreKept
  <2> QED BY <1>1, <1>14, <2>1, <2>2, <2>3, <2>4 DEF JoinIsLater, IsOf
<1>17. ResolvedFinishWasReceived'
  BY <1>0, <1>1, <1>2, <1>3 DEF ResolvedFinishWasReceived
<1> QED BY <1>6, <1>7, <1>8, <1>9, <1>10, <1>11, <1>12, <1>13, <1>15, <1>16, <1>17 DEF DeliveryIndInv

-----------------------------------------------------------------------------
(* The host logs an update: an accept's comes before every verdict, for no *)
(* finish of its command was sent while it travels.                        *)
LEMMA HostReceiveKeeps ==
  ASSUME DeliveryIndInv, NEW m \in net, HostReceive(m)
  PROVE  DeliveryIndInv'
<1> DEFINE k == m.delivery
           c == delivery[m.delivery].cmd
           update == delivery[m.delivery].update
           n == Len(received[c]) + 1
<1>0. /\ TypesAreKept /\ CallsCarryTheTerminal /\ ChainIsAQueue /\ ChainHoldsAll /\ WireIsTrue
      /\ AcceptsSettle /\ FinishIsLast /\ VerdictsAreSent /\ TasksAreQueued
      /\ FinishesAreReceived /\ JoinsAreLater /\ ResolvedFinishWasReceived
  BY DEF DeliveryIndInv
<1>a. /\ net' = net \ {m} /\ answered' = answered \cup {m}
      /\ received' = [received EXCEPT ![c] = Append(@, update)]
      /\ UNCHANGED <<tracked, chain, broken, delivery>>
  BY DEF HostReceive
<1>1. /\ k \in DeliveryCalls /\ m.attempt \in 1..MaxAttempts /\ m = Message(k, m.attempt)
      /\ m.attempt <= delivery[k].attempt /\ delivery[k].attempt \in Nat /\ m.attempt \in Nat
  BY <1>0, DeliveryBounds DEF TypesAreKept, DeliveryStates, WireIsTrue, Message
<1>2. WasSent(k) /\ delivery[k].op \in {"accept", "finish", "reject"} /\ c \in Commands
  <2>1. WasSent(k)
    BY <1>1 DEF WasSent
  <2>2. delivery[k].op \in {"none", "accept", "finish", "reject"}
    BY <1>0, <1>1 DEF TypesAreKept, DeliveryStates
  <2> QED BY <1>0, <1>1, <2>1, <2>2 DEF CallsCarryTheTerminal
<1>3. update \in Terminals \cup {"accepted", "refused"}
  BY <1>0, <1>1, <1>2 DEF CallsCarryTheTerminal
<1>4. received' \in [Commands -> Seq(Terminals \cup {"accepted", "refused"})]
  BY <1>0, <1>2, <1>3, <1>a DEF TypesAreKept
<1>5. /\ \A d \in Commands : Len(received[d]) \in Nat
      /\ \A d \in Commands \ {c} : received'[d] = received[d]
      /\ Len(received'[c]) = n /\ received'[c][n] = update
      /\ \A i \in 1..Len(received[c]) : received'[c][i] = received[c][i]
  BY <1>0, <1>2, <1>a DEF TypesAreKept
<1>6. \A d \in Commands : Len(received[d]) <= Len(received'[d])
  BY <1>2, <1>5
<1>7. \A d \in Commands : \A i \in 1..Len(received[d]) :
        i \in 1..Len(received'[d]) /\ received'[d][i] = received[d][i]
  <2> SUFFICES ASSUME NEW d \in Commands, NEW i \in 1..Len(received[d])
               PROVE  i \in 1..Len(received'[d]) /\ received'[d][i] = received[d][i]
    OBVIOUS
  <2>1. CASE d = c
    <3>1. i \in Nat /\ i >= 1 /\ i <= Len(received[c]) /\ Len(received[c]) \in Nat
      BY <1>5, <2>1
    <3> QED BY <1>5, <2>1, <3>1
  <2>2. CASE d # c
    BY <1>5, <2>2
  <2> QED BY <2>1, <2>2
<1>8. ASSUME NEW d \in Commands, NEW i \in 1..Len(received'[d])
      PROVE  \/ i \in 1..Len(received[d]) /\ received'[d][i] = received[d][i]
             \/ d = c /\ i = n /\ received'[d][i] = update
  <2>1. CASE d # c
    BY <1>5, <2>1
  <2>2. CASE d = c
    <3>1. i \in 1..n /\ Len(received[c]) \in Nat
      BY <1>2, <1>5, <2>2
    <3>2. i \in 1..Len(received[c]) \/ i = n
      BY <3>1
    <3> QED BY <1>5, <2>2, <3>2
  <2> QED BY <2>1, <2>2
<1>9. TypesAreKept'
  BY <1>0, <1>4, <1>a DEF TypesAreKept
<1>10. CallsCarryTheTerminal'
  <2>1. ASSUME NEW q \in DeliveryCalls, delivery[q].op # "none"
        PROVE  delivery[q].mark <= Len(received'[delivery[q].cmd])
    <3>1. /\ delivery[q].cmd \in Commands /\ delivery[q].mark <= Len(received[delivery[q].cmd])
          /\ delivery[q].mark \in Nat
      BY <1>0, <2>1 DEF CallsCarryTheTerminal, TypesAreKept, DeliveryStates
    <3>2. Len(received'[delivery[q].cmd]) \in Nat
      BY <1>4, <3>1
    <3> QED BY <1>5, <1>6, <3>1, <3>2
  <2> QED BY <1>0, <1>a, <2>1 DEF CallsCarryTheTerminal, WasSent
<1>11. ChainIsAQueue' /\ ChainHoldsAll' /\ TasksAreQueued'
  BY <1>0, <1>a DEF ChainIsAQueue, ChainHoldsAll, TasksAreQueued, IsOf
<1>12. WireIsTrue' /\ AcceptsSettle' /\ FinishIsLast'
  BY <1>0, <1>a DEF WireIsTrue, AcceptsSettle, FinishIsLast, WasSent, IsOf, Message
<1>13. ASSUME NEW i \in 1..Len(received[c]), received[c][i] \in Terminals
       PROVE  delivery[k].op \in {"finish", "reject"} /\ received[c][i] = tracked[c].terminal
  <2>1. /\ received[c][i] = tracked[c].terminal
        /\ \E f \in DeliveryCalls : IsOf(f, "finish", c) /\ WasSent(f)
    BY <1>0, <1>2, <1>13 DEF VerdictsAreSent
  <2>2. PICK f \in DeliveryCalls : IsOf(f, "finish", c) /\ WasSent(f)
    BY <2>1
  <2>3. ASSUME delivery[k].op = "accept" PROVE FALSE
    <3>1. m.attempt = 1
      BY <1>0, <1>1, <2>3 DEF CallsCarryTheTerminal
    <3>2. Message(k, 1) \notin net
      BY <1>0, <1>1, <2>2, <2>3 DEF FinishIsLast, IsOf
    <3> QED BY <1>1, <3>1, <3>2
  <2> QED BY <1>2, <2>1, <2>3
<1>14. /\ delivery[k].op = "finish" => update = tracked[c].terminal
       /\ delivery[k].op = "reject" => update = "refused"
  BY <1>0, <1>1 DEF CallsCarryTheTerminal
<1>15. VerdictsAreSent'
  <2> SUFFICES ASSUME NEW d \in Commands, NEW i \in 1..Len(received'[d]), received'[d][i] \in Terminals
               PROVE  /\ received'[d][i] = tracked[d].terminal
                      /\ \E f \in DeliveryCalls : IsOf(f, "finish", d) /\ WasSent(f)
                      /\ \A j \in 1..Len(received'[d]) :
                           i < j => received'[d][j] \in {received'[d][i], "refused"}
    <3>1. UNCHANGED <<tracked, delivery>>
      BY <1>a
    <3> QED BY <3>1 DEF VerdictsAreSent, IsOf, WasSent
  <2>1. CASE i \in 1..Len(received[d]) /\ received'[d][i] = received[d][i]
    <3>1. /\ received[d][i] = tracked[d].terminal
          /\ \E f \in DeliveryCalls : IsOf(f, "finish", d) /\ WasSent(f)
          /\ \A j \in 1..Len(received[d]) : i < j => received[d][j] \in {received[d][i], "refused"}
      BY <1>0, <2>1 DEF VerdictsAreSent
    <3>2. ASSUME NEW j \in 1..Len(received'[d]), i < j
          PROVE  received'[d][j] \in {received'[d][i], "refused"}
      <4>1. CASE j \in 1..Len(received[d]) /\ received'[d][j] = received[d][j]
        BY <2>1, <3>1, <3>2, <4>1
      <4>2. CASE d = c /\ j = n /\ received'[d][j] = update
        <5>1. delivery[k].op \in {"finish", "reject"} /\ received[c][i] = tracked[c].terminal
          BY <1>13, <2>1, <4>2
        <5> QED BY <1>14, <2>1, <4>2, <5>1
      <4> QED BY <1>8, <4>1, <4>2
    <3> QED BY <2>1, <3>1, <3>2
  <2>2. CASE d = c /\ i = n /\ received'[d][i] = update
    <3>1. delivery[k].op = "finish"
      BY <1>0, <1>1, <1>2, <2>2, TerminalsAssumption DEF CallsCarryTheTerminal
    <3>2. IsOf(k, "finish", d) /\ WasSent(k)
      BY <1>2, <2>2, <3>1 DEF IsOf
    <3>3. ASSUME NEW j \in 1..Len(received'[d]) PROVE ~(i < j)
      <4>1. Len(received'[c]) = n
        BY <1>5
      <4>2. Len(received[c]) \in Nat
        BY <1>2, <1>5
      <4>3. n \in Nat
        BY <4>2
      <4> HIDE DEF n
      <4>4. Len(received'[d]) = i
        BY <2>2, <4>1
      <4> QED BY <2>2, <4>3, <4>4
    <3> QED BY <1>1, <1>14, <2>2, <3>1, <3>2, <3>3
  <2> QED BY <1>8, <2>1, <2>2
<1>16. \A t \in DeliveryCalls : WasReceived(t) => WasReceived(t)'
  BY <1>a DEF WasReceived, Message
<1>17. \A t \in DeliveryCalls : WasReceived(t)' => WasReceived(t) \/ t = k
  BY <1>a, <1>1 DEF WasReceived, Message
<1>18. ASSUME NEW t \in DeliveryCalls, delivery[t].op \in {"finish", "reject"}, NEW p \in Nat,
              p <= Len(received[delivery[t].cmd]), ReceivedAfter(t, p)
       PROVE  ReceivedAfter(t, p)'
  <2> SUFFICES ASSUME WasReceived(t)'
               PROVE  \E i \in 1..Len(received'[delivery[t].cmd]) :
                        i > p /\ received'[delivery[t].cmd][i] = delivery[t].update
    BY <1>a DEF ReceivedAfter
  <2>1. delivery[t].cmd \in Commands
    BY <1>0, <1>18 DEF CallsCarryTheTerminal
  <2>2. CASE WasReceived(t)
    <3>1. PICK i \in 1..Len(received[delivery[t].cmd]) :
            i > p /\ received[delivery[t].cmd][i] = delivery[t].update
      BY <1>18, <2>2 DEF ReceivedAfter
    <3> QED BY <1>7, <2>1, <3>1
  <2>3. CASE t = k
    <3>1. n \in 1..Len(received'[c]) /\ n > p /\ received'[c][n] = update
      BY <1>2, <1>5, <1>18, <2>3
    <3> QED BY <2>3, <3>1
  <2> QED BY <1>17, <2>2, <2>3
<1>19. FinishesAreReceived'
  <2> SUFFICES ASSUME NEW q \in DeliveryCalls, delivery[q].op \in {"finish", "reject"}
               PROVE  ReceivedAfter(q, delivery[q].mark)'
    BY <1>a DEF FinishesAreReceived
  <2>1. /\ delivery[q].mark \in Nat /\ delivery[q].mark <= Len(received[delivery[q].cmd])
        /\ ReceivedAfter(q, delivery[q].mark)
    BY <1>0 DEF FinishesAreReceived, CallsCarryTheTerminal, TypesAreKept, DeliveryStates
  <2> QED BY <1>18, <1>a, <2>1
<1>20. JoinsAreLater'
  <2> SUFFICES ASSUME NEW q \in DeliveryCalls, delivery[q].op = "finish", delivery[q].state = "joined"
               PROVE  JoinIsLater(q)'
    BY <1>a DEF JoinsAreLater
  <2> DEFINE t == delivery[q].joined
             d == delivery[q].cmd
             p == delivery[q].mark
  <2>1. JoinIsLater(q) /\ d \in Commands /\ p \in Nat /\ p <= Len(received[d])
    BY <1>0 DEF JoinsAreLater, CallsCarryTheTerminal, TypesAreKept, DeliveryStates
  <2>2. t \in DeliveryCalls /\ delivery[t].op = "finish" /\ delivery[t].cmd = d
    BY <2>1 DEF JoinIsLater, IsOf
  <2>3. /\ IsOf(t, "finish", d)' /\ delivery'[t].state \in {"queued", "sending", "resolved", "rejected"}
        /\ delivery'[t].state = "resolved" => WasReceived(t)'
    BY <1>16, <1>a, <2>1, <2>2 DEF JoinIsLater, IsOf
  <2>4. delivery[q].asked /\ ~delivery[q].replay => ReceivedAfter(t, p)'
    <3>1. delivery[q].asked /\ ~delivery[q].replay => ReceivedAfter(t, p)
      BY <2>1 DEF JoinIsLater
    <3> QED BY <1>18, <1>a, <2>1, <2>2, <3>1
  <2>5. ASSUME NEW x \in DeliveryCalls, x = tracked[d].task, delivery[q].asked, delivery[q].replay,
               x \notin {NoCall, t}
        PROVE  ReceivedAfter(x, p)'
    <3>1. ReceivedAfter(x, p)
      BY <2>1, <2>5 DEF JoinIsLater
    <3>2. delivery[x].op = "finish" /\ delivery[x].cmd = d
      BY <1>0, <2>1, <2>5 DEF TasksAreQueued, IsOf
    <3> QED BY <1>18, <1>a, <2>1, <3>1, <3>2
  <2>6. tracked[d].task \in DeliveryCalls \cup {NoCall}
    BY <1>0, <2>1 DEF TypesAreKept
  <2> QED BY <1>a, <2>2, <2>3, <2>4, <2>5, <2>6 DEF JoinIsLater
<1>21. ResolvedFinishWasReceived'
  <2>1. \A q \in DeliveryCalls : delivery[q].op # "none" => delivery[q].cmd \in Commands
    BY <1>0 DEF CallsCarryTheTerminal
  <2>2. \A d \in Commands : DOMAIN received[d] = 1..Len(received[d])
    BY <1>0 DEF TypesAreKept
  <2>3. \A d \in Commands : DOMAIN received'[d] = 1..Len(received'[d])
    BY <1>4
  <2>4. \A d \in Commands : \A i \in DOMAIN received[d] :
          i \in DOMAIN received'[d] /\ received'[d][i] = received[d][i]
    BY <1>7, <2>2, <2>3
  <2>5. delivery' = delivery
    BY <1>a
  <2> QED BY <1>0, <2>1, <2>4, <2>5 DEF ResolvedFinishWasReceived
<1> QED BY <1>9, <1>10, <1>11, <1>12, <1>15, <1>19, <1>20, <1>21 DEF DeliveryIndInv

-----------------------------------------------------------------------------
(* What a call in progress does: it is an instance of one of the above.    *)
LEMMA ProgressKeeps ==
  ASSUME DeliveryIndInv, NEW k \in DeliveryCalls, Progress(k)
  PROVE  DeliveryIndInv'
<1> DEFINE c == delivery[k].cmd
<1>0. TypesAreKept /\ CallsCarryTheTerminal /\ ChainIsAQueue /\ ChainHoldsAll
  BY DEF DeliveryIndInv
<1>1. /\ delivery[k].attempt \in Nat
      /\ delivery[k].state = "queued" => delivery[k].attempt = 0
      /\ delivery[k].state = "queued" => delivery[k].op # "reject"
      /\ broken \subseteq Commands
  BY <1>0 DEF TypesAreKept, DeliveryStates, CallsCarryTheTerminal, WasSent
<1>2. ASSUME delivery[k].state = "sending", delivery[k].op # "reject"
      PROVE  Head(chain[c]) = k
  BY <1>0, <1>2, HeadOfChain
<1>3. CASE AfterJoined(k)
  BY <1>3, AfterJoinedKeeps
<1>4. CASE Begin(k)
  <2>1. HeadSends(k, 1)
    BY <1>1, <1>4, DeliveryBounds DEF Begin, HeadSends
  <2> QED BY <2>1, HeadSendsKeeps
<1>5. CASE BeginBroken(k)
  <2>1. HeadLeaves(k, "rejected")
    BY <1>1, <1>5 DEF BeginBroken, HeadLeaves
  <2> QED BY <2>1, HeadSettles DEF SettledStates
<1>6. CASE Succeed(k)
  <2>1. HeadLeaves(k, "resolved")
    BY <1>2, <1>6 DEF Succeed, HeadLeaves, Message
  <2> QED BY <2>1, HeadSettles DEF SettledStates
<1>7. CASE GiveUp(k)
  <2>1. HeadLeaves(k, "rejected")
    BY <1>2, <1>7 DEF GiveUp, Breaks, HeadLeaves
  <2> QED BY <2>1, HeadSettles DEF SettledStates
<1>8. CASE Retry(k)
  <2>1. HeadSends(k, delivery[k].attempt + 1)
    BY <1>1, <1>2, <1>8, DeliveryBounds DEF Retry, MayRetry, HeadSends
  <2> QED BY <1>1, <2>1, HeadSendsKeeps
<1>9. CASE RefusalSettles(k)
  <2>1. PICK final \in SettledStates :
          /\ final = "resolved" => Message(k, delivery[k].attempt) \in answered
          /\ delivery' = [delivery EXCEPT ![k].state = final]
    BY <1>9 DEF RefusalSettles, Message
  <2> QED BY <1>9, <2>1, AsideSettles DEF RefusalSettles
<1> QED BY <1>3, <1>4, <1>5, <1>6, <1>7, <1>8, <1>9 DEF Progress

LEMMA StutterKeeps ==
  ASSUME DeliveryIndInv, UNCHANGED deliveryVars
  PROVE  DeliveryIndInv'
<1>1. UNCHANGED <<tracked, chain, broken, delivery, net, answered, received>>
  BY DEF deliveryVars
<1>2. TypesAreKept' /\ CallsCarryTheTerminal' /\ ChainIsAQueue' /\ ChainHoldsAll' /\ WireIsTrue'
  BY <1>1 DEF DeliveryIndInv, TypesAreKept, CallsCarryTheTerminal, ChainIsAQueue, ChainHoldsAll,
              WireIsTrue, WasSent
<1>3. AcceptsSettle' /\ FinishIsLast' /\ VerdictsAreSent' /\ TasksAreQueued'
  BY <1>1 DEF DeliveryIndInv, AcceptsSettle, FinishIsLast, VerdictsAreSent, TasksAreQueued,
              WasSent, IsOf, Message
<1>4. FinishesAreReceived'
  BY <1>1 DEF DeliveryIndInv, FinishesAreReceived, ReceivedAfter, WasReceived, Message
<1>5. JoinsAreLater'
  <2>1. \A t \in DeliveryCalls : WasReceived(t)' <=> WasReceived(t)
    BY <1>1 DEF WasReceived, Message
  <2>2. \A t, p : ReceivedAfter(t, p)' <=> ReceivedAfter(t, p)
    BY <1>1 DEF ReceivedAfter, WasReceived, Message
  <2>3. ASSUME NEW q \in DeliveryCalls, JoinIsLater(q) PROVE JoinIsLater(q)'
    BY <1>1, <2>1, <2>2, <2>3 DEF JoinIsLater, IsOf
  <2> QED BY <1>1, <2>3 DEF DeliveryIndInv, JoinsAreLater
<1>6. ResolvedFinishWasReceived'
  BY <1>1 DEF DeliveryIndInv, ResolvedFinishWasReceived
<1> QED BY <1>2, <1>3, <1>4, <1>5, <1>6 DEF DeliveryIndInv

LEMMA DeliveryStep == DeliveryIndInv /\ [DeliveryNext]_deliveryVars => DeliveryIndInv'
<1> SUFFICES ASSUME DeliveryIndInv, [DeliveryNext]_deliveryVars PROVE DeliveryIndInv'
  OBVIOUS
<1>1. ASSUME NEW c \in Commands, Receive(c) PROVE DeliveryIndInv'
  BY <1>1, ReceiveKeeps
<1>2. CASE Asks
  <2>1. NextCall \in DeliveryCalls
    BY <1>2 DEF Asks, NextCall
  <2>2. PICK c \in Commands :
          \/ Accept(NextCall, c) \/ Reject(NextCall, c)
          \/ \E update \in Terminals, replay \in BOOLEAN : Finish(NextCall, c, update, replay)
    BY <1>2 DEF Asks
  <2> QED BY <2>1, <2>2, AcceptKeeps, RejectKeeps, FinishKeeps
<1>3. ASSUME NEW k \in DeliveryCalls, Progress(k) PROVE DeliveryIndInv'
  BY <1>3, ProgressKeeps
<1>4. ASSUME NEW m \in net, HostReceive(m) PROVE DeliveryIndInv'
  BY <1>4, HostReceiveKeeps
<1>5. CASE Done \/ UNCHANGED deliveryVars
  BY <1>5, StutterKeeps DEF Done
<1> QED BY <1>1, <1>2, <1>3, <1>4, <1>5 DEF DeliveryNext

-----------------------------------------------------------------------------
LEMMA InvImpliesTypes == DeliveryIndInv => DeliveryTypeOK
BY DEF DeliveryIndInv, TypesAreKept, DeliveryStates, DeliveryTypeOK

LEMMA InvImpliesVerdict == DeliveryIndInv => VerdictStands
<1> SUFFICES ASSUME DeliveryIndInv PROVE VerdictStands
  OBVIOUS
<1>1. \A c \in Commands : DOMAIN received[c] = 1..Len(received[c])
  BY DEF DeliveryIndInv, TypesAreKept
<1>2. NothingAfterVerdict
  BY <1>1 DEF DeliveryIndInv, VerdictsAreSent, NothingAfterVerdict
<1> QED BY <1>2 DEF DeliveryIndInv, VerdictStands

(* The calls, their chains and the log of the host keep their types.       *)
THEOREM DeliveryTyped == DeliverySpec => []DeliveryTypeOK
<1>1. DeliveryInit => DeliveryIndInv
  BY InvAtInit
<1>2. DeliveryIndInv /\ [DeliveryNext]_deliveryVars => DeliveryIndInv'
  BY DeliveryStep
<1>3. DeliveryIndInv => DeliveryTypeOK
  BY InvImpliesTypes
<1> QED BY <1>1, <1>2, <1>3, PTL DEF DeliverySpec

(* After a verdict the host sees only that verdict again or the refusal of *)
(* a replay, not even an accept whose RPC timed out; and a finish or a     *)
(* refusal that resolved was received, a replayed one after the replay was *)
(* asked for.                                                              *)
THEOREM VerdictsStand == DeliverySpec => []VerdictStands
<1>1. DeliveryInit => DeliveryIndInv
  BY InvAtInit
<1>2. DeliveryIndInv /\ [DeliveryNext]_deliveryVars => DeliveryIndInv'
  BY DeliveryStep
<1>3. DeliveryIndInv => VerdictStands
  BY InvImpliesVerdict
<1> QED BY <1>1, <1>2, <1>3, PTL DEF DeliverySpec

-----------------------------------------------------------------------------
(***************************************************************************)
(* The permission requests.  What makes the broker right is one debt: a    *)
(* request whose call is over and of which something was sent is closed at *)
(* the host, or is a recorded delivery failure.  A recovery that ends with *)
(* no failure left has therefore closed all that its waits cover, since the*)
(* idle promise they waited for resolves only when no call is under way.   *)
(***************************************************************************)

UnderWay == {"requesting", "recovering", "asking", "resolving"}

(* Where a call is says what was sent and what it holds.                   *)
CallIsTrue(r) ==
  /\ pc[r] = "idle" => wire[r] = {} /\ host[r] = "none" /\ r \notin leased
  /\ pc[r] \in {"idle", "requesting", "asking"} =>
       /\ "resolved" \notin wire[r] /\ ~Closed(r)
       /\ r \notin failures /\ lateDelivery[r] = "none"
  /\ pc[r] \in UnderWay => r \in leased /\ wire[r] # {} /\ answer[r] = "none"
  /\ pc[r] = "idle" => answer[r] = "none"
  /\ lateDelivery[r] # "none" => pc[r] = "done" /\ r \in leased /\ wire[r] # {}
  /\ r \in resolvers => pc[r] \in {"requesting", "recovering", "asking"}

(* A resolution is sent with a reason, and the host closes with it.        *)
ReasonIsTrue(r) ==
  /\ "resolved" \in wire[r] \/ r \in failures \/ lateDelivery[r] # "none" \/ pc[r] = "resolving" =>
       reason[r] # "none"
  /\ pc[r] = "recovering" => reason[r] = "cancelled"
  /\ Closed(r) => host[r] = reason[r]

(* Of a call that is over, what was sent is closed or a recorded failure.  *)
DebtIsRecorded(r) ==
  /\ host[r] # "none" => wire[r] # {}
  /\ pc[r] \in {"recovering", "done"} /\ wire[r] # {} /\ ~Closed(r) => r \in failures

(* The host has closed it, or never hears of it.                           *)
NeverHeardOf(r) ==
  wire[r] = {} /\ host[r] = "none" /\ lateDelivery[r] = "none" /\ r \notin failures
IsSettled(r) == pc[r] = "done" /\ (Closed(r) \/ NeverHeardOf(r))

AnswerIsTrue(r) ==
  /\ answer[r] = "allow" => host[r] = "approved"
  /\ answer[r] = "reject" => IsSettled(r) /\ (current => host[r] # "approved")

(* What a wait covers is over once its idle promise has resolved, and is   *)
(* settled once its recovery has ended well.                               *)
WaitIsTrue(w) ==
  /\ wait[w].task # 0 => wait[wait[w].task].state # "none"
  /\ \A r \in wait[w].covered : pc[r] # "idle"
  /\ WaitOutcome(w) \in {"idle", "recovering"} => \A r \in wait[w].covered : pc[r] = "done"
  /\ WaitOutcome(w) = "ok" => \A r \in wait[w].covered : IsSettled(r)

(* A call of rejectAllAndWait joins only a wait for the idle promise.      *)
OwnerWaits == leased # {} /\ cancellation # 0 => wait[cancellation].state = "waiting"

BrokerIndInv ==
  /\ BrokerTypeOK /\ OwnerWaits
  /\ \A r \in Permissions : CallIsTrue(r) /\ ReasonIsTrue(r) /\ DebtIsRecorded(r) /\ AnswerIsTrue(r)
  /\ \A w \in Waits : WaitIsTrue(w)

-----------------------------------------------------------------------------
(* What a step of r may do to the other requests, and to the waits.        *)
OnlyTouches(r) ==
  /\ \A q \in Permissions \ {r} :
       /\ pc'[q] = pc[q] /\ reason'[q] = reason[q] /\ lateDelivery'[q] = lateDelivery[q]
       /\ answer'[q] = answer[q] /\ wire'[q] = wire[q] /\ host'[q] = host[q]
       /\ q \in leased' <=> q \in leased
       /\ q \in failures' <=> q \in failures
       /\ q \in resolvers' => q \in resolvers
  /\ current' = current

LEMMA OthersKeep ==
  ASSUME NEW r \in Permissions, OnlyTouches(r), NEW q \in Permissions, q # r,
         CallIsTrue(q), ReasonIsTrue(q), DebtIsRecorded(q), AnswerIsTrue(q)
  PROVE  /\ CallIsTrue(q)' /\ ReasonIsTrue(q)' /\ DebtIsRecorded(q)' /\ AnswerIsTrue(q)'
         /\ IsSettled(q) => IsSettled(q)'
<1>1. /\ pc'[q] = pc[q] /\ reason'[q] = reason[q] /\ lateDelivery'[q] = lateDelivery[q]
      /\ answer'[q] = answer[q] /\ wire'[q] = wire[q] /\ host'[q] = host[q]
      /\ q \in leased' <=> q \in leased
      /\ q \in failures' <=> q \in failures
      /\ q \in resolvers' => q \in resolvers
      /\ current' = current
  BY DEF OnlyTouches
<1>2. CallIsTrue(q)'
  BY <1>1 DEF CallIsTrue, Closed
<1>3. ReasonIsTrue(q)' /\ DebtIsRecorded(q)'
  BY <1>1 DEF ReasonIsTrue, DebtIsRecorded, Closed
<1>4. (IsSettled(q) => IsSettled(q)') /\ AnswerIsTrue(q)'
  BY <1>1 DEF AnswerIsTrue, IsSettled, NeverHeardOf, Closed
<1> QED BY <1>2, <1>3, <1>4

(* The lease is given back, and with the last one the waits are idle; it   *)
(* is taken, and a first one ends the cancellation; or neither.            *)
WaitsFollow(r) ==
  \/ UNCHANGED <<leased, wait, cancellation>>
  \/ /\ leased' = leased \ {r}
     /\ wait' = IdleReached(leased \ {r}, wait)
     /\ UNCHANGED cancellation
  \/ /\ leased' = leased \cup {r}
     /\ cancellation' = IF leased = {} THEN 0 ELSE cancellation
     /\ UNCHANGED wait

(* No call is begun anew, and what is settled stays so.                    *)
NothingReopens ==
  \A q \in Permissions :
    /\ pc[q] = "done" => pc'[q] = "done"
    /\ pc[q] # "idle" => pc'[q] # "idle"
    /\ IsSettled(q) => IsSettled(q)'

LEMMA WaitsKeep ==
  ASSUME BrokerTypeOK, BrokerTypeOK', OwnerWaits, \A w \in Waits : WaitIsTrue(w),
         \A q \in Permissions : CallIsTrue(q)', NothingReopens,
         NEW r \in Permissions, WaitsFollow(r)
  PROVE  OwnerWaits' /\ \A w \in Waits : WaitIsTrue(w)'
<1>1. /\ \A w \in Waits : wait[w].task \in 0..MaxWaits /\ wait[w].covered \subseteq Permissions
      /\ Waits = 1..MaxWaits /\ MaxWaits \in Nat /\ cancellation \in 0..MaxWaits
  BY BrokerBounds DEF BrokerTypeOK, Waits
<1>2. \A w \in Waits : wait[w].task # 0 => wait[w].task \in Waits
  BY <1>1
<1>3. \A w \in Waits : /\ wait'[w].task = wait[w].task /\ wait'[w].covered = wait[w].covered
                       /\ \/ wait'[w].state = wait[w].state
                          \/ wait[w].state = "waiting" /\ wait'[w].state = "idle" /\ leased' = {}
  BY DEF WaitsFollow, IdleReached, BrokerTypeOK
<1>4. OwnerWaits'
  <2>1. CASE leased' = {}
    BY <2>1 DEF OwnerWaits
  <2>2. CASE leased' # {}
    <3>1. cancellation' = cancellation \/ cancellation' = 0
      BY DEF WaitsFollow
    <3>2. leased = {} => cancellation' = 0 \/ leased' = {}
      BY DEF WaitsFollow
    <3>3. wait' = wait
      BY <2>2 DEF WaitsFollow, IdleReached
    <3> QED BY <3>1, <3>2, <3>3 DEF OwnerWaits
  <2> QED BY <2>1, <2>2
<1>5. ASSUME NEW w \in Waits
      PROVE  WaitIsTrue(w)'
  <2> DEFINE v == wait[w].task
  <2>1. WaitIsTrue(w)
    OBVIOUS
  <2>2. wait'[w].task = v /\ wait'[w].covered = wait[w].covered /\ (v # 0 => v \in Waits)
    BY <1>2, <1>3
  <2>3. v # 0 => wait'[v].state # "none"
    BY <1>3, <2>1, <2>2 DEF WaitIsTrue
  <2>4. \A q \in wait[w].covered : q \in Permissions /\ pc'[q] # "idle"
    BY <1>1, <2>1 DEF WaitIsTrue, NothingReopens
  <2>5. \/ WaitOutcome(w)' = WaitOutcome(w)
        \/ WaitOutcome(w)' = "idle" /\ leased' = {}
    BY <1>3, <2>2 DEF WaitOutcome
  <2>6. WaitOutcome(w)' \in {"idle", "recovering"} => \A q \in wait[w].covered : pc'[q] = "done"
    <3>1. CASE WaitOutcome(w)' = WaitOutcome(w)
      BY <1>1, <2>1, <2>4, <3>1 DEF WaitIsTrue, NothingReopens
    <3>2. CASE leased' = {}
      BY <2>4, <3>2 DEF CallIsTrue, UnderWay, BrokerTypeOK
    <3> QED BY <2>5, <3>1, <3>2
  <2>7. WaitOutcome(w)' = "ok" => \A q \in wait[w].covered : IsSettled(q)'
    BY <1>1, <2>1, <2>4, <2>5 DEF WaitIsTrue, NothingReopens
  <2> QED BY <2>2, <2>3, <2>4, <2>6, <2>7 DEF WaitIsTrue
<1> QED BY <1>4, <1>5

(* A step of one request keeps the invariant if it does for that request.  *)
MovesWell(r) ==
  /\ OnlyTouches(r) /\ WaitsFollow(r)
  /\ CallIsTrue(r)' /\ ReasonIsTrue(r)' /\ DebtIsRecorded(r)' /\ AnswerIsTrue(r)'
  /\ pc[r] = "done" => pc'[r] = "done"
  /\ pc[r] # "idle" => pc'[r] # "idle"
  /\ IsSettled(r) => IsSettled(r)'

LEMMA MoveKeeps ==
  ASSUME BrokerIndInv, BrokerTypeOK', NEW r \in Permissions, MovesWell(r)
  PROVE  BrokerIndInv'
<1>1. \A q \in Permissions : CallIsTrue(q) /\ ReasonIsTrue(q) /\ DebtIsRecorded(q) /\ AnswerIsTrue(q)
  BY DEF BrokerIndInv
<1>2. ASSUME NEW q \in Permissions
      PROVE  /\ CallIsTrue(q)' /\ ReasonIsTrue(q)' /\ DebtIsRecorded(q)' /\ AnswerIsTrue(q)'
             /\ IsSettled(q) => IsSettled(q)'
  BY <1>1, OthersKeep DEF MovesWell
<1>3. NothingReopens
  BY <1>2 DEF NothingReopens, MovesWell, OnlyTouches
<1>4. OwnerWaits' /\ \A w \in Waits : WaitIsTrue(w)'
  BY <1>2, <1>3, WaitsKeep DEF BrokerIndInv, MovesWell
<1> QED BY <1>2, <1>4 DEF BrokerIndInv

(* A step that resolves, sends again, or learns that the host has closed.  *)
Repairs ==
  /\ UNCHANGED <<pc, leased, reason, lateDelivery, answer, host>>
  /\ resolvers' \subseteq resolvers /\ failures' \subseteq failures
  /\ current' => current
  /\ \A r \in Permissions :
       /\ wire'[r] = wire[r] \/ (r \in failures /\ wire'[r] = {"requested", "resolved"})
       /\ r \in failures /\ r \notin failures' => Closed(r)

LEMMA RepairKeeps ==
  ASSUME BrokerIndInv, Repairs
  PROVE  /\ NothingReopens
         /\ \A r \in Permissions :
              CallIsTrue(r)' /\ ReasonIsTrue(r)' /\ DebtIsRecorded(r)' /\ AnswerIsTrue(r)'
<1>1. ASSUME NEW r \in Permissions
      PROVE  /\ CallIsTrue(r)' /\ ReasonIsTrue(r)' /\ DebtIsRecorded(r)' /\ AnswerIsTrue(r)'
             /\ IsSettled(r) => IsSettled(r)'
  <2>0. CallIsTrue(r) /\ ReasonIsTrue(r) /\ DebtIsRecorded(r) /\ AnswerIsTrue(r)
    BY DEF BrokerIndInv
  <2>1. /\ pc'[r] = pc[r] /\ reason'[r] = reason[r] /\ lateDelivery'[r] = lateDelivery[r]
        /\ answer'[r] = answer[r] /\ host'[r] = host[r] /\ leased' = leased
        /\ r \in failures' => r \in failures
        /\ r \in resolvers' => r \in resolvers
        /\ current' => current
        /\ wire'[r] = wire[r] \/ (r \in failures /\ wire'[r] = {"requested", "resolved"})
        /\ r \in failures /\ r \notin failures' => Closed(r)
    BY DEF Repairs
  <2>2. r \in failures => pc[r] \notin {"idle", "requesting", "asking"} /\ reason[r] # "none"
    BY <2>0 DEF CallIsTrue, ReasonIsTrue
  <2>3. CallIsTrue(r)'
    BY <2>0, <2>1, <2>2 DEF CallIsTrue, Closed
  <2>4. ReasonIsTrue(r)'
    BY <2>0, <2>1, <2>2 DEF ReasonIsTrue, Closed
  <2>5. DebtIsRecorded(r)'
    BY <2>0, <2>1, <2>2 DEF DebtIsRecorded, Closed
  <2>6. (IsSettled(r) => IsSettled(r)') /\ AnswerIsTrue(r)'
    BY <2>0, <2>1 DEF AnswerIsTrue, IsSettled, NeverHeardOf, Closed
  <2> QED BY <2>3, <2>4, <2>5, <2>6
<1>2. NothingReopens
  BY <1>1 DEF NothingReopens, Repairs
<1> QED BY <1>1, <1>2

-----------------------------------------------------------------------------
WaitRecords == [state : {"none", "waiting", "joined", "idle", "recovering", "ok", "failed"},
                task : 0..MaxWaits, targets : SUBSET Permissions, covered : SUBSET Permissions]

LEMMA IdleIsTyped ==
  ASSUME wait \in [Waits -> WaitRecords], NEW pending
  PROVE  IdleReached(pending, wait) \in [Waits -> WaitRecords]
<1>1. ASSUME NEW w \in Waits
      PROVE  [wait[w] EXCEPT !.state = "idle"] \in WaitRecords
  <2>1. wait[w] \in WaitRecords
    OBVIOUS
  <2> QED BY <2>1 DEF WaitRecords
<1> QED BY <1>1 DEF IdleReached

(* The host learns what was sent of a request, in order.                   *)
LEMMA ArriveKeeps ==
  ASSUME BrokerIndInv, Arrive
  PROVE  BrokerIndInv'
<1>1. PICK r \in Permissions :
        \/ /\ host[r] = "none" /\ "requested" \in wire[r]
           /\ host' = [host EXCEPT ![r] = "requested"]
        \/ /\ host[r] = "requested" /\ "resolved" \in wire[r]
           /\ host' = [host EXCEPT ![r] = reason[r]]
  BY DEF Arrive
<1>2. UNCHANGED <<current, closedRun, requestVars, failures, wire, wait, cancellation, lateRecovery>>
  BY DEF Arrive
<1>3. UNCHANGED <<current, closedRun, pc, leased, resolvers, settled, reason, lateDelivery, answer,
                  failures, wire, wait, cancellation, lateRecovery>>
  BY <1>2 DEF requestVars
<1>0. BrokerTypeOK /\ CallIsTrue(r) /\ ReasonIsTrue(r) /\ DebtIsRecorded(r) /\ AnswerIsTrue(r)
  BY DEF BrokerIndInv
<1>4. /\ \/ host[r] = "none" /\ "requested" \in wire[r] /\ host'[r] = "requested"
         \/ host[r] = "requested" /\ "resolved" \in wire[r] /\ host'[r] = reason[r]
      /\ ~Closed(r) /\ ("resolved" \in wire[r] => reason[r] \in Reasons)
  BY <1>0, <1>1 DEF BrokerTypeOK, ReasonIsTrue, Closed, Reasons
<1>5. BrokerTypeOK'
  BY <1>0, <1>1, <1>3, <1>4 DEF BrokerTypeOK
<1>6. OnlyTouches(r) /\ WaitsFollow(r)
  BY <1>0, <1>1, <1>3 DEF OnlyTouches, WaitsFollow, BrokerTypeOK
<1>7. CallIsTrue(r)'
  BY <1>0, <1>3, <1>4 DEF CallIsTrue, Closed, Reasons
<1>8. ReasonIsTrue(r)' /\ DebtIsRecorded(r)'
  BY <1>0, <1>3, <1>4 DEF ReasonIsTrue, DebtIsRecorded, Closed, Reasons
<1>9. ~IsSettled(r) /\ answer[r] \notin {"allow", "reject"}
  BY <1>0, <1>4 DEF AnswerIsTrue, IsSettled, NeverHeardOf, Closed, Reasons
<1>10. AnswerIsTrue(r)'
  BY <1>3, <1>9 DEF AnswerIsTrue
<1> QED BY <1>3, <1>5, <1>6, <1>7, <1>8, <1>9, <1>10, MoveKeeps DEF MovesWell

LEMMA RequestKeeps ==
  ASSUME BrokerIndInv, NEW r \in Permissions, Request(r)
  PROVE  BrokerIndInv'
<1>0. BrokerTypeOK /\ CallIsTrue(r) /\ ReasonIsTrue(r) /\ DebtIsRecorded(r) /\ AnswerIsTrue(r)
  BY DEF BrokerIndInv
<1>1. /\ pc[r] = "idle"
      /\ UNCHANGED <<current, closedRun, settled, reason, lateDelivery, failures, host, wait, lateRecovery>>
      /\ \/ /\ pc' = [pc EXCEPT ![r] = "done"]
            /\ \E result \in {"reject", "error"} : answer' = [answer EXCEPT ![r] = result]
            /\ UNCHANGED <<leased, resolvers, wire, cancellation>>
         \/ /\ pc' = [pc EXCEPT ![r] = "requesting"]
            /\ leased' = leased \cup {r}
            /\ resolvers' = resolvers \cup {r}
            /\ wire' = [wire EXCEPT ![r] = @ \cup {"requested"}]
            /\ cancellation' = IF leased = {} THEN 0 ELSE cancellation
            /\ UNCHANGED answer
  BY DEF Request, Send
<1>2. BrokerTypeOK'
  BY <1>0, <1>1, BrokerBounds DEF BrokerTypeOK
<1>3. OnlyTouches(r) /\ WaitsFollow(r)
  BY <1>0, <1>1 DEF OnlyTouches, WaitsFollow, BrokerTypeOK
<1>4. /\ UNCHANGED <<current, reason, lateDelivery, failures, host>>
      /\ \/ /\ pc'[r] = "done" /\ answer'[r] \in {"reject", "error"}
            /\ UNCHANGED <<leased, resolvers, wire>>
         \/ /\ pc'[r] = "requesting" /\ r \in leased' /\ answer' = answer
            /\ wire'[r] = wire[r] \cup {"requested"}
  BY <1>0, <1>1 DEF BrokerTypeOK
<1>5. /\ wire[r] = {} /\ host[r] = "none" /\ r \notin failures /\ lateDelivery[r] = "none"
      /\ r \notin resolvers /\ answer[r] = "none"
  BY <1>0, <1>1 DEF CallIsTrue
<1>6. CallIsTrue(r)'
  BY <1>4, <1>5 DEF CallIsTrue, Closed, UnderWay, Reasons
<1>7. ReasonIsTrue(r)' /\ DebtIsRecorded(r)'
  BY <1>4, <1>5 DEF ReasonIsTrue, DebtIsRecorded, Closed, Reasons
<1>8. AnswerIsTrue(r)' /\ ~IsSettled(r)
  BY <1>1, <1>4, <1>5 DEF AnswerIsTrue, IsSettled, NeverHeardOf
<1> QED BY <1>1, <1>2, <1>3, <1>4, <1>6, <1>7, <1>8, MoveKeeps DEF MovesWell

(* A call that goes on to its next delivery, and may send a resolution.    *)
GoesOn(r, place) ==
  /\ UNCHANGED <<current, closedRun, leased, settled, lateDelivery, answer, host, wait, cancellation,
                 lateRecovery>>
  /\ pc' = [pc EXCEPT ![r] = place]
  /\ \/ /\ place = "asking" /\ pc[r] = "requesting"
        /\ UNCHANGED <<reason, wire, failures, resolvers>>
     \/ /\ place = "recovering" /\ pc[r] = "requesting"
        /\ reason' = [reason EXCEPT ![r] = "cancelled"]
        /\ failures' = failures \cup {r}
        /\ Send(r, {"requested", "resolved"})
        /\ UNCHANGED resolvers
     \/ /\ place = "resolving" /\ pc[r] \in {"requesting", "asking"}
        /\ \E why \in Reasons : reason' = [reason EXCEPT ![r] = why]
        /\ Send(r, {"resolved"})
        /\ resolvers' = resolvers \ {r}
        /\ UNCHANGED failures

LEMMA GoesOnKeeps ==
  ASSUME BrokerIndInv, NEW r \in Permissions, NEW place, GoesOn(r, place)
  PROVE  BrokerIndInv'
<1>0. BrokerTypeOK /\ CallIsTrue(r) /\ ReasonIsTrue(r) /\ DebtIsRecorded(r) /\ AnswerIsTrue(r)
  BY DEF BrokerIndInv
<1>1. place \in {"asking", "recovering", "resolving"} /\ pc[r] \in {"requesting", "asking"}
  BY DEF GoesOn
<1>2. BrokerTypeOK'
  <2>1. pc' \in [Permissions -> {"idle", "requesting", "recovering", "asking", "resolving", "done"}]
    BY <1>0, <1>1 DEF BrokerTypeOK, GoesOn
  <2>2. reason' \in [Permissions -> Reasons \cup {"none"}]
    BY <1>0 DEF BrokerTypeOK, GoesOn, Reasons
  <2>3. wire' \in [Permissions -> SUBSET {"requested", "resolved"}]
    BY <1>0 DEF BrokerTypeOK, GoesOn, Send
  <2>4. resolvers' \subseteq leased /\ failures' \subseteq Permissions
    BY <1>0 DEF BrokerTypeOK, GoesOn
  <2>5. UNCHANGED <<current, closedRun, leased, settled, lateDelivery, answer, host, wait, cancellation,
                    lateRecovery>>
    BY DEF GoesOn
  <2> QED BY <1>0, <2>1, <2>2, <2>3, <2>4, <2>5 DEF BrokerTypeOK
<1>3. OnlyTouches(r) /\ WaitsFollow(r)
  BY <1>0 DEF OnlyTouches, WaitsFollow, BrokerTypeOK, GoesOn, Send
<1>4. /\ UNCHANGED <<current, leased, lateDelivery, answer, host>> /\ pc'[r] = place
      /\ \/ /\ place = "asking" /\ pc[r] = "requesting"
            /\ reason'[r] = reason[r] /\ wire'[r] = wire[r] /\ failures' = failures /\ resolvers' = resolvers
         \/ /\ place = "recovering" /\ reason'[r] = "cancelled" /\ r \in failures'
            /\ "resolved" \in wire'[r] /\ resolvers' = resolvers
         \/ /\ place = "resolving" /\ reason'[r] # "none" /\ failures' = failures
            /\ "resolved" \in wire'[r] /\ r \notin resolvers'
  BY <1>0 DEF BrokerTypeOK, GoesOn, Send, Reasons
<1>5. /\ "resolved" \notin wire[r] /\ ~Closed(r) /\ r \notin failures /\ lateDelivery[r] = "none"
      /\ r \in leased /\ answer[r] = "none" /\ wire[r] # {}
  BY <1>0, <1>1 DEF CallIsTrue, UnderWay
<1>6. CallIsTrue(r)'
  BY <1>1, <1>4, <1>5 DEF CallIsTrue, Closed, UnderWay
<1>7. ReasonIsTrue(r)'
  BY <1>0, <1>1, <1>4, <1>5 DEF ReasonIsTrue, Closed
<1>8. DebtIsRecorded(r)'
  BY <1>1, <1>4, <1>5 DEF DebtIsRecorded, Closed
<1>9. AnswerIsTrue(r)' /\ ~IsSettled(r)
  BY <1>1, <1>4, <1>5 DEF AnswerIsTrue, IsSettled
<1> QED BY <1>1, <1>2, <1>3, <1>4, <1>6, <1>7, <1>8, <1>9, MoveKeeps DEF MovesWell

-----------------------------------------------------------------------------
(* A call that returns: the host has closed it, it was never announced, or *)
(* a failure is recorded.                                                  *)
ReturnsWell(r, result, running) ==
  /\ pc[r] \in UnderWay /\ result \in {"allow", "reject", "error"}
  /\ running \in {"none", "requesting", "closing", "resolving"}
  /\ Return(r, result, running)
  /\ UNCHANGED <<current, closedRun, settled, host, cancellation, lateRecovery>>
  /\ \/ /\ Closed(r) /\ running = "none" /\ failures' = failures \ {r}
        /\ result = "allow" => host[r] = "approved"
        /\ result = "reject" /\ current => host[r] # "approved"
        /\ UNCHANGED <<wire, reason>>
     \/ /\ host[r] = "none" /\ r \notin failures /\ result = "error" /\ running = "none"
        /\ wire' = [wire EXCEPT ![r] = {}]
        /\ UNCHANGED <<failures, reason>>
     \/ /\ result = "error" /\ (Closed(r) \/ r \in failures')
        /\ failures' \in {failures, failures \cup {r}}
        /\ \/ UNCHANGED reason /\ reason[r] # "none"
           \/ reason' = [reason EXCEPT ![r] = "cancelled"] /\ ~Closed(r)
        /\ UNCHANGED wire

LEMMA ReturnKeeps ==
  ASSUME BrokerIndInv, NEW r \in Permissions, NEW result, NEW running, ReturnsWell(r, result, running)
  PROVE  BrokerIndInv'
<1>0. BrokerTypeOK /\ CallIsTrue(r) /\ ReasonIsTrue(r) /\ DebtIsRecorded(r) /\ AnswerIsTrue(r)
  BY DEF BrokerIndInv
<1>1. /\ pc' = [pc EXCEPT ![r] = "done"] /\ answer' = [answer EXCEPT ![r] = result]
      /\ lateDelivery' = [lateDelivery EXCEPT ![r] = running] /\ resolvers' = resolvers \ {r}
      /\ running = "none" => leased' = leased \ {r} /\ wait' = IdleReached(leased \ {r}, wait)
      /\ running # "none" => leased' = leased /\ wait' = wait
  BY DEF ReturnsWell, Return, Release, Unregister
<1>2. /\ pc[r] \in UnderWay /\ result \in {"allow", "reject", "error"}
      /\ running \in {"none", "requesting", "closing", "resolving"}
      /\ UNCHANGED <<current, closedRun, settled, host, cancellation, lateRecovery>>
      /\ failures' \in {failures, failures \ {r}, failures \cup {r}}
      /\ wire' \in {wire, [wire EXCEPT ![r] = {}]}
      /\ reason' \in {reason, [reason EXCEPT ![r] = "cancelled"]}
  BY DEF ReturnsWell
<1>3. BrokerTypeOK'
  <2>1. /\ pc' \in [Permissions -> {"idle", "requesting", "recovering", "asking", "resolving", "done"}]
        /\ answer' \in [Permissions -> {"none", "allow", "reject", "error"}]
        /\ lateDelivery' \in [Permissions -> {"none", "requesting", "closing", "resolving"}]
    BY <1>0, <1>1, <1>2 DEF BrokerTypeOK
  <2>2. leased' \subseteq Permissions /\ resolvers' \subseteq leased' /\ failures' \subseteq Permissions
    BY <1>0, <1>1, <1>2 DEF BrokerTypeOK
  <2>3. reason' \in [Permissions -> Reasons \cup {"none"}]
    BY <1>0, <1>2 DEF BrokerTypeOK, Reasons
  <2>4. wire' \in [Permissions -> SUBSET {"requested", "resolved"}]
    BY <1>0, <1>2 DEF BrokerTypeOK
  <2>5. wait' \in [Waits -> WaitRecords]
    BY <1>0, <1>1, IdleIsTyped DEF BrokerTypeOK, WaitRecords
  <2> QED BY <1>0, <1>2, <2>1, <2>2, <2>3, <2>4, <2>5 DEF BrokerTypeOK, WaitRecords
<1>4. OnlyTouches(r)
  BY <1>0, <1>1, <1>2 DEF OnlyTouches, BrokerTypeOK
<1>5. WaitsFollow(r)
  BY <1>1, <1>2 DEF WaitsFollow
<1>6. /\ pc'[r] = "done" /\ answer'[r] = result /\ lateDelivery'[r] = running /\ r \notin resolvers'
      /\ running # "none" => r \in leased
      /\ r \in leased /\ answer[r] = "none" /\ wire[r] # {}
  BY <1>0, <1>1, <1>2 DEF BrokerTypeOK, CallIsTrue
<1>7. \/ /\ Closed(r) /\ running = "none" /\ r \notin failures'
         /\ result = "allow" => host[r] = "approved"
         /\ result = "reject" /\ current => host[r] # "approved"
         /\ wire'[r] = wire[r] /\ reason'[r] = reason[r]
      \/ /\ host[r] = "none" /\ r \notin failures' /\ result = "error" /\ running = "none"
         /\ wire'[r] = {} /\ reason'[r] = reason[r]
      \/ /\ result = "error" /\ (Closed(r) \/ r \in failures')
         /\ \/ reason'[r] = reason[r] /\ reason[r] # "none"
            \/ reason'[r] = "cancelled" /\ ~Closed(r)
         /\ wire'[r] = wire[r]
  BY <1>0 DEF ReturnsWell, BrokerTypeOK
<1>8. CallIsTrue(r)'
  BY <1>1, <1>6, <1>7 DEF CallIsTrue, UnderWay
<1>9. ReasonIsTrue(r)'
  BY <1>0, <1>2, <1>6, <1>7 DEF ReasonIsTrue, Closed, Reasons
<1>10. DebtIsRecorded(r)'
  BY <1>0, <1>2, <1>6, <1>7 DEF DebtIsRecorded, Closed, Reasons
<1>11. AnswerIsTrue(r)' /\ ~IsSettled(r)
  <2>1. /\ answer'[r] = "allow" => host'[r] = "approved"
        /\ answer'[r] = "reject" => Closed(r) /\ (current => host[r] # "approved")
    <3>1. answer'[r] = result
      BY <1>6
    <3>2. host' = host
      BY <1>2
    <3> QED BY <1>7, <3>1, <3>2
  <2>2. pc[r] # "done"
    BY <1>2 DEF UnderWay
  <2>3. host' = host /\ current' = current
    BY <1>2
  <2> QED BY <1>6, <2>1, <2>2, <2>3 DEF AnswerIsTrue, IsSettled, Closed
<1> QED BY <1>2, <1>3, <1>4, <1>5, <1>6, <1>8, <1>9, <1>10, <1>11, MoveKeeps DEF MovesWell, UnderWay

LEMMA RequestStepKeeps ==
  ASSUME BrokerIndInv, NEW r \in Permissions, RequestStep(r)
  PROVE  BrokerIndInv'
<1>0. BrokerTypeOK /\ CallIsTrue(r) /\ ReasonIsTrue(r) /\ DebtIsRecorded(r)
  BY DEF BrokerIndInv
<1>1. CASE Requested(r)
  <2>1. GoesOn(r, "asking")
    BY <1>1 DEF Requested, GoesOn
  <2> QED BY <2>1, GoesOnKeeps
<1>2. CASE RequestedTooLate(r)
  <2>1. GoesOn(r, "resolving")
    BY <1>2 DEF RequestedTooLate, Resolve, BrokerVerdict, Unregister, GoesOn, Reasons
  <2> QED BY <2>1, GoesOnKeeps
<1>3. CASE Decided(r)
  <2>1. settled[r] \in Reasons
    BY <1>0, <1>3 DEF BrokerTypeOK, Decided
  <2>2. GoesOn(r, "resolving")
    BY <1>3, <2>1 DEF Decided, Resolve, BrokerVerdict, Unregister, GoesOn, Reasons
  <2> QED BY <2>2, GoesOnKeeps
<1>4. CASE DecisionTimesOut(r)
  <2>1. GoesOn(r, "resolving")
    BY <1>4 DEF DecisionTimesOut, Resolve, BrokerVerdict, Unregister, GoesOn, Reasons
  <2> QED BY <2>1, GoesOnKeeps
<1>5. CASE RequestUnknown(r)
  <2>1. GoesOn(r, "recovering")
    BY <1>5 DEF RequestUnknown, GoesOn
  <2> QED BY <2>1, GoesOnKeeps
<1>6. CASE RequestRefused(r)
  <2>1. ReturnsWell(r, "error", "none")
    BY <1>0, <1>6 DEF RequestRefused, ReturnsWell, CallIsTrue, UnderWay
  <2> QED BY <2>1, ReturnKeeps
<1>7. CASE RequestTimesOut(r)
  <2>1. ReturnsWell(r, "error", "requesting")
    BY <1>0, <1>7 DEF RequestTimesOut, ReturnsWell, CallIsTrue, Fails, UnderWay
  <2> QED BY <2>1, ReturnKeeps
<1>8. CASE Recovered(r)
  <2>1. host[r] = "cancelled"
    BY <1>0, <1>8 DEF Recovered, ReasonIsTrue
  <2>2. ReturnsWell(r, "reject", "none")
    BY <1>8, <2>1 DEF Recovered, ReturnsWell, UnderWay
  <2> QED BY <2>2, ReturnKeeps
<1>9. CASE RecoveryFails(r)
  <2>1. PICK running \in {"none", "closing"} : Return(r, "error", running)
    BY <1>9 DEF RecoveryFails
  <2>2. Closed(r) \/ r \in failures
    BY <1>0, <1>9 DEF RecoveryFails, DebtIsRecorded, CallIsTrue, UnderWay
  <2>3. reason[r] = "cancelled"
    BY <1>0, <1>9 DEF RecoveryFails, ReasonIsTrue
  <2>4. ReturnsWell(r, "error", running)
    BY <1>9, <2>1, <2>2, <2>3 DEF RecoveryFails, ReturnsWell, UnderWay
  <2> QED BY <2>4, ReturnKeeps
<1>10. CASE Resolved(r)
  <2>1. host[r] = reason[r] /\ Closed(r)
    BY <1>0, <1>10 DEF Resolved, Acknowledged, ReasonIsTrue
  <2>2. ReturnsWell(r, IF Allowed(r) THEN "allow" ELSE "reject", "none")
    BY <1>10, <2>1 DEF Resolved, Allowed, ReturnsWell, UnderWay
  <2> QED BY <2>2, ReturnKeeps
<1>11. CASE ResolutionFails(r)
  <2>1. PICK running \in {"none", "resolving"} : Return(r, "error", running)
    BY <1>11 DEF ResolutionFails
  <2>2. reason[r] # "none"
    BY <1>0, <1>11 DEF ResolutionFails, ReasonIsTrue
  <2>3. ReturnsWell(r, "error", running)
    BY <1>11, <2>1, <2>2 DEF ResolutionFails, ReturnsWell, Fails, UnderWay
  <2> QED BY <2>3, ReturnKeeps
<1> QED BY <1>1, <1>2, <1>3, <1>4, <1>5, <1>6, <1>7, <1>8, <1>9, <1>10, <1>11 DEF RequestStep

-----------------------------------------------------------------------------
(* What a call left running closes the lifecycle, and then ends.           *)
LEMMA LateRequestedKeeps ==
  ASSUME BrokerIndInv, NEW r \in Permissions, LateRequested(r)
  PROVE  BrokerIndInv'
<1>0. BrokerTypeOK /\ CallIsTrue(r) /\ ReasonIsTrue(r) /\ DebtIsRecorded(r) /\ AnswerIsTrue(r)
  BY DEF BrokerIndInv
<1>1. /\ lateDelivery[r] = "requesting"
      /\ \E events \in SUBSET {"requested", "resolved"} : wire' = [wire EXCEPT ![r] = @ \cup events]
      /\ lateDelivery' = [lateDelivery EXCEPT ![r] = "closing"]
      /\ UNCHANGED <<current, closedRun, pc, leased, resolvers, settled, reason, answer, failures, host,
                     wait, cancellation, lateRecovery>>
  BY DEF LateRequested, Send
<1>2. BrokerTypeOK'
  <2>1. wire' \in [Permissions -> SUBSET {"requested", "resolved"}]
    <3>1. PICK events \in SUBSET {"requested", "resolved"} : wire' = [wire EXCEPT ![r] = @ \cup events]
      BY <1>1
    <3>2. wire[r] \cup events \in SUBSET {"requested", "resolved"}
      BY <1>0 DEF BrokerTypeOK
    <3> QED BY <1>0, <3>1, <3>2 DEF BrokerTypeOK
  <2>2. lateDelivery' \in [Permissions -> {"none", "requesting", "closing", "resolving"}]
    BY <1>0, <1>1 DEF BrokerTypeOK
  <2> QED BY <1>0, <1>1, <2>1, <2>2 DEF BrokerTypeOK
<1>3. OnlyTouches(r) /\ WaitsFollow(r)
  BY <1>0, <1>1 DEF OnlyTouches, WaitsFollow, BrokerTypeOK
<1>4. wire[r] \subseteq wire'[r] /\ lateDelivery'[r] = "closing"
  BY <1>0, <1>1 DEF BrokerTypeOK
<1>5. pc[r] = "done" /\ r \in leased /\ wire[r] # {} /\ reason[r] # "none"
  BY <1>0, <1>1 DEF CallIsTrue, ReasonIsTrue
<1>6. CallIsTrue(r)'
  BY <1>0, <1>1, <1>4, <1>5 DEF CallIsTrue, Closed, UnderWay
<1>7. ReasonIsTrue(r)' /\ DebtIsRecorded(r)'
  BY <1>0, <1>1, <1>4, <1>5 DEF ReasonIsTrue, DebtIsRecorded, Closed
<1>8. (IsSettled(r) => IsSettled(r)') /\ AnswerIsTrue(r)'
  BY <1>0, <1>1, <1>5 DEF AnswerIsTrue, IsSettled, NeverHeardOf, Closed
<1> QED BY <1>1, <1>2, <1>3, <1>5, <1>6, <1>7, <1>8, MoveKeeps DEF MovesWell

LEMMA LateEndsKeeps ==
  ASSUME BrokerIndInv, NEW r \in Permissions, LateDelivered(r) \/ LateFails(r)
  PROVE  BrokerIndInv'
<1>0. BrokerTypeOK /\ CallIsTrue(r) /\ ReasonIsTrue(r) /\ DebtIsRecorded(r) /\ AnswerIsTrue(r)
  BY DEF BrokerIndInv
<1>1. /\ lateDelivery[r] # "none" /\ lateDelivery' = [lateDelivery EXCEPT ![r] = "none"]
      /\ leased' = leased \ {r} /\ wait' = IdleReached(leased \ {r}, wait)
      /\ failures' = failures \/ (failures' = failures \ {r} /\ Closed(r))
      /\ UNCHANGED <<current, closedRun, pc, resolvers, settled, reason, answer, wire, host, cancellation,
                     lateRecovery>>
  BY DEF LateDelivered, LateFails, LateSettlesIn, Release
<1>2. pc[r] = "done" /\ r \notin resolvers /\ wire[r] # {}
  BY <1>0, <1>1 DEF CallIsTrue
<1>3. BrokerTypeOK'
  <2>1. wait' \in [Waits -> WaitRecords]
    BY <1>0, <1>1, IdleIsTyped DEF BrokerTypeOK, WaitRecords
  <2> QED BY <1>0, <1>1, <1>2, <2>1 DEF BrokerTypeOK, WaitRecords
<1>4. OnlyTouches(r) /\ WaitsFollow(r)
  BY <1>0, <1>1 DEF OnlyTouches, WaitsFollow, BrokerTypeOK
<1>5. lateDelivery'[r] = "none"
  BY <1>0, <1>1 DEF BrokerTypeOK
<1>6. CallIsTrue(r)'
  BY <1>1, <1>2, <1>5 DEF CallIsTrue, UnderWay
<1>7. ReasonIsTrue(r)' /\ DebtIsRecorded(r)'
  BY <1>0, <1>1, <1>2, <1>5 DEF ReasonIsTrue, DebtIsRecorded, Closed
<1>8. (IsSettled(r) => IsSettled(r)') /\ AnswerIsTrue(r)'
  BY <1>0, <1>1, <1>2, <1>5 DEF AnswerIsTrue, IsSettled, NeverHeardOf, Closed
<1> QED BY <1>1, <1>2, <1>3, <1>4, <1>6, <1>7, <1>8, MoveKeeps DEF MovesWell

-----------------------------------------------------------------------------
(* A decision, an abort, rejectAll, the end of the run, and a recovery that*)
(* outlasted its time leave the waits alone.                               *)
IsSmall ==
  /\ UNCHANGED <<pc, leased, reason, lateDelivery, answer, wire, host, wait, cancellation>>
  /\ current' \in {current, FALSE} /\ closedRun' = closedRun
  /\ resolvers' \subseteq resolvers /\ failures' \subseteq failures /\ lateRecovery' \subseteq lateRecovery
  /\ \A q \in Permissions : q \in failures /\ q \notin failures' => Closed(q)
  /\ settled' \in [Permissions -> Reasons \cup {"none"}]

LEMMA SmallKeeps ==
  ASSUME BrokerIndInv, IsSmall
  PROVE  BrokerIndInv'
<1>0. BrokerTypeOK /\ OwnerWaits /\ (\A w \in Waits : WaitIsTrue(w))
  BY DEF BrokerIndInv
<1>1. /\ UNCHANGED <<pc, leased, reason, lateDelivery, answer, wire, host, wait, cancellation>>
      /\ current' \in {current, FALSE} /\ closedRun' = closedRun
      /\ resolvers' \subseteq resolvers /\ failures' \subseteq failures /\ lateRecovery' \subseteq lateRecovery
      /\ settled' \in [Permissions -> Reasons \cup {"none"}]
  BY DEF IsSmall
<1>2. BrokerTypeOK'
  BY <1>0, <1>1 DEF BrokerTypeOK
<1>3. Repairs
  <2>1. current' => current
    BY <1>0, <1>1 DEF BrokerTypeOK
  <2>2. wire' = wire /\ UNCHANGED <<pc, leased, reason, lateDelivery, answer, host>>
    BY <1>1
  <2>3. \A q \in Permissions : q \in failures /\ q \notin failures' => Closed(q)
    BY DEF IsSmall
  <2> QED BY <1>1, <2>1, <2>2, <2>3 DEF Repairs
<1>4. /\ NothingReopens
      /\ \A r \in Permissions :
           CallIsTrue(r)' /\ ReasonIsTrue(r)' /\ DebtIsRecorded(r)' /\ AnswerIsTrue(r)'
  BY <1>3, RepairKeeps
<1>5. OwnerWaits' /\ \A w \in Waits : WaitIsTrue(w)'
  <2>1. CASE Permissions = {}
    BY <1>0, <1>1, <2>1 DEF OwnerWaits, BrokerTypeOK, WaitIsTrue, WaitOutcome
  <2>2. ASSUME NEW r \in Permissions
        PROVE  OwnerWaits' /\ \A w \in Waits : WaitIsTrue(w)'
    <3>1. WaitsFollow(r)
      BY <1>1 DEF WaitsFollow
    <3> QED BY <1>0, <1>2, <1>4, <3>1, WaitsKeep
  <2> QED BY <2>1, <2>2
<1> QED BY <1>2, <1>4, <1>5 DEF BrokerIndInv

LEMMA SmallSteps ==
  ASSUME BrokerIndInv,
         \/ RunEnds \/ RejectAll
         \/ \E r \in Permissions :
              LateRecovered(r) \/ \E decision \in {"approved", "rejected", "cancelled"} : Decide(r, decision)
  PROVE  BrokerIndInv'
<1>0. settled \in [Permissions -> Reasons \cup {"none"}]
  BY DEF BrokerIndInv, BrokerTypeOK
<1>1. CASE RunEnds
  BY <1>0, <1>1, SmallKeeps DEF RunEnds, requestVars, IsSmall
<1>2. CASE RejectAll
  <2>1. settled' \in [Permissions -> Reasons \cup {"none"}]
    BY <1>0, <1>2 DEF RejectAll, RejectsAll, Reasons
  <2> QED BY <1>2, <2>1, SmallKeeps DEF RejectAll, RejectsAll, IsSmall
<1>3. ASSUME NEW r \in Permissions, LateRecovered(r)
      PROVE  BrokerIndInv'
  BY <1>0, <1>3, SmallKeeps DEF LateRecovered, requestVars, IsSmall
<1>4. ASSUME NEW r \in Permissions, NEW decision \in {"approved", "rejected", "cancelled"}, Decide(r, decision)
      PROVE  BrokerIndInv'
  <2>1. settled' \in [Permissions -> Reasons \cup {"none"}]
    BY <1>0, <1>4 DEF Decide, Reasons
  <2> QED BY <1>4, <2>1, SmallKeeps DEF Decide, IsSmall
<1> QED BY <1>1, <1>2, <1>3, <1>4

-----------------------------------------------------------------------------
(* The waits. One that is called while a call is under way waits for it,   *)
(* or joins one that does; else all that it covers is over already.        *)
LEMMA RejectAllAndWaitKeeps ==
  ASSUME BrokerIndInv, NEW w \in Waits, NEW closing \in BOOLEAN, RejectAllAndWait(w, closing)
  PROVE  BrokerIndInv'
<1>0. /\ BrokerTypeOK /\ OwnerWaits /\ (\A u \in Waits : WaitIsTrue(u))
      /\ \A r \in Permissions : CallIsTrue(r)
  BY DEF BrokerIndInv
<1> DEFINE new == wait'[w]
<1>1. /\ wait[w].state = "none" /\ RejectsAll /\ closedRun' \in BOOLEAN
      /\ UNCHANGED <<current, pc, leased, reason, lateDelivery, answer, failures, host, lateRecovery>>
  BY <1>0 DEF RejectAllAndWait, BrokerTypeOK
<1>2. \E record \in WaitRecords :
        /\ wait' = [wait EXCEPT ![w] = record]
        /\ record.covered = leased \cup failures
        /\ \/ record.state = "recovering" /\ record.task = w /\ leased = {} /\ cancellation' = cancellation
           \/ record.state = "joined" /\ record.task = cancellation /\ leased # {} /\ cancellation # 0
              /\ cancellation' = cancellation
           \/ record.state = "waiting" /\ record.task = w /\ leased # {} /\ cancellation' = w
  <2>0. w \in 0..MaxWaits /\ cancellation \in 0..MaxWaits /\ leased \cup failures \in SUBSET Permissions
        /\ failures \in SUBSET Permissions /\ {} \in SUBSET Permissions
    BY <1>0, BrokerBounds DEF BrokerTypeOK, Waits
  <2>1. CASE leased = {}
    <3>1. Recovering(w) \in WaitRecords
      BY <2>0 DEF Recovering, WaitRecords
    <3> QED BY <2>1, <3>1 DEF RejectAllAndWait, Recovering
  <2>2. CASE leased # {} /\ cancellation # 0
    <3> DEFINE record == [state |-> "joined", task |-> cancellation, targets |-> {}, covered |-> leased \cup failures]
    <3>1. record \in WaitRecords
      BY <2>0 DEF WaitRecords
    <3> QED BY <2>2, <3>1 DEF RejectAllAndWait
  <2>3. CASE leased # {} /\ cancellation = 0
    <3> DEFINE record == [state |-> "waiting", task |-> w, targets |-> {}, covered |-> leased \cup failures]
    <3>1. record \in WaitRecords
      BY <2>0 DEF WaitRecords
    <3> QED BY <2>3, <3>1 DEF RejectAllAndWait
  <2> QED BY <2>1, <2>2, <2>3
<1>3. \A r \in Permissions :
        wire'[r] = wire[r] \/ (r \in failures /\ wire'[r] = {"requested", "resolved"})
  BY <1>0 DEF RejectAllAndWait, SendAgain, BrokerTypeOK
<1>4. BrokerTypeOK'
  <2>1. wire' \in [Permissions -> SUBSET {"requested", "resolved"}]
    BY <1>0 DEF RejectAllAndWait, SendAgain, BrokerTypeOK
  <2>2. settled' \in [Permissions -> Reasons \cup {"none"}] /\ resolvers' \subseteq leased
    BY <1>0, <1>1 DEF RejectsAll, BrokerTypeOK, Reasons
  <2>3. wait' \in [Waits -> WaitRecords] /\ cancellation' \in 0..MaxWaits
    BY <1>0, <1>2, BrokerBounds DEF BrokerTypeOK, WaitRecords, Waits
  <2> QED BY <1>0, <1>1, <2>1, <2>2, <2>3 DEF BrokerTypeOK, WaitRecords
<1>5. Repairs
  BY <1>1, <1>3 DEF Repairs, RejectsAll
<1>6. /\ NothingReopens
      /\ \A r \in Permissions :
           CallIsTrue(r)' /\ ReasonIsTrue(r)' /\ DebtIsRecorded(r)' /\ AnswerIsTrue(r)'
  BY <1>5, RepairKeeps
<1>7. /\ new.covered = leased \cup failures
      /\ \/ new.state = "recovering" /\ new.task = w /\ leased = {} /\ cancellation' = cancellation
         \/ new.state = "joined" /\ new.task = cancellation /\ leased # {} /\ cancellation # 0
            /\ cancellation' = cancellation
         \/ new.state = "waiting" /\ new.task = w /\ leased # {} /\ cancellation' = w
      /\ \A u \in Waits \ {w} : wait'[u] = wait[u]
  BY <1>0, <1>2 DEF BrokerTypeOK
<1>8. cancellation # 0 /\ leased # {} => cancellation \in Waits \ {w} /\ wait[cancellation].state = "waiting"
  BY <1>0, <1>1, BrokerBounds DEF BrokerTypeOK, OwnerWaits, Waits
<1>9. OwnerWaits'
  BY <1>1, <1>7, <1>8 DEF OwnerWaits
<1>10. ASSUME NEW u \in Waits, u # w
       PROVE  WaitIsTrue(u)'
  <2>1. WaitIsTrue(u) /\ wait'[u] = wait[u] /\ wait[u].task \in 0..MaxWaits
        /\ wait[u].covered \subseteq Permissions
    BY <1>0, <1>7, <1>10 DEF BrokerTypeOK
  <2>2. wait[u].task # 0 => wait[u].task \in Waits \ {w} /\ wait'[wait[u].task] = wait[wait[u].task]
    BY <1>1, <1>7, <2>1, BrokerBounds DEF WaitIsTrue, Waits
  <2>3. WaitOutcome(u)' = WaitOutcome(u)
    BY <2>1, <2>2 DEF WaitOutcome
  <2> QED BY <1>6, <2>1, <2>2, <2>3 DEF WaitIsTrue, NothingReopens
<1>11. WaitIsTrue(w)'
  <2>1. \A r \in leased \cup failures : r \in Permissions /\ pc[r] # "idle"
    BY <1>0 DEF CallIsTrue, BrokerTypeOK
  <2>2. leased = {} => \A r \in leased \cup failures : pc[r] = "done"
    BY <1>0, <2>1 DEF CallIsTrue, BrokerTypeOK, UnderWay
  <2>3. /\ wait'[w].task # 0 => wait'[wait'[w].task].state # "none"
        /\ \/ WaitOutcome(w)' = "recovering" /\ leased = {}
           \/ WaitOutcome(w)' = "waiting"
    <3>1. w # 0
      BY BrokerBounds DEF Waits
    <3>2. CASE new.task = w
      <4>1. new.state \in {"recovering", "waiting"} /\ (new.state = "recovering" => leased = {})
        BY <1>7, <1>8, <3>2
      <4> QED BY <3>1, <3>2, <4>1 DEF WaitOutcome
    <3>3. CASE new.task = cancellation /\ leased # {} /\ cancellation # 0
      <4>1. wait'[cancellation].state = "waiting"
        BY <1>7, <1>8, <3>3
      <4> QED BY <3>3, <4>1 DEF WaitOutcome
    <3> QED BY <1>7, <3>2, <3>3
  <2> QED BY <1>1, <1>7, <2>1, <2>2, <2>3 DEF WaitIsTrue
<1> QED BY <1>4, <1>6, <1>9, <1>10, <1>11 DEF BrokerIndInv

(* A wait fails, starts its recovery, or learns of one of its targets.     *)
WaitGoesOn(w) ==
  /\ UNCHANGED <<current, closedRun, requestVars, host>>
  /\ cancellation' \in {cancellation, 0}
  /\ \E record \in WaitRecords :
       /\ wait' = [wait EXCEPT ![w] = record]
       /\ record.task = wait[w].task /\ record.covered = wait[w].covered
       /\ \/ record.state = wait[w].state /\ cancellation' = cancellation
          \/ record.state = "recovering" /\ wait[w].state = "idle" /\ cancellation' = cancellation
          \/ record.state = "failed" /\ wait[w].state \in {"waiting", "recovering"}
             /\ cancellation' = Ends(w)
          \/ record.state = "ok" /\ wait[w].state = "recovering" /\ failures = {}
             /\ cancellation' = Ends(w)
  /\ failures' \subseteq failures /\ lateRecovery' \subseteq Permissions
  /\ \A r \in Permissions :
       /\ wire'[r] = wire[r] \/ (r \in failures /\ wire'[r] = {"requested", "resolved"})
       /\ r \in failures /\ r \notin failures' => Closed(r)
  /\ wire' \in [Permissions -> SUBSET {"requested", "resolved"}]

LEMMA WaitGoesOnKeeps ==
  ASSUME BrokerIndInv, NEW w \in Waits, WaitGoesOn(w)
  PROVE  BrokerIndInv'
<1>0. /\ BrokerTypeOK /\ OwnerWaits /\ (\A u \in Waits : WaitIsTrue(u))
      /\ \A r \in Permissions : CallIsTrue(r) /\ DebtIsRecorded(r)
  BY DEF BrokerIndInv
<1>1. /\ UNCHANGED <<current, closedRun, pc, leased, resolvers, settled, reason, lateDelivery, answer, host>>
      /\ cancellation' \in {cancellation, 0} /\ failures' \subseteq failures /\ lateRecovery' \subseteq Permissions
      /\ wire' \in [Permissions -> SUBSET {"requested", "resolved"}]
  BY DEF WaitGoesOn, requestVars
<1>2. wait' \in [Waits -> WaitRecords]
  BY <1>0 DEF WaitGoesOn, BrokerTypeOK, WaitRecords
<1>3. BrokerTypeOK'
  BY <1>0, <1>1, <1>2, BrokerBounds DEF BrokerTypeOK, WaitRecords
<1>4. Repairs
  BY <1>1 DEF Repairs, WaitGoesOn
<1>5. /\ NothingReopens
      /\ \A r \in Permissions :
           CallIsTrue(r)' /\ ReasonIsTrue(r)' /\ DebtIsRecorded(r)' /\ AnswerIsTrue(r)'
  BY <1>4, RepairKeeps
<1>6. /\ \A u \in Waits \ {w} : wait'[u] = wait[u]
      /\ wait'[w].task = wait[w].task /\ wait'[w].covered = wait[w].covered
      /\ \/ wait'[w].state = wait[w].state /\ cancellation' = cancellation
         \/ wait'[w].state = "recovering" /\ wait[w].state = "idle" /\ cancellation' = cancellation
         \/ wait'[w].state = "failed" /\ wait[w].state \in {"waiting", "recovering"} /\ cancellation' = Ends(w)
         \/ wait'[w].state = "ok" /\ wait[w].state = "recovering" /\ failures = {} /\ cancellation' = Ends(w)
  BY <1>0 DEF WaitGoesOn, BrokerTypeOK
<1>7. OwnerWaits'
  <2> SUFFICES ASSUME leased # {}, cancellation' # 0 PROVE wait'[cancellation'].state = "waiting"
    BY <1>1 DEF OwnerWaits
  <2>1. cancellation' = cancellation /\ cancellation \in Waits /\ wait[cancellation].state = "waiting"
    BY <1>0, <1>1, BrokerBounds DEF OwnerWaits, BrokerTypeOK, Waits
  <2> QED BY <1>6, <2>1 DEF Ends
<1>8. failures = {} => \A r \in Permissions : pc[r] = "done" => IsSettled(r)
  <2> SUFFICES ASSUME failures = {}, NEW r \in Permissions, pc[r] = "done"
               PROVE  IsSettled(r)
    OBVIOUS
  <2>1. wire[r] = {} \/ Closed(r)
    BY <1>0 DEF DebtIsRecorded
  <2>2. wire[r] = {} => host[r] = "none" /\ lateDelivery[r] = "none"
    BY <1>0 DEF DebtIsRecorded, CallIsTrue
  <2> QED BY <2>1, <2>2 DEF IsSettled, NeverHeardOf
<1>9. ASSUME NEW u \in Waits
      PROVE  WaitIsTrue(u)'
  <2> DEFINE v == wait[u].task
  <2>1. WaitIsTrue(u) /\ wait'[u].task = v /\ wait'[u].covered = wait[u].covered
        /\ (v # 0 => v \in Waits) /\ wait[u].covered \subseteq Permissions
    BY <1>0, <1>6, BrokerBounds DEF BrokerTypeOK, Waits
  <2>2. v # 0 => wait'[v].state # "none"
    BY <1>6, <2>1 DEF WaitIsTrue
  <2>3. WaitOutcome(u)' = IF v = 0 THEN "none" ELSE wait'[v].state
    BY <2>1 DEF WaitOutcome
  <2>4. WaitOutcome(u) = IF v = 0 THEN "none" ELSE wait[v].state
    BY DEF WaitOutcome
  <2>5. \/ WaitOutcome(u)' = WaitOutcome(u)
        \/ WaitOutcome(u)' = "recovering" /\ WaitOutcome(u) = "idle"
        \/ WaitOutcome(u)' = "failed"
        \/ WaitOutcome(u)' = "ok" /\ WaitOutcome(u) = "recovering" /\ failures = {}
    BY <1>6, <2>1, <2>3, <2>4
  <2>6. \A r \in wait[u].covered : pc'[r] # "idle"
    BY <2>1, <1>1 DEF WaitIsTrue
  <2>7. WaitOutcome(u)' \in {"idle", "recovering"} => \A r \in wait[u].covered : pc'[r] = "done"
    BY <1>1, <2>1, <2>5 DEF WaitIsTrue
  <2>8. WaitOutcome(u)' = "ok" => \A r \in wait[u].covered : IsSettled(r)'
    BY <1>5, <1>8, <2>1, <2>5 DEF WaitIsTrue, NothingReopens
  <2> QED BY <2>1, <2>2, <2>6, <2>7, <2>8 DEF WaitIsTrue
<1> QED BY <1>3, <1>5, <1>7, <1>9 DEF BrokerIndInv

LEMMA WaitStepKeeps ==
  ASSUME BrokerIndInv, NEW w \in Waits, WaitStep(w)
  PROVE  BrokerIndInv'
<1>0. /\ wait \in [Waits -> WaitRecords] /\ failures \subseteq Permissions /\ lateRecovery \subseteq Permissions
      /\ wire \in [Permissions -> SUBSET {"requested", "resolved"}] /\ cancellation' \in {cancellation, Ends(w)}
      /\ wait[w] \in WaitRecords
  BY DEF BrokerIndInv, BrokerTypeOK, WaitRecords, WaitStep, WaitTimesOut, StartsRecovery, RecoveryEnds,
         RecoverySettles
<1>1. Ends(w) \in {cancellation, 0}
  BY DEF Ends
<1>2. CASE WaitTimesOut(w)
  <2> DEFINE record == [wait[w] EXCEPT !.state = "failed"]
  <2>1. record \in WaitRecords
    BY <1>0 DEF WaitRecords
  <2>2. record.state = "failed" /\ record.task = wait[w].task /\ record.covered = wait[w].covered
    BY <1>0 DEF WaitRecords
  <2>3. wait' = [wait EXCEPT ![w] = record]
    BY <1>2 DEF WaitTimesOut
  <2> HIDE DEF record
  <2>4. WaitGoesOn(w)
    BY <1>0, <1>1, <1>2, <2>1, <2>2, <2>3 DEF WaitTimesOut, WaitGoesOn
  <2> QED BY <2>4, WaitGoesOnKeeps
<1>3. CASE StartsRecovery(w)
  <2> DEFINE record == [wait[w] EXCEPT !.state = "recovering", !.targets = failures]
  <2>1. record \in WaitRecords
    <3>1. ASSUME NEW old \in WaitRecords, NEW targets \in SUBSET Permissions
          PROVE  [old EXCEPT !.state = "recovering", !.targets = targets] \in WaitRecords
      BY DEF WaitRecords
    <3> QED BY <1>0, <3>1
  <2>2. record.state = "recovering" /\ record.task = wait[w].task /\ record.covered = wait[w].covered
    BY <1>0 DEF WaitRecords
  <2>3. wait' = [wait EXCEPT ![w] = record]
    BY <1>3 DEF StartsRecovery
  <2> HIDE DEF record
  <2>4. /\ wire' \in [Permissions -> SUBSET {"requested", "resolved"}]
        /\ \A r \in Permissions :
             wire'[r] = wire[r] \/ (r \in failures /\ wire'[r] = {"requested", "resolved"})
    BY <1>0, <1>3 DEF StartsRecovery, SendAgain
  <2>5. WaitGoesOn(w)
    BY <1>0, <1>3, <2>1, <2>2, <2>3, <2>4 DEF StartsRecovery, WaitGoesOn
  <2> QED BY <2>5, WaitGoesOnKeeps
<1>4. ASSUME NEW r \in Permissions, RecoverySettles(w, r)
      PROVE  BrokerIndInv'
  <2> DEFINE record == [wait[w] EXCEPT !.targets = Remaining(w, r)]
  <2>1. record \in WaitRecords
    <3>1. ASSUME NEW old \in WaitRecords, NEW targets \in SUBSET Permissions
          PROVE  [old EXCEPT !.targets = targets] \in WaitRecords
      BY DEF WaitRecords
    <3>2. Remaining(w, r) \in SUBSET Permissions
      BY <1>0 DEF Remaining, WaitRecords
    <3> QED BY <1>0, <3>1, <3>2
  <2>2. record.state = wait[w].state /\ record.task = wait[w].task /\ record.covered = wait[w].covered
    BY <1>0 DEF WaitRecords
  <2>3. wait' = [wait EXCEPT ![w] = record]
    BY <1>4 DEF RecoverySettles
  <2> HIDE DEF record
  <2>4. /\ failures' \subseteq failures /\ lateRecovery' \subseteq Permissions
        /\ \A q \in Permissions : q \in failures /\ q \notin failures' => Closed(q)
    BY <1>0, <1>4 DEF RecoverySettles
  <2>5. WaitGoesOn(w)
    BY <1>0, <1>4, <2>1, <2>2, <2>3, <2>4 DEF RecoverySettles, WaitGoesOn
  <2> QED BY <2>5, WaitGoesOnKeeps
<1>5. CASE RecoveryEnds(w)
  <2> DEFINE record == [wait[w] EXCEPT !.state = IF Recovery THEN "ok" ELSE "failed"]
  <2>1. record \in WaitRecords
    BY <1>0 DEF WaitRecords
  <2>2. /\ record.state = IF Recovery THEN "ok" ELSE "failed"
        /\ record.task = wait[w].task /\ record.covered = wait[w].covered
    BY <1>0 DEF WaitRecords
  <2>3. wait' = [wait EXCEPT ![w] = record]
    BY <1>5 DEF RecoveryEnds
  <2> HIDE DEF record
  <2>4. WaitGoesOn(w)
    BY <1>0, <1>1, <1>5, <2>1, <2>2, <2>3 DEF RecoveryEnds, Recovery, WaitGoesOn
  <2> QED BY <2>4, WaitGoesOnKeeps
<1> QED BY <1>2, <1>3, <1>4, <1>5 DEF WaitStep

-----------------------------------------------------------------------------
LEMMA BrokerInvAtInit == BrokerInit => BrokerIndInv
<1> SUFFICES ASSUME BrokerInit PROVE BrokerIndInv
  OBVIOUS
<1>1. /\ leased = {} /\ resolvers = {} /\ failures = {} /\ cancellation = 0
      /\ \A r \in Permissions : /\ pc[r] = "idle" /\ host[r] = "none" /\ wire[r] = {}
                                /\ lateDelivery[r] = "none" /\ answer[r] = "none"
      /\ \A w \in Waits : wait[w].state = "none" /\ wait[w].task = 0 /\ wait[w].covered = {}
  BY DEF BrokerInit
<1>2. BrokerTypeOK
  <2>1. [state |-> "none", task |-> 0, targets |-> {}, covered |-> {}] \in WaitRecords
    BY BrokerBounds DEF WaitRecords
  <2>2. wait \in [Waits -> WaitRecords]
    BY <2>1 DEF BrokerInit
  <2>3. /\ current \in BOOLEAN /\ closedRun \in BOOLEAN
        /\ leased \subseteq Permissions /\ resolvers \subseteq leased /\ failures \subseteq Permissions
        /\ lateRecovery \subseteq Permissions
    BY DEF BrokerInit
  <2>4. /\ pc \in [Permissions -> {"idle", "requesting", "recovering", "asking", "resolving", "done"}]
        /\ settled \in [Permissions -> Reasons \cup {"none"}]
        /\ reason \in [Permissions -> Reasons \cup {"none"}]
    BY DEF BrokerInit
  <2>5. /\ lateDelivery \in [Permissions -> {"none", "requesting", "closing", "resolving"}]
        /\ answer \in [Permissions -> {"none", "allow", "reject", "error"}]
        /\ wire \in [Permissions -> SUBSET {"requested", "resolved"}]
        /\ host \in [Permissions -> Reasons \cup {"none", "requested"}]
    BY DEF BrokerInit
  <2>6. cancellation \in 0..MaxWaits
    BY <1>1, BrokerBounds
  <2> QED BY <2>2, <2>3, <2>4, <2>5, <2>6 DEF BrokerTypeOK, WaitRecords
<1>3. OwnerWaits
  BY <1>1 DEF OwnerWaits
<1>4. \A r \in Permissions : CallIsTrue(r) /\ ReasonIsTrue(r) /\ DebtIsRecorded(r) /\ AnswerIsTrue(r)
  BY <1>1 DEF CallIsTrue, ReasonIsTrue, DebtIsRecorded, AnswerIsTrue, Closed, Reasons, UnderWay
<1>5. \A w \in Waits : WaitIsTrue(w)
  BY <1>1 DEF WaitIsTrue, WaitOutcome
<1> QED BY <1>2, <1>3, <1>4, <1>5 DEF BrokerIndInv

LEMMA BrokerStep == BrokerIndInv /\ [BrokerNext]_brokerVars => BrokerIndInv'
<1> SUFFICES ASSUME BrokerIndInv, [BrokerNext]_brokerVars PROVE BrokerIndInv'
  OBVIOUS
<1>1. CASE Arrive
  BY <1>1, ArriveKeeps
<1>2. CASE RunEnds \/ RejectAll
  BY <1>2, SmallSteps
<1>3. ASSUME NEW r \in Permissions,
             \/ Request(r) \/ RequestStep(r) \/ LateStep(r) \/ LateRecovered(r)
             \/ \E decision \in {"approved", "rejected", "cancelled"} : Decide(r, decision)
      PROVE  BrokerIndInv'
  BY <1>3, RequestKeeps, RequestStepKeeps, LateRequestedKeeps, LateEndsKeeps, SmallSteps DEF LateStep
<1>4. ASSUME NEW w \in Waits,
             WaitStep(w) \/ \E closing \in BOOLEAN : RejectAllAndWait(w, closing)
      PROVE  BrokerIndInv'
  BY <1>4, WaitStepKeeps, RejectAllAndWaitKeeps
<1>5. CASE UNCHANGED brokerVars
  <2>1. IsSmall
    BY <1>5 DEF brokerVars, requestVars, IsSmall, BrokerIndInv, BrokerTypeOK
  <2> QED BY <2>1, SmallKeeps
<1> QED BY <1>1, <1>2, <1>3, <1>4, <1>5 DEF BrokerNext, RequestStep, LateStep, WaitStep

LEMMA BrokerInvImplies == BrokerIndInv => RequestsAreSettled
<1> SUFFICES ASSUME BrokerIndInv PROVE RequestsAreSettled
  OBVIOUS
<1>1. \A r \in Permissions : CallIsTrue(r) /\ DebtIsRecorded(r) /\ AnswerIsTrue(r)
  BY DEF BrokerIndInv
<1>2. \A r \in Permissions : IsSettled(r) => host[r] # "requested"
  BY DEF IsSettled, NeverHeardOf, Closed, Reasons
<1>3. AnswerAgreesWithHost
  BY <1>1, <1>2 DEF AnswerIsTrue, AnswerAgreesWithHost
<1>4. NoOpenRequestForgotten
  BY <1>1 DEF DebtIsRecorded, NoOpenRequestForgotten, Closed, Reasons
<1>5. WaitMeansClosed
  <2>1. \A w \in Waits : WaitIsTrue(w) /\ wait[w].covered \subseteq Permissions
    BY DEF BrokerIndInv, BrokerTypeOK
  <2> QED BY <1>2, <2>1 DEF WaitIsTrue, WaitMeansClosed
<1> QED BY <1>3, <1>4, <1>5 DEF RequestsAreSettled

(* The calls, the leases and the waits of the broker keep their types.     *)
THEOREM BrokerTyped == BrokerSpec => []BrokerTypeOK
<1>1. BrokerInit => BrokerIndInv
  BY BrokerInvAtInit
<1>2. BrokerIndInv /\ [BrokerNext]_brokerVars => BrokerIndInv'
  BY BrokerStep
<1>3. BrokerIndInv => BrokerTypeOK
  BY DEF BrokerIndInv
<1> QED BY <1>1, <1>2, <1>3, PTL DEF BrokerSpec

(* No request stays open at the host unless its call, what it left running *)
(* or a recorded failure still owes the resolution; the backend acts on no *)
(* answer the host does not have; and a rejectAllAndWait that ends well    *)
(* has closed all that it covers.                                          *)
THEOREM PermissionsSettle == BrokerSpec => []RequestsAreSettled
<1>1. BrokerInit => BrokerIndInv
  BY BrokerInvAtInit
<1>2. BrokerIndInv /\ [BrokerNext]_brokerVars => BrokerIndInv'
  BY BrokerStep
<1>3. BrokerIndInv => RequestsAreSettled
  BY BrokerInvImplies
<1> QED BY <1>1, <1>2, <1>3, PTL DEF BrokerSpec

-----------------------------------------------------------------------------
(***************************************************************************)
(* The start and the stops of the backend.                                 *)
(***************************************************************************)

(* An owner that is to issue two stops, one, or none has that much left of *)
(* what all owners may issue.                                              *)
Budget ==
  /\ generation <= 2 * created
  /\ owner.pc \in {"startup", "awaitStart", "prevFinal"} => generation + 1 <= 2 * created
  /\ owner.pc = "prev" => generation + 2 <= 2 * created

OwnerOk ==
  /\ owner.n <= created
  /\ owner.n = 0 <=> owner.pc = "none"
  /\ owner.n # 0 => outcome[owner.n] = "running"
  /\ owner.pc \in {"prev", "prevFinal"} => owner.gen # 0

(* Only the latest stop can be in flight.                                  *)
FlightOk ==
  /\ inFlight # 0 => inFlight = generation /\ stops[inFlight].state = "running"
  /\ \A g \in Generations :
       /\ stops[g].state = "running" => inFlight = g
       /\ g > generation => stops[g].state = "none" /\ ~stops[g].final

(* A final stop comes after the start is over.                             *)
FinalOk ==
  /\ owner.pc \in {"prevFinal", "final"} => ~StartPending
  /\ \A g \in Generations : stops[g].final => ~StartPending
  /\ owner.pc = "final" =>
       /\ owner.gen = generation /\ generation # 0
       /\ stops[generation].final /\ stops[generation].state # "none"

(* There is no owner, and no start, unless somebody asked.                 *)
AskedOk ==
  /\ start.task = "none" => start.caller = "none"
  /\ created > 0 => \E c \in Calls : call[c].state # "idle"
  /\ \A c \in Calls : call[c].state = "waiting" => call[c].owner \in Owners
  /\ \A n \in Owners : watch[n].kind # "none" => created > 0

(* A late stop that joined an owner is the latest only until that owner    *)
(* issues its own, which it will.                                          *)
LateOk ==
  \A n \in Owners : watch[n].kind = "late_stop" =>
    /\ watch[n].gen \in 1..generation
    /\ stops[watch[n].gen].final /\ stops[watch[n].gen].state # "none"
    /\ owner.pc \in {"none", "prevFinal", "final"}
    /\ owner.pc = "final" => watch[n].gen < owner.gen
    /\ watch[n].state = "joined" /\ watch[n].gen = generation =>
         owner.pc = "prevFinal" /\ inFlight = 0 /\ watch[n].owner = owner.n

StoppedOk ==
  /\ stopped =>
       /\ created > 0 /\ owner.n = 0 /\ ~StartPending
       /\ \A g \in Generations : stops[g].state # "running"
       /\ \E g \in Generations : stops[g].state = "completed" /\ stops[g].final
  /\ \A n \in Owners : outcome[n] = "succeeded" => stopped

LifecycleInv ==
  /\ LifecycleTypeOK /\ Budget /\ OwnerOk /\ FlightOk /\ FinalOk /\ AskedOk /\ LateOk /\ StoppedOk

(* What an owner that gives up leaves behind is a watch of the named kind, *)
(* on the stop it names.                                                   *)
LEMMA DeferredRecords ==
  ASSUME NEW afterStart \in BOOLEAN, NEW gen \in Issued
  PROVE  /\ NoWatch \in WatchRecords /\ NoWatch.kind = "none"
         /\ FinalStopAfter(afterStart, gen) \in WatchRecords
         /\ FinalStopAfter(afterStart, gen).kind = "final_stop"
         /\ LateStop(gen) \in WatchRecords /\ LateStop(gen).kind = "late_stop"
         /\ LateStop(gen).state = "watching" /\ LateStop(gen).gen = gen
BY LifecycleBounds
   DEF NoWatch, FinalStopAfter, LateStop, Deferred, WatchRecords, WatchStates, Issued

(* An owner that fails is gone, leaves its watch in its own place and      *)
(* touches no other.                                                       *)
LEMMA OwnerFailsOk ==
  ASSUME LifecycleInv, owner.n # 0, NEW deferred \in WatchRecords, OwnerFails(deferred)
  PROVE  /\ owner.n \in Owners /\ owner' \in OwnerRecords /\ owner'.n = 0 /\ owner'.pc = "none"
         /\ outcome' \in [Owners -> {"none", "running", "succeeded", "failed"}]
         /\ \A n \in Owners : outcome'[n] = "succeeded" => outcome[n] = "succeeded"
         /\ watch' \in [Owners -> WatchRecords]
         /\ \A n \in Owners : watch'[n] = IF n = owner.n THEN deferred ELSE watch[n]
         /\ UNCHANGED stopped
<1>1. owner.n \in Owners
  BY LifecycleBounds DEF LifecycleInv, LifecycleTypeOK, OwnerRecords, Owners
<1>2. owner' = [n |-> 0, pc |-> "none", gen |-> 0] /\ UNCHANGED stopped
      /\ outcome' = [outcome EXCEPT ![owner.n] = "failed"]
      /\ watch' = [watch EXCEPT ![owner.n] = deferred]
  BY DEF OwnerFails, NoOwner
<1>3. owner' \in OwnerRecords /\ owner'.n = 0 /\ owner'.pc = "none"
  BY <1>2, LifecycleBounds DEF OwnerRecords, Issued
<1> QED
  BY <1>1, <1>2, <1>3 DEF LifecycleInv, LifecycleTypeOK

(* Asking the backend to stop while a stop is in flight only waits for it; *)
(* otherwise the new stop is the latest one and the only one at work.      *)
LEMMA EntersStopOk ==
  ASSUME LifecycleInv, NEW n, NEW final \in BOOLEAN, EntersStop(n, final),
         generation + 1 <= 2 * MaxOwners
  PROVE  /\ stops' \in [Generations -> StopRecords] /\ generation' \in Issued /\ inFlight' \in Issued
         /\ owner'.n = n /\ owner'.gen \in Issued
         /\ owner' = [n |-> n, pc |-> owner'.pc, gen |-> owner'.gen]
         /\ owner'.pc \in (IF final THEN {"prevFinal", "final"} ELSE {"prev", "startup"})
         /\ owner'.pc \in {"prev", "prevFinal"} =>
              owner'.gen # 0 /\ inFlight # 0 /\ UNCHANGED <<stops, generation, inFlight>>
         /\ owner'.pc \in {"startup", "final"} =>
              /\ generation' = generation + 1 /\ inFlight' = generation' /\ owner'.gen = generation'
              /\ generation' \in Generations
              /\ stops'[generation'] = [state |-> "running", final |-> final]
              /\ \A g \in Generations : g # generation' => stops'[g] = stops[g]
         /\ FlightOk'
<1> USE LifecycleBounds
<1>1. CASE inFlight # 0
  BY <1>1 DEF LifecycleInv, LifecycleTypeOK, FlightOk, EntersStop, Generations, Issued
<1>2. CASE inFlight = 0
  <2>1. generation + 1 \in Generations /\ generation \in Nat
    BY DEF LifecycleInv, LifecycleTypeOK, Generations, Issued
  <2> DEFINE new == [state |-> "running", final |-> final]
  <2>2. /\ generation' = generation + 1 /\ inFlight' = generation + 1
        /\ stops' = [stops EXCEPT ![generation + 1] = new]
        /\ owner' = [n |-> n, pc |-> IF final THEN "final" ELSE "startup", gen |-> generation + 1]
    BY <1>2 DEF EntersStop
  <2>3. new \in StopRecords /\ new.state = "running"
    BY DEF StopRecords
  <2>4. stops \in [Generations -> StopRecords]
    BY DEF LifecycleInv, LifecycleTypeOK
  <2>5. /\ stops' \in [Generations -> StopRecords] /\ stops'[generation'] = new
        /\ \A g \in Generations : g # generation' => stops'[g] = stops[g]
    BY <2>1, <2>2, <2>3, <2>4
  <2>6. FlightOk'
    BY <1>2, <2>1, <2>2, <2>3, <2>5 DEF LifecycleInv, FlightOk, Generations
  <2> QED
    BY <2>1, <2>2, <2>5, <2>6 DEF Issued, Generations
<1> QED BY <1>1, <1>2

(* A call of start, before anybody asked for a shutdown, keeps the         *)
(* invariant.                                                              *)
LEMMA StartStep == LifecycleInv /\ Start => LifecycleInv'
<1> SUFFICES ASSUME LifecycleInv, Start PROVE LifecycleInv'
  OBVIOUS
<1> USE LifecycleBounds
<1>1. LifecycleTypeOK'
  BY DEF LifecycleInv, LifecycleTypeOK, Owners, Calls, Generations, Issued, Start
<1>2. Budget'
  BY DEF LifecycleInv, Budget, Start
<1>3. OwnerOk'
  BY DEF LifecycleInv, OwnerOk, Start
<1>4. FlightOk'
  BY DEF LifecycleInv, FlightOk, Start
<1>5. FinalOk'
  BY DEF LifecycleInv, FinalOk, LifecycleTypeOK, Generations, Issued, Start, AskedOk, FlightOk,
     Budget
<1>6. AskedOk'
  BY DEF LifecycleInv, AskedOk, Start
<1>7. LateOk'
  BY DEF LifecycleInv, LateOk, Start
<1>8. StoppedOk'
  BY DEF LifecycleInv, StoppedOk, Start, AskedOk
<1> QED BY <1>1, <1>2, <1>3, <1>4, <1>5, <1>6, <1>7, <1>8 DEF LifecycleInv

(* The start task begins, or finds that it was aborted.                    *)
LEMMA StartRunsStep == LifecycleInv /\ StartRuns => LifecycleInv'
<1> SUFFICES ASSUME LifecycleInv, StartRuns PROVE LifecycleInv'
  OBVIOUS
<1> USE LifecycleBounds
<1>1. LifecycleTypeOK'
  BY DEF LifecycleInv, LifecycleTypeOK, Owners, Calls, Generations, Issued, StartRuns
<1>2. Budget'
  BY DEF LifecycleInv, Budget, StartRuns
<1>3. OwnerOk'
  BY DEF LifecycleInv, OwnerOk, StartRuns
<1>4. FlightOk'
  BY DEF LifecycleInv, FlightOk, StartRuns
<1>5. FinalOk'
  BY DEF LifecycleInv, FinalOk, StartPending, StartRuns
<1>6. AskedOk'
  BY DEF LifecycleInv, AskedOk, StartRuns
<1>7. LateOk'
  BY DEF LifecycleInv, LateOk, StartRuns
<1>8. StoppedOk'
  BY DEF LifecycleInv, StoppedOk, StartPending, StartRuns
<1> QED BY <1>1, <1>2, <1>3, <1>4, <1>5, <1>6, <1>7, <1>8 DEF LifecycleInv

(* The backend answers its start, however late.                            *)
LEMMA StartSettlesStep == LifecycleInv /\ StartSettles => LifecycleInv'
<1> SUFFICES ASSUME LifecycleInv, StartSettles PROVE LifecycleInv'
  OBVIOUS
<1> USE LifecycleBounds
<1>1. LifecycleTypeOK'
  BY DEF LifecycleInv, LifecycleTypeOK, Owners, Calls, Generations, Issued, StartSettles
<1>2. Budget'
  BY DEF LifecycleInv, Budget, StartSettles
<1>3. OwnerOk'
  BY DEF LifecycleInv, OwnerOk, StartSettles
<1>4. FlightOk'
  BY DEF LifecycleInv, FlightOk, StartSettles
<1>5. FinalOk'
  BY DEF LifecycleInv, FinalOk, StartPending, StartSettles
<1>6. AskedOk'
  BY DEF LifecycleInv, AskedOk, StartSettles
<1>7. LateOk'
  BY DEF LifecycleInv, LateOk, StartSettles
<1>8. StoppedOk'
  BY DEF LifecycleInv, StoppedOk, StartPending, StartSettles
<1> QED BY <1>1, <1>2, <1>3, <1>4, <1>5, <1>6, <1>7, <1>8 DEF LifecycleInv

(* The start of the lifecycle gives up on a backend that does not answer.  *)
LEMMA StartGivesUpStep == LifecycleInv /\ StartGivesUp => LifecycleInv'
<1> SUFFICES ASSUME LifecycleInv, StartGivesUp PROVE LifecycleInv'
  OBVIOUS
<1> USE LifecycleBounds
<1>1. LifecycleTypeOK'
  BY DEF LifecycleInv, LifecycleTypeOK, Owners, Calls, Generations, Issued, StartGivesUp
<1>2. Budget'
  BY DEF LifecycleInv, Budget, StartGivesUp
<1>3. OwnerOk'
  BY DEF LifecycleInv, OwnerOk, StartGivesUp
<1>4. FlightOk'
  BY DEF LifecycleInv, FlightOk, StartGivesUp
<1>5. FinalOk'
  BY DEF LifecycleInv, FinalOk, StartPending, StartGivesUp
<1>6. AskedOk'
  BY DEF LifecycleInv, AskedOk, StartGivesUp
<1>7. LateOk'
  BY DEF LifecycleInv, LateOk, StartGivesUp
<1>8. StoppedOk'
  BY DEF LifecycleInv, StoppedOk, StartPending, StartGivesUp
<1> QED BY <1>1, <1>2, <1>3, <1>4, <1>5, <1>6, <1>7, <1>8 DEF LifecycleInv

(* The host aborts the lifecycle's signal.                                 *)
LEMMA AbortSignalStep == LifecycleInv /\ AbortSignal => LifecycleInv'
<1> SUFFICES ASSUME LifecycleInv, AbortSignal PROVE LifecycleInv'
  OBVIOUS
<1> USE LifecycleBounds
<1>1. LifecycleTypeOK'
  BY DEF LifecycleInv, LifecycleTypeOK, AbortSignal
<1>2. Budget'
  BY DEF LifecycleInv, Budget, AbortSignal
<1>3. OwnerOk'
  BY DEF LifecycleInv, OwnerOk, AbortSignal
<1>4. FlightOk'
  BY DEF LifecycleInv, FlightOk, AbortSignal
<1>5. FinalOk'
  BY DEF LifecycleInv, FinalOk, StartPending, AbortSignal
<1>6. AskedOk'
  BY DEF LifecycleInv, AskedOk, AbortSignal
<1>7. LateOk'
  BY DEF LifecycleInv, LateOk, AbortSignal
<1>8. StoppedOk'
  BY DEF LifecycleInv, StoppedOk, StartPending, AbortSignal
<1> QED BY <1>1, <1>2, <1>3, <1>4, <1>5, <1>6, <1>7, <1>8 DEF LifecycleInv

(* Whoever asks for a shutdown joins the owner at work, or creates one that*)
(* waits for the start, for the stop in flight, or issues a stop of its    *)
(* own: the invariant holds whatever the caller records of it in its watch *)
(* or its call.                                                            *)
LEMMA JoinsOwnerOk ==
  ASSUME LifecycleInv, JoinsOwner, ~stopped, UNCHANGED <<signal, stopped>>,
         watch' \in [Owners -> WatchRecords], call' \in [Calls -> CallRecords],
         \A n \in Owners : watch'[n].kind = watch[n].kind /\ watch'[n].gen = watch[n].gen,
         \A n \in Owners : watch'[n].kind = "late_stop" => watch'[n] = watch[n],
         \E c \in Calls : call'[c].state # "idle",
         \A c \in Calls : call'[c].state = "waiting" => call'[c].owner \in Owners
  PROVE  LifecycleInv'
<1> USE LifecycleBounds
<1>z. CASE owner.n # 0
  <2>1. UNCHANGED <<start, startupStop, stops, generation, inFlight, owner, created, outcome>>
    BY <1>z DEF JoinsOwner
  <2>2. LifecycleTypeOK'
    BY <2>1 DEF LifecycleInv, LifecycleTypeOK
  <2>3. Budget'
    BY <2>1 DEF LifecycleInv, Budget
  <2>4. OwnerOk'
    BY <2>1 DEF LifecycleInv, OwnerOk
  <2>5. FlightOk'
    BY <2>1 DEF LifecycleInv, FlightOk
  <2>6. FinalOk'
    BY <2>1 DEF LifecycleInv, FinalOk, StartPending
  <2>7. AskedOk'
    BY <2>1 DEF LifecycleInv, AskedOk
  <2>8. LateOk'
    BY <2>1 DEF LifecycleInv, LateOk
  <2>9. StoppedOk'
    BY <2>1 DEF LifecycleInv, StoppedOk
  <2> QED BY <2>2, <2>3, <2>4, <2>5, <2>6, <2>7, <2>8, <2>9 DEF LifecycleInv
<1>y. CASE owner.n = 0
  <2>1. CreatesOwner /\ NewOwner \in Owners /\ NewOwner = created + 1 /\ created \in 0..MaxOwners
    BY <1>y DEF JoinsOwner, CreatesOwner, NewOwner, LifecycleInv, LifecycleTypeOK
  <2>2. /\ created' = NewOwner /\ outcome' = [outcome EXCEPT ![NewOwner] = "running"]
        /\ start' = [start EXCEPT !.aborted = @ \/ StartPending]
    BY <2>1 DEF CreatesOwner
  <2>3. start'.task = start.task /\ start'.caller = start.caller /\ (StartPending' <=> StartPending)
    BY <2>2 DEF StartPending, LifecycleInv
  <2>4. startupStop' \in BOOLEAN
    BY <2>1 DEF CreatesOwner, LifecycleInv, LifecycleTypeOK
  <2>5. start' \in [task : {"none", "scheduled", "running", "settled"},
                   caller : {"none", "waiting", "resolved", "rejected"}, aborted : BOOLEAN]
    BY <2>2 DEF LifecycleInv, LifecycleTypeOK, StartPending
  <2>6. /\ outcome' \in [Owners -> {"none", "running", "succeeded", "failed"}]
        /\ outcome'[NewOwner] = "running"
        /\ \A n \in Owners : outcome'[n] = "succeeded" => outcome[n] = "succeeded"
    BY <2>1, <2>2 DEF LifecycleInv, LifecycleTypeOK
  <2>7. \A n \in Owners : watch[n].kind = "late_stop" => ~StartPending
    BY DEF LifecycleInv, LifecycleTypeOK, Issued, Generations, LateOk, FinalOk
  <2>8. \A n \in Owners : watch[n].kind = "late_stop" =>
          ~(watch[n].state = "joined" /\ watch[n].gen = generation)
    BY <1>y DEF LifecycleInv, LateOk, OwnerOk
  <2>9. CASE StartPending /\ startupStop
    <3>a. /\ owner' = [n |-> NewOwner, pc |-> "awaitStart", gen |-> 0]
          /\ UNCHANGED <<stops, generation, inFlight>>
      BY <2>1, <2>9 DEF CreatesOwner
    <3>1. LifecycleTypeOK'
      BY <2>2, <2>4, <2>5, <2>6, <3>a
         DEF LifecycleInv, LifecycleTypeOK, Owners, Issued, OwnerRecords
    <3>2. Budget'
      BY <2>1, <2>2, <3>a DEF LifecycleInv, Budget, LifecycleTypeOK, Issued
    <3>3. OwnerOk'
      BY <2>1, <2>2, <2>6, <3>a DEF LifecycleInv, OwnerOk
    <3>4. FlightOk'
      BY <3>a DEF LifecycleInv, FlightOk
    <3>5. FinalOk'
      BY <2>9, <3>a DEF LifecycleInv, FinalOk
    <3>6. AskedOk'
      BY <2>1, <2>2 DEF LifecycleInv, AskedOk
    <3>7. LateOk'
      BY <2>7, <2>9 DEF LifecycleInv, LateOk
    <3>8. StoppedOk'
      BY <2>6 DEF LifecycleInv, StoppedOk
    <3> QED BY <3>1, <3>2, <3>3, <3>4, <3>5, <3>6, <3>7, <3>8 DEF LifecycleInv
  <2>10. CASE ~(StartPending /\ startupStop)
    <3> DEFINE final == ~StartPending
    <3>a. EntersStop(NewOwner, final) /\ final \in BOOLEAN
      <4>1. CASE StartPending
        <5>1. EntersStop(NewOwner, FALSE)
          BY <2>1, <2>10, <4>1 DEF CreatesOwner
        <5>2. final = FALSE
          BY <4>1
        <5> QED BY <5>1, <5>2
      <4>2. CASE ~StartPending
        <5>1. EntersStop(NewOwner, TRUE)
          BY <2>1, <4>2 DEF CreatesOwner
        <5>2. final = TRUE
          BY <4>2
        <5> QED BY <5>1, <5>2
      <4> QED BY <4>1, <4>2
    <3>b. /\ generation + 2 <= 2 * NewOwner /\ generation + 1 <= 2 * MaxOwners
          /\ final => ~StartPending
          /\ \A n \in Owners : watch[n].kind = "late_stop" => final
      BY <2>1, <2>7 DEF LifecycleInv, LifecycleTypeOK, Issued, Budget, Owners
    <3> HIDE DEF final
    <3>c. /\ stops' \in [Generations -> StopRecords] /\ generation' \in Issued /\ inFlight' \in Issued
          /\ owner'.n = NewOwner /\ owner'.gen \in Issued
          /\ owner' = [n |-> NewOwner, pc |-> owner'.pc, gen |-> owner'.gen]
          /\ owner'.pc \in (IF final THEN {"prevFinal", "final"} ELSE {"prev", "startup"})
          /\ owner'.pc \in {"prev", "prevFinal"} =>
               owner'.gen # 0 /\ inFlight # 0 /\ UNCHANGED <<stops, generation, inFlight>>
          /\ owner'.pc \in {"startup", "final"} =>
               /\ generation' = generation + 1 /\ inFlight' = generation' /\ owner'.gen = generation'
               /\ generation' \in Generations
               /\ stops'[generation'] = [state |-> "running", final |-> final]
               /\ \A g \in Generations : g # generation' => stops'[g] = stops[g]
          /\ FlightOk'
      BY <3>a, <3>b, EntersStopOk
    <3>1. LifecycleTypeOK'
      BY <2>2, <2>4, <2>5, <2>6, <3>c DEF LifecycleInv, LifecycleTypeOK, Owners, OwnerRecords
    <3>2. Budget'
      BY <2>1, <2>2, <3>c DEF LifecycleInv, Budget, LifecycleTypeOK, Issued
    <3>3. OwnerOk'
      BY <2>1, <2>2, <2>6, <3>c DEF LifecycleInv, OwnerOk
    <3>4. FlightOk'
      BY <3>c
    <3>5. FinalOk'
      <4>1. \A g \in Generations : stops'[g].final => stops[g].final \/ final
        BY <3>c
      <4> QED BY <2>3, <3>b, <3>c DEF LifecycleInv, LifecycleTypeOK, FinalOk, Issued
    <3>6. AskedOk'
      BY <2>1, <2>2 DEF LifecycleInv, AskedOk
    <3>7. LateOk'
      <4> SUFFICES ASSUME NEW n \in Owners, watch[n].kind = "late_stop"
                   PROVE  /\ watch[n].gen \in 1..generation'
                          /\ stops'[watch[n].gen].final /\ stops'[watch[n].gen].state # "none"
                          /\ owner'.pc \in {"prevFinal", "final"}
                          /\ owner'.pc = "final" => watch[n].gen < owner'.gen
                          /\ ~(watch[n].state = "joined" /\ watch[n].gen = generation')
        BY DEF LateOk
      <4>1. /\ watch[n].gen \in 1..generation /\ watch[n].gen \in Generations
            /\ stops[watch[n].gen].final /\ stops[watch[n].gen].state # "none"
            /\ ~(watch[n].state = "joined" /\ watch[n].gen = generation)
        BY <2>8 DEF LifecycleInv, LifecycleTypeOK, Issued, Generations, LateOk
      <4>2. owner'.pc \in {"prevFinal", "final"} /\ generation \in Nat
        BY <3>b, <3>c DEF LifecycleInv, LifecycleTypeOK, Issued
      <4> QED BY <3>c, <4>1, <4>2
    <3>8. StoppedOk'
      BY <2>6 DEF LifecycleInv, StoppedOk
    <3> QED BY <3>1, <3>2, <3>3, <3>4, <3>5, <3>6, <3>7, <3>8 DEF LifecycleInv
  <2> QED BY <2>9, <2>10
<1> QED BY <1>z, <1>y DEF LifecycleInv

(* A call of shutdown resolves at once on a stopped lifecycle and joins an *)
(* owner otherwise.                                                        *)
LEMMA ShutdownStep == LifecycleInv /\ Shutdown => LifecycleInv'
<1> SUFFICES ASSUME LifecycleInv, Shutdown PROVE LifecycleInv'
  OBVIOUS
<1> USE LifecycleBounds
<1> PICK c \in Calls :
       /\ call[c].state = "idle"
       /\ IF stopped
          THEN /\ call' = [call EXCEPT ![c].state = "resolved"]
               /\ UNCHANGED <<start, startupStop, stops, generation, inFlight, owner, created, outcome>>
          ELSE /\ JoinsOwner
               /\ call' = [call EXCEPT ![c] = [state |-> "waiting", owner |-> JoinedOwner]]
       /\ UNCHANGED <<signal, watch, stopped>>
  BY DEF Shutdown
<1>a. UNCHANGED <<signal, watch, stopped>> /\ call \in [Calls -> CallRecords]
  BY DEF LifecycleInv, LifecycleTypeOK
<1>b. CASE stopped
  <2>a. /\ call' = [call EXCEPT ![c].state = "resolved"]
        /\ UNCHANGED <<start, startupStop, stops, generation, inFlight, owner, created, outcome>>
    BY <1>b
  <2>b. /\ call' \in [Calls -> CallRecords] /\ call'[c].state = "resolved"
        /\ \A d \in Calls : d # c => call'[d] = call[d]
    BY <1>a, <2>a DEF CallRecords
  <2>1. LifecycleTypeOK'
    BY <2>b DEF LifecycleInv, LifecycleTypeOK
  <2>2. Budget'
    BY <2>b DEF LifecycleInv, Budget
  <2>3. OwnerOk'
    BY <2>b DEF LifecycleInv, OwnerOk
  <2>4. FlightOk'
    BY <2>b DEF LifecycleInv, FlightOk
  <2>5. FinalOk'
    BY <2>b DEF LifecycleInv, FinalOk, StartPending
  <2>6. AskedOk'
    BY <2>b DEF LifecycleInv, AskedOk
  <2>7. LateOk'
    BY <2>b DEF LifecycleInv, LateOk
  <2>8. StoppedOk'
    BY <2>b DEF LifecycleInv, StoppedOk, StartPending
  <2> QED BY <2>1, <2>2, <2>3, <2>4, <2>5, <2>6, <2>7, <2>8 DEF LifecycleInv
<1>c. CASE ~stopped
  <2>a. JoinsOwner /\ call' = [call EXCEPT ![c] = [state |-> "waiting", owner |-> JoinedOwner]]
    BY <1>c
  <2>b. JoinedOwner \in Owners
    <3>1. CASE owner.n # 0
      BY <3>1 DEF JoinedOwner, Owners, LifecycleInv, LifecycleTypeOK, OwnerRecords
    <3>2. CASE owner.n = 0
      BY <2>a, <3>2 DEF JoinsOwner, JoinedOwner, CreatesOwner
    <3> QED BY <3>1, <3>2
  <2>c. [state |-> "waiting", owner |-> JoinedOwner] \in CallRecords
    BY <2>b DEF CallRecords, Owners
  <2>d. /\ call' \in [Calls -> CallRecords] /\ call'[c].state = "waiting" /\ call'[c].owner \in Owners
        /\ \A d \in Calls : d # c => call'[d] = call[d]
    BY <1>a, <2>a, <2>b, <2>c
  <2>e. \A d \in Calls : call'[d].state = "waiting" => call'[d].owner \in Owners
    BY <2>d DEF LifecycleInv, AskedOk
  <2>f. watch' \in [Owners -> WatchRecords]
    BY <1>a DEF LifecycleInv, LifecycleTypeOK
  <2>g. \E d \in Calls : call'[d].state # "idle"
    BY <2>d
  <2> QED BY <2>a, <2>d, <2>e, <2>f, JoinsOwnerOk
<1> QED BY <1>b, <1>c

(* The backend answers a stop, however late: then nothing is in flight.    *)
LEMMA StopSettlesStep == LifecycleInv /\ StopSettles => LifecycleInv'
<1> SUFFICES ASSUME LifecycleInv, StopSettles PROVE LifecycleInv'
  OBVIOUS
<1> USE LifecycleBounds
<1> PICK g \in Generations, result \in {"completed", "failed"} :
       /\ stops[g].state = "running" /\ stops' = [stops EXCEPT ![g].state = result]
       /\ inFlight' = IF inFlight = g THEN 0 ELSE inFlight
       /\ UNCHANGED <<signal, start, startupStop, generation, owner, created, outcome, watch,
                        call, stopped>>
  BY DEF StopSettles
<1>a. /\ stops' \in [Generations -> StopRecords] /\ g = inFlight /\ inFlight' = 0
      /\ stops'[g].state = result /\ stops'[g].final = stops[g].final
      /\ \A h \in Generations : h # g => stops'[h] = stops[h]
      /\ \A h \in Generations : stops'[h].final = stops[h].final
      /\ \A h \in Generations : stops[h].state # "none" <=> stops'[h].state # "none"
  BY DEF LifecycleInv, LifecycleTypeOK, StopRecords, FlightOk
<1>b. UNCHANGED <<signal, start, startupStop, generation, owner, created, outcome, watch,
                        call, stopped>>
  OBVIOUS
<1>1. LifecycleTypeOK'
  BY <1>a DEF LifecycleInv, LifecycleTypeOK, Issued
<1>2. Budget'
  BY DEF LifecycleInv, Budget
<1>3. OwnerOk'
  BY DEF LifecycleInv, OwnerOk
<1>4. FlightOk'
  BY <1>a DEF LifecycleInv, FlightOk
<1>5. FinalOk'
  BY DEF LifecycleInv, FinalOk, StartPending
<1>6. AskedOk'
  BY DEF LifecycleInv, AskedOk
<1>7. LateOk'
  <2> SUFFICES ASSUME NEW n \in Owners, watch[n].kind = "late_stop"
               PROVE  /\ watch[n].gen \in 1..generation
                      /\ stops'[watch[n].gen].final /\ stops'[watch[n].gen].state # "none"
                      /\ owner.pc \in {"none", "prevFinal", "final"}
                      /\ owner.pc = "final" => watch[n].gen < owner.gen
                      /\ watch[n].state = "joined" /\ watch[n].gen = generation =>
                           owner.pc = "prevFinal" /\ inFlight' = 0 /\ watch[n].owner = owner.n
    BY <1>b DEF LateOk
  <2>1. watch[n].gen \in 1..generation /\ watch[n].gen \in Generations
    BY DEF LifecycleInv, LifecycleTypeOK, Issued, Generations, LateOk
  <2> QED BY DEF LifecycleInv, LateOk
<1>8. StoppedOk'
  BY DEF LifecycleInv, StoppedOk
<1> QED BY <1>1, <1>2, <1>3, <1>4, <1>5, <1>6, <1>7, <1>8 DEF LifecycleInv

(* An owner whose predecessor's stop is over issues its own.               *)
LEMMA PreviousSettlesStep == LifecycleInv /\ PreviousSettles => LifecycleInv'
<1> SUFFICES ASSUME LifecycleInv, PreviousSettles PROVE LifecycleInv'
  OBVIOUS
<1> USE LifecycleBounds
<1> DEFINE final == (owner.pc = "prevFinal")
<1>a. /\ EntersStop(owner.n, final) /\ final \in BOOLEAN /\ owner.n \in Owners
      /\ UNCHANGED <<signal, start, startupStop, created, outcome, watch, call, stopped>>
  BY DEF LifecycleInv, LifecycleTypeOK, OwnerRecords, OwnerOk, Owners, PreviousSettles
<1>b. /\ generation + 1 <= 2 * created /\ generation + 1 <= 2 * MaxOwners
      /\ ~final => generation + 2 <= 2 * created
      /\ final => ~StartPending
      /\ \A n \in Owners : watch[n].kind = "late_stop" => final
  BY DEF LifecycleInv, LifecycleTypeOK, Issued, Budget, FinalOk, LateOk, PreviousSettles
<1> HIDE DEF final
<1>c. /\ stops' \in [Generations -> StopRecords] /\ generation' \in Issued /\ inFlight' \in Issued
      /\ owner'.n = owner.n /\ owner'.gen \in Issued
      /\ owner' = [n |-> owner.n, pc |-> owner'.pc, gen |-> owner'.gen]
      /\ owner'.pc \in (IF final THEN {"prevFinal", "final"} ELSE {"prev", "startup"})
      /\ owner'.pc \in {"prev", "prevFinal"} =>
           owner'.gen # 0 /\ inFlight # 0 /\ UNCHANGED <<stops, generation, inFlight>>
      /\ owner'.pc \in {"startup", "final"} =>
           /\ generation' = generation + 1 /\ inFlight' = generation' /\ owner'.gen = generation'
           /\ generation' \in Generations
           /\ stops'[generation'] = [state |-> "running", final |-> final]
           /\ \A g \in Generations : g # generation' => stops'[g] = stops[g]
      /\ FlightOk'
  BY <1>a, <1>b, EntersStopOk
<1>1. LifecycleTypeOK'
  BY <1>a, <1>c DEF LifecycleInv, LifecycleTypeOK, OwnerRecords
<1>2. Budget'
  BY <1>a, <1>b, <1>c DEF LifecycleInv, Budget, LifecycleTypeOK, Issued
<1>3. OwnerOk'
  BY <1>a, <1>c DEF LifecycleInv, OwnerOk, Owners
<1>4. FlightOk'
  BY <1>c
<1>5. FinalOk'
  <2>1. \A g \in Generations : stops'[g].final => stops[g].final \/ final
    BY <1>c
  <2> QED BY <1>a, <1>b, <1>c DEF LifecycleInv, LifecycleTypeOK, FinalOk, StartPending, Issued
<1>6. AskedOk'
  BY <1>a DEF LifecycleInv, AskedOk
<1>7. LateOk'
  <2> SUFFICES ASSUME NEW n \in Owners, watch[n].kind = "late_stop"
               PROVE  /\ watch[n].gen \in 1..generation'
                      /\ stops'[watch[n].gen].final /\ stops'[watch[n].gen].state # "none"
                      /\ owner'.pc \in {"prevFinal", "final"}
                      /\ owner'.pc = "final" => watch[n].gen < owner'.gen
                      /\ ~(watch[n].state = "joined" /\ watch[n].gen = generation')
    BY <1>a DEF LateOk
  <2>1. /\ watch[n].gen \in 1..generation /\ watch[n].gen \in Generations
        /\ stops[watch[n].gen].final /\ stops[watch[n].gen].state # "none"
        /\ watch[n].state = "joined" /\ watch[n].gen = generation => inFlight = 0
    BY DEF LifecycleInv, LifecycleTypeOK, Issued, Generations, LateOk
  <2>2. owner'.pc \in {"prevFinal", "final"} /\ generation \in Nat
    BY <1>b, <1>c DEF LifecycleInv, LifecycleTypeOK, Issued
  <2> QED BY <1>c, <2>1, <2>2
<1>8. StoppedOk'
  BY <1>a DEF LifecycleInv, StoppedOk, Owners
<1> QED BY <1>1, <1>2, <1>3, <1>4, <1>5, <1>6, <1>7, <1>8 DEF LifecycleInv

(* An owner whose predecessor's stop is never over gives up, or goes on to *)
(* wait for the start.                                                     *)
LEMMA PreviousTimesOutStep == LifecycleInv /\ PreviousTimesOut => LifecycleInv'
<1> SUFFICES ASSUME LifecycleInv, PreviousTimesOut PROVE LifecycleInv'
  OBVIOUS
<1> USE LifecycleBounds
<1>e. /\ owner.pc \in {"prev", "prevFinal"} /\ owner.n # 0 /\ inFlight = owner.gen /\ inFlight # 0
      /\ UNCHANGED <<signal, start, startupStop, stops, generation, inFlight, created, call>>
  BY DEF LifecycleInv, OwnerOk, PreviousTimesOut
<1>f. CASE owner.pc = "prevFinal"
  <2> DEFINE deferred == FinalStopAfter(FALSE, owner.gen)
  <2>b. OwnerFails(deferred) /\ deferred \in WatchRecords /\ deferred.kind = "final_stop"
    BY <1>f, DeferredRecords DEF PreviousTimesOut, LifecycleInv, LifecycleTypeOK, OwnerRecords
  <2> HIDE DEF deferred
  <2>c. /\ owner.n \in Owners /\ owner' \in OwnerRecords /\ owner'.n = 0 /\ owner'.pc = "none"
        /\ outcome' \in [Owners -> {"none", "running", "succeeded", "failed"}]
        /\ \A n \in Owners : outcome'[n] = "succeeded" => outcome[n] = "succeeded"
        /\ watch' \in [Owners -> WatchRecords]
        /\ \A n \in Owners : watch'[n] = IF n = owner.n THEN deferred ELSE watch[n]
        /\ UNCHANGED stopped
    BY <1>e, <2>b, OwnerFailsOk
  <2>1. LifecycleTypeOK'
    BY <1>e, <2>c DEF LifecycleInv, LifecycleTypeOK
  <2>2. Budget'
    BY <1>e, <2>c DEF LifecycleInv, Budget
  <2>3. OwnerOk'
    BY <1>e, <2>c DEF LifecycleInv, OwnerOk, LifecycleTypeOK
  <2>4. FlightOk'
    BY <1>e DEF LifecycleInv, FlightOk
  <2>5. FinalOk'
    BY <1>e, <2>c DEF LifecycleInv, FinalOk, StartPending
  <2>6. AskedOk'
    BY <1>e, <2>c DEF LifecycleInv, AskedOk, OwnerOk, LifecycleTypeOK, Owners
  <2>7. LateOk'
    <3>1. \A n \in Owners : watch[n].kind = "late_stop" =>
            ~(watch[n].state = "joined" /\ watch[n].gen = generation)
      BY <1>e DEF LifecycleInv, LateOk
    <3> QED BY <1>e, <2>b, <2>c DEF LifecycleInv, LateOk
  <2>8. StoppedOk'
    BY <1>e, <2>c DEF LifecycleInv, StoppedOk
  <2> QED BY <2>1, <2>2, <2>3, <2>4, <2>5, <2>6, <2>7, <2>8 DEF LifecycleInv
<1>g. CASE owner.pc = "prev"
  <2>a. /\ owner' = [owner EXCEPT !.pc = "awaitStart"] /\ owner.n \in Owners
        /\ UNCHANGED <<outcome, watch, stopped>>
    BY <1>e, <1>g DEF PreviousTimesOut, LifecycleInv, LifecycleTypeOK, OwnerRecords, Owners
  <2>1. LifecycleTypeOK'
    BY <1>e, <1>g, <2>a
       DEF LifecycleInv, LifecycleTypeOK, Owners, Calls, Generations, Issued, OwnerRecords
  <2>2. Budget'
    BY <1>e, <2>a DEF LifecycleInv, Budget, LifecycleTypeOK, Issued
  <2>3. OwnerOk'
    BY <1>e, <2>a DEF LifecycleInv, OwnerOk
  <2>4. FlightOk'
    BY <1>e DEF LifecycleInv, FlightOk
  <2>5. FinalOk'
    BY <1>e, <2>a DEF LifecycleInv, FinalOk, StartPending
  <2>6. AskedOk'
    BY <1>e, <2>a DEF LifecycleInv, AskedOk
  <2>7. LateOk'
    BY <1>g, <2>a DEF LifecycleInv, LateOk
  <2>8. StoppedOk'
    BY <1>e, <2>a DEF LifecycleInv, StoppedOk
  <2> QED BY <2>1, <2>2, <2>3, <2>4, <2>5, <2>6, <2>7, <2>8 DEF LifecycleInv
<1> QED BY <1>e, <1>f, <1>g

(* A stop meant to interrupt the start is over, or out of time; either way *)
(* the final stop decides.                                                 *)
LEMMA StartupStopEndsStep == LifecycleInv /\ StartupStopEnds => LifecycleInv'
<1> SUFFICES ASSUME LifecycleInv, StartupStopEnds PROVE LifecycleInv'
  OBVIOUS
<1> USE LifecycleBounds
<1>1. LifecycleTypeOK'
  BY DEF LifecycleInv, LifecycleTypeOK, Owners, Calls, Generations, Issued, StartupStopEnds,
     OwnerRecords
<1>2. Budget'
  BY DEF LifecycleInv, Budget, StartupStopEnds
<1>3. OwnerOk'
  BY DEF LifecycleInv, OwnerOk, StartupStopEnds
<1>4. FlightOk'
  BY DEF LifecycleInv, FlightOk, StartupStopEnds
<1>5. FinalOk'
  BY DEF LifecycleInv, FinalOk, StartPending, StartupStopEnds
<1>6. AskedOk'
  BY DEF LifecycleInv, AskedOk, StartupStopEnds
<1>7. LateOk'
  BY DEF LifecycleInv, LateOk, StartupStopEnds
<1>8. StoppedOk'
  BY DEF LifecycleInv, StoppedOk, StartupStopEnds, OwnerOk
<1> QED BY <1>1, <1>2, <1>3, <1>4, <1>5, <1>6, <1>7, <1>8 DEF LifecycleInv

(* The start is over: the owner goes on to its final stop.                 *)
LEMMA StartAwaitedStep == LifecycleInv /\ StartAwaited => LifecycleInv'
<1> SUFFICES ASSUME LifecycleInv, StartAwaited PROVE LifecycleInv'
  OBVIOUS
<1> USE LifecycleBounds
<1> DEFINE final == TRUE
<1>e. EntersStop(owner.n, final) /\ final \in BOOLEAN
  BY Zenon DEF StartAwaited
<1>a. /\ EntersStop(owner.n, final) /\ final \in BOOLEAN /\ owner.n \in Owners
      /\ UNCHANGED <<signal, start, startupStop, created, outcome, watch, call, stopped>>
  <2>1. owner.n \in Owners
    BY DEF LifecycleInv, LifecycleTypeOK, OwnerRecords, OwnerOk, Owners, StartAwaited
  <2>2. UNCHANGED <<signal, start, startupStop, created, outcome, watch, call, stopped>>
    BY DEF StartAwaited
  <2> QED BY <1>e, <2>1, <2>2
<1>b. /\ generation + 1 <= 2 * created /\ generation + 1 <= 2 * MaxOwners
      /\ ~final => generation + 2 <= 2 * created
      /\ final => ~StartPending
      /\ \A n \in Owners : watch[n].kind = "late_stop" => final
  BY DEF LifecycleInv, LifecycleTypeOK, Issued, Budget, StartAwaited, StartIsOver
<1> HIDE DEF final
<1>c. /\ stops' \in [Generations -> StopRecords] /\ generation' \in Issued /\ inFlight' \in Issued
      /\ owner'.n = owner.n /\ owner'.gen \in Issued
      /\ owner' = [n |-> owner.n, pc |-> owner'.pc, gen |-> owner'.gen]
      /\ owner'.pc \in (IF final THEN {"prevFinal", "final"} ELSE {"prev", "startup"})
      /\ owner'.pc \in {"prev", "prevFinal"} =>
           owner'.gen # 0 /\ inFlight # 0 /\ UNCHANGED <<stops, generation, inFlight>>
      /\ owner'.pc \in {"startup", "final"} =>
           /\ generation' = generation + 1 /\ inFlight' = generation' /\ owner'.gen = generation'
           /\ generation' \in Generations
           /\ stops'[generation'] = [state |-> "running", final |-> final]
           /\ \A g \in Generations : g # generation' => stops'[g] = stops[g]
      /\ FlightOk'
  BY <1>a, <1>b, EntersStopOk
<1>1. LifecycleTypeOK'
  BY <1>a, <1>c DEF LifecycleInv, LifecycleTypeOK, OwnerRecords
<1>2. Budget'
  BY <1>a, <1>b, <1>c DEF LifecycleInv, Budget, LifecycleTypeOK, Issued
<1>3. OwnerOk'
  BY <1>a, <1>c DEF LifecycleInv, OwnerOk, Owners
<1>4. FlightOk'
  BY <1>c
<1>5. FinalOk'
  <2>1. \A g \in Generations : stops'[g].final => stops[g].final \/ final
    BY <1>c
  <2> QED BY <1>a, <1>b, <1>c DEF LifecycleInv, LifecycleTypeOK, FinalOk, StartPending, Issued
<1>6. AskedOk'
  BY <1>a DEF LifecycleInv, AskedOk
<1>7. LateOk'
  <2> SUFFICES ASSUME NEW n \in Owners, watch[n].kind = "late_stop"
               PROVE  /\ watch[n].gen \in 1..generation'
                      /\ stops'[watch[n].gen].final /\ stops'[watch[n].gen].state # "none"
                      /\ owner'.pc \in {"prevFinal", "final"}
                      /\ owner'.pc = "final" => watch[n].gen < owner'.gen
                      /\ ~(watch[n].state = "joined" /\ watch[n].gen = generation')
    BY <1>a DEF LateOk
  <2>1. /\ watch[n].gen \in 1..generation /\ watch[n].gen \in Generations
        /\ stops[watch[n].gen].final /\ stops[watch[n].gen].state # "none"
        /\ watch[n].state = "joined" /\ watch[n].gen = generation => inFlight = 0
    BY DEF LifecycleInv, LifecycleTypeOK, Issued, Generations, LateOk
  <2>2. owner'.pc \in {"prevFinal", "final"} /\ generation \in Nat
    BY <1>b, <1>c DEF LifecycleInv, LifecycleTypeOK, Issued
  <2> QED BY <1>c, <2>1, <2>2
<1>8. StoppedOk'
  BY <1>a DEF LifecycleInv, StoppedOk, Owners
<1> QED BY <1>1, <1>2, <1>3, <1>4, <1>5, <1>6, <1>7, <1>8 DEF LifecycleInv

(* The start outlasts the owner, which leaves a final stop for later.      *)
LEMMA StartOutlastsOwnerStep == LifecycleInv /\ StartOutlastsOwner => LifecycleInv'
<1> SUFFICES ASSUME LifecycleInv, StartOutlastsOwner PROVE LifecycleInv'
  OBVIOUS
<1> USE LifecycleBounds
<1> DEFINE deferred == FinalStopAfter(TRUE, inFlight)
<1>a. owner.n # 0 /\ OwnerFails(deferred)
  BY DEF LifecycleInv, OwnerOk, StartOutlastsOwner
<1>b. /\ deferred \in WatchRecords /\ deferred.kind = "final_stop"
  BY DeferredRecords DEF LifecycleInv, LifecycleTypeOK, OwnerRecords
<1> HIDE DEF deferred
<1>c. /\ owner.n \in Owners /\ owner' \in OwnerRecords /\ owner'.n = 0 /\ owner'.pc = "none"
      /\ outcome' \in [Owners -> {"none", "running", "succeeded", "failed"}]
      /\ \A n \in Owners : outcome'[n] = "succeeded" => outcome[n] = "succeeded"
      /\ watch' \in [Owners -> WatchRecords]
      /\ \A n \in Owners : watch'[n] = IF n = owner.n THEN deferred ELSE watch[n]
      /\ UNCHANGED stopped
  BY <1>a, <1>b, OwnerFailsOk
<1>d. UNCHANGED <<signal, start, startupStop, stops, generation, inFlight, created, call>>
  BY DEF StartOutlastsOwner
<1>1. LifecycleTypeOK'
  BY <1>c, <1>d DEF LifecycleInv, LifecycleTypeOK
<1>2. Budget'
  BY <1>c, <1>d DEF LifecycleInv, Budget
<1>3. OwnerOk'
  BY <1>c, <1>d DEF LifecycleInv, OwnerOk, LifecycleTypeOK
<1>4. FlightOk'
  BY <1>d DEF LifecycleInv, FlightOk
<1>5. FinalOk'
  BY <1>c, <1>d DEF LifecycleInv, FinalOk, StartPending
<1>6. AskedOk'
  BY <1>c, <1>d DEF LifecycleInv, AskedOk, OwnerOk, LifecycleTypeOK, Owners
<1>7. LateOk'
  <2>1. \A n \in Owners : watch[n].kind # "late_stop"
    BY DEF LifecycleInv, LateOk, StartOutlastsOwner
  <2> QED BY <2>1, <1>b, <1>c DEF LateOk
<1>8. StoppedOk'
  BY <1>c, <1>d DEF LifecycleInv, StoppedOk, StartPending
<1> QED BY <1>1, <1>2, <1>3, <1>4, <1>5, <1>6, <1>7, <1>8 DEF LifecycleInv

(* The final stop is over in time: the owner succeeds, and the backend is  *)
(* stopped, or it fails.                                                   *)
LEMMA FinalStopEndsStep == LifecycleInv /\ FinalStopEnds => LifecycleInv'
<1> SUFFICES ASSUME LifecycleInv, FinalStopEnds PROVE LifecycleInv'
  OBVIOUS
<1> USE LifecycleBounds
<1>a. /\ owner.pc = "final" /\ owner.n # 0 /\ owner.n \in Owners /\ owner.gen = generation
      /\ generation \in Generations /\ stops[generation].state # "running" /\ stops[generation].final
      /\ ~StartPending /\ created > 0
      /\ UNCHANGED <<signal, start, startupStop, stops, generation, inFlight, created, call>>
  BY DEF FinalStopEnds, LifecycleInv, LifecycleTypeOK, OwnerRecords, OwnerOk, FinalOk, Owners,
         Generations, Issued
<1>b. \A n \in Owners : watch[n].kind = "late_stop" => watch[n].gen < generation
  BY <1>a DEF LifecycleInv, LateOk
<1>c. CASE stops[generation].state = "completed"
  <2>a. OwnerSucceeds
    BY <1>a, <1>c DEF FinalStopEnds
  <2>b. /\ owner' = [n |-> 0, pc |-> "none", gen |-> 0]
        /\ outcome' = [outcome EXCEPT ![owner.n] = "succeeded"]
        /\ stopped' = TRUE /\ UNCHANGED watch
    BY <2>a DEF OwnerSucceeds, NoOwner
  <2>c. \A g \in Generations : stops[g].state # "running"
    BY <1>a DEF LifecycleInv, FlightOk, Generations
  <2>d. owner' \in OwnerRecords /\ owner'.n = 0 /\ owner'.pc = "none"
    BY <2>b DEF OwnerRecords, Issued
  <2>1. LifecycleTypeOK'
    BY <1>a, <2>b, <2>d DEF LifecycleInv, LifecycleTypeOK
  <2>2. Budget'
    BY <1>a, <2>d DEF LifecycleInv, Budget
  <2>3. OwnerOk'
    BY <1>a, <2>d DEF LifecycleInv, OwnerOk, LifecycleTypeOK
  <2>4. FlightOk'
    BY <1>a DEF LifecycleInv, FlightOk
  <2>5. FinalOk'
    BY <1>a, <2>d DEF LifecycleInv, FinalOk, StartPending
  <2>6. AskedOk'
    BY <1>a DEF LifecycleInv, AskedOk
  <2>7. LateOk'
    BY <1>a, <2>b DEF LifecycleInv, LateOk
  <2>8. StoppedOk'
    BY <1>a, <1>c, <2>b, <2>c DEF LifecycleInv, StoppedOk, StartPending
  <2> QED BY <2>1, <2>2, <2>3, <2>4, <2>5, <2>6, <2>7, <2>8 DEF LifecycleInv
<1>d. CASE stops[generation].state # "completed"
  <2>a. OwnerFails(NoWatch)
    BY <1>a, <1>d DEF FinalStopEnds
  <2>b. NoWatch \in WatchRecords /\ NoWatch.kind = "none"
    BY DEF NoWatch, WatchRecords, WatchStates, Issued
  <2>c. /\ owner.n \in Owners /\ owner' \in OwnerRecords /\ owner'.n = 0 /\ owner'.pc = "none"
        /\ outcome' \in [Owners -> {"none", "running", "succeeded", "failed"}]
        /\ \A n \in Owners : outcome'[n] = "succeeded" => outcome[n] = "succeeded"
        /\ watch' \in [Owners -> WatchRecords]
        /\ \A n \in Owners : watch'[n] = IF n = owner.n THEN NoWatch ELSE watch[n]
        /\ UNCHANGED stopped
    BY <1>a, <2>a, <2>b, OwnerFailsOk
  <2>1. LifecycleTypeOK'
    BY <1>a, <2>c DEF LifecycleInv, LifecycleTypeOK
  <2>2. Budget'
    BY <1>a, <2>c DEF LifecycleInv, Budget
  <2>3. OwnerOk'
    BY <1>a, <2>c DEF LifecycleInv, OwnerOk, LifecycleTypeOK
  <2>4. FlightOk'
    BY <1>a DEF LifecycleInv, FlightOk
  <2>5. FinalOk'
    BY <1>a, <2>c DEF LifecycleInv, FinalOk, StartPending
  <2>6. AskedOk'
    BY <1>a DEF LifecycleInv, AskedOk
  <2>7. LateOk'
    BY <1>a, <2>b, <2>c DEF LifecycleInv, LateOk
  <2>8. StoppedOk'
    BY <1>a, <2>c DEF LifecycleInv, StoppedOk
  <2> QED BY <2>1, <2>2, <2>3, <2>4, <2>5, <2>6, <2>7, <2>8 DEF LifecycleInv
<1> QED BY <1>c, <1>d

(* The final stop is not over in time: the owner fails and leaves the stop *)
(* to be accepted late.                                                    *)
LEMMA FinalStopTimesOutStep == LifecycleInv /\ FinalStopTimesOut => LifecycleInv'
<1> SUFFICES ASSUME LifecycleInv, FinalStopTimesOut PROVE LifecycleInv'
  OBVIOUS
<1> USE LifecycleBounds
<1> DEFINE deferred == LateStop(owner.gen)
<1>a. owner.n # 0 /\ OwnerFails(deferred)
  BY DEF LifecycleInv, OwnerOk, FinalStopTimesOut
<1>b. /\ deferred \in WatchRecords /\ deferred.kind = "late_stop" /\ deferred.state = "watching"
      /\ deferred.kind = "late_stop" => deferred.gen = owner.gen
  BY DeferredRecords DEF LifecycleInv, LifecycleTypeOK, OwnerRecords
<1> HIDE DEF deferred
<1>c. /\ owner.n \in Owners /\ owner' \in OwnerRecords /\ owner'.n = 0 /\ owner'.pc = "none"
      /\ outcome' \in [Owners -> {"none", "running", "succeeded", "failed"}]
      /\ \A n \in Owners : outcome'[n] = "succeeded" => outcome[n] = "succeeded"
      /\ watch' \in [Owners -> WatchRecords]
      /\ \A n \in Owners : watch'[n] = IF n = owner.n THEN deferred ELSE watch[n]
      /\ UNCHANGED stopped
  BY <1>a, <1>b, OwnerFailsOk
<1>d. UNCHANGED <<signal, start, startupStop, stops, generation, inFlight, created, call>>
  BY DEF FinalStopTimesOut
<1>1. LifecycleTypeOK'
  BY <1>c, <1>d DEF LifecycleInv, LifecycleTypeOK
<1>2. Budget'
  BY <1>c, <1>d DEF LifecycleInv, Budget
<1>3. OwnerOk'
  BY <1>c, <1>d DEF LifecycleInv, OwnerOk, LifecycleTypeOK
<1>4. FlightOk'
  BY <1>d DEF LifecycleInv, FlightOk
<1>5. FinalOk'
  BY <1>c, <1>d DEF LifecycleInv, FinalOk, StartPending
<1>6. AskedOk'
  BY <1>c, <1>d DEF LifecycleInv, AskedOk, OwnerOk, LifecycleTypeOK, Owners
<1>7. LateOk'
  <2> SUFFICES ASSUME NEW n \in Owners, watch'[n].kind = "late_stop"
               PROVE  /\ watch'[n].gen \in 1..generation
                      /\ stops[watch'[n].gen].final /\ stops[watch'[n].gen].state # "none"
                      /\ ~(watch'[n].state = "joined" /\ watch'[n].gen = generation)
    BY <1>c, <1>d DEF LateOk
  <2>1. owner.pc = "final" /\ owner.gen = generation /\ generation \in 1..generation
        /\ stops[generation].final /\ stops[generation].state # "none"
    BY DEF LifecycleInv, LifecycleTypeOK, Issued, FinalOk, FinalStopTimesOut
  <2>2. CASE n = owner.n
    BY <1>b, <1>c, <2>1, <2>2
  <2>3. CASE n # owner.n
    BY <1>c, <2>1, <2>3 DEF LifecycleInv, LateOk
  <2> QED BY <2>2, <2>3
<1>8. StoppedOk'
  BY <1>c, <1>d DEF LifecycleInv, StoppedOk, StartPending
<1> QED BY <1>1, <1>2, <1>3, <1>4, <1>5, <1>6, <1>7, <1>8 DEF LifecycleInv

(* A call of shutdown is answered with its owner's outcome.                *)
LEMMA CallSettlesStep == LifecycleInv /\ CallSettles => LifecycleInv'
<1> SUFFICES ASSUME LifecycleInv, CallSettles PROVE LifecycleInv'
  OBVIOUS
<1> USE LifecycleBounds
<1>1. LifecycleTypeOK'
  BY DEF LifecycleInv, LifecycleTypeOK, CallSettles, CallRecords
<1>2. Budget'
  BY DEF LifecycleInv, Budget, CallSettles
<1>3. OwnerOk'
  BY DEF LifecycleInv, OwnerOk, CallSettles
<1>4. FlightOk'
  BY DEF LifecycleInv, FlightOk, CallSettles
<1>5. FinalOk'
  BY DEF LifecycleInv, FinalOk, StartPending, CallSettles
<1>6. AskedOk'
  BY DEF LifecycleInv, AskedOk, CallSettles
<1>7. LateOk'
  BY DEF LifecycleInv, LateOk, CallSettles
<1>8. StoppedOk'
  BY DEF LifecycleInv, StoppedOk, StartPending, CallSettles
<1> QED BY <1>1, <1>2, <1>3, <1>4, <1>5, <1>6, <1>7, <1>8 DEF LifecycleInv

(* The deferred final stop of an owner that failed is due.                 *)
LEMMA FinalStopDueStep == LifecycleInv /\ FinalStopDue => LifecycleInv'
<1> SUFFICES ASSUME LifecycleInv, FinalStopDue PROVE LifecycleInv'
  OBVIOUS
<1> USE LifecycleBounds
<1> PICK n \in Owners :
       /\ watch[n].kind = "final_stop" /\ watch[n].state = "watching"
       /\ IF stopped
          THEN /\ watch' = [watch EXCEPT ![n].state = "complete"]
               /\ UNCHANGED <<start, startupStop, stops, generation, inFlight, owner, created, outcome>>
          ELSE /\ JoinsOwner
               /\ watch' = [watch EXCEPT ![n].state = "joined", ![n].owner = JoinedOwner]
       /\ UNCHANGED <<signal, call, stopped>>
  BY DEF FinalStopDue, Report
<1>a. UNCHANGED <<signal, call, stopped>> /\ watch \in [Owners -> WatchRecords]
  BY DEF LifecycleInv, LifecycleTypeOK
<1>b. CASE stopped
  <2>a. /\ watch' = [watch EXCEPT ![n].state = "complete"]
        /\ UNCHANGED <<start, startupStop, stops, generation, inFlight, owner, created, outcome>>
    BY <1>b
  <2>b. /\ watch' \in [Owners -> WatchRecords] /\ watch'[n].kind = "final_stop"
        /\ \A m \in Owners : m # n => watch'[m] = watch[m]
    BY <1>a DEF WatchRecords, WatchStates
  <2>1. LifecycleTypeOK'
    BY <2>a, <2>b DEF LifecycleInv, LifecycleTypeOK
  <2>2. Budget'
    BY <2>a DEF LifecycleInv, Budget
  <2>3. OwnerOk'
    BY <2>a DEF LifecycleInv, OwnerOk
  <2>4. FlightOk'
    BY <2>a DEF LifecycleInv, FlightOk
  <2>5. FinalOk'
    BY <2>a DEF LifecycleInv, FinalOk, StartPending
  <2>6. AskedOk'
    BY <2>a DEF LifecycleInv, AskedOk
  <2>7. LateOk'
    BY <2>a DEF LifecycleInv, LateOk
  <2>8. StoppedOk'
    BY <2>a DEF LifecycleInv, StoppedOk, StartPending
  <2> QED BY <2>1, <2>2, <2>3, <2>4, <2>5, <2>6, <2>7, <2>8 DEF LifecycleInv
<1>c. CASE ~stopped
  <2>a. JoinsOwner /\ watch' = [watch EXCEPT ![n].state = "joined", ![n].owner = JoinedOwner]
    BY <1>c
  <2>b. JoinedOwner \in Owners
    <3>1. CASE owner.n # 0
      BY <3>1 DEF JoinedOwner, Owners, LifecycleInv, LifecycleTypeOK, OwnerRecords
    <3>2. CASE owner.n = 0
      BY <2>a, <3>2 DEF JoinsOwner, JoinedOwner, CreatesOwner
    <3> QED BY <3>1, <3>2
  <2>c. /\ watch' \in [Owners -> WatchRecords]
        /\ \A m \in Owners : watch'[m].kind = watch[m].kind /\ watch'[m].gen = watch[m].gen
        /\ \A m \in Owners : m # n => watch'[m] = watch[m]
    BY <1>a, <2>a, <2>b DEF WatchRecords, WatchStates, Owners
  <2>d. \A m \in Owners : watch'[m].kind = "late_stop" => watch'[m] = watch[m]
    BY <2>c
  <2>e. created > 0
    BY DEF LifecycleInv, AskedOk
  <2>f. /\ call' \in [Calls -> CallRecords] /\ \E c \in Calls : call'[c].state # "idle"
        /\ \A c \in Calls : call'[c].state = "waiting" => call'[c].owner \in Owners
    BY DEF LifecycleInv, LifecycleTypeOK, AskedOk
  <2> QED BY <1>c, <2>c, <2>f, JoinsOwnerOk
<1> QED BY <1>b, <1>c

(* A stop that completed after its owner had failed is accepted, unless    *)
(* another owner is at work or a later stop was issued.                    *)
LEMMA AcceptLateStopStep == LifecycleInv /\ AcceptLateStop => LifecycleInv'
<1> SUFFICES ASSUME LifecycleInv, AcceptLateStop PROVE LifecycleInv'
  OBVIOUS
<1> USE LifecycleBounds
<1> PICK n \in Owners :
       /\ watch[n].kind = "late_stop" /\ watch[n].state = "watching" /\ Settled(watch[n].gen)
       /\ IF stops[watch[n].gen].state = "failed"
          THEN Report(n, "error") /\ UNCHANGED stopped
          ELSE IF owner.n # 0
          THEN /\ watch' = [watch EXCEPT ![n].state = "joined", ![n].owner = owner.n]
               /\ UNCHANGED stopped
          ELSE IF watch[n].gen = generation
          THEN Report(n, "complete") /\ stopped' = TRUE
          ELSE Report(n, "superseded") /\ UNCHANGED stopped
       /\ UNCHANGED <<signal, start, startupStop, stops, generation, inFlight, owner, created,
                       outcome, call>>
  BY DEF AcceptLateStop, IsLatestStop
<1>a. /\ watch \in [Owners -> WatchRecords] /\ owner.n \in 0..MaxOwners
      /\ watch[n].gen \in 1..generation /\ watch[n].gen \in Generations
      /\ stops[watch[n].gen].state # "running" /\ stops[watch[n].gen].state # "none"
      /\ stops[watch[n].gen].final /\ ~StartPending /\ created > 0
  BY DEF LifecycleInv, LifecycleTypeOK, OwnerRecords, LateOk, FinalOk, AskedOk, Settled,
     Generations, Issued
<1>b. UNCHANGED <<signal, start, startupStop, stops, generation, inFlight, owner, created,
                  outcome, call>>
  OBVIOUS
<1>c. CASE stopped' = stopped /\ \E s \in {"error", "superseded"} : watch' = [watch EXCEPT ![n].state = s]
  <2>a. /\ watch' \in [Owners -> WatchRecords] /\ watch'[n].state # "joined"
        /\ \A m \in Owners : watch'[m].kind = watch[m].kind /\ watch'[m].gen = watch[m].gen
        /\ \A m \in Owners : m # n => watch'[m] = watch[m]
    BY <1>a, <1>c DEF WatchRecords, WatchStates
  <2>1. LifecycleTypeOK'
    BY <1>c, <2>a DEF LifecycleInv, LifecycleTypeOK
  <2>2. Budget'
    BY DEF LifecycleInv, Budget
  <2>3. OwnerOk'
    BY DEF LifecycleInv, OwnerOk
  <2>4. FlightOk'
    BY DEF LifecycleInv, FlightOk
  <2>5. FinalOk'
    BY DEF LifecycleInv, FinalOk, StartPending
  <2>6. AskedOk'
    BY DEF LifecycleInv, AskedOk
  <2>7. LateOk'
    BY <2>a DEF LifecycleInv, LateOk
  <2>8. StoppedOk'
    BY <1>c DEF LifecycleInv, StoppedOk, StartPending
  <2> QED BY <2>1, <2>2, <2>3, <2>4, <2>5, <2>6, <2>7, <2>8 DEF LifecycleInv
<1>d. CASE stops[watch[n].gen].state # "failed" /\ owner.n # 0
  <2>a. watch' = [watch EXCEPT ![n].state = "joined", ![n].owner = owner.n] /\ UNCHANGED stopped
    BY <1>d
  <2>b. /\ watch' \in [Owners -> WatchRecords] /\ watch'[n].owner = owner.n
        /\ \A m \in Owners : watch'[m].kind = watch[m].kind /\ watch'[m].gen = watch[m].gen
        /\ \A m \in Owners : m # n => watch'[m] = watch[m]
    BY <1>a, <2>a DEF WatchRecords, WatchStates
  <2>c. watch[n].gen = generation => owner.pc = "prevFinal" /\ inFlight = 0
    BY <1>a, <1>d DEF LifecycleInv, LateOk, OwnerOk, FlightOk, FinalOk
  <2>1. LifecycleTypeOK'
    BY <2>a, <2>b DEF LifecycleInv, LifecycleTypeOK
  <2>2. Budget'
    BY DEF LifecycleInv, Budget
  <2>3. OwnerOk'
    BY DEF LifecycleInv, OwnerOk
  <2>4. FlightOk'
    BY DEF LifecycleInv, FlightOk
  <2>5. FinalOk'
    BY DEF LifecycleInv, FinalOk, StartPending
  <2>6. AskedOk'
    BY DEF LifecycleInv, AskedOk
  <2>7. LateOk'
    BY <2>b, <2>c DEF LifecycleInv, LateOk
  <2>8. StoppedOk'
    BY <2>a DEF LifecycleInv, StoppedOk, StartPending
  <2> QED BY <2>1, <2>2, <2>3, <2>4, <2>5, <2>6, <2>7, <2>8 DEF LifecycleInv
<1>e. CASE owner.n = 0 /\ watch[n].gen = generation /\ stops[generation].state # "failed"
  <2>a. stopped' = TRUE /\ watch' = [watch EXCEPT ![n].state = "complete"]
    BY <1>e DEF Report
  <2>b. /\ watch' \in [Owners -> WatchRecords] /\ watch'[n].state # "joined"
        /\ \A m \in Owners : watch'[m].kind = watch[m].kind /\ watch'[m].gen = watch[m].gen
        /\ \A m \in Owners : m # n => watch'[m] = watch[m]
    BY <1>a, <2>a DEF WatchRecords, WatchStates
  <2>c. \A g \in Generations : stops[g].state # "running"
    BY <1>a, <1>e DEF LifecycleInv, FlightOk, Generations
  <2>d. stops[generation].state = "completed" /\ stops[generation].final /\ generation \in Generations
    BY <1>a, <1>e DEF LifecycleInv, LifecycleTypeOK, StopRecords
  <2>1. LifecycleTypeOK'
    BY <2>a, <2>b DEF LifecycleInv, LifecycleTypeOK
  <2>2. Budget'
    BY DEF LifecycleInv, Budget
  <2>3. OwnerOk'
    BY DEF LifecycleInv, OwnerOk
  <2>4. FlightOk'
    BY DEF LifecycleInv, FlightOk
  <2>5. FinalOk'
    BY DEF LifecycleInv, FinalOk, StartPending
  <2>6. AskedOk'
    BY DEF LifecycleInv, AskedOk
  <2>7. LateOk'
    BY <2>b DEF LifecycleInv, LateOk
  <2>8. StoppedOk'
    BY <1>a, <1>e, <2>c, <2>d DEF LifecycleInv, StoppedOk, StartPending
  <2> QED BY <2>1, <2>2, <2>3, <2>4, <2>5, <2>6, <2>7, <2>8 DEF LifecycleInv
<1> QED BY <1>c, <1>d, <1>e DEF Report

(* A deferred cleanup resumes after the owner it joined is done.  By LateOk*)
(* a late stop is never the latest one here, so the branch of the code that*)
(* lets it stand after a failed owner is not reached.                      *)
LEMMA WatchResumesStep == LifecycleInv /\ WatchResumes => LifecycleInv'
<1> SUFFICES ASSUME LifecycleInv, WatchResumes PROVE LifecycleInv'
  OBVIOUS
<1> USE LifecycleBounds
<1> PICK n \in Owners :
       /\ watch[n].state = "joined" /\ outcome[watch[n].owner] # "running"
       /\ IF outcome[watch[n].owner] = "succeeded"
          THEN Report(n, "complete") /\ UNCHANGED stopped
          ELSE IF watch[n].kind = "late_stop" /\ watch[n].gen = generation /\ inFlight = 0
          THEN Report(n, "complete") /\ stopped' = TRUE
          ELSE Report(n, "error") /\ UNCHANGED stopped
       /\ UNCHANGED <<signal, start, startupStop, stops, generation, inFlight, owner, created,
                       outcome, call>>
  BY DEF WatchResumes, IsLatestStop
<1>a. ~(watch[n].kind = "late_stop" /\ watch[n].gen = generation)
  BY DEF LifecycleInv, LateOk, OwnerOk
<1>b. UNCHANGED <<signal, start, startupStop, stops, generation, inFlight, owner, created,
                  outcome, call>> /\ UNCHANGED stopped
  BY <1>a
<1>c. PICK s \in {"complete", "error"} : watch' = [watch EXCEPT ![n].state = s]
  BY <1>a DEF Report
<1>d. /\ watch' \in [Owners -> WatchRecords] /\ watch'[n].state # "joined"
      /\ \A m \in Owners : watch'[m].kind = watch[m].kind /\ watch'[m].gen = watch[m].gen
      /\ \A m \in Owners : m # n => watch'[m] = watch[m]
  BY <1>c DEF WatchRecords, WatchStates, LifecycleInv, LifecycleTypeOK
<1>1. LifecycleTypeOK'
  BY <1>b, <1>d DEF LifecycleInv, LifecycleTypeOK
<1>2. Budget'
  BY DEF LifecycleInv, Budget
<1>3. OwnerOk'
  BY DEF LifecycleInv, OwnerOk
<1>4. FlightOk'
  BY DEF LifecycleInv, FlightOk
<1>5. FinalOk'
  BY DEF LifecycleInv, FinalOk, StartPending
<1>6. AskedOk'
  BY <1>b, <1>d DEF LifecycleInv, AskedOk, LifecycleTypeOK, Owners, Calls, Generations, Issued
<1>7. LateOk'
  BY <1>d DEF LifecycleInv, LateOk
<1>8. StoppedOk'
  BY <1>b DEF LifecycleInv, StoppedOk, StartPending
<1> QED BY <1>1, <1>2, <1>3, <1>4, <1>5, <1>6, <1>7, <1>8 DEF LifecycleInv

(* A new lifecycle satisfies the invariant.                                *)
LEMMA InitInv == LifecycleInit => LifecycleInv
<1> SUFFICES ASSUME LifecycleInit PROVE LifecycleInv
  OBVIOUS
<1> USE LifecycleBounds DEF LifecycleInit
<1>1. /\ [state |-> "none", final |-> FALSE] \in StopRecords
      /\ [state |-> "idle", owner |-> 0] \in CallRecords
      /\ NoWatch \in WatchRecords /\ NoWatch.kind = "none" /\ NoOwner \in OwnerRecords
  BY DEF StopRecords, CallRecords, NoWatch, WatchRecords, WatchStates, NoOwner, OwnerRecords,
     Issued
<1>2. LifecycleTypeOK
  <2>1. stops \in [Generations -> StopRecords] /\ watch \in [Owners -> WatchRecords]
        /\ call \in [Calls -> CallRecords] /\ owner \in OwnerRecords
    BY <1>1
  <2>2. outcome \in [Owners -> {"none", "running", "succeeded", "failed"}]
    OBVIOUS
  <2>3. start \in [task : {"none", "scheduled", "running", "settled"},
                  caller : {"none", "waiting", "resolved", "rejected"}, aborted : BOOLEAN]
    OBVIOUS
  <2>4. signal \in BOOLEAN /\ startupStop \in BOOLEAN /\ stopped \in BOOLEAN
    OBVIOUS
  <2>5. generation \in Issued /\ inFlight \in Issued /\ created \in 0..MaxOwners
    BY DEF Issued
  <2> HIDE DEF LifecycleInit
  <2> QED BY <2>1, <2>2, <2>3, <2>4, <2>5 DEF LifecycleTypeOK
<1>3. Budget /\ OwnerOk /\ FlightOk /\ FinalOk
  BY DEF Budget, OwnerOk, FlightOk, FinalOk, NoOwner
<1>4. AskedOk
  BY DEF AskedOk, NoWatch
<1>5. LateOk /\ StoppedOk
  BY DEF LateOk, StoppedOk, NoWatch
<1> QED BY <1>2, <1>3, <1>4, <1>5 DEF LifecycleInv

(* Every step of the lifecycle keeps the invariant.                        *)
LEMMA NextInv == LifecycleInv /\ [LifecycleNext]_lifecycleVars => LifecycleInv'
<1> SUFFICES ASSUME LifecycleInv, [LifecycleNext]_lifecycleVars PROVE LifecycleInv'
  OBVIOUS
<1>1. CASE LifecycleNext
  BY <1>1, StartStep, StartRunsStep, StartSettlesStep, StartGivesUpStep, AbortSignalStep,
     ShutdownStep,
     StopSettlesStep, PreviousSettlesStep, PreviousTimesOutStep, StartupStopEndsStep, StartAwaitedStep,
     StartOutlastsOwnerStep, FinalStopEndsStep, FinalStopTimesOutStep, CallSettlesStep, FinalStopDueStep,
     AcceptLateStopStep, WatchResumesStep
  DEF LifecycleNext
<1>2. CASE UNCHANGED lifecycleVars
  BY <1>2
     DEF lifecycleVars, LifecycleInv, LifecycleTypeOK, Budget, OwnerOk, FlightOk, FinalOk,
     AskedOk,
     LateOk, StoppedOk, StartPending
<1> QED BY <1>1, <1>2

(* The invariant holds in every reachable state, for any number of calls of*)
(* shutdown and of cleanup owners.                                         *)
THEOREM LifecycleInvariant == LifecycleSpec => []LifecycleInv
  BY InitInv, NextInv, PTL DEF LifecycleSpec

(* Every variable has its type: in particular no stop is numbered beyond   *)
(* the two that each owner may issue.                                      *)
THEOREM LifecycleTyped == LifecycleSpec => []LifecycleTypeOK
<1>1. LifecycleInv => LifecycleTypeOK
  BY DEF LifecycleInv
<1> QED BY <1>1, LifecycleInvariant, PTL

(* The backend never runs two stops at once: an owner waits for the stop in*)
(* flight, and a stop that outlasts every deadline still blocks the next   *)
(* one.                                                                    *)
THEOREM StopsNeverOverlap == LifecycleSpec => []OneStopAtATime
<1>1. LifecycleInv => OneStopAtATime
  BY DEF LifecycleInv, FlightOk, OneStopAtATime
<1> QED BY <1>1, LifecycleInvariant, PTL

(* A lifecycle that says it is stopped has a backend that is: a final stop *)
(* completed, no start runs and no stop is still at work.                  *)
THEOREM StoppedMeansStopped == LifecycleSpec => []StoppedIsStopped
<1>1. LifecycleInv => StoppedIsStopped
  BY DEF LifecycleInv, StoppedOk, StoppedIsStopped, StartPending
<1> QED BY <1>1, LifecycleInvariant, PTL

(* A new lifecycle is a new contract.                                      *)
LEMMA ContractInitMaps == LifecycleInit => Contract!ContractInit
  BY DEF LifecycleInit, Contract!ContractInit, Contract!Calls, Calls

(* What the host sees of a step of the lifecycle is a step of the contract *)
(* or nothing: a call of shutdown resolves only if its owner succeeded, and*)
(* then the backend is down.                                               *)
LEMMA ContractStepMaps ==
  LifecycleInv /\ [LifecycleNext]_lifecycleVars => [Contract!ContractNext]_(Contract!contractVars)
<1> SUFFICES ASSUME LifecycleInv, [LifecycleNext]_lifecycleVars
             PROVE  [Contract!ContractNext]_(Contract!contractVars)
  OBVIOUS
<1> DEFINE told == [c \in Calls |-> call[c].state]
<1>0. call \in [Calls -> CallRecords]
  BY DEF LifecycleInv, LifecycleTypeOK
<1> USE DEF Contract!Calls, Calls
<1>1. CASE UNCHANGED <<signal, start, call, stopped>>
  BY <1>1 DEF Contract!contractVars
<1>2. CASE Start
  <2>1. start.task = "none" => start.caller = "none"
    BY DEF LifecycleInv, AskedOk
  <2>2. Contract!AskStart
    BY <1>2, <2>1 DEF Start, Contract!AskStart, LifecycleInv, LifecycleTypeOK
  <2> QED BY <2>2 DEF Contract!ContractNext
<1>3. CASE UNCHANGED <<signal, call, stopped>> /\ start'.caller = start.caller
  BY <1>3 DEF Contract!contractVars
<1>4. CASE /\ start.caller = "waiting" /\ start'.caller \in {"resolved", "rejected"}
           /\ UNCHANGED <<signal, call, stopped>>
  <2>1. Contract!AnswerStart
    BY <1>4 DEF Contract!AnswerStart
  <2> QED BY <2>1 DEF Contract!ContractNext
<1>5. CASE AbortSignal
  <2>1. Contract!Abort
    BY <1>5 DEF AbortSignal, Contract!Abort
  <2> QED BY <2>1 DEF Contract!ContractNext
<1>6. CASE Shutdown
  <2> PICK c \in Calls :
        /\ signal /\ call[c].state = "idle"
        /\ call' = [call EXCEPT ![c] = IF stopped THEN [call[c] EXCEPT !.state = "resolved"]
                                       ELSE [state |-> "waiting", owner |-> JoinedOwner]]
        /\ UNCHANGED <<signal, stopped>>
    BY <1>6 DEF Shutdown
  <2>1. start'.caller = start.caller
    BY <1>6 DEF Shutdown, JoinsOwner, CreatesOwner, LifecycleInv, LifecycleTypeOK
  <2>2. told' = [told EXCEPT ![c] = IF stopped THEN "resolved" ELSE "waiting"]
    BY <1>0 DEF CallRecords
  <2>3. Contract!AskShutdown(c)
    BY <2>1, <2>2 DEF Contract!AskShutdown
  <2> QED BY <2>3 DEF Contract!ContractNext
<1>7. CASE CallSettles
  <2> PICK c \in Calls :
        /\ call[c].state = "waiting"
        /\ call' = [call EXCEPT ![c].state =
                      IF outcome[call[c].owner] = "succeeded" THEN "resolved" ELSE "rejected"]
        /\ UNCHANGED <<signal, start, stopped, outcome>>
    BY <1>7 DEF CallSettles
  <2>1. outcome[call[c].owner] = "succeeded" => stopped
    BY DEF LifecycleInv, AskedOk, StoppedOk
  <2>2. told' = [told EXCEPT ![c] =
                     IF outcome[call[c].owner] = "succeeded" THEN "resolved" ELSE "rejected"]
    BY <1>0 DEF CallRecords
  <2>3. Contract!AnswerShutdown(c)
    BY <2>1, <2>2 DEF Contract!AnswerShutdown
  <2> QED BY <2>3 DEF Contract!ContractNext
<1>8. CASE stopped' /\ ~stopped /\ UNCHANGED <<signal, start, call>>
  <2>1. LifecycleInv'
    BY NextInv
  <2>2. \E c \in Calls : call[c].state # "idle"
    BY <1>8, <2>1 DEF LifecycleInv, AskedOk, StoppedOk
  <2>3. Contract!GoesDown
    BY <1>8, <2>2 DEF Contract!GoesDown, LifecycleInv, LifecycleTypeOK
  <2> QED BY <2>3 DEF Contract!ContractNext
<1>9. LifecycleInv'
  BY NextInv
<1>10. CASE UNCHANGED lifecycleVars
  BY <1>1, <1>10 DEF lifecycleVars
<1>11. CASE StartRuns \/ StartSettles \/ StartGivesUp
  BY <1>3, <1>4, <1>11 DEF StartRuns, StartSettles, StartGivesUp, LifecycleInv, LifecycleTypeOK
<1>12. CASE StopSettles \/ PreviousSettles \/ StartupStopEnds \/ StartAwaited
  BY <1>1, <1>12 DEF StopSettles, PreviousSettles, StartupStopEnds, StartAwaited
<1>13. CASE PreviousTimesOut \/ StartOutlastsOwner \/ FinalStopTimesOut
  BY <1>1, <1>13 DEF PreviousTimesOut, StartOutlastsOwner, FinalStopTimesOut, OwnerFails
<1>14. CASE FinalStopEnds \/ AcceptLateStop \/ WatchResumes
  <2>1. UNCHANGED <<signal, start, call>> /\ (stopped' = stopped \/ stopped')
    BY <1>14 DEF FinalStopEnds, OwnerSucceeds, OwnerFails, AcceptLateStop, WatchResumes, Report
  <2> QED BY <1>1, <1>8, <2>1 DEF LifecycleInv, LifecycleTypeOK
<1>15. CASE FinalStopDue
  <2>1. UNCHANGED <<signal, call, stopped>>
    BY <1>15 DEF FinalStopDue
  <2>2. start'.caller = start.caller
    BY <1>15 DEF FinalStopDue, JoinsOwner, CreatesOwner, LifecycleInv, LifecycleTypeOK
  <2> QED BY <1>3, <2>1, <2>2
<1> QED BY <1>2, <1>5, <1>6, <1>7, <1>10, <1>11, <1>12, <1>13, <1>14, <1>15 DEF LifecycleNext

(* The safety half of RefinesContract: to the host the lifecycle behaves as*)
(* the contract, whatever the backend does.  (That it answers is checked by*)
(* TLC, under the fairness of its timers.)                                 *)
THEOREM LifecycleKeepsContract ==
  LifecycleSpec => Contract!ContractInit /\ [][Contract!ContractNext]_(Contract!contractVars)
  BY ContractInitMaps, ContractStepMaps, LifecycleInvariant, PTL DEF LifecycleSpec

(* The stops of a backend never overlap and stopped means stopped, for any *)
(* number of shutdowns, retries and late completions.                      *)
THEOREM OrderlyStops == LifecycleSpec => []StopsAreOrderly
<1>1. OneStopAtATime /\ StoppedIsStopped => StopsAreOrderly
  BY DEF StopsAreOrderly
<1> QED BY <1>1, StopsNeverOverlap, StoppedMeansStopped, PTL

-----------------------------------------------------------------------------
(***************************************************************************)
(* The charge of a run: the two accounts share no variable, so each action *)
(* is checked against the half of the induction hypothesis it can disturb. *)
(***************************************************************************)

(* The larger of two numbers, and the clamped difference of the counters.  *)
LEMMA LargerIsMax ==
  ASSUME NEW a \in Int, NEW b \in Int
  PROVE  /\ UsLarger(a, b) \in {a, b} /\ UsLarger(a, b) >= a /\ UsLarger(a, b) >= b
         /\ UsLess(a, b) = (IF a >= b THEN a - b ELSE 0)
BY DEF UsLarger, UsLess

(* The parts of the hypothesis that speak of one provider.                 *)
UoTypeOK ==
  /\ uoThread \in [total : Nat, last : Nat] /\ uoUsed \in Nat /\ uoHost \in Nat
  /\ uoTurn \in [active : BOOLEAN, id : 0 .. 1] /\ uoWire \in [sent : BOOLEAN, turn : 0 .. 2]
  /\ uoState \in [last : Nat \cup {Unknown}, base : Nat \cup {Unknown}, current : Nat]
UcTypeOK ==
  /\ ucNative \in Nat /\ ucBase \in Nat \cup {Unknown} /\ ucHost \in Nat
  /\ ucReal \in [first : Nat, second : Nat, other : Nat]
  /\ ucRun \in [pc : {"idle", "running", "reported"}, before : Nat]
  /\ ucState \in [first : Nat, second : Nat, result : Nat \cup {Unknown}, previous : Nat]

(* The hypothesis of the two accounts is the whole hypothesis.             *)
LEMMA InvIsBoth == UsInv <=> UoTypeOK /\ UoInv /\ UcTypeOK /\ UcInv
BY DEF UsInv, UsTypeOK, UoTypeOK, UcTypeOK

(* Both accounts start true, whatever history the session has.             *)
LEMMA InitAccounts == UsInit => UsInv
<1> SUFFICES ASSUME UsInit PROVE UoTypeOK /\ UoInv /\ UcTypeOK /\ UcInv
  BY InvIsBoth
<1> UsMax \in Nat  BY UsMaxAssumption
<1>1. UoTypeOK /\ UoInv
  BY DEF UsInit, UoInit, UoTypeOK, UoInv, UoNoState, UoNoWire, Unknown, UoHandled, UoBefore, UoIsActive
<1>2. UcTypeOK /\ UcInv
  BY DEF UsInit, UcInit, UcTypeOK, UcInv, UcNoReal, UcNoState, UcEpoch, UcSnapshot, Unknown
<1> QED BY <1>1, <1>2

(* An update of the active turn publishes what was handled until now.      *)
LEMMA UpdateKeepsAccount ==
  ASSUME UoTypeOK, UoInv, UoUpdate
  PROVE  UoTypeOK' /\ UoInv'
<1> USE DEF UoTypeOK, Unknown
<1>1. UoLastTotal = uoThread.total
  <2>1. uoState.last <= uoThread.total /\ uoState.last \in Int /\ uoThread.total \in Nat
    BY DEF UoInv
  <2> QED BY <2>1 DEF UoLastTotal, UsLarger
<1>2. CASE UoIsActive
  <2>1. UoBaseline = UoBefore
    BY <1>2 DEF UoBaseline, UoInv, UoBefore, UoHandled, UoUpdate, UsLess, UsLarger, UoIsActive
  <2>2. UoCurrent = uoUsed
    BY <1>2, <2>1 DEF UoCurrent, UoInv, UoBefore, UoHandled, UoUpdate, UsLess, UsLarger
  <2>3. uoState' = [last |-> uoThread.total, base |-> UoBefore, current |-> uoUsed]
    BY <1>1, <1>2, <2>1, <2>2 DEF UoUpdate
  <2>4. uoHost' = uoUsed
    BY <1>2, <2>2 DEF UoUpdate, UoInv, UoHandled
  <2>5. UNCHANGED <<uoThread, uoUsed, uoTurn>> /\ uoWire' = UoNoWire
    BY DEF UoUpdate
  <2> QED BY <1>2, <2>3, <2>4, <2>5 DEF UoInv, UoBefore, UoHandled, UoNoWire, UoIsActive
<1>3. CASE ~UoIsActive
  <2>1. uoState' = [uoState EXCEPT !.last = uoThread.total] /\ UNCHANGED uoHost
    BY <1>1, <1>3 DEF UoUpdate, UoCommitsTotal
  <2>2. UNCHANGED <<uoThread, uoUsed, uoTurn>> /\ uoWire' = UoNoWire
    BY DEF UoUpdate
  <2> QED BY <1>3, <2>1, <2>2 DEF UoInv, UoBefore, UoHandled, UoNoWire, UoIsActive
<1> QED BY <1>2, <1>3

(* Every step of the app-server and of the driver keeps the account.       *)
LEMMA TurnKeepsAccount ==
  ASSUME UoTypeOK, UoInv, UoNext
  PROVE  UoTypeOK' /\ UoInv'
<1> USE DEF UoTypeOK, Unknown
<1> UsMax \in Nat  BY UsMaxAssumption
<1>1. CASE UoBegin
  BY <1>1 DEF UoBegin, UoInv, UoBefore, UoHandled, UoIsActive
<1>2. CASE UoRequest
  <2>1. PICK n \in 1 .. UsMax :
          /\ uoThread' = [total |-> uoThread.total + n, last |-> n]
          /\ uoUsed' = IF uoTurn.active THEN uoUsed + n ELSE 0
          /\ uoWire' = [sent |-> TRUE, turn |-> IF uoTurn.active THEN uoTurn.id ELSE 2]
    BY <1>2 DEF UoRequest
  <2>2. ~uoWire.sent /\ UNCHANGED <<uoTurn, uoState, uoHost>>
    BY <1>2 DEF UoRequest
  <2>3. UoTypeOK'
    BY <2>1, <2>2
  <2>4. UoHandled' = UoHandled /\ UoHandled = uoUsed
    BY <2>1, <2>2 DEF UoHandled, UoIsActive, UoInv
  <2>5. uoTurn.active => UoBefore' = UoBefore
    BY <2>1, <2>2 DEF UoBefore
  <2> QED BY <2>1, <2>2, <2>3, <2>4, <2>5 DEF UoInv, UoBefore
<1>3. CASE UoUpdate
  BY <1>3, UpdateKeepsAccount
<1>4. CASE UoEnd
  <2>1. /\ uoTurn' \in [active : BOOLEAN, id : 0 .. 1] /\ uoTurn'.active = FALSE
        /\ uoState' \in [last : Nat \cup {-1}, base : Nat \cup {-1}, current : Nat]
        /\ uoState'.base = -1 /\ uoState'.current = 0 /\ uoState'.last = uoState.last
        /\ uoUsed' = 0 /\ uoHost' = 0 /\ UNCHANGED <<uoThread, uoWire>>
    BY <1>4 DEF UoEnd
  <2> QED BY <2>1 DEF UoInv, UoHandled, UoIsActive
<1>5. CASE UoFails
  <2>1. /\ uoTurn' \in [active : BOOLEAN, id : 0 .. 1] /\ uoTurn'.active = FALSE
        /\ uoState' = [last |-> -1, base |-> -1, current |-> 0]
        /\ uoWire' = [sent |-> FALSE, turn |-> 0]
        /\ uoUsed' = 0 /\ uoHost' = 0 /\ UNCHANGED uoThread
    BY <1>5 DEF UoFails, UoNoState, UoNoWire
  <2> QED BY <2>1 DEF UoInv, UoHandled, UoIsActive
<1> QED BY <1>1, <1>2, <1>3, <1>4, <1>5 DEF UoNext

(* Every step of Claude and of its driver keeps the account.               *)
LEMMA RunKeepsAccount ==
  ASSUME UcTypeOK, UcInv, UcNext
  PROVE  UcTypeOK' /\ UcInv'
<1> USE DEF UcTypeOK, Unknown
<1> UsMax \in Nat  BY UsMaxAssumption
<1>1. CASE UcBegin
  BY <1>1 DEF UcBegin, UcInv, UcNoReal, UcNoState, UcEpoch, UcSnapshot
<1>2. CASE UcUses
  <2>1. PICK n \in 1 .. UsMax, who \in {"first", "second", "other"} :
          ucNative' = ucNative + n /\ ucReal' = [ucReal EXCEPT ![who] = @ + n]
    BY <1>2 DEF UcUses
  <2>2. ucRun.pc = "running" /\ UNCHANGED <<ucRun, ucBase, ucState, ucHost>>
    BY <1>2 DEF UcUses
  <2>3. /\ ucReal' \in [first : Nat, second : Nat, other : Nat]
        /\ ucReal'.first >= ucReal.first /\ ucReal'.second >= ucReal.second
        /\ UcEpoch' = UcEpoch + n /\ UcEpoch \in Nat /\ n \in Nat
    BY <2>1 DEF UcEpoch
  <2>4. UcTypeOK'
    BY <2>1, <2>2, <2>3
  <2>5. UcSnapshot(ucState)' = UcSnapshot(ucState)
    BY <2>2 DEF UcSnapshot
  <2>6. ucState.result # -1 => ucState.result <= UcEpoch'
    BY <2>3 DEF UcInv
  <2> QED BY <2>1, <2>2, <2>3, <2>4, <2>5, <2>6 DEF UcInv
<1>3. CASE UcSample
  <2>0. \A who \in UcResponses : ucReal[who] \in Nat
    BY DEF UcResponses
  <2>a. PICK who \in UcResponses : \E n \in 0 .. ucReal[who] : ucState' = UcSampled(ucState, who, n)
    BY <1>3 DEF UcSample
  <2>c. PICK n \in 0 .. ucReal[who] : ucState' = UcSampled(ucState, who, n)
    BY <2>a
  <2>1. n <= ucReal[who] /\ ucState' = [ucState EXCEPT ![who] = UsLarger(@, n)]
    BY <2>0, <2>c DEF UcSampled
  <2>b. UsLarger(ucState[who], n) \in Nat /\ UsLarger(ucState[who], n) <= ucReal[who]
    <3>1. ucState[who] \in Nat /\ ucState[who] <= ucReal[who] /\ ucReal[who] \in Nat
      <4>1. CASE who = "first"   BY <4>1 DEF UcInv
      <4>2. CASE who = "second"  BY <4>2 DEF UcInv
      <4> QED BY <4>1, <4>2 DEF UcResponses
    <3>2. n \in Nat /\ n <= ucReal[who]
      BY <2>1, <3>1
    <3> QED BY <3>1, <3>2 DEF UsLarger
  <2>2. /\ ucState' \in [first : Nat, second : Nat, result : Nat \cup {-1}, previous : Nat]
        /\ ucState'.first <= ucReal.first /\ ucState'.second <= ucReal.second
        /\ ucState'.result = ucState.result /\ ucState'.previous = ucState.previous
    <3>1. CASE who = "first"
      BY <2>1, <2>b, <3>1 DEF UcInv
    <3>2. CASE who = "second"
      BY <2>1, <2>b, <3>2 DEF UcInv
    <3> QED BY <3>1, <3>2 DEF UcResponses
  <2>3. ucHost' = UcSnapshot(ucState') /\ UNCHANGED <<ucNative, ucReal, ucRun, ucBase>>
    BY <1>3 DEF UcSample
  <2>4. ucHost' \in Nat
    BY <2>2, <2>3 DEF UcSnapshot
  <2> QED BY <2>2, <2>3, <2>4 DEF UcInv, UcEpoch
<1>4. CASE UcResult
  <2>1. PICK known \in BOOLEAN :
          /\ ucState' = [ucState EXCEPT !.result = UcDifference(known)]
          /\ ucBase' = UcNextBase(known)
    BY <1>4 DEF UcResult
  <2>2. /\ ucRun.pc = "running" /\ ucRun' = [ucRun EXCEPT !.pc = "reported"]
        /\ ucHost' = UcSnapshot(ucState') /\ UNCHANGED <<ucNative, ucReal>>
    BY <1>4 DEF UcResult
  <2>3. UcDifference(known) \in {-1, UcEpoch} /\ UcEpoch \in Nat
    BY <2>2 DEF UcDifference, UcInv, UsLess, UsLarger, UcEpoch
  <2>4. UcNextBase(known) \in {-1, ucNative}
    BY DEF UcNextBase
  <2>5. ucHost' \in Nat
    BY <2>1, <2>2, <2>3 DEF UcSnapshot
  <2> QED BY <2>1, <2>2, <2>3, <2>4, <2>5 DEF UcInv, UcEpoch
<1>5. CASE UcReset
  <2>1. CASE ucRun.pc = "running"
    <3>1. UcSnapshot(ucState) \in Nat /\ UcSnapshot(ucState) <= ucRun.before + UcEpoch
      BY DEF UcSnapshot, UcInv, UcEpoch
    <3>2. /\ ucNative' = 0 /\ ucBase' = 0 /\ UNCHANGED ucHost
          /\ ucState' = [UcNoState EXCEPT !.previous = UcSnapshot(ucState)]
          /\ ucRun' = [ucRun EXCEPT !.before = @ + UcEpoch] /\ ucReal' = UcNoReal
      BY <1>5, <2>1 DEF UcReset
    <3>3. UcEpoch \in Nat
      BY DEF UcEpoch
    <3> QED BY <2>1, <3>1, <3>2, <3>3 DEF UcInv, UcEpoch, UcNoReal, UcNoState, UcSnapshot
  <2>2. CASE ucRun.pc # "running"
    BY <1>5, <2>2 DEF UcReset, UcInv, UcEpoch, UcSnapshot
  <2> QED BY <2>1, <2>2
<1>6. CASE UcEnd
  BY <1>6 DEF UcEnd, UcInv, UcNoReal, UcNoState, UcEpoch, UcSnapshot
<1> QED BY <1>1, <1>2, <1>3, <1>4, <1>5, <1>6 DEF UcNext

(* A step of one account leaves the other alone.                           *)
LEMMA StepKeepsAccounts == UsInv /\ [UsNext]_UsVars => UsInv'
<1> SUFFICES ASSUME UoTypeOK, UoInv, UcTypeOK, UcInv, [UsNext]_UsVars
             PROVE  UoTypeOK' /\ UoInv' /\ UcTypeOK' /\ UcInv'
  BY InvIsBoth DEF UsInv, UsTypeOK, UoTypeOK, UcTypeOK
<1>1. UNCHANGED uoVars => UoTypeOK' /\ UoInv'
  BY DEF uoVars, UoTypeOK, UoInv, UoBefore, UoHandled, UoIsActive
<1>2. UNCHANGED ucVars => UcTypeOK' /\ UcInv'
  BY DEF ucVars, UcTypeOK, UcInv, UcEpoch, UcSnapshot
<1>3. CASE UoNext /\ UNCHANGED ucVars
  BY <1>2, <1>3, TurnKeepsAccount
<1>4. CASE UcNext /\ UNCHANGED uoVars
  BY <1>1, <1>4, RunKeepsAccount
<1>5. CASE UNCHANGED UsVars
  BY <1>1, <1>2, <1>5 DEF UsVars, uoVars, ucVars
<1> QED BY <1>3, <1>4, <1>5 DEF UsNext

(* The hypothesis implies the charges: a turn with no update on its way is *)
(* charged what it used, a run no more than that.                          *)
LEMMA AccountsAreTrue == UsInv => ChargesAreTrue
<1> SUFFICES ASSUME UoTypeOK, UoInv, UcTypeOK, UcInv PROVE ChargesAreTrue
  BY InvIsBoth
<1>1. TurnChargeIsExact
  BY DEF TurnChargeIsExact, UoInv, UoHandled, UoTypeOK, Unknown
<1>2. RunIsNotOvercharged
  BY DEF RunIsNotOvercharged, UcInv, UcSnapshot, UcTypeOK, UcEpoch, Unknown
<1> QED BY <1>1, <1>2 DEF ChargesAreTrue

(* For every session: an OpenAI turn is charged exactly what it used once  *)
(* its updates are in, and a Claude run never more than it used, through   *)
(* resumed histories, unknown boundaries, resets and failed clients.       *)
THEOREM RunsAreChargedTheirOwn == UsSpec => []ChargesAreTrue
<1>1. UsInit => UsInv  BY InitAccounts
<1>2. UsInv /\ [UsNext]_UsVars => UsInv'  BY StepKeepsAccounts
<1>3. UsInv => ChargesAreTrue  BY AccountsAreTrue
<1> QED BY <1>1, <1>2, <1>3, PTL DEF UsSpec
=============================================================================
