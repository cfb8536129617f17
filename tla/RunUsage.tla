------------------------------- MODULE RunUsage -------------------------------
(***************************************************************************)
(* What a run is charged.  Providers count for the whole native session,   *)
(* the driver publishes the part of one run.                               *)
(*   OpenAI (app-server-event-state, #onUsage): thread totals arrive with  *)
(*   an update per request; each turn has a baseline.                      *)
(*   Claude (agent-sdk-session-usage): samples per response while a run    *)
(*   goes on, replaced by the difference of session totals its result      *)
(*   brings; a reset of the conversation starts an epoch.                  *)
(* One counter stands for each of the counters the code keeps alike.       *)
(***************************************************************************)
EXTENDS Integers

CONSTANT UsMax             \* bound: tokens of a native session
ASSUME UsMaxAssumption == UsMax \in Nat

Unknown == -1

VARIABLES
  uoThread,                \* app-server: [total, last] of the thread
  uoUsed,                  \* what the active turn really used
  uoTurn,                  \* [active, id]
  uoWire,                  \* update on its way: [sent, turn], with the thread's counts
  uoState,                 \* OpenAiSessionUsageState: [last, base, current]
  uoHost,                  \* usage the host has for the active turn
  ucNative,                \* Claude: counter of the native session
  ucReal,                  \* usage of the epoch: [first, second, other]
  ucRun,                   \* [pc, before], before: usage of the run's earlier epochs
  ucBase,                  \* ClaudeSessionUsage, Unknown after an unknown boundary
  ucState,                 \* ClaudeRunUsage: [first, second, result, previous]
  ucHost                   \* usage the host has for the run

uoVars == <<uoThread, uoUsed, uoTurn, uoWire, uoState, uoHost>>
ucVars == <<ucNative, ucReal, ucRun, ucBase, ucState, ucHost>>

UsLarger(a, b) == IF a > b THEN a ELSE b
UsLess(a, b) == UsLarger(0, a - b)

-----------------------------------------------------------------------------
(* OpenAI                                                                  *)

UoNoState == [last |-> Unknown, base |-> Unknown, current |-> 0]
UoNoWire == [sent |-> FALSE, turn |-> 0]

UoInit ==
  /\ uoThread \in [total : 0 .. UsMax, last : {0}]       \* a resumed thread has a history
  /\ uoUsed = 0 /\ uoTurn = [active |-> FALSE, id |-> 0] /\ uoWire = UoNoWire
  /\ uoState = UoNoState /\ uoHost = 0

UoBegin ==
  /\ ~uoTurn.active
  /\ \E id \in 0 .. 1 :                                  \* no other turn's id
       ~(uoWire.sent /\ uoWire.turn = id) /\ uoTurn' = [active |-> TRUE, id |-> id]
  /\ uoUsed' = 0 /\ uoHost' = 0
  /\ UNCHANGED <<uoThread, uoWire, uoState>>

(* A request of the active turn, or of none (a compaction); its update is  *)
(* sent before the next request.                                           *)
UoRequest ==
  /\ ~uoWire.sent
  /\ \E n \in 1 .. UsMax :
       /\ uoThread.total + n <= UsMax
       /\ uoThread' = [total |-> uoThread.total + n, last |-> n]
       /\ uoUsed' = IF uoTurn.active THEN uoUsed + n ELSE 0
       /\ uoWire' = [sent |-> TRUE, turn |-> IF uoTurn.active THEN uoTurn.id ELSE 2]
  /\ UNCHANGED <<uoTurn, uoState, uoHost>>

UoIsActive == uoTurn.active /\ uoTurn.id = uoWire.turn   \* activeRunId
UoLastTotal == UsLarger(UsLarger(uoState.last, 0), uoThread.total)
UoBaseline ==
  IF uoState.base # Unknown THEN uoState.base
  ELSE IF uoState.last # Unknown THEN uoState.last ELSE UsLess(uoThread.total, uoThread.last)
UoCurrent == UsLarger(uoState.current, UsLess(uoThread.total, UoBaseline))

UoForgetsOthers == UNCHANGED uoState                     \* bug: totals of no turn are dropped
UoCommitsTotal == uoState' = [uoState EXCEPT !.last = UoLastTotal]

(* #onUsage: the baseline is kept once the host has what it gives.         *)
UoUpdate ==
  /\ uoWire.sent /\ uoWire' = UoNoWire
  /\ IF UoIsActive
     THEN /\ uoHost' = IF UoCurrent > uoState.current THEN UoCurrent ELSE uoHost
          /\ uoState' = [last |-> UoLastTotal, base |-> UoBaseline, current |-> UoCurrent]
     ELSE UoCommitsTotal /\ UNCHANGED uoHost
  /\ UNCHANGED <<uoThread, uoUsed, uoTurn>>

(* The turn ends, its update perhaps still to come: release.               *)
UoEnd ==
  /\ uoTurn.active /\ uoTurn' = [uoTurn EXCEPT !.active = FALSE]
  /\ uoState' = [uoState EXCEPT !.base = Unknown, !.current = 0]
  /\ uoUsed' = 0 /\ uoHost' = 0
  /\ UNCHANGED <<uoThread, uoWire>>

(* The client fails (a push failed, the process died): reset; the thread   *)
(* is resumed with its totals, an update on its way is lost.               *)
UoFails ==
  /\ uoTurn' = [uoTurn EXCEPT !.active = FALSE]
  /\ uoState' = UoNoState /\ uoWire' = UoNoWire /\ uoUsed' = 0 /\ uoHost' = 0
  /\ UNCHANGED uoThread

UoNext == UoBegin \/ UoRequest \/ UoUpdate \/ UoEnd \/ UoFails

-----------------------------------------------------------------------------
(* Claude                                                                  *)

UcNoReal == [first |-> 0, second |-> 0, other |-> 0]
UcNoState == [first |-> 0, second |-> 0, result |-> Unknown, previous |-> 0]
UcEpoch == ucReal.first + ucReal.second + ucReal.other
UcResponses == {"first", "second"}

(* initialize: the totals of the restored history are the baseline.        *)
UcInit ==
  /\ ucNative \in 0 .. UsMax /\ ucBase = ucNative
  /\ ucReal = UcNoReal /\ ucRun = [pc |-> "idle", before |-> 0]
  /\ ucState = UcNoState /\ ucHost = 0

UcBegin ==
  /\ ucRun.pc = "idle" /\ ucRun' = [pc |-> "running", before |-> 0]
  /\ ucReal' = UcNoReal /\ ucState' = UcNoState /\ ucHost' = 0
  /\ UNCHANGED <<ucNative, ucBase>>

(* Tokens of a response, or of a subagent no response speaks of.           *)
UcUses ==
  /\ ucRun.pc = "running"
  /\ \E n \in 1 .. UsMax, who \in {"first", "second", "other"} :
       /\ ucNative + n <= UsMax /\ ucRun.before + UcEpoch + n <= UsMax
       /\ ucNative' = ucNative + n /\ ucReal' = [ucReal EXCEPT ![who] = @ + n]
  /\ UNCHANGED <<ucRun, ucBase, ucState, ucHost>>

UcSnapshot(s) == s.previous + (IF s.result # Unknown THEN s.result ELSE s.first + s.second)

(* updateResponse: samples are replayed and may come late.                 *)
UcAdds(s, who, n) == [s EXCEPT ![who] = @ + n]           \* bug: a sample counts again
UcSampled(s, who, n) == [s EXCEPT ![who] = UsLarger(@, n)]
UcSample ==
  /\ ucRun.pc = "running"
  /\ \E who \in UcResponses : \E n \in 0 .. ucReal[who] : ucState' = UcSampled(ucState, who, n)
  /\ ucHost' = UcSnapshot(ucState')
  /\ UNCHANGED <<ucNative, ucReal, ucRun, ucBase>>

(* difference                                                              *)
UcDifference(known) == IF ~known \/ ucBase = Unknown THEN Unknown ELSE UsLess(ucNative, ucBase)
UcKeepsBase(known) == IF known THEN ucNative ELSE ucBase  \* bug: an unknown boundary is skipped
UcNextBase(known) == IF known THEN ucNative ELSE Unknown

UcResult ==
  /\ ucRun.pc = "running" /\ ucRun' = [ucRun EXCEPT !.pc = "reported"]
  /\ \E known \in BOOLEAN :
       /\ ucState' = [ucState EXCEPT !.result = UcDifference(known)]
       /\ ucBase' = UcNextBase(known)
  /\ ucHost' = UcSnapshot(ucState')
  /\ UNCHANGED <<ucNative, ucReal>>

(* conversation_reset: the native counters start over; in a run before its *)
(* result the translator starts an epoch.                                  *)
UcReset ==
  /\ ucNative' = 0 /\ ucBase' = 0 /\ UNCHANGED ucHost
  /\ IF ucRun.pc = "running"
     THEN /\ ucState' = [UcNoState EXCEPT !.previous = UcSnapshot(ucState)]
          /\ ucRun' = [ucRun EXCEPT !.before = @ + UcEpoch] /\ ucReal' = UcNoReal
     ELSE UNCHANGED <<ucReal, ucState, ucRun>>

(* The run ends; a failed push, or tools left running, end the query, and  *)
(* the next one takes its baseline anew.                                   *)
UcEnd ==
  /\ ucRun.pc \in {"running", "reported"}
  /\ ucRun' = [pc |-> "idle", before |-> 0] /\ ucReal' = UcNoReal
  /\ ucState' = UcNoState /\ ucHost' = 0
  /\ \/ ucRun.pc = "reported" /\ UNCHANGED ucBase
     \/ ucBase' = ucNative
  /\ UNCHANGED ucNative

UcNext == UcBegin \/ UcUses \/ UcSample \/ UcResult \/ UcReset \/ UcEnd

-----------------------------------------------------------------------------
UsVars == <<uoVars, ucVars>>
UsInit == UoInit /\ UcInit
UsNext ==
  \/ UoNext /\ UNCHANGED ucVars
  \/ UcNext /\ UNCHANGED uoVars
UsSpec == UsInit /\ [][UsNext]_UsVars

(* Type correctness of both accounts.                                      *)
UsTypeOK ==
  /\ uoThread \in [total : Nat, last : Nat] /\ uoUsed \in Nat /\ uoHost \in Nat
  /\ uoTurn \in [active : BOOLEAN, id : 0 .. 1] /\ uoWire \in [sent : BOOLEAN, turn : 0 .. 2]
  /\ uoState \in [last : Nat \cup {Unknown}, base : Nat \cup {Unknown}, current : Nat]
  /\ ucNative \in Nat /\ ucBase \in Nat \cup {Unknown} /\ ucHost \in Nat
  /\ ucReal \in [first : Nat, second : Nat, other : Nat]
  /\ ucRun \in [pc : {"idle", "running", "reported"}, before : Nat]
  /\ ucState \in [first : Nat, second : Nat, result : Nat \cup {Unknown}, previous : Nat]

(* An OpenAI turn is charged exactly what it used once its updates are in, *)
(* whatever the thread used before it, between turns, or while an update   *)
(* was lost with a client.                                                 *)
TurnChargeIsExact == (uoTurn.active /\ ~uoWire.sent) => uoHost = uoUsed

(* A Claude run is never charged more than it used: no response counts     *)
(* twice, no restored history and no run of unknown use is charged to it.  *)
RunIsNotOvercharged == ucHost <= ucRun.before + UcEpoch

ChargesAreTrue == TurnChargeIsExact /\ RunIsNotOvercharged

(* The induction hypothesis.  What the update on its way says of the state *)
(* of the turn, and what the Claude baseline says of the epoch.            *)
UoBefore == uoThread.total - uoUsed
UoHandled == uoUsed - (IF uoWire.sent /\ UoIsActive THEN uoThread.last ELSE 0)
UoInv ==
  /\ uoHost = uoState.current /\ uoUsed <= uoThread.total /\ uoThread.last <= uoThread.total
  /\ (~uoTurn.active => uoUsed = 0 /\ uoState.base = Unknown /\ uoState.current = 0)
  /\ uoState.last # Unknown =>
       uoState.last = uoThread.total - (IF uoWire.sent THEN uoThread.last ELSE 0)
  /\ UoHandled >= 0
  /\ uoState.base = Unknown => uoState.current = 0 /\ (uoTurn.active => UoHandled = 0)
  /\ uoState.base # Unknown => uoState.base = UoBefore /\ uoState.current = UoHandled
UcInv ==
  /\ ucState.first <= ucReal.first /\ ucState.second <= ucReal.second
  /\ ucState.previous <= ucRun.before
  /\ ucState.result # Unknown => ucState.result <= UcEpoch
  /\ ucHost = UcSnapshot(ucState)
  /\ (ucRun.pc = "running" /\ ucBase # Unknown) => ucNative - ucBase = UcEpoch
  /\ (ucRun.pc # "running" /\ ucBase # Unknown) => ucBase = ucNative
UsInv == UsTypeOK /\ UoInv /\ UcInv
=============================================================================
