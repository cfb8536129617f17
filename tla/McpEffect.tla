------------------------------ MODULE McpEffect ------------------------------
(***************************************************************************)
(* One mcp.execute command (core/driver-command-dispatcher.ts,             *)
(* #runMcpCommand) over the lives of the driver instances it is dispatched *)
(* to.  The tool is called only under a claim of the durable effect        *)
(* ledger, and what became of the call is settled there before the command *)
(* is reported.  Claim and settlement are tried twice with one token; an   *)
(* RPC that times out may still reach the ledger later, or its reply may   *)
(* be lost.  The ledger, the tool and the host are external.               *)
(***************************************************************************)
EXTENDS Naturals, Sequences

CONSTANT MaxLives          \* bound: driver instances the command is sent to

ASSUME LivesBound == MaxLives \in Nat \ {0}

VARIABLES
  ledger,                  \* the durable effect: [kind, token]
  life,                    \* the driver instances started so far
  task,                    \* #runMcpCommand: where it is and what it knows
  aborted,                 \* controller.signal.aborted
  ownsRun,                 \* currentRunId() is the run of the command
  late,                    \* ledger requests sent, timed out and still on their way
  executed,                \* the lives that called the external tool, call by call
  verdict                  \* the terminal status the host recorded

mcpVars == <<ledger, life, task, aborted, ownsRun, late, executed, verdict>>

Lives == 1..MaxLives       \* claimToken = randomUUID(): one per life

(* error: what the catch clause tells apart; settlement: what is settled.  *)
At(pc) == [pc |-> pc, error |-> "none", settlement |-> "none"]
Catch(error) == [pc |-> "catch", error |-> error, settlement |-> "none"]

Ended == {"none", "reported", "threw", "crashed"}
AfterPrepare == {"claim", "claimAgain", "execute", "settle", "settleAgain"}

McpInit ==
  /\ ledger = [kind |-> "intent", token |-> 0]
  /\ life = 0
  /\ task = At("none")
  /\ aborted = FALSE
  /\ ownsRun = TRUE
  /\ late = {}
  /\ executed = << >>
  /\ verdict = "none"

-----------------------------------------------------------------------------
(* The ledger (external).                                                  *)

(* A claim is granted once and granted again to its own token; a settled   *)
(* effect answers with what is stored; another claim is refused.           *)
LedgerRefuses(request) ==
  \/ ledger.kind = "claimed" /\ ledger.token # request.token
  \/ ledger.kind = "intent" /\ request.op = "settle"
LedgerAfter(request) ==
  IF LedgerRefuses(request) THEN ledger
  ELSE IF request.op = "claim" /\ ledger.kind = "intent"
         THEN [kind |-> "claimed", token |-> request.token]
  ELSE IF request.op = "settle" /\ ledger.kind = "claimed"
         THEN [ledger EXCEPT !.kind = request.settlement]
  ELSE ledger

(* A request that its caller gave up reaches the ledger.                   *)
LateRequest ==
  \E request \in late :
    /\ late' = late \ {request}
    /\ ledger' = LedgerAfter(request)
    /\ UNCHANGED <<life, task, aborted, ownsRun, executed, verdict>>

(* The host gives up a claim it cannot trust any more.                     *)
Repair ==
  /\ ledger.kind = "claimed"
  /\ ledger' = [ledger EXCEPT !.kind = "unknown"]
  /\ UNCHANGED <<life, task, aborted, ownsRun, late, executed, verdict>>

-----------------------------------------------------------------------------
(* The command.                                                            *)

(* The finally clause disposes of what was prepared before the outcome is  *)
(* seen by the caller; disposal is bounded and cannot change it.           *)
Leaving(next) ==
  /\ task' = next
  /\ UNCHANGED <<life, aborted, ownsRun, verdict>>

(* #resolveExternalToolEffectState                                         *)
Resolution(kind) ==
  IF kind = "succeeded" THEN At("pushCompleted")
  ELSE Catch(IF kind = "unknown" THEN "unknown" ELSE "unsettled")

(* The host dispatches the command, again after a life that left no verdict. *)
StartTask ==
  /\ task.pc \in Ended
  /\ verdict = "none"
  /\ life < MaxLives
  /\ life' = life + 1
  /\ task' = At("pushRunning")
  /\ aborted' = FALSE
  /\ ownsRun' = TRUE
  /\ UNCHANGED <<ledger, late, executed, verdict>>

(* turn.cancel, a stop, a shutdown or a failed sibling aborts the command. *)
Abort ==
  /\ task.pc \notin Ended
  /\ ~aborted
  /\ aborted' = TRUE
  /\ UNCHANGED <<ledger, life, task, ownsRun, late, executed, verdict>>

(* The run is released while the command is still working.                 *)
RunReleased ==
  /\ task.pc \notin Ended
  /\ ownsRun
  /\ ownsRun' = FALSE
  /\ UNCHANGED <<ledger, life, task, aborted, late, executed, verdict>>

Stays == UNCHANGED <<ledger, life, aborted, ownsRun, late, executed, verdict>>

(* The "running" event, then controller.signal.throwIfAborted().           *)
PushRunning ==
  /\ task.pc = "pushRunning"
  /\ \/ task' = IF aborted THEN Catch("aborted") ELSE At("observe")
     \/ task' = Catch("failed")
  /\ Stays

(* observeExternalToolEffect: an intent is executed, anything else stands. *)
Observed(kind) ==
  IF kind # "intent" THEN Resolution(kind)
  ELSE IF ownsRun THEN At("prepare") ELSE Catch("failed")

Observe ==
  /\ task.pc = "observe"
  /\ \/ task' = Observed(ledger.kind)
     \/ task' = Catch("failed")
  /\ Stays

(* prepare has no deadline of its own: only the abort signal ends it.      *)
Prepare ==
  /\ task.pc = "prepare"
  /\ \/ task' = IF aborted THEN Catch("aborted")
                ELSE IF ownsRun THEN At("claim") ELSE Catch("failed")
     \/ task' = Catch("failed")
  /\ Stays
AbortsPrepareNever == FALSE                 \* bug: prepare does not see the signal
AbortsPrepare == aborted
PrepareAborted ==
  /\ task.pc = "prepare"
  /\ AbortsPrepare
  /\ task' = Catch("aborted")
  /\ Stays

(* One attempt of a ledger RPC within its two seconds: answered by the     *)
(* ledger, or given up, the request lost, on its way or already handled.   *)
Attempt(request, onReply, onFailure) ==
  /\ \/ /\ ~LedgerRefuses(request)
        /\ ledger' = LedgerAfter(request)
        /\ late' = late
        /\ Leaving(onReply)
     \/ /\ UNCHANGED <<ledger>>
        /\ late' \in {late, late \cup {request}}
        /\ Leaving(onFailure)
  /\ UNCHANGED executed

ClaimRequest == [op |-> "claim", token |-> life, settlement |-> "none"]
SettleRequest == [op |-> "settle", token |-> life, settlement |-> task.settlement]

Claimed == LET kind == LedgerAfter(ClaimRequest).kind
           IN  IF kind = "claimed" THEN At("execute") ELSE Resolution(kind)
UnclaimedExecutes == At("execute")          \* bug: a lost claim reply taken for a grant
Unclaimed == Catch("unsettled")

Claim ==
  \/ task.pc = "claim" /\ Attempt(ClaimRequest, Claimed, At("claimAgain"))
  \/ task.pc = "claimAgain" /\ Attempt(ClaimRequest, Claimed, Unclaimed)

(* prepared.execute returns within its own limit; whatever it throws, the  *)
(* tool may have acted.                                                    *)
Execute ==
  /\ task.pc = "execute"
  /\ executed' = Append(executed, life)
  /\ \E settlement \in {"succeeded", "unknown"} :
        task' = [task EXCEPT !.pc = "settle", !.settlement = settlement]
  /\ UNCHANGED <<ledger, life, aborted, ownsRun, late, verdict>>

Settlement == Resolution(LedgerAfter(SettleRequest).kind)

Settle ==
  \/ /\ task.pc = "settle"
     /\ Attempt(SettleRequest, Settlement, [task EXCEPT !.pc = "settleAgain"])
  \/ task.pc = "settleAgain" /\ Attempt(SettleRequest, Settlement, Catch("unsettled"))

(* The catch clause of #runMcpCommand.                                     *)
HandledAbortFirst ==                        \* bug: an abort hides an unknown outcome
  IF task.error = "unsettled" THEN At("threw")
  ELSE IF aborted THEN At("pushCancelled")
  ELSE [task EXCEPT !.pc = "pushFailed"]
Handled ==
  IF task.error = "unsettled" THEN At("threw")
  ELSE IF aborted /\ task.error # "unknown" THEN At("pushCancelled")
  ELSE [task EXCEPT !.pc = "pushFailed"]
Handle ==
  /\ task.pc = "catch"
  /\ task' = Handled
  /\ Stays

(* The tool event of the outcome: if it is not delivered, the task throws. *)
Outcomes == {"pushCompleted", "pushCancelled", "pushFailed"}
Outcome == IF task.pc = "pushCompleted" THEN "completed"
           ELSE IF task.pc = "pushCancelled" THEN "cancelled" ELSE "failed"
PushOutcome ==
  /\ task.pc \in Outcomes
  /\ \/ task' = [task EXCEPT !.pc = Outcome]
     \/ task' = At("threw")
  /\ Stays

(* finish or failCommand: the update is recorded or lost, and a lost       *)
(* acknowledgement makes the task throw after the host recorded it.        *)
Verdict == IF task.pc = "failed" /\ task.error = "unknown" THEN "failedUnknown" ELSE task.pc
ReportVerdict ==
  /\ task.pc \in {"completed", "cancelled", "failed"}
  /\ \/ verdict' = Verdict /\ task' = At("reported")
     \/ verdict' \in {verdict, Verdict} /\ task' = At("threw")
  /\ UNCHANGED <<ledger, life, aborted, ownsRun, late, executed>>

(* The process ends: nothing it knew survives but what it sent.  A call of *)
(* the tool or of the ledger it was in may still take effect.              *)
Crash ==
  /\ task.pc \notin Ended
  /\ task' = At("crashed")
  /\ executed' \in IF task.pc = "execute" THEN {executed, Append(executed, life)} ELSE {executed}
  /\ late' \in {late} \cup
       (IF task.pc \in {"claim", "claimAgain"} THEN {late \cup {ClaimRequest}} ELSE {}) \cup
       (IF task.pc \in {"settle", "settleAgain"} THEN {late \cup {SettleRequest}} ELSE {})
  /\ verdict' \in IF task.pc \in {"completed", "cancelled", "failed"}
                  THEN {verdict, Verdict} ELSE {verdict}
  /\ UNCHANGED <<ledger, life, aborted, ownsRun>>

TaskStep ==
  \/ PushRunning \/ Observe \/ PrepareAborted \/ Claim \/ Execute \/ Settle
  \/ Handle \/ PushOutcome \/ ReportVerdict

Over == task.pc \in Ended /\ late = {} /\ UNCHANGED mcpVars

McpNext ==
  \/ StartTask \/ Abort \/ RunReleased \/ Crash
  \/ PushRunning \/ Observe \/ Prepare \/ PrepareAborted \/ Claim \/ Execute \/ Settle
  \/ Handle \/ PushOutcome \/ ReportVerdict
  \/ LateRequest \/ Repair \/ Over

(* Every await but prepare has a deadline (delivery, RPC or execution      *)
(* timeout) or sees the abort signal, so the task itself is weakly fair.   *)
McpSpec == McpInit /\ [][McpNext]_mcpVars /\ WF_mcpVars(TaskStep)

-----------------------------------------------------------------------------
(* Properties                                                              *)

Requests ==
  [op : {"claim"}, token : Lives, settlement : {"none"}] \cup
  [op : {"settle"}, token : Lives, settlement : {"succeeded", "unknown"}]

McpTypeOK ==
  /\ ledger \in [kind : {"intent", "claimed", "succeeded", "unknown"}, token : 0..MaxLives]
  /\ life \in 0..MaxLives
  /\ task \in [pc : Ended \cup AfterPrepare \cup Outcomes \cup
                    {"pushRunning", "observe", "prepare", "catch",
                     "completed", "cancelled", "failed"},
               error : {"none", "aborted", "failed", "unknown", "unsettled"},
               settlement : {"none", "succeeded", "unknown"}]
  /\ aborted \in BOOLEAN /\ ownsRun \in BOOLEAN
  /\ late \subseteq Requests
  /\ executed \in Seq(Lives)
  /\ verdict \in {"none", "completed", "cancelled", "failed", "failedUnknown"}

(* However often the command is dispatched, whatever is lost, late or      *)
(* retried, the external tool is called at most once.                      *)
CalledAtMostOnce == Len(executed) <= 1

(* What the host is told about the command is what became of its effect:   *)
(* completed means the tool was called and its result is settled, an       *)
(* unknown outcome is reported only when the ledger holds it as unknown,   *)
(* and a life that reports cancelled or an ordinary failure never called.  *)
VerdictIsTrue ==
  /\ verdict = "completed" => Len(executed) = 1 /\ ledger.kind = "succeeded"
  /\ verdict = "failedUnknown" => ledger.kind = "unknown"
  /\ verdict \in {"cancelled", "failed"} => \A i \in 1..Len(executed) : executed[i] # life

(* A command that is aborted comes to an end: the terminal of its run and  *)
(* the shutdown, which wait for it, do not wait forever.                   *)
EffectAwaited == aborted /\ task.pc \notin Ended
AbortedCommandEnds == []<>~EffectAwaited
=============================================================================
