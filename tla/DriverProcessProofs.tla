-------------------------- MODULE DriverProcessProofs --------------------------
(***************************************************************************)
(* Proofs about DriverProcess and the runtime state machine it drives, for *)
(* any number of attempts, runs and approvals.                             *)
(*                                                                         *)
(* The machine: to the checked invariants is added that a driver that is   *)
(* not ready yet has no owner, and that a generation that was not handed   *)
(* out yet has no approvals: a run that begins starts with the count it is *)
(* owed.                                                                   *)
(*                                                                         *)
(* The process: attempts are begun in order and at most one has not        *)
(* failed; an attempt with nothing to ask was begun by a driver that       *)
(* starts nothing any more, so an attempt that ends well, asked or not,    *)
(* leaves nothing up. Once run is over a cause is pending as a failure,    *)
(* and a driver without a cause was asked to stop, so its abort reason is  *)
(* set and no later close of the socket is taken for a failure.            *)
(***************************************************************************)
EXTENDS DriverProcess, FiniteSetTheorems, TLAPS

-----------------------------------------------------------------------------
(* The runtime state machine                                               *)

RuntimeIndInv ==
  /\ RuntimeTypeOK
  /\ ApprovalsAreOfTheRun
  /\ BusyMeansOwned
  /\ status \in {"created", "starting"} => runGeneration = 0
  /\ \A g \in 1..MaxGeneration : g > lastGeneration => held[g] = 0

(* The steps of the machine, a run begun within the bound. *)
LEMMA RuntimeInductive == RuntimeSpec => []RuntimeIndInv
<1> USE RuntimeBounds
<1>1. RuntimeInit => RuntimeIndInv
  BY DEF RuntimeInit, RuntimeIndInv, RuntimeTypeOK, ApprovalsAreOfTheRun, BusyMeansOwned,
         DriverStatuses
<1>2. RuntimeIndInv /\ [RuntimeNext]_runtimeVars => RuntimeIndInv'
  <2> SUFFICES ASSUME RuntimeIndInv, [RuntimeNext]_runtimeVars PROVE RuntimeIndInv'
    OBVIOUS
  <2> USE DEF RuntimeIndInv, RuntimeTypeOK, ApprovalsAreOfTheRun, BusyMeansOwned,
              DriverStatuses
  <2>1. ASSUME NEW next \in {"starting", "failed", "stopping", "stopped"}, Enter(next)
        PROVE RuntimeIndInv'
    BY <2>1 DEF Enter, MayEnter, Transitions
  <2>2. CASE status = "starting" /\ Enter("ready")
    BY <2>2 DEF Enter, MayEnter, Transitions
  <2>3. CASE lastGeneration < MaxGeneration /\ EnterRun
    BY <2>3 DEF EnterRun, MayEnter, Transitions
  <2>4. ASSUME NEW g \in 1..MaxGeneration, EndRun(g) PROVE RuntimeIndInv'
    BY <2>4 DEF EndRun
  <2>5. ASSUME NEW g \in 1..MaxGeneration, EndApproval(g) PROVE RuntimeIndInv'
    <3>1. CASE runGeneration = g
      BY <2>5, <3>1 DEF EndApproval, Counts
    <3>2. CASE runGeneration # g
      BY <2>5, <3>2 DEF EndApproval, Counts
    <3> QED BY <3>1, <3>2
  <2>6. CASE BeginApproval
    BY <2>6 DEF BeginApproval
  <2>7. CASE UNCHANGED runtimeVars
    BY <2>7 DEF runtimeVars
  <2> QED BY <2>1, <2>2, <2>3, <2>4, <2>5, <2>6, <2>7 DEF RuntimeNext
<1> QED BY <1>1, <1>2, PTL DEF RuntimeSpec

(* Every variable keeps its type: lastGeneration counts the runs, the      *)
(* owner is one of them, and no approval count falls below zero.           *)
THEOREM RuntimeTypes == RuntimeSpec => []RuntimeTypeOK
<1>1. RuntimeIndInv => RuntimeTypeOK
  BY DEF RuntimeIndInv
<1> QED BY <1>1, RuntimeInductive, PTL

(* beginApproval, endApproval and endRun keep the status and the count in  *)
(* step with the approvals the owning run really has outstanding.          *)
THEOREM ApprovalsCounted == RuntimeSpec => []ApprovalsAreOfTheRun
<1>1. RuntimeIndInv => ApprovalsAreOfTheRun
  BY DEF RuntimeIndInv
<1> QED BY <1>1, RuntimeInductive, PTL

(* A busy driver has an owner, a ready one has none. *)
THEOREM OwnerMatchesStatus == RuntimeSpec => []BusyMeansOwned
<1>1. RuntimeIndInv => BusyMeansOwned
  BY DEF RuntimeIndInv
<1> QED BY <1>1, RuntimeInductive, PTL

(* The transition table has no way out of stopping, stopped and failed. *)
THEOREM ShutdownIsFinal == RuntimeSpec => NeverReopens
<1>1. RuntimeIndInv /\ [RuntimeNext]_runtimeVars
        => [(status \in ShuttingDown) => (status' \in ShuttingDown)]_status
  BY DEF RuntimeIndInv, RuntimeTypeOK, RuntimeNext, runtimeVars, Enter, EnterRun, EndRun,
         BeginApproval, EndApproval, MayEnter, Transitions, ShuttingDown, DriverStatuses
<1> QED BY <1>1, RuntimeInductive, PTL DEF RuntimeSpec, NeverReopens

(* The status the control plane sees is that of the owning run, for any    *)
(* number of runs and approvals.                                           *)
THEOREM OwnerIsReported == RuntimeSpec => []OwnerIsTrue
<1>1. ApprovalsAreOfTheRun /\ BusyMeansOwned => OwnerIsTrue
  BY DEF OwnerIsTrue
<1> QED BY <1>1, ApprovalsCounted, OwnerMatchesStatus, PTL

-----------------------------------------------------------------------------
(* The process                                                             *)

Places == {"created", "connecting", "hello", "loading", "backend", "ready", "dispatching",
           "finalizing", "retrying", "reporting", "closing", "exited"}
BootPlaces == {"connecting", "hello", "loading", "backend", "ready"}
EndPlaces == {"finalizing", "retrying", "reporting", "closing", "exited"}
SettledPlaces == {"reporting", "closing", "exited"}
Reasons ==
  Signals \cup {"socket.closed", "runtime.heartbeat.failed", "driver.backend_failed", "dispatcher",
                 "runtime.socket.closed", "driver.runtime_failed"}
Attempts == [pc : {"none", "permission", "backend", "ok", "failed"},
             permission : {"none", "ok", "failed"}]

ContractTypeOK ==
  /\ aborted \in BOOLEAN /\ down \in BOOLEAN
  /\ startup \in {"none", "waiting", "resolved", "rejected"}
  /\ answer \in [Calls -> {"idle", "waiting", "resolved", "rejected"}]
AttemptTypeOK ==
  /\ attempt \in [Calls -> Attempts]
  /\ current \in 0..MaxCalls
  /\ reason \in Reasons \cup {"none"} /\ abortReason \in Reasons \cup {"none"}
  /\ pending \in {"none", "completed", "failed"}
PlaceTypeOK ==
  /\ status \in DriverStatuses
  /\ pc \in Places
  /\ online \in BOOLEAN /\ lifecycle \in BOOLEAN /\ cause \in BOOLEAN
  /\ signals \in SUBSET Signals
  /\ final \in [awaited : 0..MaxCalls, retrying : BOOLEAN, failed : BOOLEAN]
  /\ reported \in {"none", "completed", "failed"}

(* Nothing that was started is still up.                                   *)
IsDown == startup # "none" => down

(* Until the loop begins the driver is starting, or shuts down already.    *)
BootIsStarting ==
  /\ pc = "created" => status = "created" /\ ~online /\ startup = "none"
  /\ pc \in BootPlaces => status \in {"starting"} \cup ShuttingDown
(* A driver that aborts shuts down; one that shuts down without a cause    *)
(* was asked to, and its loop ends for no other reason.                    *)
AbortIsShutdown ==
  /\ aborted => IsShuttingDown /\ reason # "none"
  /\ IsShuttingDown /\ ~cause => aborted
  /\ pc \in EndPlaces => IsShuttingDown
  /\ pc \in SettledPlaces => aborted
(* Attempts are begun in order, and the current one is the only one that   *)
(* has not failed.                                                         *)
AttemptsAreInOrder ==
  /\ \E n \in 0..MaxCalls : \A k \in Calls : attempt[k].pc # "none" <=> k <= n
  /\ \A k \in Calls : attempt[k].pc # "none" => aborted
  /\ \A k \in Calls : k = current <=> attempt[k].pc \in {"permission", "backend", "ok"}
(* A shutdown that was answered well, or had nothing to ask, left nothing  *)
(* up.                                                                     *)
AnswersAreTrue ==
  \A k \in Calls :
    /\ attempt[k].pc \in {"none", "permission"} => answer[k] = "idle"
    /\ attempt[k].pc = "backend" /\ answer[k] = "idle" => IsDown
    /\ answer[k] = "resolved" => down
    /\ attempt[k].pc = "ok" => IsDown
CleanupComesFirst ==
  /\ status = "stopped" \/ ~lifecycle => IsDown
  /\ pc \in SettledPlaces /\ ~final.failed => IsDown
FailureIsKept ==
  /\ pc \in EndPlaces /\ cause => pending = "failed"
  /\ reported # "none" => pc \in {"closing", "exited"} /\ ~final.failed
  /\ reported = "completed" => ~cause
  /\ pc \in {"closing", "exited"} /\ cause /\ online /\ ~final.failed => reported = "failed"

ProcessIndInv ==
  /\ ContractTypeOK /\ AttemptTypeOK /\ PlaceTypeOK
  /\ BootIsStarting /\ AbortIsShutdown /\ AttemptsAreInOrder
  /\ AnswersAreTrue /\ CleanupComesFirst /\ FailureIsKept

(* The invariant makes every report true.                                  *)
LEMMA ProcessInvImplies == ProcessIndInv => ReportIsTrue
  BY DEF ProcessIndInv, ReportIsTrue, CleanupComesFirst, FailureIsKept, AbortIsShutdown, IsDown,
         SettledPlaces, EndPlaces, PlaceTypeOK

LEMMA ProcessInvInit == ProcessInit => ProcessIndInv
<1> SUFFICES ASSUME ProcessInit PROVE ProcessIndInv
  OBVIOUS
<1> USE CallsBound DEF ProcessInit, RuntimeInit, ContractInit
<1>1. ContractTypeOK /\ PlaceTypeOK
  <2>1. final \in [awaited : 0..MaxCalls, retrying : BOOLEAN, failed : BOOLEAN]
    OBVIOUS
  <2> QED BY <2>1 DEF ContractTypeOK, PlaceTypeOK, DriverStatuses, Places
<1>2. AttemptTypeOK
  BY DEF AttemptTypeOK, Attempts
<1>3. BootIsStarting /\ AbortIsShutdown /\ CleanupComesFirst /\ FailureIsKept
  BY DEF BootIsStarting, AbortIsShutdown, CleanupComesFirst, FailureIsKept, IsDown, BootPlaces,
         EndPlaces, SettledPlaces, IsShuttingDown, ShuttingDown
<1>4. AttemptsAreInOrder /\ AnswersAreTrue
  <2>1. 0 \in 0..MaxCalls /\ \A k \in Calls : attempt[k].pc # "none" <=> k <= 0
    BY DEF Calls
  <2> QED BY <2>1 DEF AttemptsAreInOrder, AnswersAreTrue, Calls
<1> QED BY <1>1, <1>2, <1>3, <1>4 DEF ProcessIndInv

-----------------------------------------------------------------------------
(* Attempts                                                                *)

(* The next attempt is one that was never begun, and with it the attempts  *)
(* are still begun in order.                                               *)
LEMMA NextIsFresh ==
  ASSUME AttemptsAreInOrder
  PROVE  /\ NextAttempt \in Nat \ {0}
         /\ \A k \in Calls : attempt[k].pc # "none" <=> k < NextAttempt
<1>1. PICK n \in 0..MaxCalls : \A k \in Calls : attempt[k].pc # "none" <=> k <= n
  BY DEF AttemptsAreInOrder
<1>2. Begun = 1..n
  BY <1>1, CallsBound DEF Begun, Calls
<1>3. Cardinality(Begun) = n
  <2>1. Cardinality(1..n) = IF 1 > n THEN 0 ELSE n - 1 + 1
    BY FS_Interval, CallsBound
  <2> QED BY <1>2, <2>1, CallsBound
<1> QED BY <1>1, <1>3, CallsBound DEF NextAttempt, Calls

(* What a call of shutdown leaves: an attempt that runs, the abort and its *)
(* reason; a failure that was pending still is.                            *)
Joined ==
  /\ attempt' \in [Calls -> Attempts] /\ current' \in Calls
  /\ reason' \in Reasons /\ abortReason' \in Reasons \cup {"none"}
  /\ pending' \in {"none", "completed", "failed"}
  /\ pending = "failed" => pending' = "failed"
  /\ aborted' = TRUE
  /\ startup' = startup /\ answer' = answer /\ down' = down
  /\ AttemptsAreInOrder' /\ AnswersAreTrue'

LEMMA ShutdownJoins ==
  ASSUME ProcessIndInv, NEW why \in Reasons, JoinsAttempt(why)
  PROVE  Joined
<1> USE DEF ProcessIndInv
<1>1. CASE current # 0
  <2>1. UNCHANGED <<attempt, current, reason, abortReason, pending, aborted, startup, answer, down>>
    BY <1>1 DEF JoinsAttempt, contractVars
  <2>2. current \in Calls /\ aborted = TRUE /\ reason # "none"
    BY <1>1, CallsBound DEF AttemptTypeOK, AttemptsAreInOrder, Calls, AbortIsShutdown, ContractTypeOK
  <2>3. AttemptsAreInOrder' /\ AnswersAreTrue'
    BY <2>1 DEF AttemptsAreInOrder, AnswersAreTrue, IsDown
  <2> QED BY <2>1, <2>2, <2>3 DEF Joined, AttemptTypeOK
<1>2. CASE current = 0
  <2> DEFINE fresh == NextAttempt
  <2>1. fresh \in Calls /\ \A k \in Calls : attempt[k].pc # "none" <=> k < fresh
    BY <1>2, NextIsFresh DEF JoinsAttempt, BeginsAttempt
  <2>2. /\ attempt' = [attempt EXCEPT ![fresh].pc = "permission"]
        /\ current' = fresh /\ reason' = why
        /\ abortReason' = IF aborted THEN abortReason ELSE why
        /\ pending' \in {pending, "failed", "completed"} /\ (pending = "failed" => pending' = "failed")
        /\ aborted' = TRUE /\ UNCHANGED <<startup, answer, down>>
    BY <1>2 DEF JoinsAttempt, BeginsAttempt, Remember
  <2> HIDE DEF fresh
  <2>3. attempt[fresh] \in Attempts
    BY <2>1 DEF AttemptTypeOK
  <2>4. [attempt[fresh] EXCEPT !.pc = "permission"] \in Attempts
    BY <2>3 DEF Attempts
  <2>5. attempt' \in [Calls -> Attempts]
    BY <2>1, <2>2, <2>4 DEF AttemptTypeOK
  <2>6. \A k \in Calls : attempt'[k].pc = IF k = fresh THEN "permission" ELSE attempt[k].pc
    BY <2>1, <2>2, <2>3 DEF AttemptTypeOK, Attempts
  <2>7. AttemptsAreInOrder'
    <3>1. fresh \in 0..MaxCalls /\ \A k \in Calls : attempt'[k].pc # "none" <=> k <= fresh
      BY <2>1, <2>6, CallsBound DEF Calls
    <3>2. \A k \in Calls : attempt[k].pc \notin {"permission", "backend", "ok"}
      BY <1>2 DEF AttemptsAreInOrder, Calls
    <3> QED BY <2>2, <2>6, <3>1, <3>2 DEF AttemptsAreInOrder
  <2>8. AnswersAreTrue'
    <3>1. attempt[fresh].pc = "none"
      BY <2>1, CallsBound DEF Calls
    <3> QED BY <2>2, <2>6, <3>1 DEF AnswersAreTrue, IsDown
  <2> QED BY <2>1, <2>2, <2>5, <2>7, <2>8 DEF Joined, AttemptTypeOK
<1> QED BY <1>1, <1>2

-----------------------------------------------------------------------------
(* The steps                                                               *)

(* What the steps of run leave: the attempts and the answers, and with     *)
(* them their invariants.                                                  *)
AttemptsStay ==
  /\ UNCHANGED <<attempt, current, reason, abortReason>>
  /\ aborted' = aborted /\ answer' = answer /\ down' = down

LEMMA AttemptsStayTrue ==
  ASSUME ProcessIndInv, AttemptsStay, startup' = "none" <=> startup = "none"
  PROVE  AttemptsAreInOrder' /\ AnswersAreTrue'
<1>1. IsDown' <=> IsDown
  BY DEF IsDown, AttemptsStay
<1> QED BY <1>1 DEF ProcessIndInv, AttemptsStay, AttemptsAreInOrder, AnswersAreTrue

(* A failure: the status becomes failed unless the driver shuts down, and  *)
(* the driver shuts down.                                                  *)
LEMMA FailureKeeps ==
  ASSUME ProcessIndInv, NEW why \in Reasons, FailsWith(why), pc # "created", pc \in EndPlaces => cause
  PROVE  ProcessIndInv'
<1> USE DEF ProcessIndInv
<1>1. Joined
  BY ShutdownJoins DEF FailsWith
<1>2. /\ cause' = TRUE /\ status' = IF IsShuttingDown THEN status ELSE "failed"
      /\ UNCHANGED <<pc, online, lifecycle, signals, final, reported>>
  BY DEF FailsWith, bootVars, endVars
<1>3. ContractTypeOK' /\ AttemptTypeOK'
  BY <1>1, CallsBound DEF Joined, ContractTypeOK, AttemptTypeOK, Calls
<1>4. PlaceTypeOK'
  BY <1>2 DEF PlaceTypeOK, DriverStatuses
<1>5. IsShuttingDown'
  BY <1>2 DEF IsShuttingDown, ShuttingDown
<1>6. BootIsStarting' /\ AbortIsShutdown'
  <2>1. BootIsStarting'
    BY <1>2 DEF BootIsStarting, IsShuttingDown, ShuttingDown
  <2>2. reason' # "none"
    BY <1>1 DEF Joined, Reasons, Signals
  <2> QED BY <1>1, <1>2, <1>5, <2>1, <2>2 DEF Joined, AbortIsShutdown
<1>7. CleanupComesFirst'
  BY <1>1, <1>2 DEF Joined, CleanupComesFirst, IsDown, IsShuttingDown, ShuttingDown
<1>8. FailureIsKept'
  BY <1>1, <1>2 DEF Joined, FailureIsKept, EndPlaces
<1> QED BY <1>1, <1>3, <1>4, <1>6, <1>7, <1>8 DEF Joined

(* Asked to stop, the driver shuts down and says so.                       *)

LEMMA StopIsShutdown ==
  ASSUME ProcessIndInv, status' = StatusAfterShutdown
  PROVE  /\ status' \in DriverStatuses /\ status' \in ShuttingDown
         /\ status' = "stopped" => status = "stopped"
<1>1. current # 0 => aborted
  BY DEF ProcessIndInv, AttemptsAreInOrder, AttemptTypeOK, Calls
<1>2. current # 0 => status \in ShuttingDown
  BY <1>1 DEF ProcessIndInv, AbortIsShutdown, IsShuttingDown
<1> QED BY <1>2 DEF StatusAfterShutdown, ShuttingDown, DriverStatuses, ProcessIndInv, PlaceTypeOK

LEMMA StopKeeps ==
  ASSUME ProcessIndInv, NEW why \in Reasons, JoinsAttempt(why), status' = StatusAfterShutdown,
         pc # "created", pc' = pc \/ (pc = "finalizing" /\ pc' = "retrying"),
         signals' \in SUBSET Signals,
         final' \in [awaited : 0..MaxCalls, retrying : BOOLEAN, failed : BOOLEAN],
         pc \in SettledPlaces => final'.failed = final.failed,
         reported # "none" => final' = final,
         UNCHANGED <<online, lifecycle, cause, reported>>
  PROVE  ProcessIndInv'
<1> USE DEF ProcessIndInv
<1>1. Joined
  BY ShutdownJoins
<1>2. /\ status' \in DriverStatuses /\ status' \in ShuttingDown
      /\ status' = "stopped" => status = "stopped"
  BY StopIsShutdown
<1>3. ContractTypeOK' /\ AttemptTypeOK' /\ PlaceTypeOK'
  BY <1>1, <1>2, CallsBound DEF Joined, ContractTypeOK, AttemptTypeOK, PlaceTypeOK, Calls, Places
<1>4. BootIsStarting'
  BY <1>2 DEF BootIsStarting, BootPlaces
<1>5. AbortIsShutdown'
  BY <1>1, <1>2 DEF Joined, AbortIsShutdown, IsShuttingDown, Reasons, Signals
<1>6. CleanupComesFirst' /\ FailureIsKept'
  BY <1>1, <1>2 DEF Joined, CleanupComesFirst, FailureIsKept, IsDown, EndPlaces, SettledPlaces
<1> QED BY <1>1, <1>3, <1>4, <1>5, <1>6 DEF Joined

LEMMA ShutdownCalled ==
  ASSUME ProcessIndInv,
         SocketCloses \/ HeartbeatFails \/ BackendFails \/ SignalArrives \/ DispatcherShutsDown
  PROVE  ProcessIndInv'
<1> USE DEF ProcessIndInv
<1>1. CASE SocketCloses
  <2>1. pc # "created" /\ (pc \in EndPlaces => cause)
    BY <1>1 DEF SocketCloses, BootIsStarting, AbortIsShutdown
  <2>2. "socket.closed" \in Reasons /\ FailsWith("socket.closed")
    BY <1>1 DEF SocketCloses, Reasons
  <2> QED BY <2>1, <2>2, FailureKeeps
<1>2. CASE HeartbeatFails
  <2>1. pc # "created" /\ pc \notin EndPlaces
    BY <1>2 DEF HeartbeatFails, EndPlaces
  <2>2. "runtime.heartbeat.failed" \in Reasons /\ FailsWith("runtime.heartbeat.failed")
    BY <1>2 DEF HeartbeatFails, Reasons
  <2> QED BY <2>1, <2>2, FailureKeeps
<1>3. CASE BackendFails
  <2>1. pc # "created" /\ pc \notin EndPlaces
    BY <1>3 DEF BackendFails, BootIsStarting, AbortIsShutdown
  <2>2. "driver.backend_failed" \in Reasons /\ FailsWith("driver.backend_failed")
    BY <1>3 DEF BackendFails, Reasons
  <2> QED BY <2>1, <2>2, FailureKeeps
<1>4. CASE SignalArrives
  <2>1. PICK why \in signals :
          /\ pc \notin {"created", "exited"} /\ signals' = signals \ {why}
          /\ status' = StatusAfterShutdown /\ JoinsAttempt(why)
          /\ UNCHANGED <<runVars, bootVars, cause, final, reported>>
    BY <1>4 DEF SignalArrives
  <2>2. why \in Reasons /\ signals' \in SUBSET Signals
    BY <2>1 DEF PlaceTypeOK, Reasons
  <2> QED BY <2>1, <2>2, StopKeeps DEF bootVars, PlaceTypeOK
<1>5. CASE DispatcherShutsDown
  <2>1. "dispatcher" \in Reasons /\ signals' \in SUBSET Signals
    BY <1>5 DEF DispatcherShutsDown, Reasons, PlaceTypeOK, endVars
  <2>2. JoinsAttempt("dispatcher") /\ status' = StatusAfterShutdown /\ pc # "created"
        /\ UNCHANGED <<pc, online, lifecycle, cause, final, reported>>
    BY <1>5 DEF DispatcherShutsDown, bootVars, endVars
  <2> QED BY <2>1, <2>2, StopKeeps DEF PlaceTypeOK
<1> QED BY <1>1, <1>2, <1>3, <1>4, <1>5

(* The attempts themselves: asking the lifecycle, and what its answer made *)
(* of the attempt.                                                         *)
LEMMA PermissionKeeps ==
  ASSUME ProcessIndInv, NEW k \in Calls, PermissionSettles(k)
  PROVE  ProcessIndInv'
<1> USE DEF ProcessIndInv
<1>1. PICK result \in {"ok", "failed"} :
        attempt' = [attempt EXCEPT ![k] = [pc |-> "backend", permission |-> result]]
  BY DEF PermissionSettles
<1>2. /\ attempt[k].pc = "permission" /\ k = current /\ aborted /\ IsShuttingDown
      /\ answer[k] = "idle"
  BY DEF PermissionSettles, AttemptsAreInOrder, AnswersAreTrue, AbortIsShutdown
<1>3. UNCHANGED <<status, pc, online, lifecycle, current, reason, abortReason, cause, pending, signals,
                  final, reported, aborted, startup, down>>
  BY DEF PermissionSettles, runtimeVars, bootVars, endVars, AskShutdown, contractVars
<1>4. \/ lifecycle /\ answer' = [answer EXCEPT ![k] = IF down THEN "resolved" ELSE "waiting"]
      \/ ~lifecycle /\ answer' = answer
  BY DEF PermissionSettles, AskShutdown, contractVars
<1>5. attempt' \in [Calls -> Attempts]
  <2>1. [pc |-> "backend", permission |-> result] \in Attempts
    BY DEF Attempts
  <2> QED BY <1>1, <2>1 DEF AttemptTypeOK
<1>6. \A c \in Calls : attempt'[c].pc = IF c = k THEN "backend" ELSE attempt[c].pc
  BY <1>1 DEF AttemptTypeOK
<1>7. answer' \in [Calls -> {"idle", "waiting", "resolved", "rejected"}]
  BY <1>4 DEF ContractTypeOK
<1>8. \A c \in Calls : answer'[c] = IF c = k /\ lifecycle THEN IF down THEN "resolved" ELSE "waiting"
                                    ELSE answer[c]
  BY <1>4 DEF ContractTypeOK
<1>9. ContractTypeOK' /\ AttemptTypeOK' /\ PlaceTypeOK'
  BY <1>3, <1>5, <1>7 DEF ContractTypeOK, AttemptTypeOK, PlaceTypeOK
<1>10. AttemptsAreInOrder'
  <2>1. PICK n \in 0..MaxCalls : \A c \in Calls : attempt[c].pc # "none" <=> c <= n
    BY DEF AttemptsAreInOrder
  <2>2. \A c \in Calls : attempt'[c].pc # "none" <=> c <= n
    BY <1>2, <1>6, <2>1
  <2> QED BY <1>2, <1>3, <1>6, <2>2 DEF AttemptsAreInOrder
<1>11. AnswersAreTrue'
  <2>1. ~lifecycle => IsDown
    BY DEF CleanupComesFirst
  <2>2. IsDown' <=> IsDown
    BY <1>3 DEF IsDown
  <2> QED BY <1>2, <1>3, <1>6, <1>8, <2>1, <2>2 DEF AnswersAreTrue
<1>12. BootIsStarting' /\ AbortIsShutdown' /\ CleanupComesFirst' /\ FailureIsKept'
  BY <1>3 DEF BootIsStarting, AbortIsShutdown, CleanupComesFirst, FailureIsKept, IsShuttingDown, IsDown
<1> QED BY <1>9, <1>10, <1>11, <1>12

LEMMA AttemptEndKeeps ==
  ASSUME ProcessIndInv, NEW k \in Calls, AttemptEnds(k)
  PROVE  ProcessIndInv'
<1> USE DEF ProcessIndInv
<1>1. attempt[k].pc = "backend" /\ answer[k] # "waiting" /\ k = current /\ aborted /\ IsShuttingDown
  BY DEF AttemptEnds, AttemptsAreInOrder, AbortIsShutdown
<1>2. UNCHANGED <<pc, online, reason, abortReason, cause, pending, signals, final, reported,
                  aborted, startup, answer, down>>
  BY DEF AttemptEnds, endVars, contractVars
<1>3. PICK ended \in {"ok", "failed"} :
        /\ attempt' = [attempt EXCEPT ![k].pc = ended]
        /\ ended = "ok" => IsDown /\ current' = current
        /\ ended = "failed" => current' = 0 /\ lifecycle' = lifecycle
        /\ lifecycle' \in {lifecycle, FALSE} /\ (lifecycle' # lifecycle => ended = "ok")
        /\ \/ status' = status
           \/ status = "stopping" /\ status' = "failed"
           \/ status = "stopping" /\ status' = "stopped" /\ ended = "ok"
  <2>1. CASE Succeeds(k)
    <3>1. IsDown
      BY <1>1, <2>1 DEF Succeeds, AnswersAreTrue, IsDown
    <3> QED BY <2>1, <3>1 DEF AttemptEnds
  <2>2. CASE ~Succeeds(k)
    BY <2>2 DEF AttemptEnds
  <2> QED BY <2>1, <2>2
<1>4. attempt[k] \in Attempts /\ [attempt[k] EXCEPT !.pc = ended] \in Attempts
  <2>1. attempt[k] \in Attempts
    BY DEF AttemptTypeOK
  <2> QED BY <2>1 DEF Attempts
<1>5. attempt' \in [Calls -> Attempts]
  BY <1>3, <1>4 DEF AttemptTypeOK
<1>6. \A c \in Calls : attempt'[c].pc = IF c = k THEN ended ELSE attempt[c].pc
  BY <1>3, <1>4 DEF AttemptTypeOK, Attempts
<1>7. status' \in DriverStatuses /\ status' \in ShuttingDown
  BY <1>1, <1>3 DEF PlaceTypeOK, DriverStatuses, IsShuttingDown, ShuttingDown
<1>8. ContractTypeOK' /\ AttemptTypeOK' /\ PlaceTypeOK'
  <2>1. current' \in 0..MaxCalls
    BY <1>3, CallsBound DEF AttemptTypeOK
  <2>2. lifecycle' \in BOOLEAN
    BY <1>3 DEF PlaceTypeOK
  <2>3. AttemptTypeOK'
    BY <1>2, <1>5, <2>1 DEF AttemptTypeOK
  <2> QED BY <1>2, <1>7, <2>2, <2>3 DEF ContractTypeOK, PlaceTypeOK
<1>9. AttemptsAreInOrder'
  <2>1. PICK n \in 0..MaxCalls : \A c \in Calls : attempt[c].pc # "none" <=> c <= n
    BY DEF AttemptsAreInOrder
  <2>2. \A c \in Calls : attempt'[c].pc # "none" <=> c <= n
    BY <1>1, <1>3, <1>6, <2>1
  <2>3. \A c \in Calls : c = current' <=> attempt'[c].pc \in {"permission", "backend", "ok"}
    BY <1>1, <1>3, <1>6, CallsBound DEF AttemptsAreInOrder, Calls
  <2> QED BY <1>1, <1>2, <2>2, <2>3 DEF AttemptsAreInOrder
<1>10. IsDown' <=> IsDown
  BY <1>2 DEF IsDown
<1>11. AnswersAreTrue'
  BY <1>1, <1>2, <1>3, <1>6, <1>10 DEF AnswersAreTrue
<1>12. BootIsStarting' /\ AbortIsShutdown'
  BY <1>1, <1>2, <1>7 DEF BootIsStarting, AbortIsShutdown, IsShuttingDown, ShuttingDown
<1>13. CleanupComesFirst'
  BY <1>2, <1>3, <1>10 DEF CleanupComesFirst, PlaceTypeOK
<1>14. FailureIsKept'
  BY <1>2 DEF FailureIsKept
<1> QED BY <1>8, <1>9, <1>11, <1>12, <1>13, <1>14

(* run is over: a cause is pending as a failure, and without one the       *)
(* driver was asked to stop.                                               *)
RunIsOver ==
  /\ pc' = "finalizing"
  /\ status' \in DriverStatuses \cap ShuttingDown /\ (status' = "stopped" => status = "stopped")
  /\ cause' \in BOOLEAN /\ pending' \in {"none", "completed", "failed"}
  /\ cause' => pending' = "failed"
  /\ ~cause' => aborted

LEMMA CaughtEnds ==
  ASSUME ProcessIndInv, NEW error, Caught(error)
  PROVE  RunIsOver
<1> USE DEF ProcessIndInv
<1>1. CASE ShutdownAbort(error)
  BY <1>1 DEF Caught, Goes, ShutdownAbort, RunIsOver, PlaceTypeOK, AttemptTypeOK, AbortIsShutdown,
              IsShuttingDown
<1>2. CASE ~ShutdownAbort(error)
  BY <1>2 DEF Caught, Goes, RunIsOver, PlaceTypeOK, Remember, IsShuttingDown, ShuttingDown,
              DriverStatuses
<1> QED BY <1>1, <1>2

LEMMA LeavesEnds ==
  ASSUME ProcessIndInv, IsShuttingDown, Leaves
  PROVE  RunIsOver
<1>1. CASE cause
  BY <1>1, CaughtEnds DEF Leaves
<1>2. CASE ~cause
  BY <1>2 DEF Leaves, Goes, RunIsOver, ProcessIndInv, PlaceTypeOK, AttemptTypeOK, AbortIsShutdown,
              IsShuttingDown
<1> QED BY <1>1, <1>2

LEMMA EndKeeps ==
  ASSUME ProcessIndInv, RunIsOver, AttemptsStay, pc \notin EndPlaces, online' \in BOOLEAN,
         UNCHANGED <<startup, lifecycle, signals, final, reported>>
  PROVE  ProcessIndInv'
<1> USE DEF ProcessIndInv
<1>1. AttemptsAreInOrder' /\ AnswersAreTrue'
  BY AttemptsStayTrue
<1>2. ContractTypeOK' /\ AttemptTypeOK'
  BY DEF ContractTypeOK, AttemptTypeOK, AttemptsStay, RunIsOver
<1>3. PlaceTypeOK'
  BY DEF PlaceTypeOK, RunIsOver, Places
<1>4. BootIsStarting' /\ AbortIsShutdown'
  BY DEF BootIsStarting, AbortIsShutdown, IsShuttingDown, RunIsOver, AttemptsStay, BootPlaces,
         SettledPlaces
<1>5. CleanupComesFirst' /\ FailureIsKept'
  <2>1. reported = "none"
    BY DEF FailureIsKept, EndPlaces
  <2> QED BY <2>1 DEF CleanupComesFirst, FailureIsKept, IsDown, RunIsOver, AttemptsStay,
                      SettledPlaces
<1> QED BY <1>1, <1>2, <1>3, <1>4, <1>5

(* Boot goes on, and with it the loop begins: only while nothing shuts     *)
(* down does the status change.                                            *)
LEMMA BootKeeps ==
  ASSUME ProcessIndInv, AttemptsStay, pc \notin EndPlaces, pc' \in BootPlaces \cup {"dispatching"},
         online' \in BOOLEAN, status' \in DriverStatuses,
         pc' \in BootPlaces => status' \in {"starting"} \cup ShuttingDown,
         status' # status => ~IsShuttingDown /\ ~IsShuttingDown',
         UNCHANGED <<startup, lifecycle, cause, pending, signals, final, reported>>
  PROVE  ProcessIndInv'
<1> USE DEF ProcessIndInv
<1>1. AttemptsAreInOrder' /\ AnswersAreTrue'
  BY AttemptsStayTrue
<1>2. ContractTypeOK' /\ AttemptTypeOK'
  BY DEF ContractTypeOK, AttemptTypeOK, AttemptsStay
<1>3. PlaceTypeOK'
  BY DEF PlaceTypeOK, Places, BootPlaces
<1>4. BootIsStarting'
  BY DEF BootIsStarting, BootPlaces
<1>5. IsShuttingDown' <=> IsShuttingDown
  BY DEF IsShuttingDown
<1>6. AbortIsShutdown'
  BY <1>5 DEF AbortIsShutdown, AttemptsStay, BootPlaces, EndPlaces, SettledPlaces
<1>7. CleanupComesFirst' /\ FailureIsKept'
  <2>1. reported = "none" /\ (status' = "stopped" => status = "stopped")
    BY <1>5 DEF FailureIsKept, EndPlaces, IsShuttingDown, ShuttingDown
  <2> QED BY <2>1 DEF CleanupComesFirst, FailureIsKept, IsDown, AttemptsStay, BootPlaces, EndPlaces,
                      SettledPlaces
<1> QED BY <1>1, <1>2, <1>3, <1>4, <1>6, <1>7

LEMMA BootSteps ==
  ASSUME ProcessIndInv, Boot \/ Connect \/ Hello \/ LoadFails \/ Started \/ Ready \/ LoopEnds
  PROVE  ProcessIndInv'
<1> USE DEF ProcessIndInv
<1>1. pc \notin EndPlaces
  BY DEF Boot, Connect, Hello, LoadFails, Started, Ready, LoopEnds, EndPlaces
<1>2. AttemptsStay /\ UNCHANGED <<startup, lifecycle, signals, final, reported>>
  BY DEF Boot, Connect, Hello, LoadFails, Started, Ready, LoopEnds, Quietly, contractVars, endVars,
         AttemptsStay
<1>3. online' \in BOOLEAN
  BY DEF Boot, Connect, Hello, LoadFails, Started, Ready, LoopEnds, ContractTypeOK, PlaceTypeOK
<1>4. ASSUME RunIsOver PROVE ProcessIndInv'
  BY <1>1, <1>2, <1>3, <1>4, EndKeeps
<1>5. ASSUME status' = status, pc' \in BootPlaces \cup {"dispatching"},
             pc' \in BootPlaces => pc \in BootPlaces, UNCHANGED <<cause, pending>>
      PROVE  ProcessIndInv'
  <2>1. status' \in DriverStatuses /\ (pc' \in BootPlaces => status' \in {"starting"} \cup ShuttingDown)
    BY <1>5 DEF PlaceTypeOK, BootIsStarting
  <2> QED BY <1>1, <1>2, <1>3, <1>5, <2>1, BootKeeps
<1>6. CASE Boot
  <2>1. /\ pc' \in BootPlaces /\ status' = "starting" /\ status = "created"
        /\ UNCHANGED <<cause, pending>>
    BY <1>6 DEF Boot, Goes, Enter, BootPlaces, BootIsStarting
  <2>2. ~IsShuttingDown /\ ~IsShuttingDown' /\ status' \in DriverStatuses
    BY <2>1 DEF IsShuttingDown, ShuttingDown, DriverStatuses
  <2> QED BY <1>1, <1>2, <1>3, <2>1, <2>2, BootKeeps
<1>7. CASE Connect
  <2>1. CASE Goes("hello") /\ UNCHANGED <<cause, pending, status>>
    BY <1>5, <1>7, <2>1 DEF Connect, Goes, BootPlaces
  <2>2. CASE Caught(abortReason) \/ \E error \in Errors : Caught(error)
    BY <1>4, <2>2, CaughtEnds
  <2> QED BY <1>7, <2>1, <2>2 DEF Connect
<1>8. CASE Hello
  <2>1. CASE Goes("loading") /\ UNCHANGED <<cause, pending, status>>
    BY <1>5, <1>8, <2>1 DEF Hello, Goes, BootPlaces
  <2>2. CASE Caught(abortReason) \/ \E error \in RpcErrors : Caught(error)
    BY <1>4, <2>2, CaughtEnds
  <2> QED BY <1>8, <2>1, <2>2 DEF Hello
<1>9. CASE LoadFails
  BY <1>4, <1>9, CaughtEnds DEF LoadFails
<1>10. CASE Started
  <2>1. CASE ~IsShuttingDown /\ Goes("ready") /\ UNCHANGED <<cause, pending, status>>
    BY <1>5, <1>10, <2>1 DEF Started, Goes, BootPlaces
  <2>2. CASE IsShuttingDown /\ Leaves
    BY <1>4, <2>2, LeavesEnds
  <2>3. CASE \E error \in Errors : Caught(error)
    BY <1>4, <2>3, CaughtEnds
  <2> QED BY <1>10, <2>1, <2>2, <2>3 DEF Started, Continues
<1>11. CASE Ready
  <2>1. CASE ~IsShuttingDown /\ Goes("dispatching") /\ status' = "ready" /\ UNCHANGED <<cause, pending>>
    <3>1. ~IsShuttingDown' /\ status' \in DriverStatuses /\ pc' = "dispatching" /\ pc' \notin BootPlaces
      BY <2>1 DEF IsShuttingDown, ShuttingDown, DriverStatuses, Goes, BootPlaces
    <3> QED BY <1>1, <1>2, <1>3, <2>1, <3>1, BootKeeps
  <2>2. CASE IsShuttingDown /\ Leaves
    BY <1>4, <2>2, LeavesEnds
  <2>3. CASE \E error \in RpcErrors : Caught(error)
    BY <1>4, <2>3, CaughtEnds
  <2> QED BY <1>11, <2>1, <2>2, <2>3 DEF Ready
<1>12. CASE LoopEnds
  <2>1. CASE Leaves
    BY <1>4, <1>12, <2>1, LeavesEnds DEF LoopEnds, LoopIsOver
  <2>2. CASE \E error \in Errors : Caught(error)
    BY <1>4, <2>2, CaughtEnds
  <2> QED BY <1>12, <2>1, <2>2 DEF LoopEnds
<1> QED BY <1>6, <1>7, <1>8, <1>9, <1>10, <1>11, <1>12

(* The backend is asked to start only while nobody has shut the driver     *)
(* down, so no attempt has been begun that would not ask it to go down.    *)
LEMMA LoadKeeps ==
  ASSUME ProcessIndInv, Load
  PROVE  ProcessIndInv'
<1> USE DEF ProcessIndInv
<1>1. pc \notin EndPlaces /\ online' = online
  BY DEF Load, EndPlaces
<1>2. CASE IsShuttingDown
  <2>1. AttemptsStay /\ UNCHANGED <<startup, lifecycle, signals, final, reported>> /\ Leaves
    BY <1>2 DEF Load, contractVars, endVars, AttemptsStay
  <2> QED BY <1>1, <1>2, <2>1, LeavesEnds, EndKeeps DEF PlaceTypeOK
<1>3. CASE ~IsShuttingDown
  <2>1. /\ pc = "loading" /\ pc' = "backend" /\ lifecycle' = TRUE /\ startup' = "waiting"
        /\ UNCHANGED <<status, attempt, current, reason, abortReason, aborted, answer, down, cause,
                       pending, signals, final, reported>>
    BY <1>3 DEF Load, Goes, AskStart, endVars
  <2>2. ~aborted /\ \A k \in Calls : attempt[k].pc = "none" /\ answer[k] = "idle"
    BY <1>3 DEF AbortIsShutdown, AttemptsAreInOrder, AnswersAreTrue
  <2>3. AttemptsAreInOrder' /\ AnswersAreTrue'
    BY <2>1, <2>2 DEF AttemptsAreInOrder, AnswersAreTrue
  <2>4. ContractTypeOK' /\ AttemptTypeOK' /\ PlaceTypeOK'
    BY <1>1, <2>1 DEF ContractTypeOK, AttemptTypeOK, PlaceTypeOK, Places
  <2>5. BootIsStarting' /\ AbortIsShutdown'
    BY <1>3, <2>1, <2>2 DEF BootIsStarting, AbortIsShutdown, IsShuttingDown, BootPlaces, EndPlaces,
                            SettledPlaces
  <2>6. CleanupComesFirst' /\ FailureIsKept'
    <3>1. reported = "none" /\ status # "stopped"
      BY <1>1, <1>3 DEF FailureIsKept, EndPlaces, IsShuttingDown, ShuttingDown
    <3> QED BY <2>1, <3>1 DEF CleanupComesFirst, FailureIsKept, EndPlaces, SettledPlaces
  <2> QED BY <2>3, <2>4, <2>5, <2>6
<1> QED BY <1>2, <1>3

(* finalize awaits the attempt there is, begins one, and begins another.   *)
LEMMA FinalizeCalls ==
  ASSUME ProcessIndInv, FinalizeBegins \/ FinalizeRetries
  PROVE  ProcessIndInv'
<1> USE DEF ProcessIndInv
<1>1. /\ JoinsAttempt(ClosedReason) /\ status' = StatusAfterShutdown
      /\ pc = "finalizing" /\ (pc' = pc \/ pc' = "retrying")
      /\ UNCHANGED <<online, lifecycle, cause, signals, reported>>
  BY DEF FinalizeBegins, FinalizeRetries, bootVars, Goes
<1>2. \E waits \in BOOLEAN : final' = [final EXCEPT !.awaited = Awaited, !.retrying = waits]
  BY DEF FinalizeBegins, FinalizeRetries, ContractTypeOK
<1>3. Awaited \in 0..MaxCalls
  BY <1>1 DEF Awaited, JoinsAttempt, BeginsAttempt, AttemptTypeOK, Calls
<1>4. final' \in [awaited : 0..MaxCalls, retrying : BOOLEAN, failed : BOOLEAN]
  BY <1>2, <1>3 DEF PlaceTypeOK
<1>5. ClosedReason \in Reasons
  BY DEF ClosedReason, AttemptTypeOK, Reasons
<1>6. reported = "none" /\ pc \notin SettledPlaces /\ pc # "created"
  BY <1>1 DEF FailureIsKept, SettledPlaces
<1> QED BY <1>1, <1>4, <1>5, <1>6, StopKeeps DEF PlaceTypeOK

LEMMA FinalizeEnds ==
  ASSUME ProcessIndInv, FinalizeSettles \/ Reports \/ Exits
  PROVE  ProcessIndInv'
<1> USE DEF ProcessIndInv
<1>1. /\ UNCHANGED <<status, online, lifecycle, cause, pending>> /\ startup' = startup
      /\ UNCHANGED <<aborted, answer, down, attempt, current, abortReason>>
      /\ pc \in EndPlaces /\ pc' \in SettledPlaces
  BY DEF FinalizeSettles, Reports, Exits, runtimeVars, contractVars, Goes, EndPlaces, SettledPlaces
<1>2. reason' = reason \/ reason' = "driver.runtime_failed"
  BY DEF FinalizeSettles, Reports, Exits
<1>3. \/ pc \in SettledPlaces
      \/ final.awaited \in Calls /\ attempt[final.awaited].pc # "none"
  <2>1. CASE FinalizeSettles
    BY <2>1, CallsBound DEF FinalizeSettles, PlaceTypeOK, Calls
  <2>2. CASE Reports \/ Exits
    BY <2>2 DEF Reports, Exits, SettledPlaces
  <2> QED BY <2>1, <2>2
<1>4. aborted /\ IsShuttingDown
  BY <1>3 DEF AttemptsAreInOrder, AbortIsShutdown
<1>5. IsDown' <=> IsDown
  BY <1>1 DEF IsDown
<1>6. AttemptsAreInOrder' /\ AnswersAreTrue'
  BY <1>1, <1>5 DEF AttemptsAreInOrder, AnswersAreTrue
<1>7. ContractTypeOK' /\ AttemptTypeOK'
  <2>1. reason' \in Reasons \cup {"none"}
    BY <1>2 DEF AttemptTypeOK, Reasons
  <2> QED BY <1>1, <2>1 DEF ContractTypeOK, AttemptTypeOK
<1>8. BootIsStarting' /\ AbortIsShutdown'
  BY <1>1, <1>2, <1>4 DEF BootIsStarting, AbortIsShutdown, IsShuttingDown, BootPlaces, SettledPlaces
<1>9. CASE FinalizeSettles
  <2>1. /\ final' = [final EXCEPT !.failed = (attempt[final.awaited].pc = "failed")]
        /\ UNCHANGED <<signals, reported>> /\ pc \in {"finalizing", "retrying"} /\ pc' = "reporting"
        /\ attempt[final.awaited].pc \in {"ok", "failed"} /\ final.awaited \in Calls
    BY <1>9, CallsBound DEF FinalizeSettles, Goes, PlaceTypeOK, Calls
  <2>2. final' \in [awaited : 0..MaxCalls, retrying : BOOLEAN, failed : BOOLEAN]
    BY <2>1 DEF PlaceTypeOK
  <2>3. final'.failed = (attempt[final.awaited].pc = "failed")
    BY <2>1 DEF PlaceTypeOK
  <2>4. ~final'.failed => IsDown
    BY <2>1, <2>3 DEF AnswersAreTrue
  <2>5. PlaceTypeOK'
    BY <1>1, <2>1, <2>2 DEF PlaceTypeOK, Places
  <2>6. CleanupComesFirst' /\ FailureIsKept'
    BY <1>1, <1>5, <2>1, <2>4 DEF CleanupComesFirst, FailureIsKept, EndPlaces
  <2> QED BY <1>6, <1>7, <1>8, <2>5, <2>6
<1>10. CASE Reports
  <2>1. /\ pc = "reporting" /\ pc' = "closing" /\ UNCHANGED <<signals, final>>
        /\ reported' = IF final.failed \/ (pending = "failed" /\ ~online) THEN "none" ELSE pending
    BY <1>10 DEF Reports, Goes
  <2>2. PlaceTypeOK'
    BY <1>1, <2>1 DEF PlaceTypeOK, AttemptTypeOK, Places
  <2>3. CleanupComesFirst' /\ FailureIsKept'
    BY <1>1, <1>5, <2>1 DEF CleanupComesFirst, FailureIsKept, EndPlaces, SettledPlaces
  <2> QED BY <1>6, <1>7, <1>8, <2>2, <2>3
<1>11. CASE Exits
  <2>1. pc = "closing" /\ pc' = "exited" /\ UNCHANGED <<final, reported>> /\ signals' = {}
    BY <1>11 DEF Exits, Goes
  <2>2. PlaceTypeOK'
    BY <1>1, <2>1 DEF PlaceTypeOK, Places
  <2>3. CleanupComesFirst' /\ FailureIsKept'
    BY <1>1, <1>5, <2>1 DEF CleanupComesFirst, FailureIsKept, EndPlaces, SettledPlaces
  <2> QED BY <1>6, <1>7, <1>8, <2>2, <2>3
<1> QED BY <1>9, <1>10, <1>11

(* The dispatcher's steps: none shuts the driver down, and a run that      *)
(* fails makes its cause and its failure in one step.                      *)
LEMMA DispatcherKeeps ==
  ASSUME ProcessIndInv, RunBegins \/ RunEnds \/ ApprovalBegins \/ ApprovalEnds \/ RunFails
  PROVE  ProcessIndInv'
<1> USE DEF ProcessIndInv
<1>1. CASE RunFails
  <2>1. /\ pc = "dispatching" /\ cause' = TRUE /\ pending' = "failed"
        /\ status' = status \/ status' = IF IsShuttingDown THEN status ELSE "failed"
        /\ UNCHANGED <<pc, online, lifecycle, signals, final, reported, attempt, current, reason,
                       abortReason, aborted, startup, answer, down>>
    BY <1>1 DEF RunFails, contractVars, bootVars, endVars, Remember
  <2>2. AttemptsAreInOrder' /\ AnswersAreTrue'
    BY <2>1, AttemptsStayTrue DEF AttemptsStay
  <2>3. ContractTypeOK' /\ AttemptTypeOK' /\ PlaceTypeOK'
    BY <2>1 DEF ContractTypeOK, AttemptTypeOK, PlaceTypeOK, DriverStatuses
  <2>4. BootIsStarting' /\ AbortIsShutdown'
    BY <2>1 DEF BootIsStarting, AbortIsShutdown, IsShuttingDown, ShuttingDown, BootPlaces, EndPlaces,
                SettledPlaces
  <2>5. CleanupComesFirst' /\ FailureIsKept'
    BY <2>1 DEF CleanupComesFirst, FailureIsKept, IsDown, EndPlaces, SettledPlaces
  <2> QED BY <2>2, <2>3, <2>4, <2>5
<1>2. CASE RunBegins \/ RunEnds \/ ApprovalBegins \/ ApprovalEnds
  <2>1. UNCHANGED <<contractVars, processVars>>
    BY <1>2 DEF RunBegins, RunEnds, ApprovalBegins, ApprovalEnds, UnchangedByRuns
  <2>2. /\ UNCHANGED <<pc, online, lifecycle, signals, final, reported, attempt, current, reason,
                       abortReason, cause, pending, aborted, startup, answer, down>>
    BY <2>1 DEF contractVars, processVars
  <2>3. \/ status' = status
        \/ /\ status \in {"ready", "running", "needs_approval"}
           /\ status' \in {"ready", "running", "needs_approval"}
    BY <1>2 DEF RunBegins, RunEnds, ApprovalBegins, ApprovalEnds, EnterRun, EndRun, BeginApproval,
                EndApproval, MayEnter, Transitions, PlaceTypeOK, DriverStatuses
  <2>4. IsShuttingDown' <=> IsShuttingDown
    BY <2>3 DEF IsShuttingDown, ShuttingDown
  <2>5. AttemptsAreInOrder' /\ AnswersAreTrue'
    BY <2>2, AttemptsStayTrue DEF AttemptsStay
  <2>6. ContractTypeOK' /\ AttemptTypeOK' /\ PlaceTypeOK'
    BY <2>2, <2>3 DEF ContractTypeOK, AttemptTypeOK, PlaceTypeOK, DriverStatuses
  <2>7. BootIsStarting' /\ AbortIsShutdown'
    BY <2>2, <2>3, <2>4 DEF BootIsStarting, AbortIsShutdown, ShuttingDown
  <2>8. CleanupComesFirst' /\ FailureIsKept'
    BY <2>2, <2>3 DEF CleanupComesFirst, FailureIsKept, IsDown
  <2> QED BY <2>5, <2>6, <2>7, <2>8
<1> QED BY <1>1, <1>2

(* What the lifecycle does by itself: down is for good, and no shutdown is *)
(* answered well without it.                                               *)
LEMMA LifecycleKeeps ==
  ASSUME ProcessIndInv, LifecycleStep
  PROVE  ProcessIndInv'
<1> USE DEF ProcessIndInv
<1>1. UNCHANGED <<status, pc, online, lifecycle, attempt, current, reason, abortReason, cause, pending,
                  signals, final, reported>>
  BY DEF LifecycleStep, runtimeVars, processVars
<1>2. /\ aborted' = aborted /\ (down => down') /\ down' \in BOOLEAN
      /\ \/ startup' = startup
         \/ startup = "waiting" /\ startup' \in {"resolved", "rejected"}
  BY DEF LifecycleStep, AnswerStart, GoesDown, AnswerShutdown, ContractTypeOK
<1>3. \/ answer' = answer
      \/ \E k \in Calls : /\ answer[k] = "waiting"
                          /\ \E to \in {"resolved", "rejected"} :
                               (to = "resolved" => down) /\ answer' = [answer EXCEPT ![k] = to]
  BY DEF LifecycleStep, AnswerStart, GoesDown, AnswerShutdown
<1>4. /\ answer' \in [Calls -> {"idle", "waiting", "resolved", "rejected"}]
      /\ \A k \in Calls : /\ answer'[k] = "idle" <=> answer[k] = "idle"
                          /\ answer'[k] = "resolved" => answer[k] = "resolved" \/ down
  BY <1>3 DEF ContractTypeOK
<1>5. IsDown => IsDown'
  BY <1>2 DEF IsDown
<1>6. ContractTypeOK' /\ AttemptTypeOK' /\ PlaceTypeOK'
  BY <1>1, <1>2, <1>4 DEF ContractTypeOK, AttemptTypeOK, PlaceTypeOK
<1>7. BootIsStarting' /\ AbortIsShutdown'
  BY <1>1, <1>2 DEF BootIsStarting, AbortIsShutdown, IsShuttingDown
<1>8. AttemptsAreInOrder'
  BY <1>1, <1>2 DEF AttemptsAreInOrder
<1>9. AnswersAreTrue'
  BY <1>1, <1>2, <1>4, <1>5 DEF AnswersAreTrue
<1>10. CleanupComesFirst' /\ FailureIsKept'
  BY <1>1, <1>5 DEF CleanupComesFirst, FailureIsKept
<1> QED BY <1>6, <1>7, <1>8, <1>9, <1>10

LEMMA ProcessInductive == ProcessSpec => []ProcessIndInv
<1>1. ASSUME ProcessIndInv, [ProcessNext]_vars PROVE ProcessIndInv'
  <2>1. CASE Boot \/ Connect \/ Hello \/ LoadFails \/ Started \/ Ready \/ LoopEnds
    BY <1>1, <2>1, BootSteps
  <2>2. CASE Load
    BY <1>1, <2>2, LoadKeeps
  <2>3. CASE FinalizeBegins \/ FinalizeRetries
    BY <1>1, <2>3, FinalizeCalls
  <2>4. CASE FinalizeSettles \/ Reports \/ Exits
    BY <1>1, <2>4, FinalizeEnds
  <2>5. CASE \E k \in Calls : PermissionSettles(k) \/ AttemptEnds(k)
    BY <1>1, <2>5, PermissionKeeps, AttemptEndKeeps
  <2>6. CASE SocketCloses \/ HeartbeatFails \/ BackendFails \/ SignalArrives \/ DispatcherShutsDown
    BY <1>1, <2>6, ShutdownCalled
  <2>7. CASE RunBegins \/ RunEnds \/ ApprovalBegins \/ ApprovalEnds \/ RunFails
    BY <1>1, <2>7, DispatcherKeeps
  <2>8. CASE LifecycleStep
    BY <1>1, <2>8, LifecycleKeeps
  <2>9. CASE UNCHANGED vars
    <3>1. UNCHANGED <<status, pc, online, lifecycle, attempt, current, reason, abortReason, cause,
                      pending, signals, final, reported, aborted, startup, answer, down>>
      BY <2>9 DEF vars, runtimeVars, contractVars, processVars
    <3> QED BY <1>1, <3>1 DEF ProcessIndInv, ContractTypeOK, AttemptTypeOK, PlaceTypeOK, BootIsStarting,
              AbortIsShutdown, AttemptsAreInOrder, AnswersAreTrue, CleanupComesFirst, FailureIsKept,
              IsShuttingDown, IsDown
  <2> QED BY <1>1, <2>1, <2>2, <2>3, <2>4, <2>5, <2>6, <2>7, <2>8, <2>9 DEF ProcessNext
<1> QED BY <1>1, ProcessInvInit, PTL DEF ProcessSpec

(* A driver says stopped, or how its run ended, only when what it started  *)
(* is down; it says completed only if nothing failed; and a failure it can *)
(* report it reports: for any number of attempts, runs and approvals.      *)
THEOREM ReportsAreTrue == ProcessSpec => []ReportIsTrue
  BY ProcessInductive, ProcessInvImplies, PTL

-----------------------------------------------------------------------------
(* The status of the process is the status machine's                       *)

(* Every step of the process is one of the runtime state machine, or none: *)
(* the process never takes a transition the table does not list.           *)
LEMMA ProcessStepsMachine ==
  ASSUME ProcessIndInv, [ProcessNext]_vars
  PROVE  [RuntimeNext]_runtimeVars
<1> USE DEF ProcessIndInv
<1> DEFINE Fixed == UNCHANGED <<runGeneration, activeApprovals, lastGeneration, held>>
<1>1. ASSUME Fixed, status' = status PROVE UNCHANGED runtimeVars
  BY <1>1 DEF runtimeVars
<1>2. ASSUME Fixed, ~IsShuttingDown, status' = "failed" PROVE RuntimeNext
  BY <1>2 DEF RuntimeNext, Enter, MayEnter, Transitions, IsShuttingDown, ShuttingDown, PlaceTypeOK,
              DriverStatuses
<1>3. ASSUME Fixed, status' = IF IsShuttingDown THEN status ELSE "failed" PROVE [RuntimeNext]_runtimeVars
  BY <1>1, <1>2, <1>3
<1>4. ASSUME Fixed, status' = StatusAfterShutdown PROVE [RuntimeNext]_runtimeVars
  <2>1. CASE status' = status
    BY <1>1, <1>4, <2>1
  <2>2. CASE status' = "stopping" /\ status \notin {"failed", "stopped"}
    BY <1>4, <2>2 DEF RuntimeNext, Enter, MayEnter, Transitions, PlaceTypeOK, DriverStatuses
  <2> QED BY <1>4, <2>1, <2>2 DEF StatusAfterShutdown
<1>5. ASSUME Fixed, NEW error, Caught(error) PROVE [RuntimeNext]_runtimeVars
  BY <1>1, <1>3, <1>5 DEF Caught
<1>6. ASSUME Fixed, Leaves PROVE [RuntimeNext]_runtimeVars
  BY <1>1, <1>5, <1>6 DEF Leaves
<1>7. CASE Boot
  BY <1>7 DEF Boot, RuntimeNext
<1>8. CASE Connect \/ Hello \/ Load \/ LoadFails \/ Started \/ LoopEnds
  <2>1. Fixed
    BY <1>8 DEF Connect, Hello, Load, LoadFails, Started, LoopEnds, runVars
  <2>2. Leaves \/ (\E error : Caught(error)) \/ status' = status
    BY <1>8 DEF Connect, Hello, Load, LoadFails, Started, LoopEnds, Continues
  <2> QED BY <1>1, <1>5, <1>6, <2>1, <2>2
<1>9. CASE Ready
  <2>1. Fixed
    BY <1>9 DEF Ready, runVars
  <2>2. CASE ~IsShuttingDown /\ status' = "ready"
    <3>1. status = "starting"
      BY <1>9, <2>2 DEF Ready, BootIsStarting, BootPlaces, IsShuttingDown
    <3> QED BY <2>1, <2>2, <3>1 DEF RuntimeNext, Enter, MayEnter, Transitions
  <2>3. CASE Leaves \/ \E error : Caught(error)
    BY <1>5, <1>6, <2>1, <2>3
  <2> QED BY <1>9, <2>2, <2>3 DEF Ready
<1>10. CASE FinalizeBegins \/ FinalizeRetries \/ SignalArrives \/ DispatcherShutsDown
  <2>1. Fixed /\ status' = StatusAfterShutdown
    BY <1>10 DEF FinalizeBegins, FinalizeRetries, SignalArrives, DispatcherShutsDown, runVars
  <2> QED BY <1>4, <2>1
<1>11. CASE SocketCloses \/ HeartbeatFails \/ BackendFails
  <2>1. Fixed /\ status' = IF IsShuttingDown THEN status ELSE "failed"
    BY <1>11 DEF SocketCloses, HeartbeatFails, BackendFails, FailsWith, runVars
  <2> QED BY <1>3, <2>1
<1>12. CASE RunFails
  <2>1. Fixed /\ status' \in {status, IF IsShuttingDown THEN status ELSE "failed"}
    BY <1>12 DEF RunFails, runVars
  <2> QED BY <1>1, <1>3, <2>1
<1>13. ASSUME NEW k \in Calls, AttemptEnds(k) PROVE [RuntimeNext]_runtimeVars
  <2>1. Fixed
    BY <1>13 DEF AttemptEnds, runVars
  <2>2. CASE status = "stopping" /\ status' \in {"stopped", "failed"}
    BY <2>1, <2>2 DEF RuntimeNext, Enter, MayEnter, Transitions
  <2>3. CASE status' = status
    BY <1>1, <2>1, <2>3
  <2> QED BY <1>13, <2>2, <2>3 DEF AttemptEnds
<1>14. CASE RunBegins \/ RunEnds \/ ApprovalBegins \/ ApprovalEnds
  BY <1>14 DEF RunBegins, RunEnds, ApprovalBegins, ApprovalEnds, RuntimeNext
<1>15. CASE \/ FinalizeSettles \/ Reports \/ Exits \/ LifecycleStep
            \/ \E k \in Calls : PermissionSettles(k)
  BY <1>15 DEF FinalizeSettles, Reports, Exits, LifecycleStep, PermissionSettles
<1>16. CASE UNCHANGED vars
  BY <1>16 DEF vars
<1> QED BY <1>7, <1>8, <1>9, <1>10, <1>11, <1>12, <1>13, <1>14, <1>15, <1>16 DEF ProcessNext

(* Boot, the failures, the signals and the dispatcher drive the runtime    *)
(* state machine only along its table.                                     *)
THEOREM ProcessDrivesMachine == ProcessSpec => RuntimeSpec
<1>1. ProcessInit => RuntimeInit
  BY DEF ProcessInit
<1> QED BY <1>1, ProcessInductive, ProcessStepsMachine, PTL DEF ProcessSpec, RuntimeSpec

(* So the status the process reports is that of the run that owns it, and  *)
(* a driver that shuts down never works again.                             *)
THEOREM ProcessOwnerIsTrue == ProcessSpec => []OwnerIsTrue
  BY ProcessDrivesMachine, OwnerIsReported, PTL
(* A process that has begun to shut down is never ready or busy again.     *)
THEOREM ProcessNeverReopens == ProcessSpec => NeverReopens
  BY ProcessDrivesMachine, ShutdownIsFinal, PTL
=============================================================================
