----------------------------- MODULE RuntimeState -----------------------------
(***************************************************************************)
(* DriverRuntimeStateMachine (core/driver-runtime-state.ts): the status of *)
(* the driver, the generation of the run that owns it and the number of    *)
(* approvals that run is waiting for.  A caller of beginApproval keeps the *)
(* generation it was given and presents it once, in a finally block, to    *)
(* endApproval, possibly after its run was over.  enter throws on a        *)
(* transition the table does not list: such a call is not a step.          *)
(***************************************************************************)
EXTENDS Integers

CONSTANTS
  MaxGeneration,           \* bound on the runs begun (the code has none)
  MaxHeld                  \* bound on the approvals a run waits for at a time

ASSUME RuntimeBounds == MaxGeneration \in Nat /\ MaxHeld \in Nat

VARIABLES
  status,                  \* #status
  runGeneration,           \* #activeRunGeneration, 0 for null
  activeApprovals,         \* #activeApprovals
  lastGeneration,          \* the dispatcher's #activeRunGeneration: a counter
  held                     \* history: generation |-> approvals begun and not ended

runtimeVars == <<status, runGeneration, activeApprovals, lastGeneration, held>>

DriverStatuses == {"created", "starting", "ready", "running", "needs_approval",
                   "stopping", "stopped", "failed"}
ShuttingDown == {"stopping", "stopped", "failed"}

Transitions == [
  created |-> {"starting", "failed", "stopping"},
  starting |-> {"ready", "failed", "stopping"},
  ready |-> {"running", "failed", "stopping"},
  running |-> {"needs_approval", "ready", "failed", "stopping"},
  needs_approval |-> {"running", "ready", "failed", "stopping"},
  stopping |-> {"failed", "stopped"},
  stopped |-> {"failed"},
  failed |-> {}]

MayEnter(from, next) == next = from \/ next \in Transitions[from]

RuntimeInit ==
  /\ status = "created"
  /\ runGeneration = 0
  /\ activeApprovals = 0
  /\ lastGeneration = 0
  /\ held = [g \in 1..MaxGeneration |-> 0]

(* enter, as the process and the dispatcher call it. *)
Enter(next) ==
  /\ MayEnter(status, next)
  /\ status' = next
  /\ UNCHANGED <<runGeneration, activeApprovals, lastGeneration, held>>

EnterRun ==
  /\ MayEnter(status, "running")
  /\ status' = "running"
  /\ lastGeneration' = lastGeneration + 1
  /\ runGeneration' = lastGeneration + 1
  /\ activeApprovals' = 0
  /\ UNCHANGED held

(* Mutant: the run ends but keeps the driver. *)
EndRunOwned(g) ==
  /\ runGeneration = g
  /\ activeApprovals' = 0
  /\ status' = IF status \in {"running", "needs_approval"} THEN "ready" ELSE status
  /\ UNCHANGED <<runGeneration, lastGeneration, held>>

(* endRun: a generation that no longer owns the driver changes nothing. *)
EndRun(g) ==
  /\ runGeneration = g
  /\ runGeneration' = 0
  /\ activeApprovals' = 0
  /\ status' = IF status \in {"running", "needs_approval"} THEN "ready" ELSE status
  /\ UNCHANGED <<lastGeneration, held>>

(* A call that returns null gives its caller nothing to end. *)
BeginApproval ==
  /\ runGeneration # 0
  /\ status \in {"running", "needs_approval"}
  /\ activeApprovals' = activeApprovals + 1
  /\ status' = "needs_approval"
  /\ held' = [held EXCEPT ![runGeneration] = @ + 1]
  /\ UNCHANGED <<runGeneration, lastGeneration>>

(* Mutant: the approval of any run is subtracted from the current count. *)
CountsAlways(g) == TRUE

Counts(g) == runGeneration = g

EndApproval(g) ==
  /\ held[g] > 0
  /\ held' = [held EXCEPT ![g] = @ - 1]
  /\ activeApprovals' = IF Counts(g) THEN activeApprovals - 1 ELSE activeApprovals
  /\ status' = IF Counts(g) /\ activeApprovals = 1 /\ status = "needs_approval"
               THEN "running" ELSE status
  /\ UNCHANGED <<runGeneration, lastGeneration>>

RuntimeNext ==
  \/ \E next \in {"starting", "failed", "stopping", "stopped"} : Enter(next)
  \/ status = "starting" /\ Enter("ready")
  \/ lastGeneration < MaxGeneration /\ EnterRun
  \/ \E g \in 1..MaxGeneration : EndRun(g) \/ EndApproval(g)
  \/ runGeneration # 0 /\ held[runGeneration] < MaxHeld /\ BeginApproval

RuntimeSpec == RuntimeInit /\ [][RuntimeNext]_runtimeVars

-----------------------------------------------------------------------------
RuntimeTypeOK ==
  /\ status \in DriverStatuses
  /\ lastGeneration \in 0..MaxGeneration
  /\ runGeneration \in 0..lastGeneration
  /\ activeApprovals \in Nat
  /\ held \in [1..MaxGeneration -> Nat]

(* The driver needs an approval exactly while the run that owns it has one *)
(* outstanding, whichever approvals of earlier runs end late.              *)
ApprovalsAreOfTheRun ==
  /\ runGeneration # 0 => activeApprovals = held[runGeneration]
  /\ status = "needs_approval" => activeApprovals > 0
  /\ status = "running" => activeApprovals = 0

(* A working driver is owned by a run, an idle one by none: a late endRun  *)
(* of an earlier generation cannot make a busy driver look ready.          *)
BusyMeansOwned ==
  /\ status \in {"running", "needs_approval"} => runGeneration # 0
  /\ status = "ready" => runGeneration = 0

(* A driver that is shutting down never works again. *)
NeverReopens == [][(status \in ShuttingDown) => (status' \in ShuttingDown)]_status

(* The status the control plane sees is that of the run that owns the      *)
(* driver, with the approvals of that run.                                 *)
OwnerIsTrue == ApprovalsAreOfTheRun /\ BusyMeansOwned
=============================================================================
