----------------------------- MODULE ProcessTree -----------------------------
(***************************************************************************)
(* The agents the driver spawns, and what they spawn in turn, carry a      *)
(* marker in their environment.  Once a tree's root has exited, the driver *)
(* kills every marked process it finds in /proc, again and again, and      *)
(* waits until two scans in a row have found none.  A supervisor process   *)
(* does the same for everything the driver owned once the driver itself is *)
(* gone.  A scan lists the pids and then reads them one by one while the   *)
(* processes fork, exit and are replaced: a process is known by its pid    *)
(* and its start time, here the process itself.                            *)
(***************************************************************************)
EXTENDS Naturals

CONSTANTS PsOwned,      \* "root" and the processes of its tree, in the order of their birth
          PsPids,
          PsMaxUnreadable   \* scans that meet a process they cannot read

ASSUME PsAssumption == PsOwned \in Nat \ {0} /\ PsPids \subseteq Nat

VARIABLES psOf,         \* per pid: the process that has it, "free", or another program's
          psBorn,       \* how many of the tree's processes were ever started
          psScan,       \* the scan under way: who scans, what is left to read, what was found,
                        \* and whether the tree forked since the pids were listed
          psEmpty,      \* emptySnapshots; emptyTicks of the supervisor
          psMissed,     \* the last empty scan had a fork in it
          psWait,       \* waitForLinuxProcessMarkerExit
          psDriver,     \* the driver process is alive
          psSupervisor, \* "idle", "cleaning", "exited"
          psStranger,   \* another program's process: "unborn", "alive", "killed"
          psUnreadable

psVars == <<psOf, psBorn, psScan, psEmpty, psMissed, psWait, psDriver, psSupervisor, psStranger,
            psUnreadable>>
psSystem == <<psOf, psBorn, psStranger>>
psOwners == <<psEmpty, psMissed, psWait, psDriver, psSupervisor, psUnreadable>>

PsProcesses == 1..PsOwned
PsOther == PsOwned + 1
PsFree == 0
PsIdle == [who |-> "none", todo |-> {}, found |-> [k \in PsPids |-> PsFree], forked |-> FALSE,
           killing |-> FALSE]

PsTypeOK ==
  /\ psOf \in [PsPids -> 0..PsOther] /\ psBorn \in PsProcesses
  /\ psScan.who \in {"none", "kill", "wait", "supervisor"} /\ psScan.todo \subseteq PsPids
  /\ psScan.found \in [PsPids -> 0..PsOther]
  /\ psEmpty \in 0..2
  /\ psWait \in {"none", "waiting", "resolved", "rejected"}

PsInit ==
  /\ \E k \in PsPids : psOf = [l \in PsPids |-> IF l = k THEN 1 ELSE PsFree]
  /\ psBorn = 1 /\ psScan = PsIdle /\ psEmpty = 0 /\ psMissed = FALSE
  /\ psWait = "none" /\ psDriver = TRUE /\ psSupervisor = "idle" /\ psStranger = "unborn"
  /\ psUnreadable = 0

PsLiving == {psOf[k] : k \in PsPids} \cap PsProcesses

----------------------------------------------------------------------------
\* The operating system.

PsFork(k) ==
  /\ psOf[k] = PsFree /\ PsLiving # {} /\ psBorn < PsOwned
  /\ psBorn' = psBorn + 1
  /\ psOf' = [psOf EXCEPT ![k] = psBorn + 1]
  /\ psScan' = [psScan EXCEPT !.forked = @ \/ psScan.who # "none"]
  /\ UNCHANGED <<psOwners, psStranger>>

PsExit(k) ==
  /\ psOf[k] \in PsProcesses
  /\ psOf' = [psOf EXCEPT ![k] = PsFree]
  /\ UNCHANGED <<psBorn, psScan, psOwners, psStranger>>

\* Another program is given a pid that is free again.
PsStrangerStarts(k) ==
  /\ psOf[k] = PsFree /\ psStranger = "unborn"
  /\ psOf' = [psOf EXCEPT ![k] = PsOther] /\ psStranger' = "alive"
  /\ UNCHANGED <<psBorn, psScan, psOwners>>

----------------------------------------------------------------------------
\* The scans.  The driver runs one at a time, and the supervisor only without the driver.

PsList(who) ==
  /\ psScan.who = "none"
  /\ psScan' = [PsIdle EXCEPT !.who = who, !.todo = {k \in PsPids : psOf[k] # PsFree}]
  /\ UNCHANGED <<psSystem, psOwners>>

PsKillScan == psDriver /\ psWait \in {"none", "waiting"} /\ PsList("kill")
PsWaitScan == psDriver /\ psWait = "waiting" /\ PsList("wait")
PsSupervisorScan == psSupervisor = "cleaning" /\ PsList("supervisor")

\* The marker is in the process's environment; a process that is gone is skipped.
PsRead ==
  /\ \E k \in psScan.todo :
       /\ \A l \in psScan.todo : k <= l
       /\ psScan' = [psScan EXCEPT !.todo = @ \ {k},
                                  !.found[k] = IF psOf[k] \in PsProcesses THEN psOf[k] ELSE PsFree]
  /\ UNCHANGED <<psSystem, psOwners>>

\* A process that cannot be read although it is there makes the snapshot null.
PsUnreadable ==
  /\ \E k \in psScan.todo : psOf[k] # PsFree
  /\ psUnreadable < PsMaxUnreadable /\ psUnreadable' = psUnreadable + 1
  /\ psScan' = PsIdle
  /\ psEmpty' = IF psScan.who = "kill" THEN psEmpty ELSE 0
  /\ UNCHANGED <<psSystem, psMissed, psWait, psDriver, psSupervisor>>

PsFound == {k \in PsPids : psScan.found[k] # PsFree}

\* Only the process that was found is signalled, not what has its pid now.
SignalsByPid(k) == psOf[k] # PsFree
PsSameProcess(k) == psOf[k] = psScan.found[k]

PsKills(k) ==
  /\ psScan.who \in {"kill", "supervisor"} /\ psScan.todo = {} /\ k \in PsFound
  /\ psScan' = [psScan EXCEPT !.found[k] = PsFree, !.killing = TRUE]
  /\ psOf' = IF PsSameProcess(k) THEN [psOf EXCEPT ![k] = PsFree] ELSE psOf
  /\ psStranger' = IF PsSameProcess(k) /\ psOf[k] = PsOther THEN "killed" ELSE psStranger
  /\ UNCHANGED <<psBorn, psOwners>>

OneEmptyScan == 1
PsEmptyScans == 2

\* psMissed says that a fork fell into every one of the empty scans in a row.
PsCounts ==
  LET empty == PsFound = {} /\ ~psScan.killing IN
  /\ psEmpty' = IF empty THEN psEmpty + 1 ELSE 0
  /\ psMissed' = (empty /\ psScan.forked /\ (psEmpty = 0 \/ psMissed))

PsEndKill ==
  /\ psScan.who = "kill" /\ psScan.todo = {} /\ PsFound = {}
  /\ psScan' = PsIdle
  /\ UNCHANGED <<psSystem, psOwners>>
PsEndWait ==
  /\ psScan.who = "wait" /\ psScan.todo = {}
  /\ psScan' = PsIdle /\ PsCounts
  /\ psWait' = IF psEmpty' >= PsEmptyScans THEN "resolved" ELSE "waiting"
  /\ UNCHANGED <<psSystem, psDriver, psSupervisor, psUnreadable>>
PsEndSupervisor ==
  /\ psScan.who = "supervisor" /\ psScan.todo = {} /\ PsFound = {}
  /\ psScan' = PsIdle /\ PsCounts
  /\ psSupervisor' = IF psEmpty' >= PsEmptyScans THEN "exited" ELSE "cleaning"
  /\ UNCHANGED <<psSystem, psWait, psDriver, psUnreadable>>

\* The watchdog waits for the root to exit, and gives up at a deadline.
PsWatch ==
  /\ psDriver /\ psWait = "none" /\ 1 \notin PsLiving
  /\ psWait' = "waiting"
  /\ UNCHANGED <<psSystem, psScan, psEmpty, psMissed, psDriver, psSupervisor,
                 psUnreadable>>
PsTimesOut ==
  /\ psDriver /\ psWait = "waiting" /\ psScan.who = "none"
  /\ psWait' = "rejected"
  /\ UNCHANGED <<psSystem, psScan, psEmpty, psMissed, psDriver, psSupervisor,
                 psUnreadable>>

\* The driver's end closes the supervisor's input.
PsDriverDies ==
  /\ psDriver /\ psDriver' = FALSE
  /\ psSupervisor' = "cleaning" /\ psScan' = PsIdle /\ psEmpty' = 0 /\ psMissed' = FALSE
  /\ UNCHANGED <<psSystem, psWait, psUnreadable>>

PsScanning ==
  \/ PsKillScan \/ PsWaitScan \/ PsSupervisorScan \/ PsRead
  \/ (\E k \in PsPids : PsKills(k)) \/ PsEndKill \/ PsEndWait \/ PsEndSupervisor
PsNext ==
  \/ \E k \in PsPids : PsFork(k) \/ PsExit(k) \/ PsStrangerStarts(k)
  \/ PsScanning \/ PsUnreadable \/ PsWatch \/ PsTimesOut \/ PsDriverDies

PsSpec == PsInit /\ [][PsNext]_psVars /\ WF_psVars(PsScanning)

----------------------------------------------------------------------------
PsEscapes == psEmpty = 2 /\ psMissed

\* A driver that was told that the tree is gone was told the truth, and the supervisor leaves nothing
\* behind, unless the tree forked during each of the two scans that found nothing; and no
\* process of another program is signalled, whichever pid it was given.
PsTreeIsGone ==
  /\ (psDriver /\ psWait = "resolved") \/ psSupervisor = "exited" =>
       PsLiving = {} \/ PsEscapes
  /\ psStranger # "killed"

\* Once the driver is gone, however it went, its processes are too.
PsAwaited == ~psDriver /\ PsLiving # {} /\ ~PsEscapes
PsNothingSurvives == []<>~PsAwaited
=============================================================================
