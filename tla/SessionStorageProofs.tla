------------------------- MODULE SessionStorageProofs -------------------------
(***************************************************************************)
(* What a session leaves on a machine is left as promised, for any number  *)
(* of generations, runs, processes, faults and crashes.  The four parts    *)
(* share nothing: each has an inductive invariant of its own, and a step   *)
(* of the whole is a step of one of them.  That the skill catalog is also  *)
(* kept, a property of its steps, needs a stronger invariant: SkKeptInv.   *)
(***************************************************************************)
EXTENDS MCSessionStorage, FiniteSetTheorems, SequenceTheorems, TLAPS

-----------------------------------------------------------------------------
(* The process tree.                                                       *)

PsScans ==
  [who : {"none", "kill", "wait", "supervisor"}, todo : SUBSET PsPids,
   found : [PsPids -> 0..PsOwned], forked : BOOLEAN, killing : BOOLEAN]

PsTypes ==
  /\ psOf \in [PsPids -> 0..PsOther] /\ psBorn \in PsProcesses
  /\ psScan \in PsScans
  /\ psEmpty \in 0..2 /\ psMissed \in BOOLEAN
  /\ psWait \in {"none", "waiting", "resolved", "rejected"}
  /\ psDriver \in BOOLEAN /\ psSupervisor \in {"idle", "cleaning", "exited"}
  /\ psStranger \in {"unborn", "alive"}

(* A scan is somebody's, and nobody scans who knows already.               *)
ScansAreAwaited ==
  /\ psDriver <=> psSupervisor = "idle"
  /\ psScan.todo # {} => psScan.who # "none"
  /\ psScan.who \in {"kill", "wait"} => psDriver
  /\ psScan.who = "wait" => psWait = "waiting"
  /\ psScan.who = "supervisor" => psSupervisor = "cleaning"
  /\ psEmpty = 2 => (psDriver /\ psWait = "resolved") \/ psSupervisor = "exited"

(* Without a fork since the pids were listed, and before anything was      *)
(* killed, a process that lives is still to be read or has been found.     *)
ScanMissesForksOnly ==
  psScan.who # "none" /\ ~psScan.forked /\ ~psScan.killing =>
    \A k \in PsPids : psOf[k] \in PsProcesses =>
      k \in psScan.todo \/ psScan.found[k] # PsFree

(* An empty scan that no fork fell into is the truth, and remains it: what *)
(* does not live does not fork.                                            *)
EmptyIsTrue == psEmpty > 0 /\ ~psMissed => PsLiving = {}

ToldIsTrue ==
  (psDriver /\ psWait = "resolved") \/ psSupervisor = "exited" => PsLiving = {} \/ PsEscapes

PsIndInv == PsTypes /\ ScansAreAwaited /\ ScanMissesForksOnly /\ EmptyIsTrue /\ ToldIsTrue

LEMMA IdleTypes == PsIdle \in PsScans /\ PsIdle.who = "none" /\ PsIdle.todo = {}
BY PsAssumption DEF PsIdle, PsFree, PsScans

LEMMA TreeBegins == PsInit => PsIndInv
<1> SUFFICES ASSUME PsInit PROVE PsIndInv
  OBVIOUS
<1>1. PICK k \in PsPids : psOf = [l \in PsPids |-> IF l = k THEN 1 ELSE PsFree]
  BY DEF PsInit
<1>2. psOf \in [PsPids -> 0..PsOther]
  BY <1>1, PsAssumption DEF PsFree, PsOther
<1>3. psScan = PsIdle /\ psEmpty = 0 /\ psWait = "none" /\ psDriver = TRUE
      /\ psSupervisor = "idle" /\ psBorn = 1 /\ psMissed = FALSE /\ psStranger = "unborn"
  BY DEF PsInit
<1>4. PsTypes
  <2>1. psBorn \in PsProcesses
    BY <1>3, PsAssumption DEF PsProcesses
  <2>2. psScan \in PsScans
    BY <1>3, IdleTypes
  <2>3. psDriver \in BOOLEAN /\ psMissed \in BOOLEAN
    BY <1>3, Zenon
  <2>4. psEmpty \in 0..2
    BY <1>3
  <2>5. /\ psWait \in {"none", "waiting", "resolved", "rejected"}
        /\ psSupervisor \in {"idle", "cleaning", "exited"} /\ psStranger \in {"unborn", "alive"}
    BY <1>3, Zenon
  <2> QED BY <1>2, <2>1, <2>2, <2>3, <2>4, <2>5 DEF PsTypes
<1> QED BY <1>3, <1>4, IdleTypes DEF PsIndInv, ScansAreAwaited, ScanMissesForksOnly, EmptyIsTrue, ToldIsTrue

(* Without a fork the tree only shrinks, and a tree that is gone stays so. *)
LEMMA TreeShrinks ==
  ASSUME PsTypes,
         \A k \in PsPids : psOf'[k] \in PsProcesses => psOf'[k] = psOf[k]
  PROVE  PsLiving = {} => PsLiving' = {}
BY DEF PsLiving, PsProcesses, PsTypes

LEMMA NothingLives ==
  PsLiving = {} <=> \A k \in PsPids : psOf[k] \notin PsProcesses
BY DEF PsLiving

(* What a step keeps that only the operating system takes: a process exits *)
(* or a stranger is given its pid.                                         *)
LEMMA ExitsAreHarmless ==
  ASSUME PsIndInv, PsTypes',
         UNCHANGED <<psScan, psOwners>>,
         \A k \in PsPids : psOf'[k] \in PsProcesses => psOf'[k] = psOf[k]
  PROVE  PsIndInv'
<1>1. PsLiving = {} => PsLiving' = {}
  BY TreeShrinks DEF PsIndInv
<1>2. ScansAreAwaited'
  BY DEF PsIndInv, ScansAreAwaited, psOwners
<1>3. ScanMissesForksOnly'
  BY DEF PsIndInv, ScanMissesForksOnly, PsProcesses, PsFree
<1>4. EmptyIsTrue' /\ ToldIsTrue'
  BY <1>1 DEF PsIndInv, EmptyIsTrue, ToldIsTrue, PsEscapes, psOwners
<1> QED BY <1>2, <1>3, <1>4 DEF PsIndInv

LEMMA ForkKeeps == ASSUME PsIndInv, NEW k \in PsPids, PsFork(k) PROVE PsIndInv'
<1>1. /\ PsLiving # {} /\ psBorn < PsOwned /\ psBorn' = psBorn + 1
      /\ psOf' = [psOf EXCEPT ![k] = psBorn + 1]
      /\ psScan' = [psScan EXCEPT !.forked = @ \/ psScan.who # "none"]
      /\ UNCHANGED <<psOwners, psStranger>>
  BY DEF PsFork
<1>2. psBorn' \in PsProcesses /\ psBorn + 1 \in 0..PsOther
  BY <1>1, PsAssumption DEF PsIndInv, PsTypes, PsProcesses, PsOther
<1>3. /\ psScan'.who = psScan.who /\ psScan'.todo = psScan.todo /\ psScan'.found = psScan.found
      /\ psScan'.killing = psScan.killing
      /\ psScan'.forked = (psScan.forked \/ psScan.who # "none")
  BY <1>1 DEF PsIndInv, PsTypes, PsScans
<1>4. PsTypes'
  <2>1. psScan' \in PsScans
    BY <1>1 DEF PsIndInv, PsTypes, PsScans
  <2>2. psOf' \in [PsPids -> 0..PsOther]
    BY <1>1, <1>2 DEF PsIndInv, PsTypes
  <2> QED BY <1>1, <1>2, <2>1, <2>2 DEF PsIndInv, PsTypes, psOwners
<1>5. ScansAreAwaited'
  BY <1>1, <1>3 DEF PsIndInv, ScansAreAwaited, psOwners
<1>6. ScanMissesForksOnly'
  BY <1>3 DEF ScanMissesForksOnly
<1>7. EmptyIsTrue' /\ ToldIsTrue'
  BY <1>1 DEF PsIndInv, EmptyIsTrue, ToldIsTrue, PsEscapes, psOwners
<1> QED BY <1>4, <1>5, <1>6, <1>7 DEF PsIndInv

LEMMA ExitKeeps == ASSUME PsIndInv, NEW k \in PsPids, PsExit(k) PROVE PsIndInv'
<1>1. psOf' = [psOf EXCEPT ![k] = PsFree] /\ UNCHANGED <<psBorn, psScan, psOwners, psStranger>>
  BY DEF PsExit
<1>2. PsTypes'
  BY <1>1, PsAssumption DEF PsIndInv, PsTypes, psOwners, PsFree, PsOther
<1>3. \A l \in PsPids : psOf'[l] \in PsProcesses => psOf'[l] = psOf[l]
  BY <1>1, PsAssumption DEF PsIndInv, PsTypes, PsProcesses, PsFree
<1> QED BY <1>1, <1>2, <1>3, ExitsAreHarmless

LEMMA StrangerKeeps == ASSUME PsIndInv, NEW k \in PsPids, PsStrangerStarts(k) PROVE PsIndInv'
<1>1. /\ psOf' = [psOf EXCEPT ![k] = PsOther] /\ psStranger' = "alive"
      /\ UNCHANGED <<psBorn, psScan, psOwners>>
  BY DEF PsStrangerStarts
<1>2. PsTypes'
  BY <1>1, PsAssumption DEF PsIndInv, PsTypes, psOwners, PsOther
<1>3. \A l \in PsPids : psOf'[l] \in PsProcesses => psOf'[l] = psOf[l]
  BY <1>1, PsAssumption DEF PsIndInv, PsTypes, PsProcesses, PsOther
<1> QED BY <1>1, <1>2, <1>3, ExitsAreHarmless

(* A scan lists every pid in use.                                          *)
LEMMA ListKeeps ==
  ASSUME PsIndInv, NEW who \in {"kill", "wait", "supervisor"}, PsList(who),
         who \in {"kill", "wait"} => psDriver, who = "wait" => psWait = "waiting",
         who = "supervisor" => psSupervisor = "cleaning"
  PROVE  PsIndInv'
<1>1. /\ psScan' = [PsIdle EXCEPT !.who = who, !.todo = {k \in PsPids : psOf[k] # PsFree}]
      /\ UNCHANGED <<psSystem, psOwners>>
  BY DEF PsList
<1>2. psScan' = [who |-> who, todo |-> {k \in PsPids : psOf[k] # PsFree},
                 found |-> [k \in PsPids |-> PsFree], forked |-> FALSE, killing |-> FALSE]
  BY <1>1 DEF PsIdle
<1>a. psScan' \in PsScans /\ psScan'.who = who
  BY <1>2, PsAssumption DEF PsScans, PsFree
<1>3. PsTypes'
  BY <1>1, <1>a DEF PsIndInv, PsTypes, psOwners, psSystem
<1>4. ScansAreAwaited'
  BY <1>1, <1>a DEF PsIndInv, ScansAreAwaited, psOwners
<1>5. ScanMissesForksOnly'
  <2>1. \A k \in PsPids : psOf'[k] # PsFree => k \in psScan'.todo
    BY <1>1, <1>2 DEF psSystem
  <2>2. \A n \in PsProcesses : n # PsFree
    BY PsAssumption DEF PsFree, PsProcesses
  <2> QED BY <2>1, <2>2 DEF ScanMissesForksOnly
<1>6. EmptyIsTrue' /\ ToldIsTrue'
  BY <1>1 DEF PsIndInv, EmptyIsTrue, ToldIsTrue, PsEscapes, PsLiving, psOwners, psSystem
<1> QED BY <1>3, <1>4, <1>5, <1>6 DEF PsIndInv

LEMMA ReadKeeps == ASSUME PsIndInv, PsRead PROVE PsIndInv'
<1>1. PICK k \in psScan.todo :
        psScan' = [psScan EXCEPT !.todo = @ \ {k},
                     !.found[k] = IF psOf[k] \in PsProcesses THEN psOf[k] ELSE PsFree]
  BY DEF PsRead
<1>2. UNCHANGED <<psSystem, psOwners>>
  BY DEF PsRead
<1>3. psScan \in PsScans
  BY DEF PsIndInv, PsTypes
<1>4. k \in PsPids
  BY <1>3 DEF PsScans
<1>5. /\ psScan'.who = psScan.who /\ psScan'.forked = psScan.forked
      /\ psScan'.killing = psScan.killing /\ psScan'.todo = psScan.todo \ {k}
      /\ psScan'.found = [psScan.found EXCEPT ![k] =
                            IF psOf[k] \in PsProcesses THEN psOf[k] ELSE PsFree]
      /\ psScan' \in PsScans
  <2>1. (IF psOf[k] \in PsProcesses THEN psOf[k] ELSE PsFree) \in 0..PsOwned
    BY PsAssumption DEF PsProcesses, PsFree
  <2>2. [psScan.found EXCEPT ![k] = IF psOf[k] \in PsProcesses THEN psOf[k] ELSE PsFree]
           \in [PsPids -> 0..PsOwned]
    BY <1>3, <1>4, <2>1 DEF PsScans
  <2>3. psScan' = [psScan EXCEPT !.todo = psScan.todo \ {k},
                     !.found = [psScan.found EXCEPT ![k] =
                                  IF psOf[k] \in PsProcesses THEN psOf[k] ELSE PsFree]]
    BY <1>1, <1>3 DEF PsScans
  <2> QED BY <1>3, <2>2, <2>3 DEF PsScans
<1>6. PsTypes'
  BY <1>2, <1>5 DEF PsIndInv, PsTypes, psOwners, psSystem
<1>7. ScansAreAwaited'
  BY <1>2, <1>5 DEF PsIndInv, ScansAreAwaited, psOwners
<1>8. ScanMissesForksOnly'
  <2> SUFFICES ASSUME psScan.who # "none", ~psScan.forked, ~psScan.killing,
                      NEW l \in PsPids, psOf[l] \in PsProcesses
               PROVE  l \in psScan'.todo \/ psScan'.found[l] # PsFree
    BY <1>2, <1>5 DEF ScanMissesForksOnly, psSystem
  <2>1. CASE l = k
    BY <2>1, <1>3, <1>4, <1>5, PsAssumption DEF PsProcesses, PsFree, PsScans
  <2>2. CASE l # k
    BY <2>2, <1>3, <1>4, <1>5 DEF PsIndInv, ScanMissesForksOnly
  <2> QED BY <2>1, <2>2
<1>9. EmptyIsTrue' /\ ToldIsTrue'
  BY <1>2 DEF PsIndInv, EmptyIsTrue, ToldIsTrue, PsEscapes, PsLiving, psOwners, psSystem
<1> QED BY <1>6, <1>7, <1>8, <1>9 DEF PsIndInv

LEMMA UnreadableKeeps == ASSUME PsIndInv, PsUnreadable PROVE PsIndInv'
<1>1. /\ psScan' = PsIdle /\ psEmpty' = (IF psScan.who = "kill" THEN psEmpty ELSE 0)
      /\ UNCHANGED <<psSystem, psMissed, psWait, psDriver, psSupervisor>>
      /\ \E k \in psScan.todo : psOf[k] # PsFree
  BY DEF PsUnreadable
<1>2. PsTypes'
  BY <1>1, IdleTypes DEF PsIndInv, PsTypes, psSystem
<1>3. ScansAreAwaited'
  BY <1>1, IdleTypes DEF PsIndInv, ScansAreAwaited
<1>4. ScanMissesForksOnly'
  BY <1>1, IdleTypes DEF ScanMissesForksOnly
<1>5. EmptyIsTrue'
  BY <1>1 DEF PsIndInv, EmptyIsTrue, PsLiving, psSystem
<1>6. psScan.who \in {"kill", "wait", "supervisor"}
  BY <1>1 DEF PsIndInv, PsTypes, PsScans, ScansAreAwaited
<1>7. ToldIsTrue'
  <2>1. CASE psScan.who = "kill"
    BY <1>1, <2>1 DEF PsIndInv, ToldIsTrue, PsEscapes, PsLiving, psSystem
  <2>2. CASE psScan.who \in {"wait", "supervisor"}
    BY <1>1, <2>2 DEF PsIndInv, ScansAreAwaited, ToldIsTrue
  <2> QED BY <1>6, <2>1, <2>2
<1> QED BY <1>2, <1>3, <1>4, <1>5, <1>7 DEF PsIndInv

(* A kill only frees the pid of the process that was found.                *)
LEMMA KillKeeps == ASSUME PsIndInv, NEW k \in PsPids, PsKills(k) PROVE PsIndInv'
<1>1. /\ psScan.who \in {"kill", "supervisor"} /\ psScan.todo = {} /\ k \in PsFound
      /\ psScan' = [psScan EXCEPT !.found[k] = PsFree, !.killing = TRUE]
      /\ psOf' = (IF PsSameProcess(k) THEN [psOf EXCEPT ![k] = PsFree] ELSE psOf)
      /\ psStranger' = (IF PsSameProcess(k) /\ psOf[k] = PsOther THEN "killed" ELSE psStranger)
      /\ UNCHANGED <<psBorn, psOwners>>
  BY DEF PsKills
<1>2. psScan \in PsScans
  BY DEF PsIndInv, PsTypes
<1>3. /\ psScan'.who = psScan.who /\ psScan'.todo = {} /\ psScan'.killing = TRUE
      /\ psScan' \in PsScans
  <2>1. [psScan.found EXCEPT ![k] = PsFree] \in [PsPids -> 0..PsOwned]
    BY <1>2, PsAssumption DEF PsScans, PsFree
  <2>2. psScan' = [psScan EXCEPT !.found = [psScan.found EXCEPT ![k] = PsFree], !.killing = TRUE]
    BY <1>1, <1>2 DEF PsScans
  <2> QED BY <1>1, <1>2, <2>1, <2>2 DEF PsScans
<1>4. psStranger' = psStranger
  BY <1>1, <1>2, PsAssumption DEF PsSameProcess, PsOther, PsScans
<1>5. psOf' \in [PsPids -> 0..PsOther]
  BY <1>1, PsAssumption DEF PsIndInv, PsTypes, PsFree, PsOther
<1>6. PsTypes'
  BY <1>1, <1>3, <1>4, <1>5 DEF PsIndInv, PsTypes, psOwners
<1>7. PsLiving = {} => PsLiving' = {}
  <2>1. \A l \in PsPids : psOf'[l] \in PsProcesses => psOf'[l] = psOf[l]
    BY <1>1, PsAssumption DEF PsIndInv, PsTypes, PsProcesses, PsFree
  <2> QED BY <2>1, TreeShrinks DEF PsIndInv
<1>8. ScansAreAwaited'
  BY <1>1, <1>3 DEF PsIndInv, ScansAreAwaited, psOwners
<1>9. ScanMissesForksOnly'
  BY <1>3 DEF ScanMissesForksOnly
<1>10. EmptyIsTrue' /\ ToldIsTrue'
  BY <1>1, <1>7 DEF PsIndInv, EmptyIsTrue, ToldIsTrue, PsEscapes, psOwners
<1> QED BY <1>6, <1>8, <1>9, <1>10 DEF PsIndInv

(* A scan that ends empty has counted right.                               *)
LEMMA CountIsTrue ==
  ASSUME PsIndInv, PsCounts, psScan.who \in {"wait", "supervisor"}, psScan.todo = {}
  PROVE  /\ psEmpty' \in 0..2 /\ psMissed' \in BOOLEAN
         /\ psEmpty' > 0 /\ ~psMissed' => PsLiving = {}
<1>1. psEmpty \in 0..1 /\ psMissed \in BOOLEAN /\ psScan \in PsScans
  BY DEF PsIndInv, PsTypes, ScansAreAwaited
<1> DEFINE empty == PsFound = {} /\ ~psScan.killing
<1>2. /\ psEmpty' = (IF empty THEN psEmpty + 1 ELSE 0)
      /\ psMissed' = (empty /\ psScan.forked /\ (psEmpty = 0 \/ psMissed))
  BY Zenon DEF PsCounts
<1>3. empty /\ ~psScan.forked => PsLiving = {}
  BY NothingLives DEF PsIndInv, ScanMissesForksOnly, PsFound
<1>4. psEmpty > 0 /\ ~psMissed => PsLiving = {}
  BY DEF PsIndInv, EmptyIsTrue
<1> HIDE DEF empty
<1>5. psEmpty' \in 0..2 /\ (psEmpty' > 0 => empty)
  BY <1>1, <1>2
<1>6. psMissed' \in BOOLEAN /\ (~psMissed' /\ empty => ~psScan.forked \/ (psEmpty # 0 /\ ~psMissed))
  BY <1>2
<1>7. psEmpty # 0 => psEmpty > 0
  BY <1>1
<1> QED BY <1>3, <1>4, <1>5, <1>6, <1>7

LEMMA EndKillKeeps == ASSUME PsIndInv, PsEndKill PROVE PsIndInv'
<1>1. psScan' = PsIdle /\ UNCHANGED <<psSystem, psOwners>>
  BY DEF PsEndKill
<1>2. PsTypes'
  BY <1>1, IdleTypes DEF PsIndInv, PsTypes, psSystem, psOwners
<1>3. ScansAreAwaited' /\ ScanMissesForksOnly'
  BY <1>1, IdleTypes DEF PsIndInv, ScansAreAwaited, ScanMissesForksOnly, psOwners
<1>4. EmptyIsTrue' /\ ToldIsTrue'
  BY <1>1 DEF PsIndInv, EmptyIsTrue, ToldIsTrue, PsEscapes, PsLiving, psSystem, psOwners
<1> QED BY <1>2, <1>3, <1>4 DEF PsIndInv

LEMMA EndWaitKeeps == ASSUME PsIndInv, PsEndWait PROVE PsIndInv'
<1>1. /\ psScan.who = "wait" /\ psScan.todo = {} /\ PsCounts
      /\ psScan' = PsIdle /\ psWait' = (IF psEmpty' >= 2 THEN "resolved" ELSE "waiting")
      /\ UNCHANGED <<psSystem, psDriver, psSupervisor, psUnreadable>>
  BY DEF PsEndWait, PsEmptyScans
<1>2. /\ psEmpty' \in 0..2 /\ psMissed' \in BOOLEAN
      /\ psEmpty' > 0 /\ ~psMissed' => PsLiving = {}
  BY <1>1, CountIsTrue
<1>3. psDriver = TRUE /\ psSupervisor = "idle"
  BY <1>1 DEF PsIndInv, PsTypes, ScansAreAwaited
<1>4. PsLiving' = PsLiving
  BY <1>1 DEF PsLiving, psSystem
<1>5. psWait' \in {"resolved", "waiting"} /\ (psEmpty' = 2 <=> psWait' = "resolved")
  BY <1>1, <1>2
<1>6. PsTypes'
  BY <1>1, <1>2, <1>5, IdleTypes DEF PsIndInv, PsTypes, psSystem
<1>7. ScansAreAwaited' /\ ScanMissesForksOnly'
  BY <1>1, <1>3, <1>5, IdleTypes DEF ScansAreAwaited, ScanMissesForksOnly
<1>8. EmptyIsTrue' /\ ToldIsTrue'
  BY <1>1, <1>2, <1>3, <1>4, <1>5 DEF EmptyIsTrue, ToldIsTrue, PsEscapes
<1> QED BY <1>6, <1>7, <1>8 DEF PsIndInv

LEMMA EndSupervisorKeeps == ASSUME PsIndInv, PsEndSupervisor PROVE PsIndInv'
<1>1. /\ psScan.who = "supervisor" /\ psScan.todo = {} /\ PsCounts
      /\ psScan' = PsIdle /\ psSupervisor' = (IF psEmpty' >= 2 THEN "exited" ELSE "cleaning")
      /\ UNCHANGED <<psSystem, psDriver, psWait, psUnreadable>>
  BY DEF PsEndSupervisor, PsEmptyScans
<1>2. /\ psEmpty' \in 0..2 /\ psMissed' \in BOOLEAN
      /\ psEmpty' > 0 /\ ~psMissed' => PsLiving = {}
  BY <1>1, CountIsTrue
<1>3. psDriver = FALSE
  BY <1>1 DEF PsIndInv, PsTypes, ScansAreAwaited
<1>4. PsLiving' = PsLiving
  BY <1>1 DEF PsLiving, psSystem
<1>5. psSupervisor' \in {"exited", "cleaning"} /\ (psEmpty' = 2 <=> psSupervisor' = "exited")
  BY <1>1, <1>2
<1>6. PsTypes'
  BY <1>1, <1>2, <1>5, IdleTypes DEF PsIndInv, PsTypes, psSystem
<1>7. ScansAreAwaited' /\ ScanMissesForksOnly'
  BY <1>1, <1>3, <1>5, IdleTypes DEF ScansAreAwaited, ScanMissesForksOnly
<1>8. EmptyIsTrue' /\ ToldIsTrue'
  BY <1>1, <1>2, <1>3, <1>4, <1>5 DEF EmptyIsTrue, ToldIsTrue, PsEscapes
<1> QED BY <1>6, <1>7, <1>8 DEF PsIndInv

(* What only the driver knows: that it waits, gave up, or is gone.         *)
LEMMA WatchKeeps == ASSUME PsIndInv, PsWatch \/ PsTimesOut PROVE PsIndInv'
<1>1. /\ psDriver /\ UNCHANGED <<psSystem, psScan, psEmpty, psMissed, psDriver, psSupervisor>>
      /\ \/ psWait = "none" /\ psWait' = "waiting"
         \/ psWait = "waiting" /\ psScan.who = "none" /\ psWait' = "rejected"
  BY DEF PsWatch, PsTimesOut
<1>2. PsLiving' = PsLiving
  BY <1>1 DEF PsLiving, psSystem
<1>3. PsTypes'
  BY <1>1 DEF PsIndInv, PsTypes, psSystem
<1>4. ScansAreAwaited'
  BY <1>1 DEF PsIndInv, ScansAreAwaited
<1>5. ScanMissesForksOnly'
  BY <1>1 DEF PsIndInv, ScanMissesForksOnly, psSystem
<1>6. EmptyIsTrue' /\ ToldIsTrue'
  BY <1>1, <1>2 DEF PsIndInv, ScansAreAwaited, EmptyIsTrue, ToldIsTrue, PsEscapes
<1> QED BY <1>3, <1>4, <1>5, <1>6 DEF PsIndInv

LEMMA DriverDeathKeeps == ASSUME PsIndInv, PsDriverDies PROVE PsIndInv'
<1>1. /\ psDriver /\ psDriver' = FALSE /\ psSupervisor' = "cleaning" /\ psScan' = PsIdle
      /\ psEmpty' = 0 /\ psMissed' = FALSE /\ UNCHANGED <<psSystem, psWait>>
  BY DEF PsDriverDies
<1>2. PsTypes'
  <2>1. psDriver' \in BOOLEAN /\ psMissed' \in BOOLEAN
    BY <1>1, Zenon
  <2>2. psEmpty' \in 0..2
    BY <1>1
  <2>3. psScan' \in PsScans /\ psSupervisor' \in {"idle", "cleaning", "exited"}
    BY <1>1, IdleTypes
  <2> QED BY <1>1, <2>1, <2>2, <2>3 DEF PsIndInv, PsTypes, psSystem
<1>3. ScansAreAwaited' /\ ScanMissesForksOnly'
  BY <1>1, IdleTypes DEF ScansAreAwaited, ScanMissesForksOnly
<1>4. EmptyIsTrue' /\ ToldIsTrue'
  BY <1>1 DEF EmptyIsTrue, ToldIsTrue
<1> QED BY <1>2, <1>3, <1>4 DEF PsIndInv

LEMMA TreeSteps == PsIndInv /\ PsNext => PsIndInv'
<1> SUFFICES ASSUME PsIndInv, PsNext PROVE PsIndInv'
  OBVIOUS
<1>1. ASSUME NEW k \in PsPids, PsFork(k) \/ PsExit(k) \/ PsStrangerStarts(k) PROVE PsIndInv'
  BY <1>1, ForkKeeps, ExitKeeps, StrangerKeeps
<1>2. CASE PsKillScan
  BY <1>2, ListKeeps DEF PsKillScan
<1>3. CASE PsWaitScan
  BY <1>3, ListKeeps DEF PsWaitScan
<1>4. CASE PsSupervisorScan
  BY <1>4, ListKeeps DEF PsSupervisorScan
<1>5. CASE PsRead
  BY <1>5, ReadKeeps
<1>6. ASSUME NEW k \in PsPids, PsKills(k) PROVE PsIndInv'
  BY <1>6, KillKeeps
<1>7. CASE PsEndKill \/ PsEndWait \/ PsEndSupervisor
  BY <1>7, EndKillKeeps, EndWaitKeeps, EndSupervisorKeeps
<1>8. CASE PsUnreadable
  BY <1>8, UnreadableKeeps
<1>9. CASE PsWatch \/ PsTimesOut \/ PsDriverDies
  BY <1>9, WatchKeeps, DriverDeathKeeps
<1> QED BY <1>1, <1>2, <1>3, <1>4, <1>5, <1>6, <1>7, <1>8, <1>9 DEF PsNext, PsScanning

LEMMA TreeRests == PsIndInv /\ UNCHANGED psVars => PsIndInv'
BY DEF PsIndInv, PsTypes, ScansAreAwaited, ScanMissesForksOnly, EmptyIsTrue, ToldIsTrue, PsEscapes,
       PsLiving, psVars
-----------------------------------------------------------------------------
(* The native checkpoints.                                                 *)

CpTypes ==
  /\ CpTypeOK
  /\ cpPc \in [CpCreators -> {"idle", "copy", "publish", "sync", "verify", "created", "failed"}]
  /\ cpOf \in [CpCreators -> CpRuns] /\ cpStaged \in [CpCreators -> 0..CpMaxRuns]

(* What is sealed holds its run's turn.                                    *)
SealedHoldsRun ==
  /\ \A c \in CpCreators : cpPc[c] = "publish" => cpStaged[c] >= cpOf[c]
  /\ \A r \in CpRuns : cpBundle[r] = "whole" => cpHolds[r] >= r

Durable(r) == cpBundle[r] = "whole" /\ r \notin cpUnsynced

(* The cleanup spares the bundle the host committed: while it may run, the *)
(* driver knows which one that is.                                         *)
HostIsKnown ==
  /\ cpPhase \in {"running", "pruning"} => cpHost = cpCommitted
  /\ cpPhase = "reported" => Durable(cpRun)
  /\ cpHost # 0 => Durable(cpHost)
  /\ cpPhase = "running" =>
       \A c \in CpCreators : cpPc[c] = "created" /\ cpOf[c] = cpRun => Durable(cpRun)
  /\ cpPhase = "restoring" => \A c \in CpCreators : cpPc[c] = "idle"

CpIndInv == CpTypes /\ SealedHoldsRun /\ HostIsKnown

LEMMA CheckpointsBegin == CpInit => CpIndInv
<1> SUFFICES ASSUME CpInit PROVE CpIndInv
  OBVIOUS
<1>1. 1 \in CpRuns /\ CpMaxRuns \in Nat /\ 0 \in 0..CpMaxRuns
  BY CpAssumption DEF CpRuns
<1>2. CpTypes
  BY <1>1 DEF CpInit, CpTypes, CpTypeOK
<1>3. SealedHoldsRun /\ HostIsKnown
  BY <1>1 DEF CpInit, SealedHoldsRun, HostIsKnown
<1> QED BY <1>2, <1>3 DEF CpIndInv

(* A step of one creator that leaves the bundles alone.                    *)
LEMMA CreatorGoes ==
  ASSUME CpIndInv, NEW c \in CpCreators, NEW step \in {"copy", "verify", "failed", "publish", "sync",
                                                       "created"},
         cpPhase = "running" \/ cpPc[c] # "idle", cpPc' = [cpPc EXCEPT ![c] = step],
         cpOf' \in [CpCreators -> CpRuns], cpStaged' \in [CpCreators -> 0..CpMaxRuns],
         \A d \in CpCreators \ {c} : cpOf'[d] = cpOf[d] /\ cpStaged'[d] = cpStaged[d],
         step = "publish" => cpStaged'[c] >= cpOf'[c],
         UNCHANGED <<cpHistory, cpLife, cpBundle, cpHolds>>, cpUnsynced' \subseteq cpUnsynced,
         step = "created" => cpBundle[cpOf'[c]] = "whole" /\ cpOf'[c] \notin cpUnsynced'
  PROVE  CpIndInv'
<1>1. /\ cpPc'[c] = step /\ \A d \in CpCreators \ {c} : cpPc'[d] = cpPc[d]
      /\ cpPc' \in [CpCreators -> {"idle", "copy", "publish", "sync", "verify", "created", "failed"}]
  BY DEF CpIndInv, CpTypes
<1>2. CpTypes'
  BY <1>1 DEF CpIndInv, CpTypes, CpTypeOK, cpLife
<1>3. SealedHoldsRun'
  BY <1>1 DEF CpIndInv, SealedHoldsRun
<1>4. \A r \in CpRuns : Durable(r) => Durable(r)'
  BY DEF Durable
<1>5. cpRun \in CpRuns /\ cpHost \in 0..CpMaxRuns /\ (cpHost # 0 => cpHost \in CpRuns)
  BY CpAssumption DEF CpIndInv, CpTypes, CpTypeOK, CpRuns
<1>6. HostIsKnown'
  <2>1. /\ cpPhase' \in {"running", "pruning"} => cpHost' = cpCommitted'
        /\ cpPhase' = "reported" => Durable(cpRun)'
        /\ cpHost' # 0 => Durable(cpHost)'
        /\ cpPhase' # "restoring"
    BY <1>4, <1>5 DEF CpIndInv, HostIsKnown, cpLife, Durable
  <2>2. ASSUME cpPhase' = "running", NEW d \in CpCreators, cpPc'[d] = "created", cpOf'[d] = cpRun'
        PROVE  Durable(cpRun)'
    <3>1. CASE d = c
      BY <3>1, <2>2, <1>1 DEF Durable, cpLife
    <3>2. CASE d # c
      BY <3>2, <2>2, <1>1, <1>4, <1>5 DEF CpIndInv, HostIsKnown, cpLife, Durable
    <3> QED BY <3>1, <3>2
  <2> QED BY <2>1, <2>2 DEF HostIsKnown
<1> QED BY <1>2, <1>3, <1>6 DEF CpIndInv

LEMMA AgentKeeps == ASSUME CpIndInv, CpAgentWrites \/ CpAgentFlushes PROVE CpIndInv'
<1>1. UNCHANGED <<cpFiles, cpPc, cpOf, cpStaged, cpLife>> /\ cpHistory' \in 0..CpMaxRuns
  BY CpAssumption DEF CpIndInv, CpTypes, CpTypeOK, CpRuns, CpAgentWrites, CpAgentFlushes
<1> QED BY <1>1 DEF CpIndInv, CpTypes, CpTypeOK, SealedHoldsRun, HostIsKnown, Durable, cpFiles, cpLife

LEMMA BeginKeeps == ASSUME CpIndInv, NEW c \in CpCreators, CpBegin(c) PROVE CpIndInv'
<1>1. /\ cpOf' = [cpOf EXCEPT ![c] = cpRun]
      /\ UNCHANGED <<cpHistory, cpTorn, cpFiles, cpStaged, cpLife, cpFaults>>
      /\ cpPhase = "running"
  BY DEF CpBegin
<1>2. cpRun \in CpRuns /\ cpBundle[cpRun] \in {"none", "whole", "partial"}
  BY DEF CpIndInv, CpTypes, CpTypeOK
<1>3. PICK step \in {"copy", "verify", "failed"} : cpPc' = [cpPc EXCEPT ![c] = step]
  BY <1>2 DEF CpBegin, CpGo
<1>4. cpOf' \in [CpCreators -> CpRuns] /\ \A d \in CpCreators \ {c} : cpOf'[d] = cpOf[d]
  BY <1>1, <1>2 DEF CpIndInv, CpTypes
<1>5. cpStaged' \in [CpCreators -> 0..CpMaxRuns]
  BY <1>1 DEF CpIndInv, CpTypes
<1> QED BY <1>1, <1>3, <1>4, <1>5, CreatorGoes DEF cpFiles

LEMMA CopyKeeps == ASSUME CpIndInv, NEW c \in CpCreators, CpCopy(c) PROVE CpIndInv'
<1>1. cpPc[c] = "copy" /\ UNCHANGED <<cpHistory, cpTorn, cpFiles, cpOf, cpLife, cpFaults>>
  BY DEF CpCopy
<1>2. /\ cpOf' \in [CpCreators -> CpRuns] /\ cpStaged \in [CpCreators -> 0..CpMaxRuns]
      /\ cpHistory \in 0..CpMaxRuns
  BY <1>1 DEF CpIndInv, CpTypes, CpTypeOK
<1>3. CASE CpCopyHoldsRun(c)
  <2>1. cpPc' = [cpPc EXCEPT ![c] = "publish"] /\ cpStaged' = [cpStaged EXCEPT ![c] = cpHistory]
    BY <1>3 DEF CpCopy, CpGo
  <2>2. cpStaged'[c] >= cpOf'[c] /\ cpStaged' \in [CpCreators -> 0..CpMaxRuns]
        /\ \A d \in CpCreators \ {c} : cpStaged'[d] = cpStaged[d]
    BY <2>1, <1>1, <1>2, <1>3 DEF CpCopyHoldsRun
  <2> QED BY <2>1, <2>2, <1>1, <1>2, CreatorGoes DEF cpFiles
<1>4. CASE ~CpCopyHoldsRun(c)
  <2>1. cpPc' = [cpPc EXCEPT ![c] = "failed"] /\ cpStaged' = cpStaged
    BY <1>4 DEF CpCopy, CpGo
  <2> QED BY <2>1, <1>1, <1>2, CreatorGoes DEF cpFiles
<1> QED BY <1>3, <1>4

(* A bundle is sealed only where there is none: not the host's.            *)
LEMMA PublishKeeps == ASSUME CpIndInv, NEW c \in CpCreators, CpPublish(c) PROVE CpIndInv'
<1> DEFINE r == cpOf[c]
<1>1. cpPc[c] = "publish" /\ UNCHANGED <<cpHistory, cpTorn, cpOf, cpStaged, cpLife, cpFaults>>
  BY DEF CpPublish
<1>2. /\ cpOf \in [CpCreators -> CpRuns] /\ cpStaged \in [CpCreators -> 0..CpMaxRuns]
      /\ r \in CpRuns
  BY DEF CpIndInv, CpTypes
<1>3. CASE cpBundle[r] = "none"
  <2>1. /\ cpBundle' = [cpBundle EXCEPT ![r] = "whole"] /\ cpUnsynced' = cpUnsynced \cup {r}
        /\ cpHolds' = [cpHolds EXCEPT ![r] = cpStaged[c]] /\ cpPc' = [cpPc EXCEPT ![c] = "sync"]
    BY <1>3 DEF CpPublish, CpGo
  <2> HIDE DEF r
  <2>2. cpPc'[c] = "sync" /\ \A d \in CpCreators \ {c} : cpPc'[d] = cpPc[d]
    BY <2>1 DEF CpIndInv, CpTypes
  <2>3. CpTypes'
    BY <1>1, <1>2, <2>1 DEF CpIndInv, CpTypes, CpTypeOK, cpLife
  <2>4. SealedHoldsRun'
    <3>1. cpStaged[c] >= r
      BY <1>1 DEF CpIndInv, SealedHoldsRun, r
    <3>2. \A q \in CpRuns : cpBundle'[q] = "whole" => cpHolds'[q] >= q
      BY <2>1, <3>1, <1>2 DEF CpIndInv, SealedHoldsRun, CpTypes, CpTypeOK
    <3> QED BY <3>2, <2>2, <1>1 DEF CpIndInv, SealedHoldsRun
  <2>5. \A q \in CpRuns : Durable(q) => Durable(q)'
    BY <2>1, <1>2, <1>3 DEF Durable, CpIndInv, CpTypes, CpTypeOK
  <2>6. cpRun \in CpRuns /\ (cpHost # 0 => cpHost \in CpRuns)
    BY CpAssumption DEF CpIndInv, CpTypes, CpTypeOK, CpRuns
  <2>7. HostIsKnown'
    BY <2>2, <2>5, <2>6, <1>1 DEF CpIndInv, HostIsKnown, cpLife, Durable
  <2> QED BY <2>3, <2>4, <2>7 DEF CpIndInv
<1>4. CASE cpBundle[r] # "none"
  <2>1. PICK step \in {"sync", "failed"} : cpPc' = [cpPc EXCEPT ![c] = step]
    BY <1>4 DEF CpPublish, CpGo
  <2>2. UNCHANGED cpFiles
    BY <1>4 DEF CpPublish
  <2> QED BY <2>1, <2>2, <1>1, <1>2, CreatorGoes DEF cpFiles
<1> QED BY <1>3, <1>4

LEMMA SyncKeeps == ASSUME CpIndInv, NEW c \in CpCreators, CpSync(c) PROVE CpIndInv'
<1>1. /\ UNCHANGED <<cpHistory, cpTorn, cpBundle, cpHolds, cpOf, cpStaged, cpLife, cpFaults>>
      /\ cpPc' = [cpPc EXCEPT ![c] = "verify"] /\ cpUnsynced' \subseteq cpUnsynced
      /\ cpPc[c] = "sync"
  BY DEF CpSync, CpSynced, CpGo
<1>2. cpOf' \in [CpCreators -> CpRuns] /\ cpStaged' \in [CpCreators -> 0..CpMaxRuns]
  BY <1>1 DEF CpIndInv, CpTypes
<1> QED BY <1>1, <1>2, CreatorGoes

LEMMA VerifyKeeps == ASSUME CpIndInv, NEW c \in CpCreators, CpVerify(c) PROVE CpIndInv'
<1>1. /\ UNCHANGED <<cpHistory, cpTorn, cpBundle, cpHolds, cpOf, cpStaged, cpLife, cpFaults>>
      /\ cpUnsynced' = cpUnsynced \ {cpOf[c]} /\ cpPc[c] = "verify"
  BY DEF CpVerify, CpSynced
<1>2. PICK step \in {"created", "failed"} :
        /\ cpPc' = [cpPc EXCEPT ![c] = step]
        /\ step = "created" => cpBundle[cpOf[c]] = "whole"
  BY DEF CpVerify, CpGo
<1>3. cpOf' \in [CpCreators -> CpRuns] /\ cpStaged' \in [CpCreators -> 0..CpMaxRuns]
  BY <1>1 DEF CpIndInv, CpTypes
<1>4. step = "created" => cpBundle[cpOf'[c]] = "whole" /\ cpOf'[c] \notin cpUnsynced'
  BY <1>1, <1>2
<1> QED BY <1>1, <1>2, <1>3, <1>4, CreatorGoes

LEMMA FailKeeps == ASSUME CpIndInv, NEW c \in CpCreators, CpFails(c) PROVE CpIndInv'
<1>1. /\ UNCHANGED <<cpHistory, cpTorn, cpFiles, cpOf, cpStaged, cpLife>>
      /\ cpPc' = [cpPc EXCEPT ![c] = "failed"] /\ cpPc[c] # "idle"
  BY DEF CpFails, CpGo
<1>2. cpOf' \in [CpCreators -> CpRuns] /\ cpStaged' \in [CpCreators -> 0..CpMaxRuns]
  BY <1>1 DEF CpIndInv, CpTypes
<1> QED BY <1>1, <1>2, CreatorGoes DEF cpFiles

(* The run's terminal, and what the host has of it.                        *)
LEMMA ReportKeeps ==
  ASSUME CpIndInv, CpReport \/ CpReportFailure \/ CpHostCommits \/ CpAcknowledged PROVE CpIndInv'
<1>1. UNCHANGED <<cpRun, cpHistory, cpFiles, cpPc, cpOf, cpStaged>>
  BY DEF CpReport, CpReportFailure, CpHostCommits, CpAcknowledged
<1>2. cpRun \in CpRuns /\ cpRun \in 0..CpMaxRuns
  BY CpAssumption DEF CpIndInv, CpTypes, CpTypeOK, CpRuns
<1>3. SealedHoldsRun'
  BY <1>1 DEF CpIndInv, SealedHoldsRun, cpFiles
<1>4. CASE CpReport
  BY <1>1, <1>2, <1>3, <1>4
  DEF CpReport, CpIndInv, CpTypes, CpTypeOK, HostIsKnown, Durable, cpFiles
<1>5. CASE CpReportFailure
  BY <1>1, <1>2, <1>3, <1>5
  DEF CpReportFailure, CpIndInv, CpTypes, CpTypeOK, HostIsKnown, Durable, cpFiles
<1>6. CASE CpHostCommits
  BY <1>1, <1>2, <1>3, <1>6
  DEF CpHostCommits, CpIndInv, CpTypes, CpTypeOK, HostIsKnown, Durable, cpFiles
<1>7. CASE CpAcknowledged
  BY <1>1, <1>2, <1>3, <1>7
  DEF CpAcknowledged, CpIndInv, CpTypes, CpTypeOK, HostIsKnown, Durable, cpFiles
<1> QED BY <1>4, <1>5, <1>6, <1>7

LEMMA PruneKeeps == ASSUME CpIndInv, NEW r \in CpRuns, CpPrune(r) PROVE CpIndInv'
<1>1. /\ cpPhase = "pruning" /\ r # cpCommitted /\ cpUnsynced' = cpUnsynced \ {r}
      /\ cpBundle' = [cpBundle EXCEPT ![r] = IF cpBundle[r] = "whole" THEN "partial" ELSE "none"]
      /\ cpHolds' = [cpHolds EXCEPT ![r] = 0]
      /\ UNCHANGED <<cpHistory, cpTorn, cpPc, cpOf, cpStaged, cpLife, cpFaults>>
  BY DEF CpPrune, CpPrunable
<1>2. CpTypes'
  BY <1>1, CpAssumption DEF CpIndInv, CpTypes, CpTypeOK, cpLife
<1>3. cpBundle'[r] # "whole" /\ \A q \in CpRuns \ {r} : cpBundle'[q] = cpBundle[q] /\ cpHolds'[q] = cpHolds[q]
  BY <1>1 DEF CpIndInv, CpTypes, CpTypeOK
<1>4. SealedHoldsRun'
  BY <1>1, <1>3 DEF CpIndInv, SealedHoldsRun
<1>5. cpHost # 0 => cpHost \in CpRuns \ {r}
  BY <1>1, CpAssumption DEF CpIndInv, CpTypes, CpTypeOK, CpRuns, HostIsKnown
<1>6. HostIsKnown'
  BY <1>1, <1>3, <1>5 DEF CpIndInv, HostIsKnown, Durable, cpLife
<1> QED BY <1>2, <1>4, <1>6 DEF CpIndInv

LEMMA NextRunKeeps == ASSUME CpIndInv, CpNextRun PROVE CpIndInv'
<1>1. /\ cpPhase = "pruning" /\ cpRun < CpMaxRuns /\ cpRun' = cpRun + 1 /\ cpPhase' = "running"
      /\ cpPc' = [c \in CpCreators |-> IF cpPc[c] = "created" THEN "idle" ELSE cpPc[c]]
      /\ UNCHANGED <<cpHistory, cpFiles, cpOf, cpStaged, cpHost, cpCommitted>>
  BY DEF CpNextRun
<1>2. cpRun' \in CpRuns
  BY <1>1, CpAssumption DEF CpIndInv, CpTypes, CpTypeOK, CpRuns
<1>3. /\ cpPc' \in [CpCreators -> {"idle", "copy", "publish", "sync", "verify", "created", "failed"}]
      /\ \A c \in CpCreators : cpPc'[c] # "created" /\ (cpPc'[c] = "publish" => cpPc[c] = "publish")
  BY <1>1 DEF CpIndInv, CpTypes
<1>4. CpTypes'
  BY <1>1, <1>2, <1>3 DEF CpIndInv, CpTypes, CpTypeOK, cpFiles
<1>5. SealedHoldsRun' /\ HostIsKnown'
  BY <1>1, <1>3 DEF CpIndInv, SealedHoldsRun, HostIsKnown, Durable, cpFiles
<1> QED BY <1>4, <1>5 DEF CpIndInv

(* A crash takes nothing that was durable.                                 *)
LEMMA CrashKeeps == ASSUME CpIndInv, CpCrash PROVE CpIndInv'
<1>1. PICK lost \in SUBSET cpUnsynced :
        /\ cpBundle' = [r \in CpRuns |-> IF r \in lost THEN "none" ELSE cpBundle[r]]
        /\ cpHolds' = [r \in CpRuns |-> IF r \in lost THEN 0 ELSE cpHolds[r]]
  BY DEF CpCrash
<1>2. /\ cpUnsynced' = {} /\ cpPc' = [c \in CpCreators |-> "idle"] /\ cpPhase' = "restoring"
      /\ UNCHANGED <<cpRun, cpHistory, cpOf, cpStaged, cpHost, cpCommitted>>
  BY DEF CpCrash
<1>3. CpTypes'
  BY <1>1, <1>2, CpAssumption DEF CpIndInv, CpTypes, CpTypeOK
<1>4. SealedHoldsRun'
  BY <1>1, <1>2 DEF CpIndInv, SealedHoldsRun
<1>5. \A r \in CpRuns : Durable(r) => Durable(r)'
  BY <1>1, <1>2 DEF Durable
<1>6. cpHost # 0 => cpHost \in CpRuns
  BY CpAssumption DEF CpIndInv, CpTypes, CpTypeOK, CpRuns
<1>7. HostIsKnown'
  BY <1>2, <1>5, <1>6 DEF CpIndInv, HostIsKnown, Durable
<1> QED BY <1>3, <1>4, <1>7 DEF CpIndInv

LEMMA RestartKeeps == ASSUME CpIndInv, CpRestore PROVE CpIndInv'
<1>1. /\ cpPhase = "restoring" /\ cpRun < CpMaxRuns /\ cpRun' = cpRun + 1 /\ cpPhase' = "running"
      /\ cpHistory' = (IF cpHost = 0 THEN 0 ELSE cpHolds[cpHost]) /\ cpCommitted' = cpHost
      /\ UNCHANGED <<cpFiles, cpPc, cpOf, cpStaged, cpHost>>
  BY DEF CpRestore
<1>2. cpRun' \in CpRuns /\ (cpHost # 0 => cpHost \in CpRuns) /\ 0 \in 0..CpMaxRuns
  BY <1>1, CpAssumption DEF CpIndInv, CpTypes, CpTypeOK, CpRuns
<1>3. cpHistory' \in 0..CpMaxRuns
  BY <1>1, <1>2 DEF CpIndInv, CpTypes, CpTypeOK
<1>4. CpTypes'
  BY <1>1, <1>2, <1>3 DEF CpIndInv, CpTypes, CpTypeOK, cpFiles
<1>5. \A c \in CpCreators : cpPc[c] = "idle"
  BY <1>1 DEF CpIndInv, HostIsKnown
<1>6. SealedHoldsRun' /\ HostIsKnown'
  BY <1>1, <1>5 DEF CpIndInv, SealedHoldsRun, HostIsKnown, Durable, cpFiles
<1> QED BY <1>4, <1>6 DEF CpIndInv

LEMMA CheckpointSteps == CpIndInv /\ CpNext => CpIndInv'
<1> SUFFICES ASSUME CpIndInv, CpNext PROVE CpIndInv'
  OBVIOUS
<1>1. CASE CpAgentWrites \/ CpAgentFlushes
  BY <1>1, AgentKeeps
<1>2. ASSUME NEW c \in CpCreators, CpBegin(c) \/ CpStep(c) \/ CpFails(c) PROVE CpIndInv'
  BY <1>2, BeginKeeps, CopyKeeps, PublishKeeps, SyncKeeps, VerifyKeeps, FailKeeps DEF CpStep
<1>3. CASE CpReport \/ CpReportFailure \/ CpHostCommits \/ CpAcknowledged
  BY <1>3, ReportKeeps
<1>4. CASE CpCleanup
  BY <1>4, PruneKeeps, NextRunKeeps DEF CpCleanup
<1>5. CASE CpCrash \/ CpRestore
  BY <1>5, CrashKeeps, RestartKeeps
<1> QED BY <1>1, <1>2, <1>3, <1>4, <1>5 DEF CpNext

LEMMA CheckpointsRest == CpIndInv /\ UNCHANGED cpVars => CpIndInv'
BY DEF CpIndInv, CpTypes, CpTypeOK, SealedHoldsRun, HostIsKnown, Durable, cpVars
-----------------------------------------------------------------------------
(* The restoration of a checkpoint.                                        *)

RsRename == RsTrees \X {"away", "in"}
RsTypes ==
  /\ RsTypeOK /\ rsMoves \in Seq(RsRename) /\ rsFaults \in Nat /\ rsRollbackFailed \in BOOLEAN

(* Each rename is made once, a tree goes in after it went away, and there  *)
(* is nothing to put in the place of the projection.                       *)
MovesAreOrdered ==
  /\ \A i, j \in 1..Len(rsMoves) : rsMoves[i] = rsMoves[j] => i = j
  /\ \A i, j \in 1..Len(rsMoves) : \A t \in RsTrees :
       rsMoves[i] = <<t, "in">> /\ rsMoves[j] = <<t, "away">> => j < i
  /\ \A i \in 1..Len(rsMoves) : rsMoves[i] # <<"projection", "in">>

Renamed(t, way) == \E i \in 1..Len(rsMoves) : rsMoves[i] = <<t, way>>

(* The renames that stand say where everything is.                         *)
MovesAreTrue(t) ==
  /\ ~Renamed(t, "away") /\ ~Renamed(t, "in") => rsHome[t] = rsBefore[t] /\ rsPrevious[t] = "none"
  /\ Renamed(t, "away") => rsPrevious[t] = rsBefore[t] /\ rsBefore[t] # "none"
  /\ Renamed(t, "away") /\ ~Renamed(t, "in") => rsHome[t] = "none"
  /\ Renamed(t, "in") => rsHome[t] = "new"
  /\ Renamed(t, "in") /\ ~Renamed(t, "away") => rsBefore[t] = "none" /\ rsPrevious[t] = "none"

(* After a rename back that failed they still say where the old tree is.   *)
OldIsSomewhere(t) ==
  /\ Renamed(t, "in") => rsHome[t] = "new"
  /\ Renamed(t, "away") => rsPrevious[t] = rsBefore[t]
  /\ rsBefore[t] = "old" => rsHome[t] = "old" \/ rsPrevious[t] = "old"

RsIsNew == rsHome["first"] = "new" /\ rsHome["second"] = "new" /\ rsHome["projection"] = "none"

RsPlaces ==
  /\ rsPc = "begin" => \A t \in RsTrees :
       /\ rsPrevious[t] = "none"
       /\ rsBefore[t] = "old" /\ ~RsIsSwapped => rsHome[t] = "old" \/ t \in rsKept
  /\ rsPc \in {"begin", "stage"} => rsMoves = <<>> /\ ~rsRollbackFailed
  /\ rsPc \in {"stage", "swap"} => rsResult = "none" /\ ~rsRollbackFailed
  /\ rsPc \in {"stage", "swap", "rollback"} /\ ~rsRollbackFailed => \A t \in RsTrees : MovesAreTrue(t)
  /\ rsPc = "swap" => /\ \A t \in RsTrees : Renamed(t, "in") => rsStaged[t] = "none"
                      /\ rsStaged["projection"] = "none"
  /\ rsPc = "rollback" => rsResult = "failed"
  /\ rsPc \in {"rollback", "clean", "done"} /\ rsResult = "failed" /\ rsRollbackFailed =>
       \A t \in RsTrees : OldIsSomewhere(t)
  /\ rsPc \in {"clean", "done"} /\ rsResult = "failed" /\ ~rsRollbackFailed =>
       rsHome = rsBefore
  /\ rsPc \in {"clean", "done"} => rsResult \in {"restored", "uncleaned", "failed"}
  /\ rsPc \in {"clean", "done"} /\ rsResult = "failed" => rsMoves = <<>>
  /\ RsIsSwapped => RsIsNew
  /\ rsResult = "failed" => rsFaults >= 1
  /\ rsRollbackFailed => rsFaults >= 2 /\ rsResult = "failed"
  /\ rsProvider = "claude" => rsHome["projection"] = "none" /\ rsBefore["projection"] = "none"

RsIndInv == RsTypes /\ MovesAreOrdered /\ RsPlaces
LEMMA MovesAsSet ==
  ASSUME rsMoves \in Seq(RsRename), NEW t, NEW way
  PROVE  <<t, way>> \in ToSet(rsMoves) <=> Renamed(t, way)
<1>1. DOMAIN rsMoves = 1..Len(rsMoves)
  OBVIOUS
<1> QED BY <1>1 DEF ToSet, Renamed

LEMMA LastMoveGoes ==
  ASSUME NEW s \in Seq(RsRename), s # <<>>
  PROVE  /\ Len(s) \in Nat \ {0} /\ RemoveAt(s, Len(s)) \in Seq(RsRename)
         /\ Len(RemoveAt(s, Len(s))) = Len(s) - 1
         /\ \A i \in 1..(Len(s) - 1) : RemoveAt(s, Len(s))[i] = s[i]
<1>1. Len(s) \in Nat \ {0}
  OBVIOUS
<1>2. PICK n \in Nat : n = Len(s) - 1
  BY <1>1
<1>3. SubSeq(s, 1, n) = [i \in 1..n |-> s[i]] /\ \A i \in 1..n : s[i] \in RsRename
  BY <1>1, <1>2
<1>4. SubSeq(s, 1, n) \in Seq(RsRename) /\ Len(SubSeq(s, 1, n)) = n
  BY <1>2, <1>3
<1>5. SubSeq(s, Len(s) + 1, Len(s)) = <<>>
  BY <1>1, SubSeqEmpty
<1>6. RemoveAt(s, Len(s)) = SubSeq(s, 1, n) \o <<>>
  BY <1>2, <1>5 DEF RemoveAt
<1>7. RemoveAt(s, Len(s)) = SubSeq(s, 1, n)
  BY <1>4, <1>6
<1> QED BY <1>1, <1>2, <1>3, <1>4, <1>7

LEMMA RestoreBegins == RsInit => RsIndInv
<1> SUFFICES ASSUME RsInit PROVE RsIndInv
  OBVIOUS
<1>1. rsHome \in [RsTrees -> {"none", "old"}] /\ (rsProvider = "claude" => rsHome["projection"] = "none")
  BY DEF RsInit
<1>2. rsMoves = <<>> /\ rsMoves \in Seq(RsRename) /\ Len(rsMoves) = 0
  BY DEF RsInit
<1>3. RsTypes
  BY <1>1, <1>2 DEF RsInit, RsTypes, RsTypeOK, RsContents, RsNothing
<1>4. MovesAreOrdered
  BY <1>2 DEF MovesAreOrdered
<1>5. RsPlaces
  BY <1>1, <1>2 DEF RsInit, RsPlaces, RsNothing, RsIsSwapped
<1> QED BY <1>3, <1>4, <1>5 DEF RsIndInv

LEMMA AttemptBegins == ASSUME RsIndInv, RsBegin PROVE RsIndInv'
<1>1. /\ rsPc = "begin" /\ rsPc' = "stage" /\ rsBefore' = rsHome /\ rsMoves' = <<>>
      /\ rsStaged' = RsNothing /\ rsPrevious' = RsNothing
      /\ rsResult' = "none" /\ UNCHANGED <<rsProvider, rsHome, rsKept, rsRollbackFailed, rsFaults>>
  BY DEF RsBegin
<1>2. rsMoves' \in Seq(RsRename) /\ Len(rsMoves') = 0
  BY <1>1
<1>3. RsTypes'
  BY <1>1, <1>2 DEF RsIndInv, RsTypes, RsTypeOK, RsContents, RsNothing
<1>4. MovesAreOrdered'
  BY <1>2 DEF MovesAreOrdered
<1>5. \A t \in RsTrees : MovesAreTrue(t)'
  BY <1>1, <1>2 DEF MovesAreTrue, Renamed, RsNothing
<1>6. RsPlaces'
  BY <1>1, <1>5 DEF RsIndInv, RsPlaces, RsIsNew, RsIsSwapped
<1> QED BY <1>3, <1>4, <1>6 DEF RsIndInv

LEMMA StageKeeps == ASSUME RsIndInv, RsStage PROVE RsIndInv'
<1>1. /\ rsPc = "stage" /\ rsPc' = "swap"
      /\ rsStaged' = [RsNothing EXCEPT !["first"] = "new", !["second"] = "new"]
      /\ UNCHANGED <<rsProvider, rsHome, rsBefore, rsPrevious, rsKept, rsMoves, rsRollbackFailed,
                     rsResult, rsFaults>>
  BY DEF RsStage
<1>2. rsMoves = <<>> /\ Len(rsMoves) = 0
  BY <1>1 DEF RsIndInv, RsPlaces
<1>3. rsStaged' \in [RsTrees -> {"none", "new"}] /\ rsStaged'["projection"] = "none"
  BY <1>1 DEF RsNothing, RsTrees
<1>4. RsTypes'
  BY <1>1, <1>3 DEF RsIndInv, RsTypes, RsTypeOK
<1>5. MovesAreOrdered'
  BY <1>1 DEF RsIndInv, MovesAreOrdered
<1>6. \A t \in RsTrees : MovesAreTrue(t)' /\ ~Renamed(t, "in")'
  BY <1>1, <1>2 DEF RsIndInv, RsPlaces, MovesAreTrue, Renamed
<1>7. RsPlaces'
  BY <1>1, <1>3, <1>6 DEF RsIndInv, RsPlaces, RsIsNew, RsIsSwapped
<1> QED BY <1>4, <1>5, <1>7 DEF RsIndInv

(* One rename more: what stood stands.                                     *)
LEMMA OneMoreMove ==
  ASSUME RsIndInv, NEW t \in RsTrees, NEW way \in {"away", "in"}, ~Renamed(t, way),
         rsMoves' = Append(rsMoves, <<t, way>>), way = "away" => ~Renamed(t, "in"),
         way = "in" => t # "projection"
  PROVE  /\ rsMoves' \in Seq(RsRename) /\ MovesAreOrdered'
         /\ \A u \in RsTrees : \A w \in {"away", "in"} :
              Renamed(u, w)' <=> Renamed(u, w) \/ (u = t /\ w = way)
<1>1. rsMoves \in Seq(RsRename) /\ <<t, way>> \in RsRename
  BY DEF RsIndInv, RsTypes, RsRename
<1>2. /\ Len(rsMoves) \in Nat /\ rsMoves' \in Seq(RsRename) /\ Len(rsMoves') = Len(rsMoves) + 1
      /\ \A i \in 1..Len(rsMoves) : rsMoves'[i] = rsMoves[i]
      /\ rsMoves'[Len(rsMoves) + 1] = <<t, way>>
  BY <1>1
<1>3. \A i \in 1..Len(rsMoves) : rsMoves[i] # <<t, way>>
  BY DEF Renamed
<1>4. \A i \in 1..Len(rsMoves') : i = Len(rsMoves') \/ i \in 1..Len(rsMoves)
  BY <1>2
<1>5. \A i, j \in 1..Len(rsMoves') : rsMoves'[i] = rsMoves'[j] => i = j
  BY <1>2, <1>3, <1>4 DEF RsIndInv, MovesAreOrdered
<1>6. ASSUME NEW i \in 1..Len(rsMoves'), NEW j \in 1..Len(rsMoves'), NEW u \in RsTrees,
             rsMoves'[i] = <<u, "in">>, rsMoves'[j] = <<u, "away">>
      PROVE  j < i
  <2>1. CASE i \in 1..Len(rsMoves) /\ j \in 1..Len(rsMoves)
    BY <2>1, <1>2, <1>6 DEF RsIndInv, MovesAreOrdered
  <2>2. CASE i = Len(rsMoves') /\ j \in 1..Len(rsMoves)
    BY <2>2, <1>2
  <2>3. CASE j = Len(rsMoves')
    <3>1. u = t /\ way = "away"
      BY <2>3, <1>2, <1>6
    <3>2. i # j
      BY <1>6
    <3>3. i \in 1..Len(rsMoves) /\ rsMoves[i] = <<t, "in">>
      BY <3>1, <3>2, <2>3, <1>2, <1>4, <1>6
    <3> QED BY <3>1, <3>3 DEF Renamed
  <2> QED BY <2>1, <2>2, <2>3, <1>4
<1>7. \A i \in 1..Len(rsMoves') : rsMoves'[i] # <<"projection", "in">>
  BY <1>2, <1>4 DEF RsIndInv, MovesAreOrdered
<1>8. ASSUME NEW u \in RsTrees, NEW w \in {"away", "in"}
      PROVE  Renamed(u, w)' <=> Renamed(u, w) \/ (u = t /\ w = way)
  <2>1. ASSUME Renamed(u, w)' PROVE Renamed(u, w) \/ (u = t /\ w = way)
    BY <2>1, <1>2, <1>4 DEF Renamed
  <2>2. ASSUME Renamed(u, w) PROVE Renamed(u, w)'
    <3>1. PICK i \in 1..Len(rsMoves) : rsMoves[i] = <<u, w>>
      BY <2>2 DEF Renamed
    <3>2. i \in 1..Len(rsMoves') /\ rsMoves'[i] = <<u, w>>
      BY <3>1, <1>2
    <3> QED BY <3>2 DEF Renamed
  <2>3. Renamed(t, way)'
    BY <1>2 DEF Renamed
  <2> QED BY <2>1, <2>2, <2>3
<1> QED BY <1>2, <1>5, <1>6, <1>7, <1>8 DEF MovesAreOrdered

(* One rename less, the last.                                              *)
LEMMA OneMoveLess ==
  ASSUME RsIndInv, rsMoves # <<>>, rsMoves' = RemoveAt(rsMoves, Len(rsMoves)),
         NEW t \in RsTrees, NEW way \in {"away", "in"}, rsMoves[Len(rsMoves)] = <<t, way>>
  PROVE  /\ rsMoves' \in Seq(RsRename) /\ MovesAreOrdered'
         /\ Renamed(t, way) /\ (way = "away" => ~Renamed(t, "in"))
         /\ \A u \in RsTrees : \A w \in {"away", "in"} :
              Renamed(u, w)' <=> Renamed(u, w) /\ ~(u = t /\ w = way)
<1>1. rsMoves \in Seq(RsRename) /\ MovesAreOrdered
  BY DEF RsIndInv, RsTypes
<1> DEFINE n == Len(rsMoves)
<1>2. /\ n \in Nat \ {0} /\ rsMoves' \in Seq(RsRename) /\ Len(rsMoves') = n - 1
      /\ \A i \in 1..(n - 1) : rsMoves'[i] = rsMoves[i]
  BY <1>1, LastMoveGoes
<1>3. \A i \in 1..n : i = n \/ i \in 1..(n - 1)
  BY <1>2
<1>4. rsMoves[n] = <<t, way>>
  OBVIOUS
<1>5. /\ \A i, j \in 1..n : rsMoves[i] = rsMoves[j] => i = j
      /\ \A i, j \in 1..n : \A u \in RsTrees :
           rsMoves[i] = <<u, "in">> /\ rsMoves[j] = <<u, "away">> => j < i
      /\ \A i \in 1..n : rsMoves[i] # <<"projection", "in">>
  BY <1>1 DEF MovesAreOrdered
<1>6. MovesAreOrdered'
  <2>1. \A i \in 1..Len(rsMoves') : i \in 1..n /\ rsMoves'[i] = rsMoves[i]
    BY <1>2
  <2> QED BY <2>1, <1>5 DEF MovesAreOrdered
<1>7. Renamed(t, way)
  BY <1>2, <1>4 DEF Renamed
<1>8. way = "away" => ~Renamed(t, "in")
  BY <1>2, <1>4, <1>5 DEF Renamed
<1>9. ASSUME NEW u \in RsTrees, NEW w \in {"away", "in"}
      PROVE  Renamed(u, w)' <=> Renamed(u, w) /\ ~(u = t /\ w = way)
  <2>1. ASSUME Renamed(u, w)' PROVE Renamed(u, w) /\ ~(u = t /\ w = way)
    <3>1. PICK i \in 1..(n - 1) : rsMoves[i] = <<u, w>>
      BY <2>1, <1>2 DEF Renamed
    <3>2. i \in 1..n /\ i # n /\ n \in 1..n
      BY <1>2
    <3> QED BY <3>1, <3>2, <1>4, <1>5 DEF Renamed
  <2>2. ASSUME Renamed(u, w), ~(u = t /\ w = way) PROVE Renamed(u, w)'
    <3>1. PICK i \in 1..n : rsMoves[i] = <<u, w>>
      BY <2>2 DEF Renamed
    <3>2. i \in 1..(n - 1)
      BY <3>1, <2>2, <1>3, <1>4
    <3> QED BY <3>1, <3>2, <1>2 DEF Renamed
  <2> QED BY <2>1, <2>2
<1> QED BY <1>2, <1>6, <1>7, <1>8, <1>9

LEMMA SwapKeeps == ASSUME RsIndInv, RsSwap PROVE RsIndInv'
<1>1. /\ rsPc = "swap" /\ UNCHANGED <<rsProvider, rsBefore, rsKept, rsRollbackFailed, rsFaults>>
  BY DEF RsSwap
<1>2. /\ rsMoves \in Seq(RsRename) /\ MovesAreOrdered /\ rsResult = "none" /\ ~rsRollbackFailed
      /\ \A t \in RsTrees : MovesAreTrue(t) /\ (Renamed(t, "in") => rsStaged[t] = "none")
      /\ rsStaged["projection"] = "none"
  BY <1>1 DEF RsIndInv, RsTypes, RsPlaces
<1>3. CASE RsRemaining = {} /\ rsPc' = "clean" /\ rsResult' = "restored"
           /\ UNCHANGED <<rsHome, rsStaged, rsPrevious, rsMoves>>
  <2>1. \A t \in RsTrees : RsDone(t) => Renamed(t, "in") \/ (t = "projection" /\ rsHome[t] = "none")
    BY <1>2, MovesAsSet DEF RsDone
  <2>2. \A i \in 1..Len(RsOrder) : RsDone(RsOrder[i])
    BY <1>3 DEF RsRemaining
  <2>3. ~Renamed("projection", "in")
    BY <1>2 DEF Renamed, MovesAreOrdered
  <2>4. RsDone("first") /\ RsDone("second")
    <3>1. CASE rsProvider = "claude"
      <4>1. RsOrder = <<"first", "second">>
        BY <3>1 DEF RsOrder
      <4> QED BY <4>1, <2>2
    <3>2. CASE rsProvider # "claude"
      <4>1. RsOrder = <<"projection", "first", "second">>
        BY <3>2 DEF RsOrder
      <4> QED BY <4>1, <2>2
    <3> QED BY <3>1, <3>2
  <2>5. rsHome["projection"] = "none"
    <3>1. CASE rsProvider = "claude"
      BY <3>1 DEF RsIndInv, RsPlaces
    <3>2. CASE rsProvider # "claude"
      <4>1. RsOrder = <<"projection", "first", "second">>
        BY <3>2 DEF RsOrder
      <4>2. RsDone("projection")
        BY <4>1, <2>2
      <4> QED BY <4>2, <2>1, <2>3 DEF RsTrees
    <3> QED BY <3>1, <3>2
  <2>6. rsHome["first"] = "new" /\ rsHome["second"] = "new"
    BY <2>1, <2>4, <1>2 DEF MovesAreTrue, RsTrees
  <2>7. RsTypes' /\ MovesAreOrdered'
    BY <1>1, <1>3 DEF RsIndInv, RsTypes, RsTypeOK, MovesAreOrdered
  <2>8. RsPlaces'
    BY <1>1, <1>2, <1>3, <2>5, <2>6 DEF RsIndInv, RsPlaces, RsIsNew, RsIsSwapped
  <2> QED BY <2>7, <2>8 DEF RsIndInv
<1>4. ASSUME NEW i \in RsRemaining, RsMoveAway(RsOrder[i]) \/ RsMoveIn(RsOrder[i]),
             UNCHANGED <<rsPc, rsResult>>
      PROVE  RsIndInv'
  <2>0. RsOrder[i] \in RsTrees /\ (rsProvider = "claude" => RsOrder[i] # "projection")
    <3>1. CASE rsProvider = "claude"
      <4>1. RsOrder = <<"first", "second">>
        BY <3>1 DEF RsOrder
      <4> QED BY <4>1 DEF RsRemaining, RsTrees
    <3>2. CASE rsProvider # "claude"
      <4>1. RsOrder = <<"projection", "first", "second">>
        BY <3>2 DEF RsOrder
      <4> QED BY <4>1, <3>2 DEF RsRemaining, RsTrees
    <3> QED BY <3>1, <3>2
  <2>1. PICK t \in RsTrees : t = RsOrder[i] /\ (rsProvider = "claude" => t # "projection")
    BY <2>0
  <2>2. ~Renamed(t, "in")
    BY <1>2, <2>1, MovesAsSet DEF RsRemaining, RsDone
  <2>3. CASE RsMoveAway(t)
    <3>1. /\ rsHome[t] # "none" /\ ~Renamed(t, "away")
          /\ rsPrevious' = [rsPrevious EXCEPT ![t] = rsHome[t]]
          /\ rsHome' = [rsHome EXCEPT ![t] = "none"]
          /\ rsMoves' = Append(rsMoves, <<t, "away">>) /\ rsStaged' = rsStaged
      BY <2>3, <1>2, MovesAsSet DEF RsMoveAway
    <3>2. /\ rsMoves' \in Seq(RsRename) /\ MovesAreOrdered'
          /\ \A u \in RsTrees : (Renamed(u, "away")' <=> Renamed(u, "away") \/ u = t)
                             /\ (Renamed(u, "in")' <=> Renamed(u, "in"))
      BY <3>1, <2>1, <2>2, OneMoreMove
    <3>3. /\ rsHome' \in [RsTrees -> RsContents] /\ rsPrevious' \in [RsTrees -> RsContents]
          /\ rsHome'[t] = "none" /\ rsPrevious'[t] = rsHome[t]
          /\ \A u \in RsTrees \ {t} : rsHome'[u] = rsHome[u] /\ rsPrevious'[u] = rsPrevious[u]
      BY <3>1, <2>1 DEF RsIndInv, RsTypes, RsTypeOK, RsContents
    <3>4. \A u \in RsTrees : MovesAreTrue(u)'
      <4>1. MovesAreTrue(t)'
        BY <3>1, <3>2, <3>3, <2>1, <2>2, <1>1, <1>2 DEF MovesAreTrue
      <4>2. \A u \in RsTrees \ {t} : MovesAreTrue(u)'
        BY <3>2, <3>3, <1>1, <1>2 DEF MovesAreTrue
      <4> QED BY <4>1, <4>2
    <3>5. RsTypes'
      BY <3>1, <3>2, <3>3, <1>1, <1>4 DEF RsIndInv, RsTypes, RsTypeOK
    <3>6. rsProvider' = "claude" =>
            rsHome'["projection"] = "none" /\ rsBefore'["projection"] = "none"
      BY <3>3, <2>1, <1>1 DEF RsIndInv, RsPlaces, RsTrees
    <3>7. RsPlaces'
      BY <3>1, <3>2, <3>4, <3>6, <1>1, <1>2, <1>4 DEF RsPlaces, RsIsSwapped
    <3> QED BY <3>2, <3>5, <3>7 DEF RsIndInv
  <2>4. CASE RsMoveIn(t)
    <3>1. /\ rsHome[t] = "none" /\ rsStaged[t] # "none" /\ rsHome' = [rsHome EXCEPT ![t] = rsStaged[t]]
          /\ rsStaged' = [rsStaged EXCEPT ![t] = "none"]
          /\ rsMoves' = Append(rsMoves, <<t, "in">>) /\ rsPrevious' = rsPrevious
      BY <2>4 DEF RsMoveIn
    <3>2. /\ rsMoves' \in Seq(RsRename) /\ MovesAreOrdered'
          /\ \A u \in RsTrees : (Renamed(u, "in")' <=> Renamed(u, "in") \/ u = t)
                             /\ (Renamed(u, "away")' <=> Renamed(u, "away"))
      BY <3>1, <2>1, <2>2, <1>2, OneMoreMove
    <3>3. /\ rsStaged[t] = "new" /\ rsHome' \in [RsTrees -> RsContents]
          /\ rsStaged' \in [RsTrees -> {"none", "new"}]
          /\ rsHome'[t] = "new" /\ rsStaged'[t] = "none"
          /\ \A u \in RsTrees \ {t} : rsHome'[u] = rsHome[u] /\ rsStaged'[u] = rsStaged[u]
      BY <3>1, <2>1 DEF RsIndInv, RsTypes, RsTypeOK, RsContents
    <3>4. \A u \in RsTrees : MovesAreTrue(u)'
      <4>1. MovesAreTrue(t)'
        BY <3>1, <3>2, <3>3, <2>1, <2>2, <1>1, <1>2 DEF MovesAreTrue
      <4>2. \A u \in RsTrees \ {t} : MovesAreTrue(u)'
        BY <3>1, <3>2, <3>3, <1>1, <1>2 DEF MovesAreTrue
      <4> QED BY <4>1, <4>2
    <3>5. RsTypes'
      BY <3>1, <3>2, <3>3, <1>1, <1>4 DEF RsIndInv, RsTypes, RsTypeOK
    <3>6. t # "projection" /\ (rsProvider' = "claude" =>
            rsHome'["projection"] = "none" /\ rsBefore'["projection"] = "none")
          /\ rsStaged'["projection"] = "none"
      BY <3>1, <3>3, <1>1, <1>2 DEF RsIndInv, RsPlaces, RsTrees
    <3>7. \A u \in RsTrees : Renamed(u, "in")' => rsStaged'[u] = "none"
      BY <3>2, <3>3, <1>2
    <3>8. RsPlaces'
      BY <3>2, <3>4, <3>6, <3>7, <1>1, <1>2, <1>4 DEF RsPlaces, RsIsSwapped
    <3> QED BY <3>2, <3>5, <3>8 DEF RsIndInv
  <2> QED BY <2>1, <2>3, <2>4, <1>4
<1> QED BY <1>3, <1>4 DEF RsSwap

LEMMA TrueMovesKeepOld ==
  ASSUME RsIndInv, NEW t \in RsTrees, MovesAreTrue(t) PROVE OldIsSomewhere(t)
BY DEF MovesAreTrue, OldIsSomewhere

LEMMA StartFailsKeeps == ASSUME RsIndInv, RsFails PROVE RsIndInv'
<1>1. /\ rsPc \in {"stage", "swap"} /\ rsFaults' = rsFaults + 1 /\ rsResult' = "failed"
      /\ rsPc' = (IF rsMoves = <<>> THEN "clean" ELSE "rollback")
      /\ UNCHANGED <<rsProvider, rsHome, rsBefore, rsStaged, rsPrevious, rsKept, rsMoves,
                     rsRollbackFailed>>
  BY DEF RsFails
<1>2. RsTypes' /\ MovesAreOrdered'
  BY <1>1 DEF RsIndInv, RsTypes, RsTypeOK, MovesAreOrdered
<1>3. ~rsRollbackFailed /\ \A t \in RsTrees : MovesAreTrue(t) /\ MovesAreTrue(t)'
  BY <1>1 DEF RsIndInv, RsPlaces, MovesAreTrue, Renamed
<1>4. rsFaults \in Nat
  BY DEF RsIndInv, RsTypes
<1>5. CASE rsMoves = <<>>
  <2>1. Len(rsMoves) = 0
    BY <1>5
  <2>2. \A t \in RsTrees : rsHome[t] = rsBefore[t]
    BY <2>1, <1>3 DEF MovesAreTrue, Renamed
  <2>3. rsHome = rsBefore
    BY <2>2 DEF RsIndInv, RsTypes, RsTypeOK
  <2>4. RsPlaces'
    BY <1>1, <1>3, <1>4, <1>5, <2>3 DEF RsIndInv, RsPlaces, RsIsSwapped
  <2> QED BY <1>2, <2>4 DEF RsIndInv
<1>6. CASE rsMoves # <<>>
  <2>1. RsPlaces'
    BY <1>1, <1>3, <1>4, <1>6 DEF RsIndInv, RsPlaces, RsIsSwapped
  <2> QED BY <1>2, <2>1 DEF RsIndInv
<1> QED BY <1>5, <1>6

(* Undoing the last rename: what the ones before it say is true again.     *)
LEMMA UndoKeeps == ASSUME RsIndInv, RsUndo PROVE RsIndInv'
<1>1. /\ rsPc = "rollback" /\ rsMoves # <<>> /\ rsMoves' = RemoveAt(rsMoves, Len(rsMoves))
      /\ UNCHANGED <<rsProvider, rsPc, rsBefore, rsKept, rsResult, rsFaults>>
  BY DEF RsUndo, RsUndoneFirst
<1>2. rsMoves \in Seq(RsRename) /\ Len(rsMoves) \in Nat \ {0}
  BY <1>1, LastMoveGoes DEF RsIndInv, RsTypes
<1>3. PICK t \in RsTrees, way \in {"away", "in"} : rsMoves[Len(rsMoves)] = <<t, way>>
  <2>1. rsMoves[Len(rsMoves)] \in RsRename
    BY <1>2
  <2> QED BY <2>1 DEF RsRename
<1>4. /\ rsMoves' \in Seq(RsRename) /\ MovesAreOrdered'
      /\ Renamed(t, way) /\ (way = "away" => ~Renamed(t, "in"))
      /\ \A u \in RsTrees : \A w \in {"away", "in"} :
           Renamed(u, w)' <=> Renamed(u, w) /\ ~(u = t /\ w = way)
  BY <1>1, <1>3, OneMoveLess
<1>5. /\ rsResult = "failed"
      /\ ~rsRollbackFailed => \A u \in RsTrees : MovesAreTrue(u)
      /\ rsRollbackFailed => \A u \in RsTrees : OldIsSomewhere(u)
      /\ rsFaults \in Nat /\ rsFaults >= 1 /\ (rsRollbackFailed => rsFaults >= 2)
      /\ rsProvider = "claude" => rsHome["projection"] = "none" /\ rsBefore["projection"] = "none"
  BY <1>1 DEF RsIndInv, RsPlaces, RsTypes
<1>6. /\ rsHome \in [RsTrees -> RsContents] /\ rsPrevious \in [RsTrees -> RsContents]
      /\ rsStaged \in [RsTrees -> {"none", "new"}] /\ rsBefore \in [RsTrees -> RsContents]
  BY DEF RsIndInv, RsTypes, RsTypeOK
<1>7. \A u \in RsTrees : OldIsSomewhere(u)
  BY <1>5, TrueMovesKeepOld
<1>8. CASE way = "in"
  <2>1. /\ rsStaged' = [rsStaged EXCEPT ![t] = rsHome[t]] /\ rsHome' = [rsHome EXCEPT ![t] = "none"]
        /\ UNCHANGED <<rsPrevious, rsRollbackFailed>>
    BY <1>3, <1>8 DEF RsUndo, RsUndoneFirst
  <2>2. rsHome[t] = "new"
    BY <1>4, <1>7, <1>8 DEF OldIsSomewhere
  <2>3. /\ rsStaged' \in [RsTrees -> {"none", "new"}] /\ rsHome' \in [RsTrees -> RsContents]
        /\ rsHome'[t] = "none" /\ \A u \in RsTrees \ {t} : rsHome'[u] = rsHome[u]
    BY <2>1, <2>2, <1>6 DEF RsContents
  <2>4. /\ ~Renamed(t, "in")' /\ (Renamed(t, "away")' <=> Renamed(t, "away"))
        /\ \A u \in RsTrees \ {t} : \A w \in {"away", "in"} : Renamed(u, w)' <=> Renamed(u, w)
    BY <1>4, <1>8
  <2>5. ASSUME ~rsRollbackFailed, NEW u \in RsTrees PROVE MovesAreTrue(u)'
    <3>1. MovesAreTrue(u)
      BY <2>5, <1>5
    <3>2. CASE u = t
      BY <3>1, <3>2, <2>1, <2>3, <2>4, <1>1, <1>4, <1>8 DEF MovesAreTrue
    <3>3. CASE u # t
      BY <3>1, <3>3, <2>1, <2>3, <2>4, <1>1 DEF MovesAreTrue
    <3> QED BY <3>2, <3>3
  <2>6. ASSUME NEW u \in RsTrees PROVE OldIsSomewhere(u)'
    <3>1. OldIsSomewhere(u)
      BY <1>7
    <3>2. CASE u = t
      BY <3>1, <3>2, <2>1, <2>2, <2>3, <2>4, <1>1 DEF OldIsSomewhere
    <3>3. CASE u # t
      BY <3>1, <3>3, <2>1, <2>3, <2>4, <1>1 DEF OldIsSomewhere
    <3> QED BY <3>2, <3>3
  <2>7. rsHome'["projection"] = rsHome["projection"] \/ rsHome'["projection"] = "none"
    BY <2>3 DEF RsTrees
  <2>8. RsPlaces'
    BY <2>1, <2>5, <2>6, <2>7, <1>1, <1>5 DEF RsPlaces, RsIsSwapped
  <2>9. RsTypes'
    BY <2>1, <2>3, <1>1, <1>4 DEF RsIndInv, RsTypes, RsTypeOK
  <2> QED BY <2>8, <2>9, <1>4 DEF RsIndInv
<1>9. CASE way = "away" /\ rsHome[t] = "none"
  <2>1. /\ rsHome' = [rsHome EXCEPT ![t] = rsPrevious[t]]
        /\ rsPrevious' = [rsPrevious EXCEPT ![t] = "none"] /\ UNCHANGED <<rsStaged, rsRollbackFailed>>
    BY <1>3, <1>9 DEF RsUndo, RsUndoneFirst
  <2>2. rsPrevious[t] = rsBefore[t]
    BY <1>4, <1>7, <1>9 DEF OldIsSomewhere
  <2>3. /\ rsHome' \in [RsTrees -> RsContents] /\ rsPrevious' \in [RsTrees -> RsContents]
        /\ rsHome'[t] = rsBefore[t] /\ rsPrevious'[t] = "none"
        /\ \A u \in RsTrees \ {t} : rsHome'[u] = rsHome[u] /\ rsPrevious'[u] = rsPrevious[u]
    BY <2>1, <2>2, <1>6 DEF RsContents
  <2>4. /\ ~Renamed(t, "in")' /\ ~Renamed(t, "away")'
        /\ \A u \in RsTrees \ {t} : \A w \in {"away", "in"} : Renamed(u, w)' <=> Renamed(u, w)
    BY <1>4, <1>9
  <2>5. ASSUME ~rsRollbackFailed, NEW u \in RsTrees PROVE MovesAreTrue(u)'
    <3>1. MovesAreTrue(u)
      BY <2>5, <1>5
    <3>2. CASE u = t
      BY <3>2, <2>3, <2>4, <1>1 DEF MovesAreTrue
    <3>3. CASE u # t
      BY <3>1, <3>3, <2>3, <2>4, <1>1 DEF MovesAreTrue
    <3> QED BY <3>2, <3>3
  <2>6. ASSUME NEW u \in RsTrees PROVE OldIsSomewhere(u)'
    <3>1. OldIsSomewhere(u)
      BY <1>7
    <3>2. CASE u = t
      BY <3>2, <2>3, <2>4, <1>1 DEF OldIsSomewhere
    <3>3. CASE u # t
      BY <3>1, <3>3, <2>3, <2>4, <1>1 DEF OldIsSomewhere
    <3> QED BY <3>2, <3>3
  <2>7. rsProvider' = "claude" => rsHome'["projection"] = "none"
    <3>1. rsProvider = "claude" /\ t = "projection" => rsBefore[t] = "none"
      BY DEF RsIndInv, RsPlaces
    <3> QED BY <3>1, <2>3, <1>1, <1>5 DEF RsTrees
  <2>8. RsPlaces'
    BY <2>1, <2>5, <2>6, <2>7, <1>1, <1>5 DEF RsPlaces, RsIsSwapped
  <2>9. RsTypes'
    BY <2>1, <2>3, <1>1, <1>4 DEF RsIndInv, RsTypes, RsTypeOK
  <2> QED BY <2>8, <2>9, <1>4 DEF RsIndInv
<1>10. CASE way = "away" /\ rsHome[t] # "none"
  <2>1. rsRollbackFailed' = TRUE /\ UNCHANGED <<rsHome, rsPrevious, rsStaged>>
    BY <1>3, <1>10 DEF RsUndo, RsUndoneFirst
  <2>2. rsRollbackFailed
    BY <1>4, <1>5, <1>10 DEF MovesAreTrue
  <2>3. \A u \in RsTrees : OldIsSomewhere(u)'
    BY <2>1, <1>1, <1>4, <1>7 DEF OldIsSomewhere
  <2>4. RsPlaces'
    BY <2>1, <2>2, <2>3, <1>1, <1>5 DEF RsPlaces, RsIsSwapped
  <2>5. RsTypes'
    BY <2>1, <2>2, <1>1, <1>4 DEF RsIndInv, RsTypes, RsTypeOK
  <2> QED BY <2>4, <2>5, <1>4 DEF RsIndInv
<1> QED BY <1>8, <1>9, <1>10

LEMMA UndoFailsKeeps == ASSUME RsIndInv, RsUndoFails PROVE RsIndInv'
<1>1. /\ rsPc = "rollback" /\ rsMoves # <<>> /\ rsMoves' = RemoveAt(rsMoves, Len(rsMoves))
      /\ rsFaults' = rsFaults + 1 /\ rsRollbackFailed' = TRUE
      /\ UNCHANGED <<rsProvider, rsPc, rsHome, rsBefore, rsStaged, rsPrevious, rsKept, rsResult>>
  BY DEF RsUndoFails, RsUndoneFirst
<1>2. rsMoves \in Seq(RsRename) /\ Len(rsMoves) \in Nat \ {0}
  BY <1>1, LastMoveGoes DEF RsIndInv, RsTypes
<1>3. PICK t \in RsTrees, way \in {"away", "in"} : rsMoves[Len(rsMoves)] = <<t, way>>
  <2>1. rsMoves[Len(rsMoves)] \in RsRename
    BY <1>2
  <2> QED BY <2>1 DEF RsRename
<1>4. /\ rsMoves' \in Seq(RsRename) /\ MovesAreOrdered'
      /\ \A u \in RsTrees : \A w \in {"away", "in"} : Renamed(u, w)' => Renamed(u, w)
  BY <1>1, <1>3, OneMoveLess
<1>5. /\ rsResult = "failed" /\ rsFaults \in Nat /\ rsFaults >= 1
      /\ rsProvider = "claude" => rsHome["projection"] = "none" /\ rsBefore["projection"] = "none"
  BY <1>1 DEF RsIndInv, RsPlaces, RsTypes
<1>6. \A u \in RsTrees : OldIsSomewhere(u)'
  <2>1. \A u \in RsTrees : OldIsSomewhere(u)
    BY <1>1, TrueMovesKeepOld DEF RsIndInv, RsPlaces
  <2> QED BY <2>1, <1>1, <1>4 DEF OldIsSomewhere
<1>7. RsPlaces'
  BY <1>1, <1>5, <1>6 DEF RsPlaces, RsIsSwapped
<1>8. RsTypes'
  BY <1>1, <1>4, <1>5 DEF RsIndInv, RsTypes, RsTypeOK
<1> QED BY <1>4, <1>7, <1>8 DEF RsIndInv

(* A sync that fails then spoils nothing that was renamed back.            *)
LEMMA UndoneKeeps == ASSUME RsIndInv, RsUndone PROVE RsIndInv'
<1>1. /\ rsPc = "rollback" /\ rsMoves = <<>> /\ rsPc' = "clean"
      /\ \/ UNCHANGED <<rsRollbackFailed, rsFaults>>
         \/ /\ rsFaults' = rsFaults + 1
            /\ rsRollbackFailed' = (rsRollbackFailed \/ rsProvider = "openai")
      /\ UNCHANGED <<rsProvider, rsHome, rsBefore, rsStaged, rsPrevious, rsKept, rsMoves, rsResult>>
  BY DEF RsUndone
<1>2. /\ rsRollbackFailed \in BOOLEAN /\ rsRollbackFailed' \in BOOLEAN
      /\ rsFaults \in Nat /\ rsFaults' \in Nat /\ rsFaults' >= rsFaults
      /\ rsRollbackFailed => rsRollbackFailed'
      /\ rsRollbackFailed' /\ ~rsRollbackFailed => rsFaults' = rsFaults + 1
  <2>1. rsRollbackFailed \in BOOLEAN /\ rsFaults \in Nat
    BY DEF RsIndInv, RsTypes
  <2>2. CASE UNCHANGED <<rsRollbackFailed, rsFaults>>
    BY <2>1, <2>2
  <2>3. CASE /\ rsFaults' = rsFaults + 1
             /\ rsRollbackFailed' = (rsRollbackFailed \/ rsProvider = "openai")
    <3>1. rsFaults' \in Nat /\ rsFaults' >= rsFaults
      BY <2>1, <2>3
    <3>2. rsRollbackFailed' \in BOOLEAN /\ (rsRollbackFailed => rsRollbackFailed')
      BY <2>3
    <3> QED BY <2>1, <2>3, <3>1, <3>2
  <2> QED BY <1>1, <2>2, <2>3
<1>3. RsTypes' /\ MovesAreOrdered'
  BY <1>1, <1>2 DEF RsIndInv, RsTypes, RsTypeOK, MovesAreOrdered
<1>4. \A t \in RsTrees : ~Renamed(t, "away") /\ ~Renamed(t, "in")
  <2>1. Len(rsMoves) = 0
    BY <1>1
  <2> QED BY <2>1 DEF Renamed
<1>5. ~rsRollbackFailed => \A t \in RsTrees : MovesAreTrue(t)
  BY <1>1 DEF RsIndInv, RsPlaces
<1>6. ~rsRollbackFailed => rsHome = rsBefore
  <2>1. ~rsRollbackFailed => \A t \in RsTrees : rsHome[t] = rsBefore[t]
    BY <1>4, <1>5 DEF MovesAreTrue
  <2> QED BY <2>1 DEF RsIndInv, RsTypes, RsTypeOK
<1>7. \A t \in RsTrees : OldIsSomewhere(t)'
  <2>1. \A t \in RsTrees : OldIsSomewhere(t)
    BY <1>1, <1>5, TrueMovesKeepOld DEF RsIndInv, RsPlaces
  <2> QED BY <2>1, <1>1 DEF OldIsSomewhere, Renamed
<1>8. /\ rsResult = "failed" /\ rsFaults >= 1 /\ (rsRollbackFailed => rsFaults >= 2)
      /\ rsProvider = "claude" => rsHome["projection"] = "none" /\ rsBefore["projection"] = "none"
  BY <1>1 DEF RsIndInv, RsPlaces
<1>9. RsPlaces'
  BY <1>1, <1>2, <1>6, <1>7, <1>8 DEF RsPlaces, RsIsSwapped
<1> QED BY <1>3, <1>9 DEF RsIndInv

(* What is removed at the end is not the only copy of anything old.        *)
LEMMA CleanKeeps == ASSUME RsIndInv, RsClean PROVE RsIndInv'
<1>1. /\ rsPc = "clean" /\ rsPc' = "done"
      /\ rsPrevious' = (IF RsRemovesPrevious THEN RsNothing ELSE rsPrevious)
      /\ rsStaged' = (IF RsKeepsStaging THEN rsStaged ELSE RsNothing)
      /\ UNCHANGED <<rsProvider, rsHome, rsBefore, rsKept, rsMoves, rsRollbackFailed, rsResult,
                     rsFaults>>
  BY DEF RsClean
<1>2. /\ rsPrevious' \in [RsTrees -> RsContents] /\ rsStaged' \in [RsTrees -> {"none", "new"}]
  BY <1>1 DEF RsIndInv, RsTypes, RsTypeOK, RsNothing, RsContents
<1>3. RsTypes' /\ MovesAreOrdered'
  BY <1>1, <1>2 DEF RsIndInv, RsTypes, RsTypeOK, MovesAreOrdered
<1>4. ASSUME rsResult = "failed", rsRollbackFailed PROVE \A t \in RsTrees : OldIsSomewhere(t)'
  <2>1. rsPrevious' = rsPrevious
    BY <1>1, <1>4 DEF RsRemovesPrevious
  <2>2. \A t \in RsTrees : OldIsSomewhere(t)
    BY <1>1, <1>4 DEF RsIndInv, RsPlaces
  <2> QED BY <2>1, <2>2, <1>1 DEF OldIsSomewhere, Renamed
<1>5. RsPlaces'
  BY <1>1, <1>4 DEF RsIndInv, RsPlaces, RsIsNew, RsIsSwapped
<1> QED BY <1>3, <1>5 DEF RsIndInv

LEMMA CleanFailsKeeps == ASSUME RsIndInv, RsCleanFails PROVE RsIndInv'
<1>1. /\ rsPc = "clean" /\ ~RsKeepsStaging /\ rsPc' = "done" /\ rsFaults' = rsFaults + 1
      /\ rsResult' = (IF rsResult = "restored" THEN "uncleaned" ELSE rsResult)
      /\ rsStaged' \in {rsStaged, RsNothing}
      /\ UNCHANGED <<rsProvider, rsHome, rsBefore, rsKept, rsMoves, rsRollbackFailed>>
  BY DEF RsCleanFails
<1>2. PICK removed \in SUBSET RsTrees :
        rsPrevious' = [t \in RsTrees |-> IF RsRemovesPrevious /\ t \in removed THEN "none"
                                        ELSE rsPrevious[t]]
  BY DEF RsCleanFails
<1>3. rsPrevious' \in [RsTrees -> RsContents] /\ rsStaged' \in [RsTrees -> {"none", "new"}]
  BY <1>1, <1>2 DEF RsIndInv, RsTypes, RsTypeOK, RsNothing, RsContents
<1>4. RsTypes' /\ MovesAreOrdered'
  BY <1>1, <1>3 DEF RsIndInv, RsTypes, RsTypeOK, MovesAreOrdered
<1>5. ASSUME rsResult = "failed", rsRollbackFailed PROVE \A t \in RsTrees : OldIsSomewhere(t)'
  <2>1. \A t \in RsTrees : rsPrevious'[t] = rsPrevious[t]
    BY <1>1, <1>2, <1>5 DEF RsRemovesPrevious, RsKeepsStaging
  <2>2. \A t \in RsTrees : OldIsSomewhere(t)
    BY <1>1, <1>5 DEF RsIndInv, RsPlaces
  <2> QED BY <2>1, <2>2, <1>1 DEF OldIsSomewhere, Renamed
<1>6. /\ rsFaults \in Nat /\ rsResult \in {"restored", "uncleaned", "failed"}
      /\ rsRollbackFailed => rsResult = "failed"
  BY <1>1 DEF RsIndInv, RsPlaces, RsTypes
<1>7. RsPlaces'
  BY <1>1, <1>5, <1>6 DEF RsIndInv, RsPlaces, RsIsNew, RsIsSwapped
<1> QED BY <1>4, <1>7 DEF RsIndInv

LEMMA RestartKeepsOld == ASSUME RsIndInv, RsRestarts PROVE RsIndInv'
<1>1. /\ rsPc # "begin" /\ rsPc' = "begin"
      /\ ~RsIsSwapped => rsKept' = rsKept \cup {t \in RsTrees : rsPrevious[t] = "old"}
      /\ RsIsSwapped => rsKept' = rsKept
      /\ rsMoves' = <<>> /\ rsStaged' = RsNothing /\ rsPrevious' = RsNothing
      /\ rsRollbackFailed' = FALSE
      /\ UNCHANGED <<rsProvider, rsHome, rsBefore, rsResult, rsFaults>>
  BY DEF RsRestarts
<1>2. rsMoves' \in Seq(RsRename) /\ Len(rsMoves') = 0
  BY <1>1
<1>3. RsTypes'
  BY <1>1, <1>2 DEF RsIndInv, RsTypes, RsTypeOK, RsNothing, RsContents
<1>4. MovesAreOrdered'
  BY <1>2 DEF MovesAreOrdered
<1>5. ~RsIsSwapped =>
        \A t \in RsTrees : rsBefore[t] = "old" => rsHome[t] = "old" \/ rsPrevious[t] = "old"
  <2>1. CASE rsPc \in {"stage", "swap", "rollback"}
    BY <2>1, TrueMovesKeepOld DEF RsIndInv, RsPlaces, OldIsSomewhere
  <2>2. CASE rsPc \in {"clean", "done"}
    BY <2>2 DEF RsIndInv, RsPlaces, OldIsSomewhere, RsIsSwapped
  <2> QED BY <2>1, <2>2, <1>1 DEF RsIndInv, RsTypes, RsTypeOK
<1>6. \A t \in RsTrees : /\ rsPrevious'[t] = "none"
                         /\ rsBefore[t] = "old" /\ ~RsIsSwapped => rsHome[t] = "old" \/ t \in rsKept'
  BY <1>1, <1>5 DEF RsNothing
<1>7. RsIsSwapped' <=> RsIsSwapped
  BY <1>1 DEF RsIsSwapped
<1>8. RsPlaces'
  BY <1>1, <1>6, <1>7 DEF RsIndInv, RsPlaces, RsIsNew
<1> QED BY <1>3, <1>4, <1>8 DEF RsIndInv

LEMMA RestoreSteps == RsIndInv /\ RsNext => RsIndInv'
BY AttemptBegins, StageKeeps, SwapKeeps, StartFailsKeeps, UndoKeeps, UndoFailsKeeps, UndoneKeeps,
   CleanKeeps, CleanFailsKeeps, RestartKeepsOld DEF RsNext, RsStep

LEMMA RestoreRests == RsIndInv /\ UNCHANGED rsVars => RsIndInv'
<1> SUFFICES ASSUME RsIndInv, UNCHANGED rsVars PROVE RsIndInv'
  OBVIOUS
<1>1. RsTypes' /\ MovesAreOrdered'
  BY DEF RsIndInv, RsTypes, RsTypeOK, MovesAreOrdered, rsVars
<1>2. \A t \in RsTrees : /\ MovesAreTrue(t) <=> MovesAreTrue(t)'
                         /\ OldIsSomewhere(t) <=> OldIsSomewhere(t)'
                         /\ Renamed(t, "in") <=> Renamed(t, "in")'
  BY DEF MovesAreTrue, OldIsSomewhere, Renamed, rsVars
<1>3. RsPlaces'
  BY <1>2 DEF RsIndInv, RsPlaces, RsIsNew, RsIsSwapped, rsVars
<1> QED BY <1>1, <1>3 DEF RsIndInv

LEMMA RestoreIsSafe == RsIndInv => RsRestoresSafely
<1> SUFFICES ASSUME RsIndInv PROVE RsRestoresSafely
  OBVIOUS
<1>1. RestoreIsWhole
  BY DEF RsIndInv, RsTypes, RsPlaces, RsIsNew, RsIsSwapped, RestoreIsWhole
<1>2. NothingOldIsLost
  <2> SUFFICES ASSUME NEW t \in RsTrees, rsBefore[t] = "old", ~RsIsSwapped
               PROVE  rsHome[t] = "old" \/ rsPrevious[t] = "old" \/ t \in rsKept
    BY DEF NothingOldIsLost
  <2>1. CASE rsPc = "begin"
    BY <2>1 DEF RsIndInv, RsPlaces
  <2>2. CASE rsPc \in {"stage", "swap", "rollback"}
    BY <2>2, TrueMovesKeepOld DEF RsIndInv, RsPlaces, OldIsSomewhere
  <2>3. CASE rsPc \in {"clean", "done"}
    BY <2>3 DEF RsIndInv, RsPlaces, OldIsSomewhere, RsIsSwapped
  <2> QED BY <2>1, <2>2, <2>3 DEF RsIndInv, RsTypes, RsTypeOK
<1> QED BY <1>1, <1>2 DEF RsRestoresSafely

-----------------------------------------------------------------------------
(* The skill catalog.                                                      *)

SkSteps == {"idle", "begun", "recover", "clean", "cleanSync", "stage", "prepare", "prepared",
            "activate", "activeSync", "moveLive", "moveSync", "mark", "markSync", "finish",
            "restore", "placeSync", "retire", "retireSync", "committed", "dispose", "fail",
            "settled", "gone"}
(* Finishing or rolling back a transaction, one's own or one found.        *)
SkMending == {"finish", "restore", "placeSync", "retire"}
SkCommitting == {"activeSync", "moveLive", "moveSync", "mark", "markSync"}
SkLocked == SkMending \cup SkCommitting \cup {"recover", "clean", "cleanSync", "activate", "retireSync"}

SkTypes ==
  /\ skFs \in SkTree /\ skDisk \in SkTree /\ skNext \in 2..(SkMaxGeneration + 1)
  /\ skLock \in 0..SkMaxGeneration /\ skStaging \subseteq SkGenerations
  /\ skPc \in [SkGenerations -> SkSteps]
  /\ skWhy \in [SkGenerations -> {"none", "recovery", "commit", "abandoned"}]

(* One transaction is active at most, and what it holds tells how to end   *)
(* it: a marked one has either catalog in place, an unmarked one its new   *)
(* catalog and not both the old one and a live one.                        *)
TransactionIsClear(tree) ==
  /\ \A a, b \in SkActive(tree) : a = b
  /\ \A o \in SkActive(tree) :
       IF tree.mark[o] THEN (tree.live = 0) <=> (tree.new[o] # "none")
                       ELSE tree.new[o] # "none" /\ (tree.live = 0 \/ tree.old[o] = 0)
  /\ \A g \in SkGenerations : tree.place[g] \in {"absent", "stage"} => tree.old[g] = 0 /\ ~tree.mark[g]

YetToBegin(g) == g >= skNext => skPc[g] = "idle"

(* Nothing of a generation is there before it stages.                      *)
SkEarly(g) ==
  \/ skPc[g] \in {"idle", "begun", "recover", "clean", "cleanSync", "stage"}
  \/ skPc[g] \in SkMending \cup {"retireSync"} /\ skWhy[g] = "recovery"
NothingEarly(g) == SkEarly(g) => skFs.place[g] = "absent" /\ skDisk.place[g] = "absent"

(* Who is at a step of the commit or the recovery holds the lock, and      *)
(* knows of a commit that it is one.                                       *)
LockIsHeld(g) ==
  /\ skPc[g] \in SkLocked => skLock = g
  /\ skPc[g] \in SkCommitting \cup {"activate"} => skWhy[g] = "commit"

(* A generation that prepares has its directory, and no cleaning takes it. *)
StageIsKept(g) ==
  skPc[g] \in {"prepare", "prepared", "activate"} =>
    skFs.place[g] = "stage" /\ skFs.new[g] # "none" /\ g \in skStaging

(* Each step of a transaction finds what the last one left.                *)
CommitsInOrder(g) ==
  /\ skPc[g] \in SkCommitting => g \in SkActive(skFs) /\ skFs.new[g] # "none"
  /\ skPc[g] \in {"activeSync", "moveLive"} => skFs.old[g] = 0
  /\ skPc[g] \in {"activeSync", "moveLive", "moveSync", "mark"} => ~skFs.mark[g]
  /\ skPc[g] \in {"moveSync", "mark", "markSync"} => skFs.live = 0
  /\ skPc[g] = "moveLive" => skFs.live # 0
  /\ skPc[g] = "markSync" => skFs.mark[g]
MendsWhatItFound(g) ==
  /\ skPc[g] \in SkMending => SkActive(skFs) # {}
  /\ skPc[g] = "finish" => \A o \in SkActive(skFs) : skFs.mark[o]
  /\ skPc[g] = "restore" => \A o \in SkActive(skFs) : ~skFs.mark[o]
  /\ skPc[g] \in SkMending \cup {"retireSync"} => skWhy[g] # "none"

GenerationIsTrue(g) ==
  /\ YetToBegin(g) /\ NothingEarly(g) /\ LockIsHeld(g)
  /\ StageIsKept(g) /\ CommitsInOrder(g) /\ MendsWhatItFound(g)

SkIndInv ==
  /\ SkTypes /\ TransactionIsClear(skFs) /\ TransactionIsClear(skDisk)
  /\ \A g \in SkGenerations : GenerationIsTrue(g)

(* What the operations on the file system make of a tree.                  *)
Staged(tree, g) == [tree EXCEPT !.place[g] = "stage", !.new[g] = "part"]
Prepared(tree, g) == [tree EXCEPT !.new[g] = "whole"]
LiveMoved(tree, g) == [tree EXCEPT !.live = 0, !.old[g] = tree.live]
Marked(tree, g) == [tree EXCEPT !.mark[g] = TRUE]
Finished(tree, o) == [tree EXCEPT !.live = o, !.new[o] = "none"]
Restored(tree, o) == [tree EXCEPT !.live = tree.old[o], !.old[o] = 0]

LEMMA TreeParts ==
  ASSUME NEW tree \in SkTree
  PROVE  /\ tree.live \in 0..SkMaxGeneration
         /\ tree.place \in [SkGenerations -> {"absent", "stage", "active", "retired"}]
         /\ tree.new \in [SkGenerations -> {"none", "part", "whole"}]
         /\ tree.old \in [SkGenerations -> 0..SkMaxGeneration]
         /\ tree.mark \in [SkGenerations -> BOOLEAN]
BY DEF SkTree

(* A tree of one active transaction.                                       *)
LEMMA ClearTree ==
  ASSUME NEW t, NEW o, \A p \in SkActive(t) : p = o,
         IF t.mark[o] THEN (t.live = 0) <=> (t.new[o] # "none")
                      ELSE t.new[o] # "none" /\ (t.live = 0 \/ t.old[o] = 0),
         \A g \in SkGenerations : t.place[g] \in {"absent", "stage"} => t.old[g] = 0 /\ ~t.mark[g]
  PROVE  TransactionIsClear(t)
BY DEF TransactionIsClear

LEMMA TreeReplaced ==
  ASSUME NEW tree \in SkTree, NEW place, NEW new, NEW old, NEW mark
  PROVE  [tree EXCEPT !.place = place, !.new = new, !.old = old, !.mark = mark]
           = [live |-> tree.live, place |-> place, new |-> new, old |-> old, mark |-> mark]
<1>1. tree = [live |-> tree.live, place |-> tree.place, new |-> tree.new, old |-> tree.old,
              mark |-> tree.mark]
  BY DEF SkTree
<1>2. PICK a : a = [tree EXCEPT !.place = place]
  OBVIOUS
<1>3. a = [live |-> tree.live, place |-> place, new |-> tree.new, old |-> tree.old, mark |-> tree.mark]
  BY <1>1, <1>2
<1>4. PICK b : b = [a EXCEPT !.new = new]
  OBVIOUS
<1>5. b = [live |-> tree.live, place |-> place, new |-> new, old |-> tree.old, mark |-> tree.mark]
  BY <1>3, <1>4
<1>6. PICK c : c = [b EXCEPT !.old = old]
  OBVIOUS
<1>7. c = [live |-> tree.live, place |-> place, new |-> new, old |-> old, mark |-> tree.mark]
  BY <1>5, <1>6
<1>8. [c EXCEPT !.mark = mark]
        = [live |-> tree.live, place |-> place, new |-> new, old |-> old, mark |-> mark]
  BY <1>7
<1>9. [tree EXCEPT !.place = place, !.new = new, !.old = old, !.mark = mark] = [c EXCEPT !.mark = mark]
  BY ONLY <1>2, <1>4, <1>6, Zenon
<1> QED BY <1>8, <1>9

LEMMA TreeRemoved ==
  ASSUME NEW tree \in SkTree, TransactionIsClear(tree), NEW gone \in SUBSET SkGenerations,
         gone \cap SkActive(tree) = {}
  PROVE  /\ SkRemoved(tree, gone) \in SkTree /\ TransactionIsClear(SkRemoved(tree, gone))
         /\ SkActive(SkRemoved(tree, gone)) = SkActive(tree)
         /\ SkRemoved(tree, gone).live = tree.live
         /\ \A g \in gone : SkRemoved(tree, gone).place[g] = "absent"
         /\ \A g \in SkGenerations \ gone :
              /\ SkRemoved(tree, gone).place[g] = tree.place[g]
              /\ SkRemoved(tree, gone).new[g] = tree.new[g]
              /\ SkRemoved(tree, gone).old[g] = tree.old[g]
              /\ SkRemoved(tree, gone).mark[g] = tree.mark[g]
<1> DEFINE t == SkRemoved(tree, gone)
<1>1. /\ tree.live \in 0..SkMaxGeneration
      /\ tree.place \in [SkGenerations -> {"absent", "stage", "active", "retired"}]
      /\ tree.new \in [SkGenerations -> {"none", "part", "whole"}]
      /\ tree.old \in [SkGenerations -> 0..SkMaxGeneration]
      /\ tree.mark \in [SkGenerations -> BOOLEAN]
  BY TreeParts
<1>10. PICK place : place = [g \in SkGenerations |-> IF g \in gone THEN "absent" ELSE tree.place[g]]
  OBVIOUS
<1>13. PICK new : new = [g \in SkGenerations |-> IF g \in gone THEN "none" ELSE tree.new[g]]
  OBVIOUS
<1>14. PICK old : old = [g \in SkGenerations |-> IF g \in gone THEN 0 ELSE tree.old[g]]
  OBVIOUS
<1>15. PICK mark : mark = [g \in SkGenerations |-> g \notin gone /\ tree.mark[g]]
  OBVIOUS
<1>16. t = [tree EXCEPT !.place = place, !.new = new, !.old = old, !.mark = mark]
  BY <1>10, <1>13, <1>14, <1>15 DEF SkRemoved
<1>17. t = [live |-> tree.live, place |-> place, new |-> new, old |-> old, mark |-> mark]
  BY <1>16, TreeReplaced
<1> HIDE DEF t
<1>2. /\ t.live = tree.live
      /\ t.place = [g \in SkGenerations |-> IF g \in gone THEN "absent" ELSE tree.place[g]]
      /\ t.new = [g \in SkGenerations |-> IF g \in gone THEN "none" ELSE tree.new[g]]
      /\ t.old = [g \in SkGenerations |-> IF g \in gone THEN 0 ELSE tree.old[g]]
      /\ t.mark = [g \in SkGenerations |-> g \notin gone /\ tree.mark[g]]
  BY <1>10, <1>13, <1>14, <1>15, <1>17
<1>3. /\ t.place \in [SkGenerations -> {"absent", "stage", "active", "retired"}]
      /\ t.new \in [SkGenerations -> {"none", "part", "whole"}]
      /\ t.old \in [SkGenerations -> 0..SkMaxGeneration]
  BY <1>1, <1>2, SkAssumption
<1>4. t.mark \in [SkGenerations -> BOOLEAN]
  BY <1>1, <1>2
<1>5. t \in SkTree
  BY <1>1, <1>2, <1>3, <1>4, <1>10, <1>13, <1>14, <1>15, <1>17 DEF SkTree
<1>6. \A g \in gone : t.place[g] = "absent" /\ t.old[g] = 0 /\ ~t.mark[g]
  BY <1>2
<1>7. \A g \in SkGenerations \ gone : /\ t.place[g] = tree.place[g] /\ t.new[g] = tree.new[g]
                                      /\ t.old[g] = tree.old[g] /\ t.mark[g] = tree.mark[g]
  BY <1>1, <1>2
<1>8. SkActive(t) = SkActive(tree)
  BY <1>6, <1>7 DEF SkActive
<1>11. \A o \in SkActive(tree) : o \in SkGenerations \ gone
  BY DEF SkActive
<1>12. \A g \in SkGenerations : t.place[g] \in {"absent", "stage"} => t.old[g] = 0 /\ ~t.mark[g]
  BY <1>6, <1>7 DEF TransactionIsClear
<1>9. TransactionIsClear(t)
  BY <1>2, <1>7, <1>8, <1>11, <1>12 DEF TransactionIsClear
<1> QED BY <1>2, <1>5, <1>6, <1>7, <1>8, <1>9 DEF t

LEMMA TreeStaged ==
  ASSUME NEW tree \in SkTree, TransactionIsClear(tree), NEW g \in SkGenerations,
         tree.place[g] = "absent", NEW t, t = Staged(tree, g)
  PROVE  /\ t \in SkTree /\ TransactionIsClear(t) /\ SkActive(t) = SkActive(tree)
         /\ t.live = tree.live /\ t.mark = tree.mark /\ t.place[g] = "stage" /\ t.new[g] # "none"
         /\ \A h \in SkGenerations \ {g} : /\ t.place[h] = tree.place[h] /\ t.new[h] = tree.new[h]
                                           /\ t.old[h] = tree.old[h]
<1>1. /\ tree.place \in [SkGenerations -> {"absent", "stage", "active", "retired"}]
      /\ tree.new \in [SkGenerations -> {"none", "part", "whole"}]
  BY TreeParts
<1>2. /\ t.live = tree.live /\ t.old = tree.old /\ t.mark = tree.mark
      /\ t.place = [tree.place EXCEPT ![g] = "stage"] /\ t.new = [tree.new EXCEPT ![g] = "part"]
      /\ t \in SkTree
  BY <1>1 DEF SkTree, Staged
<1>3. /\ t.place[g] = "stage" /\ t.new[g] = "part"
      /\ \A h \in SkGenerations \ {g} : t.place[h] = tree.place[h] /\ t.new[h] = tree.new[h]
  BY <1>1, <1>2
<1>4. SkActive(t) = SkActive(tree)
  BY <1>3 DEF SkActive
<1>5. TransactionIsClear(t)
  BY <1>2, <1>3, <1>4 DEF TransactionIsClear, SkActive
<1> QED BY <1>2, <1>3, <1>4, <1>5

LEMMA TreePrepared ==
  ASSUME NEW tree \in SkTree, TransactionIsClear(tree), NEW g \in SkGenerations,
         tree.place[g] = "stage", NEW t, t = Prepared(tree, g)
  PROVE  /\ t \in SkTree /\ TransactionIsClear(t) /\ SkActive(t) = SkActive(tree)
         /\ t.live = tree.live /\ t.mark = tree.mark /\ t.place = tree.place /\ t.new[g] = "whole"
         /\ t.old = tree.old /\ \A h \in SkGenerations \ {g} : t.new[h] = tree.new[h]
<1>1. tree.new \in [SkGenerations -> {"none", "part", "whole"}]
  BY TreeParts
<1>2. /\ t.live = tree.live /\ t.old = tree.old /\ t.mark = tree.mark /\ t.place = tree.place
      /\ t.new = [tree.new EXCEPT ![g] = "whole"] /\ t \in SkTree
  BY <1>1 DEF SkTree, Prepared
<1>3. t.new[g] = "whole" /\ \A h \in SkGenerations \ {g} : t.new[h] = tree.new[h]
  BY <1>1, <1>2
<1>4. SkActive(t) = SkActive(tree) /\ g \notin SkActive(tree)
  BY <1>2 DEF SkActive
<1>5. TransactionIsClear(t)
  BY <1>2, <1>3, <1>4 DEF TransactionIsClear, SkActive
<1> QED BY <1>2, <1>3, <1>4, <1>5

LEMMA TreeActivated ==
  ASSUME NEW tree \in SkTree, TransactionIsClear(tree), NEW g \in SkGenerations,
         tree.place[g] = "stage", tree.new[g] # "none", SkActive(tree) = {},
         NEW t, t = [tree EXCEPT !.place[g] = "active"]
  PROVE  /\ t \in SkTree /\ TransactionIsClear(t) /\ SkActive(t) = {g}
         /\ t.live = tree.live /\ t.mark = tree.mark /\ t.new = tree.new /\ t.old = tree.old
         /\ t.old[g] = 0 /\ ~t.mark[g]
         /\ \A h \in SkGenerations \ {g} : t.place[h] = tree.place[h]
<1>1. tree.place \in [SkGenerations -> {"absent", "stage", "active", "retired"}]
  BY TreeParts
<1>2. /\ t.live = tree.live /\ t.old = tree.old /\ t.mark = tree.mark /\ t.new = tree.new
      /\ t.place = [tree.place EXCEPT ![g] = "active"] /\ t \in SkTree
  BY <1>1 DEF SkTree
<1>3. t.place[g] = "active" /\ \A h \in SkGenerations \ {g} : t.place[h] = tree.place[h]
  BY <1>1, <1>2
<1>4. SkActive(t) = {g}
  BY <1>3 DEF SkActive
<1>5. t.old[g] = 0 /\ ~t.mark[g]
  BY <1>2 DEF TransactionIsClear
<1>6. TransactionIsClear(t)
  BY <1>2, <1>3, <1>4, <1>5 DEF TransactionIsClear
<1> QED BY <1>2, <1>3, <1>4, <1>5, <1>6

LEMMA TreeLiveMoved ==
  ASSUME NEW tree \in SkTree, TransactionIsClear(tree), NEW g \in SkActive(tree), ~tree.mark[g],
         NEW t, t = LiveMoved(tree, g)
  PROVE  /\ t \in SkTree /\ TransactionIsClear(t) /\ SkActive(t) = SkActive(tree)
         /\ t.live = 0 /\ t.mark = tree.mark /\ t.new = tree.new /\ t.place = tree.place
         /\ \A h \in SkGenerations \ {g} : t.old[h] = tree.old[h]
<1>1. tree.live \in 0..SkMaxGeneration /\ tree.old \in [SkGenerations -> 0..SkMaxGeneration]
      /\ g \in SkGenerations
  BY TreeParts DEF SkActive
<1>2. /\ t.live = 0 /\ t.place = tree.place /\ t.mark = tree.mark /\ t.new = tree.new
      /\ t.old = [tree.old EXCEPT ![g] = tree.live]
      /\ t = [live |-> t.live, place |-> t.place, new |-> t.new, old |-> t.old, mark |-> t.mark]
  BY <1>1 DEF SkTree, LiveMoved
<1>7. t.old \in [SkGenerations -> 0..SkMaxGeneration] /\ t.live \in 0..SkMaxGeneration
  BY <1>1, <1>2, SkAssumption
<1>8. t \in SkTree
  BY <1>2, <1>7, TreeParts DEF SkTree
<1>3. \A h \in SkGenerations \ {g} : t.old[h] = tree.old[h]
  BY <1>1, <1>2
<1>4. SkActive(t) = SkActive(tree)
  BY <1>2 DEF SkActive
<1>5. tree.new[g] # "none" /\ \A o \in SkActive(tree) : o = g
  BY DEF TransactionIsClear
<1>11. \A h \in SkGenerations : t.place[h] \in {"absent", "stage"} => t.old[h] = 0 /\ ~t.mark[h]
  <2>1. \A h \in SkGenerations : tree.place[h] \in {"absent", "stage"} =>
          h # g /\ tree.old[h] = 0 /\ ~tree.mark[h]
    BY DEF TransactionIsClear, SkActive
  <2> QED BY <1>2, <1>3, <2>1
<1>12. IF t.mark[g] THEN (t.live = 0) <=> (t.new[g] # "none")
                   ELSE t.new[g] # "none" /\ (t.live = 0 \/ t.old[g] = 0)
  BY <1>2, <1>5
<1>6. TransactionIsClear(t)
  BY <1>4, <1>5, <1>11, <1>12, ClearTree
<1> QED BY <1>2, <1>3, <1>4, <1>6, <1>8

LEMMA TreeMarked ==
  ASSUME NEW tree \in SkTree, TransactionIsClear(tree), NEW g \in SkActive(tree), ~tree.mark[g],
         tree.live = 0, NEW t, t = Marked(tree, g)
  PROVE  /\ t \in SkTree /\ TransactionIsClear(t) /\ SkActive(t) = SkActive(tree) /\ t.mark[g]
         /\ t.live = 0 /\ t.old = tree.old /\ t.new = tree.new /\ t.place = tree.place
         /\ \A h \in SkGenerations \ {g} : t.mark[h] = tree.mark[h]
<1>1. tree.mark \in [SkGenerations -> BOOLEAN] /\ g \in SkGenerations
  BY TreeParts DEF SkActive
<1>2. /\ t.live = 0 /\ t.place = tree.place /\ t.old = tree.old /\ t.new = tree.new
      /\ t.mark = [tree.mark EXCEPT ![g] = TRUE] /\ t \in SkTree
  BY <1>1 DEF SkTree, Marked
<1>3. t.mark[g] /\ \A h \in SkGenerations \ {g} : t.mark[h] = tree.mark[h]
  BY <1>1, <1>2
<1>4. SkActive(t) = SkActive(tree)
  BY <1>2 DEF SkActive
<1>5. tree.new[g] # "none" /\ \A o \in SkActive(tree) : o = g
  BY DEF TransactionIsClear
<1>11. \A h \in SkGenerations : t.place[h] \in {"absent", "stage"} => t.old[h] = 0 /\ ~t.mark[h]
  <2>1. \A h \in SkGenerations : tree.place[h] \in {"absent", "stage"} =>
          h # g /\ tree.old[h] = 0 /\ ~tree.mark[h]
    BY DEF TransactionIsClear, SkActive
  <2> QED BY <1>2, <1>3, <2>1
<1>12. IF t.mark[g] THEN (t.live = 0) <=> (t.new[g] # "none")
                   ELSE t.new[g] # "none" /\ (t.live = 0 \/ t.old[g] = 0)
  BY <1>2, <1>3, <1>5
<1>6. TransactionIsClear(t)
  BY <1>4, <1>5, <1>11, <1>12, ClearTree
<1> QED BY <1>2, <1>3, <1>4, <1>6

LEMMA TreeFinished ==
  ASSUME NEW tree \in SkTree, TransactionIsClear(tree), NEW o \in SkActive(tree), tree.mark[o],
         NEW t, t = Finished(tree, o)
  PROVE  /\ t \in SkTree /\ TransactionIsClear(t) /\ SkActive(t) = SkActive(tree)
         /\ t.mark = tree.mark /\ t.old = tree.old /\ t.place = tree.place
         /\ \A h \in SkGenerations \ {o} : t.new[h] = tree.new[h]
<1>1. tree.new \in [SkGenerations -> {"none", "part", "whole"}] /\ o \in SkGenerations
  BY TreeParts DEF SkActive
<1>2. o \in 0..SkMaxGeneration /\ o # 0
  BY <1>1, SkAssumption DEF SkGenerations
<1>3. /\ t.live = o /\ t.place = tree.place /\ t.old = tree.old /\ t.mark = tree.mark
      /\ t.new = [tree.new EXCEPT ![o] = "none"] /\ t \in SkTree
  BY <1>1, <1>2 DEF SkTree, Finished
<1>4. t.new[o] = "none" /\ \A h \in SkGenerations \ {o} : t.new[h] = tree.new[h]
  BY <1>1, <1>3
<1>5. SkActive(t) = SkActive(tree)
  BY <1>3 DEF SkActive
<1>6. \A p \in SkActive(tree) : p = o
  BY DEF TransactionIsClear
<1>11. \A h \in SkGenerations : t.place[h] \in {"absent", "stage"} => t.old[h] = 0 /\ ~t.mark[h]
  <2>1. \A h \in SkGenerations : tree.place[h] \in {"absent", "stage"} =>
          h # o /\ tree.old[h] = 0 /\ ~tree.mark[h]
    BY DEF TransactionIsClear, SkActive
  <2> QED BY <1>3, <2>1
<1>12. IF t.mark[o] THEN (t.live = 0) <=> (t.new[o] # "none")
                   ELSE t.new[o] # "none" /\ (t.live = 0 \/ t.old[o] = 0)
  BY <1>2, <1>3, <1>4
<1>7. TransactionIsClear(t)
  BY <1>5, <1>6, <1>11, <1>12, ClearTree
<1> QED BY <1>3, <1>4, <1>5, <1>7

LEMMA TreeRestored ==
  ASSUME NEW tree \in SkTree, TransactionIsClear(tree), NEW o \in SkActive(tree), ~tree.mark[o],
         NEW t, t = Restored(tree, o)
  PROVE  /\ t \in SkTree /\ TransactionIsClear(t) /\ SkActive(t) = SkActive(tree)
         /\ t.mark = tree.mark /\ t.new = tree.new /\ t.place = tree.place
         /\ \A h \in SkGenerations \ {o} : t.old[h] = tree.old[h]
<1>1. tree.old \in [SkGenerations -> 0..SkMaxGeneration] /\ o \in SkGenerations
  BY TreeParts DEF SkActive
<1>2. /\ t.live = tree.old[o] /\ t.place = tree.place /\ t.new = tree.new /\ t.mark = tree.mark
      /\ t.old = [tree.old EXCEPT ![o] = 0]
      /\ t = [live |-> t.live, place |-> t.place, new |-> t.new, old |-> t.old, mark |-> t.mark]
  BY <1>1 DEF SkTree, Restored
<1>7. t.old \in [SkGenerations -> 0..SkMaxGeneration] /\ t.live \in 0..SkMaxGeneration
  BY <1>1, <1>2, SkAssumption
<1>8. t \in SkTree
  BY <1>2, <1>7, TreeParts DEF SkTree
<1>3. t.old[o] = 0 /\ \A h \in SkGenerations \ {o} : t.old[h] = tree.old[h]
  BY <1>1, <1>2
<1>4. SkActive(t) = SkActive(tree)
  BY <1>2 DEF SkActive
<1>5. tree.new[o] # "none" /\ \A p \in SkActive(tree) : p = o
  BY DEF TransactionIsClear
<1>11. \A h \in SkGenerations : t.place[h] \in {"absent", "stage"} => t.old[h] = 0 /\ ~t.mark[h]
  <2>1. \A h \in SkGenerations : tree.place[h] \in {"absent", "stage"} =>
          h # o /\ tree.old[h] = 0 /\ ~tree.mark[h]
    BY DEF TransactionIsClear, SkActive
  <2> QED BY <1>2, <1>3, <2>1
<1>12. IF t.mark[o] THEN (t.live = 0) <=> (t.new[o] # "none")
                   ELSE t.new[o] # "none" /\ (t.live = 0 \/ t.old[o] = 0)
  BY <1>2, <1>3, <1>5
<1>6. TransactionIsClear(t)
  BY <1>4, <1>5, <1>11, <1>12, ClearTree
<1> QED BY <1>2, <1>3, <1>4, <1>6, <1>8

LEMMA TreeRetired ==
  ASSUME NEW tree \in SkTree, TransactionIsClear(tree), NEW o \in SkActive(tree),
         NEW t, t = [tree EXCEPT !.place[o] = "retired"]
  PROVE  /\ t \in SkTree /\ TransactionIsClear(t)
         /\ t.live = tree.live /\ t.mark = tree.mark /\ t.new = tree.new /\ t.old = tree.old
         /\ \A h \in SkGenerations \ {o} : t.place[h] = tree.place[h]
<1>1. tree.place \in [SkGenerations -> {"absent", "stage", "active", "retired"}]
      /\ o \in SkGenerations
  BY TreeParts DEF SkActive
<1>2. /\ t.live = tree.live /\ t.old = tree.old /\ t.mark = tree.mark /\ t.new = tree.new
      /\ t.place = [tree.place EXCEPT ![o] = "retired"] /\ t \in SkTree
  BY <1>1 DEF SkTree
<1>3. t.place[o] = "retired" /\ \A h \in SkGenerations \ {o} : t.place[h] = tree.place[h]
  BY <1>1, <1>2
<1>4. \A p \in SkActive(tree) : p = o
  BY DEF TransactionIsClear
<1>5. SkActive(t) = {}
  BY <1>3, <1>4 DEF SkActive
<1>6. TransactionIsClear(t)
  BY <1>2, <1>3, <1>5 DEF TransactionIsClear
<1> QED BY <1>2, <1>3, <1>6

-----------------------------------------------------------------------------
(* A generation that has ended, or failed, or is committed, claims nothing. *)
LEMMA AtRest ==
  ASSUME NEW g \in SkGenerations, SkTypes', skNext' > g,
         skPc'[g] \in {"fail", "dispose", "committed", "settled", "gone"}
  PROVE  GenerationIsTrue(g)'
BY DEF GenerationIsTrue, YetToBegin, NothingEarly, SkEarly, LockIsHeld, StageIsKept, CommitsInOrder,
       MendsWhatItFound, SkMending, SkCommitting, SkLocked, SkTypes, SkGenerations

(* What a step of one generation leaves to the others.  Only who holds the *)
(* lock, if anyone does, touches the live catalog and the transaction.     *)
LeavesTheOthers(g) ==
  /\ skNext' \in {skNext, skNext + 1}
  /\ \A h \in SkGenerations \ {g} :
       /\ skPc'[h] = skPc[h] /\ skWhy'[h] = skWhy[h]
       /\ skFs.place[h] = "absent" => skFs'.place[h] = "absent"
       /\ skDisk'.place[h] \in {skDisk.place[h], skFs.place[h], skFs'.place[h]}
       /\ h \in skStaging =>
            /\ h \in skStaging'
            /\ skFs.place[h] = "stage" => skFs'.place[h] = "stage" /\ skFs'.new[h] = skFs.new[h]
  /\ skLock' = skLock \/ skLock \in {0, g}
  /\ \/ skLock \in {0, g}
     \/ /\ skFs'.live = skFs.live /\ SkActive(skFs') = SkActive(skFs)
        /\ \A o \in SkActive(skFs) : /\ skFs'.new[o] = skFs.new[o] /\ skFs'.old[o] = skFs.old[o]
                                     /\ skFs'.mark[o] = skFs.mark[o]

LEMMA OthersStand ==
  ASSUME SkIndInv, NEW g \in SkGenerations, SkTypes', LeavesTheOthers(g),
         NEW h \in SkGenerations \ {g}
  PROVE  GenerationIsTrue(h)'
<1>1. GenerationIsTrue(h) /\ skNext \in Int /\ h \in Int /\ h # 0 /\ h # g
  BY DEF SkIndInv, SkTypes, SkGenerations
<1>2. /\ skPc'[h] = skPc[h] /\ skWhy'[h] = skWhy[h]
      /\ skFs.place[h] = "absent" => skFs'.place[h] = "absent"
      /\ skDisk'.place[h] \in {skDisk.place[h], skFs.place[h], skFs'.place[h]}
      /\ h \in skStaging =>
           /\ h \in skStaging'
           /\ skFs.place[h] = "stage" => skFs'.place[h] = "stage" /\ skFs'.new[h] = skFs.new[h]
  BY DEF LeavesTheOthers
<1>3. YetToBegin(h)'
  BY <1>1, <1>2 DEF LeavesTheOthers, GenerationIsTrue, YetToBegin
<1>4. NothingEarly(h)'
  BY <1>1, <1>2 DEF GenerationIsTrue, NothingEarly, SkEarly
<1>5. skLock = h => skLock' = h
  BY <1>1 DEF LeavesTheOthers
<1>6. LockIsHeld(h)'
  BY <1>1, <1>2, <1>5 DEF GenerationIsTrue, LockIsHeld
<1>7. StageIsKept(h)'
  BY <1>1, <1>2 DEF GenerationIsTrue, StageIsKept
<1>8. CASE skPc[h] \in SkMending \cup SkCommitting
  <2>1. skLock = h
    BY <1>1, <1>8 DEF GenerationIsTrue, LockIsHeld, SkLocked
  <2>2. /\ skFs'.live = skFs.live /\ SkActive(skFs') = SkActive(skFs)
        /\ \A o \in SkActive(skFs) : /\ skFs'.new[o] = skFs.new[o] /\ skFs'.old[o] = skFs.old[o]
                                     /\ skFs'.mark[o] = skFs.mark[o]
    BY <1>1, <2>1 DEF LeavesTheOthers
  <2>3. CommitsInOrder(h)'
    BY <1>1, <1>2, <2>2 DEF GenerationIsTrue, CommitsInOrder, SkCommitting
  <2>4. MendsWhatItFound(h)'
    BY <1>1, <1>2, <2>2 DEF GenerationIsTrue, MendsWhatItFound, SkMending
  <2> QED BY <1>3, <1>4, <1>6, <1>7, <2>3, <2>4 DEF GenerationIsTrue
<1>9. CASE skPc[h] \notin SkMending \cup SkCommitting
  <2>1. CommitsInOrder(h)'
    BY <1>2, <1>9 DEF CommitsInOrder, SkCommitting
  <2>2. MendsWhatItFound(h)'
    BY <1>1, <1>2, <1>9 DEF GenerationIsTrue, MendsWhatItFound, SkMending
  <2> QED BY <1>3, <1>4, <1>6, <1>7, <2>1, <2>2 DEF GenerationIsTrue
<1> QED BY <1>8, <1>9

LEMMA StepStands ==
  ASSUME SkIndInv, NEW g \in SkGenerations, SkTypes', LeavesTheOthers(g),
         TransactionIsClear(skFs'), TransactionIsClear(skDisk'), GenerationIsTrue(g)'
  PROVE  SkIndInv' /\ LeavesTheOthers(g)
<1>1. \A h \in SkGenerations \ {g} : GenerationIsTrue(h)'
  BY OthersStand
<1>2. \A h \in SkGenerations : GenerationIsTrue(h)'
  BY <1>1
<1> QED BY <1>2 DEF SkIndInv

(* A step, in what the invariant speaks of.                                *)
LEMMA StepGoes ==
  ASSUME SkTypes, NEW g \in SkGenerations, NEW step \in SkSteps, SkGo(g, step)
  PROVE  /\ skPc' \in [SkGenerations -> SkSteps] /\ skPc'[g] = step
         /\ \A h \in SkGenerations \ {g} : skPc'[h] = skPc[h]
BY DEF SkTypes, SkGo

LEMMA WhyIsSet ==
  ASSUME SkTypes, NEW g \in SkGenerations, NEW why \in {"recovery", "commit", "abandoned"},
         skWhy' = [skWhy EXCEPT ![g] = why]
  PROVE  /\ skWhy' \in [SkGenerations -> {"none", "recovery", "commit", "abandoned"}]
         /\ skWhy'[g] = why /\ \A h \in SkGenerations \ {g} : skWhy'[h] = skWhy[h]
BY DEF SkTypes

LEMMA Begun ==
  ASSUME SkIndInv, NEW g \in SkGenerations, skPc[g] # "idle"
  PROVE  g < skNext /\ g \in Int /\ skNext \in Int
BY DEF SkIndInv, GenerationIsTrue, YetToBegin, SkTypes, SkGenerations

LEMMA ActiveIsFound ==
  ASSUME SkActive(skFs) # {}
  PROVE  SkTheActive \in SkActive(skFs)
BY DEF SkTheActive

(* Steps that leave the tree, and at most make it durable.                 *)
LEMMA MovesOn ==
  ASSUME SkIndInv, NEW g \in SkGenerations, SkTypes',
         skFs' = skFs, skDisk' \in {skFs, skDisk}, skNext' = skNext, skStaging' = skStaging,
         skLock' = skLock \/ skLock \in {0, g},
         \A h \in SkGenerations \ {g} : skPc'[h] = skPc[h] /\ skWhy'[h] = skWhy[h],
         GenerationIsTrue(g)'
  PROVE  SkIndInv' /\ LeavesTheOthers(g)
<1>1. TransactionIsClear(skFs') /\ TransactionIsClear(skDisk')
  BY DEF SkIndInv
<1>2. LeavesTheOthers(g)
  BY DEF LeavesTheOthers
<1> QED BY <1>1, <1>2, StepStands

(* A generation gives up, or what it does fails.                           *)
LEMMA GoesToFail ==
  ASSUME SkIndInv, NEW g \in SkGenerations, skPc[g] # "idle",
         SkGo(g, "fail"), skFs' = skFs, skDisk' = skDisk, skNext' = skNext, skStaging' = skStaging,
         skLock' = skLock, skWhy' = skWhy
  PROVE  SkIndInv' /\ LeavesTheOthers(g)
<1>1. /\ skPc' \in [SkGenerations -> SkSteps] /\ skPc'[g] = "fail"
      /\ \A h \in SkGenerations \ {g} : skPc'[h] = skPc[h]
  BY StepGoes DEF SkIndInv, SkSteps
<1>2. SkTypes'
  BY <1>1 DEF SkIndInv, SkTypes
<1>3. GenerationIsTrue(g)'
  BY <1>1, <1>2, AtRest, Begun
<1> QED BY <1>1, <1>2, <1>3, MovesOn

LEMMA AbortStands ==
  ASSUME SkIndInv, NEW g \in SkGenerations, SkAbort(g)
  PROVE  SkIndInv'
BY DEF SkAbort, SkIndInv, SkTypes, GenerationIsTrue, YetToBegin, NothingEarly, SkEarly, LockIsHeld,
       StageIsKept, CommitsInOrder, MendsWhatItFound

LEMMA BeginStands ==
  ASSUME SkIndInv, SkBegin
  PROVE  SkIndInv' /\ \E g \in SkGenerations : g = skNext /\ LeavesTheOthers(g)
<1>1. PICK g \in SkGenerations : g = skNext
  BY DEF SkBegin
<1>2. /\ g = skNext /\ g \in Int /\ skNext' = skNext + 1
      /\ skFs' = skFs /\ skDisk' = skDisk /\ skStaging' = skStaging /\ skLock' = skLock /\ skWhy' = skWhy
  BY <1>1 DEF SkBegin, SkGenerations
<1>3. /\ skPc' \in [SkGenerations -> SkSteps] /\ skPc'[g] = "begun"
      /\ \A h \in SkGenerations \ {g} : skPc'[h] = skPc[h]
  BY <1>1, StepGoes DEF SkBegin, SkIndInv, SkSteps
<1>4. SkTypes'
  BY <1>1, <1>2, <1>3, SkAssumption DEF SkIndInv, SkTypes, SkGenerations
<1>5. GenerationIsTrue(g) /\ skPc[g] = "idle"
  BY <1>1, <1>2 DEF SkIndInv, GenerationIsTrue, YetToBegin
<1>6. GenerationIsTrue(g)'
  BY <1>2, <1>3, <1>5 DEF GenerationIsTrue, YetToBegin, NothingEarly, SkEarly, LockIsHeld, SkLocked,
     StageIsKept, CommitsInOrder, MendsWhatItFound, SkMending, SkCommitting
<1>7. LeavesTheOthers(g)
  BY <1>2, <1>3 DEF LeavesTheOthers
<1>8. TransactionIsClear(skFs') /\ TransactionIsClear(skDisk')
  BY <1>2 DEF SkIndInv
<1> QED BY <1>1, <1>4, <1>6, <1>7, <1>8, StepStands

LEMMA LocksToRecoverStands ==
  ASSUME SkIndInv, NEW g \in SkGenerations, SkLocksToRecover(g)
  PROVE  SkIndInv' /\ LeavesTheOthers(g)
<1>1. CASE SkStopped(g)
  BY <1>1, GoesToFail DEF SkLocksToRecover, skMemory
<1>2. CASE ~SkStopped(g)
  <2>1. /\ skPc[g] = "begun" /\ skLock = 0 /\ skLock' = g /\ SkGo(g, "recover")
        /\ skFs' = skFs /\ skDisk' = skDisk /\ skStaging' = skStaging /\ skNext' = skNext /\ skWhy' = skWhy
    BY <1>2 DEF SkLocksToRecover, skMemory
  <2>2. /\ skPc' \in [SkGenerations -> SkSteps] /\ skPc'[g] = "recover"
        /\ \A h \in SkGenerations \ {g} : skPc'[h] = skPc[h]
    BY <2>1, StepGoes DEF SkIndInv, SkSteps
  <2>3. g \in 0..SkMaxGeneration
    BY SkAssumption DEF SkGenerations
  <2>4. SkTypes'
    BY <2>1, <2>2, <2>3 DEF SkIndInv, SkTypes
  <2>5. GenerationIsTrue(g) /\ g < skNext /\ g \in Int /\ skNext \in Int
    BY <2>1, Begun DEF SkIndInv
  <2>6. GenerationIsTrue(g)'
    BY <2>1, <2>2, <2>5 DEF GenerationIsTrue, YetToBegin, NothingEarly, SkEarly, LockIsHeld, SkLocked,
       StageIsKept, CommitsInOrder, MendsWhatItFound, SkMending, SkCommitting
  <2> QED BY <2>1, <2>2, <2>4, <2>6, MovesOn
<1> QED BY <1>1, <1>2

LEMMA RecoverStands ==
  ASSUME SkIndInv, NEW g \in SkGenerations, SkRecover(g)
  PROVE  SkIndInv' /\ LeavesTheOthers(g)
<1>0. skPc[g] = "recover"
  BY DEF SkRecover
<1>1. CASE SkGo(g, "fail") /\ UNCHANGED skWhy
  BY <1>0, <1>1, GoesToFail DEF SkRecover
<1>2. CASE ~(SkGo(g, "fail") /\ UNCHANGED skWhy)
  <2>1. PICK step : step = IF SkActive(skFs) = {} THEN "clean" ELSE SkRecoveryStep(SkTheActive)
    OBVIOUS
  <2>2. /\ skWhy' = [skWhy EXCEPT ![g] = "recovery"] /\ SkGo(g, step)
        /\ skFs' = skFs /\ skDisk' = skDisk /\ skStaging' = skStaging /\ skNext' = skNext /\ skLock' = skLock
    BY <1>2, <2>1 DEF SkRecover
  <2>3. step \in {"clean", "finish", "restore"} /\ step \in SkSteps
    BY <2>1 DEF SkRecoveryStep, SkSteps
  <2>4. /\ skPc' \in [SkGenerations -> SkSteps] /\ skPc'[g] = step
        /\ \A h \in SkGenerations \ {g} : skPc'[h] = skPc[h]
    BY <2>2, <2>3, StepGoes DEF SkIndInv
  <2>5. /\ skWhy' \in [SkGenerations -> {"none", "recovery", "commit", "abandoned"}]
        /\ skWhy'[g] = "recovery" /\ \A h \in SkGenerations \ {g} : skWhy'[h] = skWhy[h]
    BY <2>2, WhyIsSet DEF SkIndInv
  <2>6. SkTypes'
    BY <2>2, <2>4, <2>5 DEF SkIndInv, SkTypes
  <2>7. GenerationIsTrue(g) /\ g < skNext /\ g \in Int /\ skNext \in Int
    BY <1>0, Begun DEF SkIndInv
  <2>8. NothingEarly(g)' /\ YetToBegin(g)' /\ LockIsHeld(g)' /\ StageIsKept(g)' /\ CommitsInOrder(g)'
    BY <1>0, <2>2, <2>3, <2>4, <2>7 DEF GenerationIsTrue, YetToBegin, NothingEarly, SkEarly, LockIsHeld,
       SkLocked, StageIsKept, CommitsInOrder, SkCommitting
  <2>9. MendsWhatItFound(g)'
    <3>1. CASE SkActive(skFs) = {}
      BY <2>1, <2>4, <3>1 DEF MendsWhatItFound, SkMending
    <3>2. CASE SkActive(skFs) # {}
      <4>1. PICK o : o = SkTheActive
        OBVIOUS
      <4>2. o \in SkActive(skFs) /\ \A p \in SkActive(skFs) : p = o
        BY <3>2, <4>1, ActiveIsFound DEF SkIndInv, TransactionIsClear
      <4>3. step = IF skFs.mark[o] THEN "finish" ELSE "restore"
        BY <2>1, <3>2, <4>1 DEF SkRecoveryStep
      <4> QED BY <2>2, <2>4, <2>5, <3>2, <4>2, <4>3 DEF MendsWhatItFound, SkMending
    <3> QED BY <3>1, <3>2
  <2> QED BY <2>2, <2>4, <2>5, <2>6, <2>8, <2>9, MovesOn DEF GenerationIsTrue
<1> QED BY <1>1, <1>2

LEMMA CleanStands ==
  ASSUME SkIndInv, NEW g \in SkGenerations, SkClean(g)
  PROVE  SkIndInv' /\ LeavesTheOthers(g)
<1>0. skPc[g] = "clean"
  BY DEF SkClean, SkChange
<1>1. CASE SkChange(g, "clean", skFs, "fail")
  BY <1>0, <1>1, GoesToFail DEF SkChange, skMemory
<1>2. ASSUME NEW gone \in SUBSET SkSweepable, SkChange(g, "clean", SkRemoved(skFs, gone), "cleanSync")
      PROVE  SkIndInv' /\ LeavesTheOthers(g)
  <2>1. PICK t : t = SkRemoved(skFs, gone)
    OBVIOUS
  <2>2. /\ SkGo(g, "cleanSync") /\ skFs' = t /\ skDisk' = skDisk /\ skNext' = skNext
        /\ skStaging' = skStaging /\ skLock' = skLock /\ skWhy' = skWhy
    BY <1>2, <2>1 DEF SkChange, skMemory
  <2>3. /\ gone \in SUBSET SkGenerations /\ gone \cap SkActive(skFs) = {} /\ gone \cap skStaging = {}
    BY DEF SkSweepable, SkActive
  <2>4. skFs \in SkTree /\ TransactionIsClear(skFs) /\ TransactionIsClear(skDisk)
    BY DEF SkIndInv, SkTypes
  <2>5. /\ t \in SkTree /\ TransactionIsClear(t) /\ SkActive(t) = SkActive(skFs) /\ t.live = skFs.live
        /\ \A h \in gone : t.place[h] = "absent"
        /\ \A h \in SkGenerations \ gone :
             /\ t.place[h] = skFs.place[h] /\ t.new[h] = skFs.new[h]
             /\ t.old[h] = skFs.old[h] /\ t.mark[h] = skFs.mark[h]
    BY <2>1, <2>3, <2>4, TreeRemoved
  <2>6. /\ skPc' \in [SkGenerations -> SkSteps] /\ skPc'[g] = "cleanSync"
        /\ \A h \in SkGenerations \ {g} : skPc'[h] = skPc[h]
    BY <2>2, StepGoes DEF SkIndInv, SkSteps
  <2>7. SkTypes'
    BY <2>2, <2>5, <2>6 DEF SkIndInv, SkTypes
  <2>8. GenerationIsTrue(g) /\ g < skNext /\ g \in Int /\ skNext \in Int
    BY <1>0, Begun DEF SkIndInv
  <2>9. t.place[g] = "absent" /\ skDisk.place[g] = "absent" /\ skLock = g
    BY <1>0, <2>5, <2>8 DEF GenerationIsTrue, NothingEarly, SkEarly, LockIsHeld, SkLocked
  <2>10. GenerationIsTrue(g)'
    BY <2>2, <2>6, <2>8, <2>9 DEF GenerationIsTrue, YetToBegin, NothingEarly, LockIsHeld,
       StageIsKept, CommitsInOrder, MendsWhatItFound, SkMending, SkCommitting
  <2>11. LeavesTheOthers(g)
    BY <2>2, <2>3, <2>5, <2>6, <2>9 DEF LeavesTheOthers
  <2> QED BY <2>2, <2>4, <2>5, <2>7, <2>10, <2>11, StepStands
<1> QED BY <1>1, <1>2 DEF SkClean

LEMMA RecoveredStands ==
  ASSUME SkIndInv, NEW g \in SkGenerations, SkRecovered(g)
  PROVE  SkIndInv' /\ LeavesTheOthers(g)
<1>1. /\ skPc[g] = "cleanSync" /\ skDisk' = skFs /\ skLock' = 0 /\ skFs' = skFs /\ skNext' = skNext
      /\ skWhy' = skWhy /\ skStaging' = skStaging
  BY DEF SkRecovered
<1>2. PICK step \in {"fail", "settled", "stage"} : SkGo(g, step)
  BY DEF SkRecovered
<1>3. /\ skPc' \in [SkGenerations -> SkSteps] /\ skPc'[g] = step
      /\ \A h \in SkGenerations \ {g} : skPc'[h] = skPc[h]
  BY <1>2, StepGoes DEF SkIndInv, SkSteps
<1>4. SkTypes'
  BY <1>1, <1>3, SkAssumption DEF SkIndInv, SkTypes
<1>5. GenerationIsTrue(g) /\ g < skNext /\ g \in Int /\ skNext \in Int
  BY <1>1, Begun DEF SkIndInv
<1>6. skLock = g /\ skFs.place[g] = "absent"
  BY <1>1, <1>5 DEF GenerationIsTrue, LockIsHeld, SkLocked, NothingEarly, SkEarly
<1>7. GenerationIsTrue(g)'
  <2>1. CASE step = "stage"
    BY <1>1, <1>3, <1>5, <1>6, <2>1 DEF GenerationIsTrue, YetToBegin, NothingEarly, LockIsHeld,
       StageIsKept, CommitsInOrder, MendsWhatItFound, SkMending, SkCommitting, SkLocked
  <2>2. CASE step # "stage"
    BY <1>1, <1>2, <1>3, <1>4, <1>5, <2>2, AtRest
  <2> QED BY <2>1, <2>2
<1> QED BY <1>1, <1>3, <1>4, <1>6, <1>7, MovesOn

LEMMA StageStands ==
  ASSUME SkIndInv, NEW g \in SkGenerations, SkStage(g)
  PROVE  SkIndInv' /\ LeavesTheOthers(g)
<1>0. skPc[g] = "stage"
  BY DEF SkStage
<1>1. CASE SkStopped(g)
  BY <1>0, <1>1, GoesToFail DEF SkStage
<1>2. CASE ~SkStopped(g)
  <2>1. PICK t : t = Staged(skFs, g)
    OBVIOUS
  <2>2. /\ SkGo(g, "prepare") /\ skFs' = t /\ skDisk' = t /\ skNext' = skNext
        /\ skStaging' = skStaging \cup {g} /\ skLock' = skLock /\ skWhy' = skWhy
    BY <1>2, <2>1 DEF SkStage, Staged
  <2>3. GenerationIsTrue(g) /\ g < skNext /\ g \in Int /\ skNext \in Int
    BY <1>0, Begun DEF SkIndInv
  <2>4. skFs \in SkTree /\ TransactionIsClear(skFs) /\ skFs.place[g] = "absent"
    BY <1>0, <2>3 DEF SkIndInv, SkTypes, GenerationIsTrue, NothingEarly, SkEarly
  <2>5. /\ t \in SkTree /\ TransactionIsClear(t) /\ SkActive(t) = SkActive(skFs)
        /\ t.live = skFs.live /\ t.mark = skFs.mark /\ t.place[g] = "stage" /\ t.new[g] # "none"
    BY <2>1, <2>4, TreeStaged
  <2>11. \A h \in SkGenerations \ {g} : /\ t.place[h] = skFs.place[h] /\ t.new[h] = skFs.new[h]
                                        /\ t.old[h] = skFs.old[h]
    BY <2>1, <2>4, TreeStaged
  <2>6. /\ skPc' \in [SkGenerations -> SkSteps] /\ skPc'[g] = "prepare"
        /\ \A h \in SkGenerations \ {g} : skPc'[h] = skPc[h]
    BY <2>2, StepGoes DEF SkIndInv, SkSteps
  <2>7. SkTypes'
    BY <2>2, <2>5, <2>6 DEF SkIndInv, SkTypes
  <2>8. GenerationIsTrue(g)'
    BY <2>2, <2>3, <2>5, <2>6 DEF GenerationIsTrue, YetToBegin, NothingEarly, SkEarly, LockIsHeld, SkLocked,
       StageIsKept, CommitsInOrder, MendsWhatItFound, SkMending, SkCommitting
  <2>9. \A o \in SkActive(skFs) : o \in SkGenerations \ {g}
    BY <2>4 DEF SkActive
  <2>10. LeavesTheOthers(g)
    BY <2>2, <2>5, <2>6, <2>9, <2>11 DEF LeavesTheOthers
  <2> QED BY <2>2, <2>5, <2>7, <2>8, <2>10, StepStands
<1> QED BY <1>1, <1>2

LEMMA PrepareStands ==
  ASSUME SkIndInv, NEW g \in SkGenerations, SkPrepare(g)
  PROVE  SkIndInv' /\ LeavesTheOthers(g)
<1>0. skPc[g] = "prepare"
  BY DEF SkPrepare, SkChange
<1>1. CASE SkChange(g, "prepare", skFs, "fail")
  BY <1>0, <1>1, GoesToFail DEF SkChange, skMemory
<1>2. CASE SkChange(g, "prepare", [skFs EXCEPT !.new[g] = "whole"], "prepared")
  <2>1. PICK t : t = Prepared(skFs, g)
    OBVIOUS
  <2>2. /\ SkGo(g, "prepared") /\ skFs' = t /\ skDisk' = skDisk /\ skNext' = skNext
        /\ skStaging' = skStaging /\ skLock' = skLock /\ skWhy' = skWhy
    BY <1>2, <2>1 DEF SkChange, skMemory, Prepared
  <2>3. GenerationIsTrue(g) /\ g < skNext /\ g \in Int /\ skNext \in Int
    BY <1>0, Begun DEF SkIndInv
  <2>4. /\ skFs \in SkTree /\ TransactionIsClear(skFs) /\ TransactionIsClear(skDisk)
        /\ skFs.place[g] = "stage" /\ g \in skStaging
    BY <1>0, <2>3 DEF SkIndInv, SkTypes, GenerationIsTrue, StageIsKept
  <2>5. /\ t \in SkTree /\ TransactionIsClear(t) /\ SkActive(t) = SkActive(skFs)
        /\ t.live = skFs.live /\ t.mark = skFs.mark /\ t.place = skFs.place /\ t.new[g] = "whole"
        /\ t.old = skFs.old
    BY <2>1, <2>4, TreePrepared
  <2>11. \A h \in SkGenerations \ {g} : t.new[h] = skFs.new[h]
    BY <2>1, <2>4, TreePrepared
  <2>6. /\ skPc' \in [SkGenerations -> SkSteps] /\ skPc'[g] = "prepared"
        /\ \A h \in SkGenerations \ {g} : skPc'[h] = skPc[h]
    BY <2>2, StepGoes DEF SkIndInv, SkSteps
  <2>7. SkTypes'
    BY <2>2, <2>5, <2>6 DEF SkIndInv, SkTypes
  <2>8. GenerationIsTrue(g)'
    BY <2>2, <2>3, <2>4, <2>5, <2>6 DEF GenerationIsTrue, YetToBegin, NothingEarly, SkEarly, LockIsHeld,
       SkLocked, StageIsKept, CommitsInOrder, MendsWhatItFound, SkMending, SkCommitting
  <2>9. \A o \in SkActive(skFs) : o \in SkGenerations \ {g}
    BY <2>4 DEF SkActive
  <2>10. LeavesTheOthers(g)
    BY <2>2, <2>5, <2>6, <2>9, <2>11 DEF LeavesTheOthers
  <2> QED BY <2>2, <2>4, <2>5, <2>7, <2>8, <2>10, StepStands
<1> QED BY <1>1, <1>2 DEF SkPrepare

LEMMA LocksToCommitStands ==
  ASSUME SkIndInv, NEW g \in SkGenerations, SkLocksToCommit(g)
  PROVE  SkIndInv' /\ LeavesTheOthers(g)
<1>0. skPc[g] = "prepared"
  BY DEF SkLocksToCommit
<1>1. CASE SkStopped(g)
  BY <1>0, <1>1, GoesToFail DEF SkLocksToCommit
<1>2. CASE ~SkStopped(g)
  <2>1. /\ skLock = 0 /\ skLock' = g /\ SkGo(g, "activate") /\ skFs' = skFs /\ skDisk' = skFs
        /\ skStaging' = skStaging /\ skNext' = skNext /\ skWhy' = [skWhy EXCEPT ![g] = "commit"]
    BY <1>2 DEF SkLocksToCommit
  <2>2. /\ skPc' \in [SkGenerations -> SkSteps] /\ skPc'[g] = "activate"
        /\ \A h \in SkGenerations \ {g} : skPc'[h] = skPc[h]
    BY <2>1, StepGoes DEF SkIndInv, SkSteps
  <2>3. /\ skWhy' \in [SkGenerations -> {"none", "recovery", "commit", "abandoned"}]
        /\ skWhy'[g] = "commit" /\ \A h \in SkGenerations \ {g} : skWhy'[h] = skWhy[h]
    BY <2>1, WhyIsSet DEF SkIndInv
  <2>4. g \in 0..SkMaxGeneration
    BY SkAssumption DEF SkGenerations
  <2>5. SkTypes'
    BY <2>1, <2>2, <2>3, <2>4 DEF SkIndInv, SkTypes
  <2>6. GenerationIsTrue(g) /\ g < skNext /\ g \in Int /\ skNext \in Int
    BY <1>0, Begun DEF SkIndInv
  <2>7. GenerationIsTrue(g)'
    BY <1>0, <2>1, <2>2, <2>3, <2>6 DEF GenerationIsTrue, YetToBegin, NothingEarly, SkEarly, LockIsHeld,
       StageIsKept, CommitsInOrder, MendsWhatItFound, SkMending, SkCommitting
  <2> QED BY <2>1, <2>2, <2>3, <2>5, <2>7, MovesOn
<1> QED BY <1>1, <1>2

LEMMA ActivateStands ==
  ASSUME SkIndInv, NEW g \in SkGenerations, SkActivate(g)
  PROVE  SkIndInv' /\ LeavesTheOthers(g)
<1>0. skPc[g] = "activate"
  BY DEF SkActivate
<1>1. CASE SkStopped(g) \/ SkActive(skFs) # {}
  BY <1>0, <1>1, GoesToFail DEF SkActivate
<1>2. CASE ~(SkStopped(g) \/ SkActive(skFs) # {})
  <2>1. PICK t : t = [skFs EXCEPT !.place[g] = "active"]
    OBVIOUS
  <2>2. /\ SkGo(g, "activeSync") /\ skFs' = t /\ skDisk' = skDisk /\ skNext' = skNext
        /\ skStaging' = skStaging \ {g} /\ skLock' = skLock /\ skWhy' = skWhy
    BY <1>2, <2>1 DEF SkActivate
  <2>3. GenerationIsTrue(g) /\ g < skNext /\ g \in Int /\ skNext \in Int
    BY <1>0, Begun DEF SkIndInv
  <2>4. /\ skFs \in SkTree /\ TransactionIsClear(skFs) /\ TransactionIsClear(skDisk)
        /\ skFs.place[g] = "stage" /\ skFs.new[g] # "none" /\ skLock = g /\ skWhy[g] = "commit"
    BY <1>0, <2>3 DEF SkIndInv, SkTypes, GenerationIsTrue, StageIsKept, LockIsHeld, SkLocked
  <2>5. /\ t \in SkTree /\ TransactionIsClear(t) /\ SkActive(t) = {g}
        /\ t.live = skFs.live /\ t.mark = skFs.mark /\ t.new = skFs.new /\ t.old = skFs.old
        /\ t.old[g] = 0 /\ ~t.mark[g]
        /\ \A h \in SkGenerations \ {g} : t.place[h] = skFs.place[h]
    BY <1>2, <2>1, <2>4, TreeActivated
  <2>6. /\ skPc' \in [SkGenerations -> SkSteps] /\ skPc'[g] = "activeSync"
        /\ \A h \in SkGenerations \ {g} : skPc'[h] = skPc[h]
    BY <2>2, StepGoes DEF SkIndInv, SkSteps
  <2>7. SkTypes'
    BY <2>2, <2>5, <2>6 DEF SkIndInv, SkTypes
  <2>8. GenerationIsTrue(g)'
    BY <2>2, <2>3, <2>4, <2>5, <2>6 DEF GenerationIsTrue, YetToBegin, NothingEarly, SkEarly, LockIsHeld,
       SkLocked, StageIsKept, CommitsInOrder, MendsWhatItFound, SkMending, SkCommitting
  <2>9. LeavesTheOthers(g)
    BY <2>2, <2>4, <2>5, <2>6 DEF LeavesTheOthers
  <2> QED BY <2>2, <2>4, <2>5, <2>7, <2>8, <2>9, StepStands
<1> QED BY <1>1, <1>2

(* A sync, of whatever step.                                               *)
LEMMA SyncStands ==
  ASSUME SkIndInv, NEW g \in SkGenerations, NEW at \in SkSteps \ {"idle"}, NEW step \in SkSteps,
         SkSync(g, at, step), GenerationIsTrue(g)'
  PROVE  SkIndInv' /\ LeavesTheOthers(g)
<1>1. /\ SkGo(g, step) /\ skFs' = skFs /\ skDisk' = skFs /\ skNext' = skNext
      /\ skStaging' = skStaging /\ skLock' = skLock /\ skWhy' = skWhy
  BY DEF SkSync, skMemory
<1>2. /\ skPc' \in [SkGenerations -> SkSteps]
      /\ \A h \in SkGenerations \ {g} : skPc'[h] = skPc[h]
  BY <1>1, StepGoes DEF SkIndInv
<1>3. SkTypes'
  BY <1>1, <1>2 DEF SkIndInv, SkTypes
<1> QED BY <1>1, <1>2, <1>3, MovesOn

LEMMA CommitSyncStands ==
  ASSUME SkIndInv, NEW g \in SkGenerations,
         NEW at \in {"activeSync", "moveSync", "markSync"}, NEW step \in {"mark", "moveLive", "finish"},
         SkSync(g, at, step),
         at = "activeSync" => step = IF skFs.live = 0 THEN "mark" ELSE "moveLive",
         at = "moveSync" => step = "mark", at = "markSync" => step = "finish"
  PROVE  SkIndInv' /\ LeavesTheOthers(g)
<1>1. /\ skPc[g] = at /\ SkGo(g, step) /\ skFs' = skFs /\ skDisk' = skFs /\ skNext' = skNext
      /\ skStaging' = skStaging /\ skLock' = skLock /\ skWhy' = skWhy
  BY DEF SkSync, skMemory
<1>2. at \in SkSteps \ {"idle"} /\ step \in SkSteps
  BY DEF SkSteps
<1>3. skPc'[g] = step
  BY <1>1, <1>2, StepGoes DEF SkIndInv
<1>4. GenerationIsTrue(g) /\ g < skNext /\ g \in Int /\ skNext \in Int
  BY <1>1, Begun DEF SkIndInv
<1>5. /\ skLock = g /\ skWhy[g] = "commit" /\ g \in SkActive(skFs) /\ skFs.new[g] # "none"
      /\ \A o \in SkActive(skFs) : o = g
  BY <1>1, <1>4 DEF SkIndInv, TransactionIsClear, GenerationIsTrue, LockIsHeld, SkLocked, CommitsInOrder,
     SkCommitting
<1>6. YetToBegin(g)' /\ LockIsHeld(g)' /\ StageIsKept(g)'
  BY <1>1, <1>3, <1>4, <1>5 DEF YetToBegin, LockIsHeld, StageIsKept, SkCommitting
<1>7. CommitsInOrder(g)'
  BY <1>1, <1>3, <1>4, <1>5 DEF GenerationIsTrue, CommitsInOrder, SkCommitting
<1>8. NothingEarly(g)' /\ MendsWhatItFound(g)'
  <2>1. CASE step # "finish"
    BY <1>1, <1>3, <2>1 DEF NothingEarly, SkEarly, MendsWhatItFound, SkMending
  <2>2. CASE step = "finish"
    <3>1. at = "markSync" /\ skFs.mark[g]
      BY <1>1, <1>4, <2>2 DEF GenerationIsTrue, CommitsInOrder
    <3> QED BY <1>1, <1>3, <1>5, <2>2, <3>1 DEF NothingEarly, SkEarly, MendsWhatItFound, SkMending
  <2> QED BY <2>1, <2>2
<1> QED BY <1>2, <1>6, <1>7, <1>8, SyncStands DEF GenerationIsTrue

LEMMA PlaceSyncStands ==
  ASSUME SkIndInv, NEW g \in SkGenerations, SkSync(g, "placeSync", "retire")
  PROVE  SkIndInv' /\ LeavesTheOthers(g)
<1>1. /\ skPc[g] = "placeSync" /\ SkGo(g, "retire") /\ skFs' = skFs /\ skDisk' = skFs /\ skNext' = skNext
      /\ skStaging' = skStaging /\ skLock' = skLock /\ skWhy' = skWhy
  BY DEF SkSync, skMemory
<1>2. "placeSync" \in SkSteps \ {"idle"} /\ "retire" \in SkSteps
  BY DEF SkSteps
<1>3. skPc'[g] = "retire"
  BY <1>1, <1>2, StepGoes DEF SkIndInv
<1>4. GenerationIsTrue(g) /\ g < skNext /\ g \in Int /\ skNext \in Int
  BY <1>1, Begun DEF SkIndInv
<1>5. GenerationIsTrue(g)'
  BY <1>1, <1>3, <1>4 DEF GenerationIsTrue, YetToBegin, NothingEarly, SkEarly, LockIsHeld, SkLocked,
     StageIsKept, CommitsInOrder, MendsWhatItFound, SkMending, SkCommitting
<1> QED BY <1>2, <1>5, SyncStands

(* A change of the transaction, by who holds the lock.                     *)
LEMMA ChangeStands ==
  ASSUME SkIndInv, NEW g \in SkGenerations, NEW at, NEW step \in SkSteps, NEW t \in SkTree,
         SkChange(g, at, t, step), TransactionIsClear(t), GenerationIsTrue(g)', skLock = g,
         \A h \in SkGenerations \ {g} :
           /\ skFs.place[h] \in {"absent", "stage"} => t.place[h] = skFs.place[h]
           /\ skFs.place[h] = "stage" => t.new[h] = skFs.new[h]
  PROVE  SkIndInv' /\ LeavesTheOthers(g)
<1>1. /\ SkGo(g, step) /\ skFs' = t /\ skDisk' = skDisk /\ skNext' = skNext
      /\ skStaging' = skStaging /\ skLock' = skLock /\ skWhy' = skWhy
  BY DEF SkChange, skMemory
<1>2. /\ skPc' \in [SkGenerations -> SkSteps]
      /\ \A h \in SkGenerations \ {g} : skPc'[h] = skPc[h]
  BY <1>1, StepGoes DEF SkIndInv
<1>3. SkTypes'
  BY <1>1, <1>2 DEF SkIndInv, SkTypes
<1>4. LeavesTheOthers(g)
  BY <1>1, <1>2 DEF LeavesTheOthers
<1>5. TransactionIsClear(skFs') /\ TransactionIsClear(skDisk')
  BY <1>1 DEF SkIndInv
<1> QED BY <1>3, <1>4, <1>5, StepStands

LEMMA MoveLiveStands ==
  ASSUME SkIndInv, NEW g \in SkGenerations, SkMoveLive(g)
  PROVE  SkIndInv' /\ LeavesTheOthers(g)
<1>1. PICK t : t = LiveMoved(skFs, g)
  OBVIOUS
<1>2. SkChange(g, "moveLive", t, "moveSync")
  BY <1>1 DEF SkMoveLive, LiveMoved
<1>3. /\ skPc[g] = "moveLive" /\ SkGo(g, "moveSync") /\ skFs' = t /\ skDisk' = skDisk /\ skNext' = skNext
      /\ skStaging' = skStaging /\ skLock' = skLock /\ skWhy' = skWhy
  BY <1>2 DEF SkChange, skMemory
<1>4. GenerationIsTrue(g) /\ g < skNext /\ g \in Int /\ skNext \in Int
  BY <1>3, Begun DEF SkIndInv
<1>5. /\ skFs \in SkTree /\ TransactionIsClear(skFs) /\ g \in SkActive(skFs) /\ ~skFs.mark[g]
      /\ skFs.new[g] # "none" /\ skLock = g /\ skWhy[g] = "commit"
  BY <1>3, <1>4 DEF SkIndInv, SkTypes, GenerationIsTrue, LockIsHeld, SkLocked, CommitsInOrder,
     SkCommitting
<1>6. /\ t \in SkTree /\ TransactionIsClear(t) /\ SkActive(t) = SkActive(skFs)
      /\ t.live = 0 /\ t.mark = skFs.mark /\ t.new = skFs.new /\ t.place = skFs.place
  BY <1>1, <1>5, TreeLiveMoved
<1>7. "moveSync" \in SkSteps
  BY DEF SkSteps
<1>8. skPc'[g] = "moveSync"
  BY <1>3, <1>7, StepGoes DEF SkIndInv
<1>9. GenerationIsTrue(g)'
  BY <1>3, <1>4, <1>5, <1>6, <1>8 DEF GenerationIsTrue, YetToBegin, NothingEarly, SkEarly, LockIsHeld,
     StageIsKept, CommitsInOrder, MendsWhatItFound, SkMending, SkCommitting
<1> QED BY <1>2, <1>5, <1>6, <1>7, <1>9, ChangeStands

(* The commit of g is given up, or fails, at one of its steps.             *)
LEMMA GivesUpStands ==
  ASSUME SkIndInv, NEW g \in SkGenerations, NEW at \in {"moveLive", "moveSync", "mark", "markSync"},
         SkGivesUp(g, at)
  PROVE  SkIndInv' /\ LeavesTheOthers(g)
<1>1. PICK step : step = IF skFs.mark[g] THEN "finish" ELSE "restore"
  OBVIOUS
<1>2. /\ skPc[g] = at /\ SkGo(g, step) /\ skFs' = skFs /\ skDisk' = skDisk /\ skNext' = skNext
      /\ skStaging' = skStaging /\ skLock' = skLock /\ skWhy' = [skWhy EXCEPT ![g] = "abandoned"]
  BY <1>1 DEF SkGivesUp
<1>3. step \in SkSteps /\ step \in {"finish", "restore"}
  BY <1>1 DEF SkSteps
<1>4. /\ skPc' \in [SkGenerations -> SkSteps] /\ skPc'[g] = step
      /\ \A h \in SkGenerations \ {g} : skPc'[h] = skPc[h]
  BY <1>2, <1>3, StepGoes DEF SkIndInv
<1>5. /\ skWhy' \in [SkGenerations -> {"none", "recovery", "commit", "abandoned"}]
      /\ skWhy'[g] = "abandoned" /\ \A h \in SkGenerations \ {g} : skWhy'[h] = skWhy[h]
  BY <1>2, WhyIsSet DEF SkIndInv
<1>6. SkTypes'
  BY <1>2, <1>4, <1>5 DEF SkIndInv, SkTypes
<1>7. GenerationIsTrue(g) /\ g < skNext /\ g \in Int /\ skNext \in Int
  BY <1>2, Begun DEF SkIndInv
<1>8. skLock = g /\ g \in SkActive(skFs) /\ \A o \in SkActive(skFs) : o = g
  BY <1>2, <1>7 DEF SkIndInv, TransactionIsClear, GenerationIsTrue, LockIsHeld, SkLocked, CommitsInOrder,
     SkCommitting
<1>9. YetToBegin(g)' /\ NothingEarly(g)' /\ LockIsHeld(g)' /\ StageIsKept(g)' /\ CommitsInOrder(g)'
  BY <1>2, <1>3, <1>4, <1>5, <1>7, <1>8 DEF YetToBegin, NothingEarly, SkEarly, LockIsHeld, SkLocked,
     StageIsKept, CommitsInOrder, SkCommitting
<1>10. MendsWhatItFound(g)'
  BY <1>1, <1>2, <1>4, <1>5, <1>8 DEF MendsWhatItFound, SkMending
<1> QED BY <1>2, <1>4, <1>5, <1>6, <1>9, <1>10, MovesOn DEF GenerationIsTrue

LEMMA MarkCommittedStands ==
  ASSUME SkIndInv, NEW g \in SkGenerations, SkMarkCommitted(g)
  PROVE  SkIndInv' /\ LeavesTheOthers(g)
<1>1. CASE SkGivesUp(g, "mark")
  BY <1>1, GivesUpStands
<1>2. CASE SkChange(g, "mark", [skFs EXCEPT !.mark[g] = TRUE], "markSync")
  <2>1. PICK t : t = Marked(skFs, g)
    OBVIOUS
  <2>2. SkChange(g, "mark", t, "markSync")
    BY <1>2, <2>1 DEF Marked
  <2>3. /\ skPc[g] = "mark" /\ SkGo(g, "markSync") /\ skFs' = t /\ skDisk' = skDisk /\ skNext' = skNext
        /\ skStaging' = skStaging /\ skLock' = skLock /\ skWhy' = skWhy
    BY <2>2 DEF SkChange, skMemory
  <2>4. GenerationIsTrue(g) /\ g < skNext /\ g \in Int /\ skNext \in Int
    BY <2>3, Begun DEF SkIndInv
  <2>5. /\ skFs \in SkTree /\ TransactionIsClear(skFs) /\ g \in SkActive(skFs) /\ ~skFs.mark[g]
        /\ skFs.live = 0 /\ skFs.new[g] # "none" /\ skLock = g /\ skWhy[g] = "commit"
    BY <2>3, <2>4 DEF SkIndInv, SkTypes, GenerationIsTrue, LockIsHeld, SkLocked, CommitsInOrder,
       SkCommitting
  <2>6. /\ t \in SkTree /\ TransactionIsClear(t) /\ SkActive(t) = SkActive(skFs) /\ t.mark[g]
        /\ t.live = 0 /\ t.old = skFs.old /\ t.new = skFs.new /\ t.place = skFs.place
    BY <2>1, <2>5, TreeMarked
  <2>7. "markSync" \in SkSteps
    BY DEF SkSteps
  <2>8. skPc'[g] = "markSync"
    BY <2>3, <2>7, StepGoes DEF SkIndInv
  <2>9. GenerationIsTrue(g)'
    BY <2>3, <2>4, <2>5, <2>6, <2>8 DEF GenerationIsTrue, YetToBegin, NothingEarly, SkEarly, LockIsHeld,
       StageIsKept, CommitsInOrder, MendsWhatItFound, SkMending, SkCommitting
  <2> QED BY <2>2, <2>5, <2>6, <2>7, <2>9, ChangeStands
<1> QED BY <1>1, <1>2 DEF SkMarkCommitted

(* A transaction is mended by who holds the lock, whosoever's it is.       *)
LEMMA MendingIsOfTheActive ==
  ASSUME SkIndInv, NEW g \in SkGenerations, skPc[g] \in SkMending
  PROVE  /\ skLock = g /\ skWhy[g] # "none" /\ SkTheActive \in SkActive(skFs)
         /\ SkTheActive = g => ~SkEarly(g)
<1>1. GenerationIsTrue(g)
  BY DEF SkIndInv
<1>2. SkTheActive \in SkActive(skFs)
  BY <1>1, ActiveIsFound DEF GenerationIsTrue, MendsWhatItFound
<1> QED BY <1>1, <1>2 DEF GenerationIsTrue, LockIsHeld, SkLocked, MendsWhatItFound, NothingEarly, SkActive

(* Finishing and rolling back put the catalog in its place.                *)
LEMMA PlacedStands ==
  ASSUME SkIndInv, NEW g \in SkGenerations, NEW at \in {"finish", "restore"}, NEW o \in SkActive(skFs),
         NEW t \in SkTree, TransactionIsClear(t), SkActive(t) = SkActive(skFs), t.place = skFs.place,
         \A h \in SkGenerations \ {o} : t.new[h] = skFs.new[h],
         SkChange(g, at, t, "placeSync")
  PROVE  SkIndInv' /\ LeavesTheOthers(g)
<1>1. /\ skPc[g] = at /\ SkGo(g, "placeSync") /\ skFs' = t /\ skDisk' = skDisk /\ skNext' = skNext
      /\ skStaging' = skStaging /\ skLock' = skLock /\ skWhy' = skWhy
  BY DEF SkChange, skMemory
<1>2. "placeSync" \in SkSteps
  BY DEF SkSteps
<1>3. skPc'[g] = "placeSync"
  BY <1>1, <1>2, StepGoes DEF SkIndInv
<1>4. GenerationIsTrue(g) /\ g < skNext /\ g \in Int /\ skNext \in Int
  BY <1>1, Begun DEF SkIndInv
<1>5. skLock = g /\ skWhy[g] # "none"
  BY <1>1, MendingIsOfTheActive DEF SkMending
<1>6. GenerationIsTrue(g)'
  BY <1>1, <1>3, <1>4, <1>5 DEF GenerationIsTrue, YetToBegin, NothingEarly, SkEarly, LockIsHeld,
     StageIsKept, CommitsInOrder, MendsWhatItFound, SkMending, SkCommitting
<1>7. \A h \in SkGenerations : skFs.place[h] = "stage" => h # o
  BY DEF SkActive
<1> QED BY <1>1, <1>2, <1>5, <1>6, <1>7, ChangeStands

(* There is nothing to put there: the transaction is only retired.         *)
LEMMA NothingToPlaceStands ==
  ASSUME SkIndInv, NEW g \in SkGenerations, NEW at \in {"finish", "restore"},
         SkChange(g, at, skFs, "retire")
  PROVE  SkIndInv' /\ LeavesTheOthers(g)
<1>1. /\ skPc[g] = at /\ SkGo(g, "retire") /\ skFs' = skFs /\ skDisk' = skDisk /\ skNext' = skNext
      /\ skStaging' = skStaging /\ skLock' = skLock /\ skWhy' = skWhy
  BY DEF SkChange, skMemory
<1>2. "retire" \in SkSteps
  BY DEF SkSteps
<1>3. skPc'[g] = "retire"
  BY <1>1, <1>2, StepGoes DEF SkIndInv
<1>4. GenerationIsTrue(g) /\ g < skNext /\ g \in Int /\ skNext \in Int
  BY <1>1, Begun DEF SkIndInv
<1>5. skLock = g /\ skWhy[g] # "none"
  BY <1>1, MendingIsOfTheActive DEF SkMending
<1>6. GenerationIsTrue(g)'
  BY <1>1, <1>3, <1>4, <1>5 DEF GenerationIsTrue, YetToBegin, NothingEarly, SkEarly, LockIsHeld,
     StageIsKept, CommitsInOrder, MendsWhatItFound, SkMending, SkCommitting
<1>7. skFs \in SkTree /\ TransactionIsClear(skFs)
  BY DEF SkIndInv, SkTypes
<1> QED BY <1>2, <1>5, <1>6, <1>7, ChangeStands

LEMMA FinishStands ==
  ASSUME SkIndInv, NEW g \in SkGenerations, SkFinish(g)
  PROVE  SkIndInv' /\ LeavesTheOthers(g)
<1>0. skPc[g] = "finish"
  BY DEF SkFinish
<1>1. CASE SkChange(g, "finish", skFs, "fail")
  BY <1>0, <1>1, GoesToFail DEF SkChange, skMemory
<1>2. CASE SkChange(g, "finish", skFs, "retire")
  BY <1>2, NothingToPlaceStands
<1>3. CASE SkChange(g, "finish", Finished(skFs, SkTheActive), "placeSync")
  <2>1. PICK o : o = SkTheActive
    OBVIOUS
  <2>2. PICK t : t = Finished(skFs, o)
    OBVIOUS
  <2>3. skFs \in SkTree /\ TransactionIsClear(skFs) /\ o \in SkActive(skFs) /\ skFs.mark[o]
    BY <1>0, <2>1, MendingIsOfTheActive DEF SkIndInv, SkTypes, SkMending, GenerationIsTrue, MendsWhatItFound
  <2>4. /\ t \in SkTree /\ TransactionIsClear(t) /\ SkActive(t) = SkActive(skFs) /\ t.place = skFs.place
    BY <2>2, <2>3, TreeFinished
  <2>5. \A h \in SkGenerations \ {o} : t.new[h] = skFs.new[h]
    BY <2>2, <2>3, TreeFinished
  <2>6. SkChange(g, "finish", t, "placeSync")
    BY <1>3, <2>1, <2>2
  <2> QED BY <2>3, <2>4, <2>5, <2>6, PlacedStands
<1> QED BY <1>1, <1>2, <1>3 DEF SkFinish, Finished

LEMMA RestoreStands ==
  ASSUME SkIndInv, NEW g \in SkGenerations, SkRestore(g)
  PROVE  SkIndInv' /\ LeavesTheOthers(g)
<1>0. skPc[g] = "restore"
  BY DEF SkRestore
<1>1. CASE SkChange(g, "restore", skFs, "fail")
  BY <1>0, <1>1, GoesToFail DEF SkChange, skMemory
<1>2. CASE SkChange(g, "restore", skFs, "retire")
  BY <1>2, NothingToPlaceStands
<1>3. CASE SkChange(g, "restore", Restored(skFs, SkTheActive), "placeSync")
  <2>1. PICK o : o = SkTheActive
    OBVIOUS
  <2>2. PICK t : t = Restored(skFs, o)
    OBVIOUS
  <2>3. skFs \in SkTree /\ TransactionIsClear(skFs) /\ o \in SkActive(skFs) /\ ~skFs.mark[o]
    BY <1>0, <2>1, MendingIsOfTheActive DEF SkIndInv, SkTypes, SkMending, GenerationIsTrue, MendsWhatItFound
  <2>4. /\ t \in SkTree /\ TransactionIsClear(t) /\ SkActive(t) = SkActive(skFs) /\ t.place = skFs.place
        /\ t.new = skFs.new
    BY <2>2, <2>3, TreeRestored
  <2>5. SkChange(g, "restore", t, "placeSync")
    BY <1>3, <2>1, <2>2
  <2> QED BY <2>3, <2>4, <2>5, PlacedStands
<1> QED BY <1>1, <1>2, <1>3 DEF SkRestore, Restored

LEMMA RetireStands ==
  ASSUME SkIndInv, NEW g \in SkGenerations, SkRetire(g)
  PROVE  SkIndInv' /\ LeavesTheOthers(g)
<1>1. PICK o : o = SkTheActive
  OBVIOUS
<1>2. PICK t : t = [skFs EXCEPT !.place[o] = "retired"]
  OBVIOUS
<1>3. SkChange(g, "retire", t, "retireSync")
  BY <1>1, <1>2 DEF SkRetire
<1>4. /\ skPc[g] = "retire" /\ SkGo(g, "retireSync") /\ skFs' = t /\ skDisk' = skDisk /\ skNext' = skNext
      /\ skStaging' = skStaging /\ skLock' = skLock /\ skWhy' = skWhy
  BY <1>3 DEF SkChange, skMemory
<1>5. /\ skFs \in SkTree /\ TransactionIsClear(skFs) /\ o \in SkActive(skFs)
      /\ skLock = g /\ skWhy[g] # "none" /\ (o = g => ~SkEarly(g))
  BY <1>1, <1>4, MendingIsOfTheActive DEF SkIndInv, SkTypes, SkMending
<1>6. /\ t \in SkTree /\ TransactionIsClear(t)
      /\ t.live = skFs.live /\ t.mark = skFs.mark /\ t.new = skFs.new /\ t.old = skFs.old
  BY <1>2, <1>5, TreeRetired
<1>7. \A h \in SkGenerations \ {o} : t.place[h] = skFs.place[h]
  BY <1>2, <1>5, TreeRetired
<1>8. "retireSync" \in SkSteps
  BY DEF SkSteps
<1>9. skPc'[g] = "retireSync"
  BY <1>4, <1>8, StepGoes DEF SkIndInv
<1>10. GenerationIsTrue(g) /\ g < skNext /\ g \in Int /\ skNext \in Int
  BY <1>4, Begun DEF SkIndInv
<1>11. NothingEarly(g)'
  <2>1. CASE skWhy[g] = "recovery"
    <3>1. SkEarly(g) /\ g # o
      BY <1>4, <1>5, <2>1 DEF SkEarly, SkMending
    <3> QED BY <1>4, <1>7, <1>10, <3>1 DEF GenerationIsTrue, NothingEarly
  <2>2. CASE skWhy[g] # "recovery"
    BY <1>4, <1>9, <2>2 DEF NothingEarly, SkEarly, SkMending
  <2> QED BY <2>1, <2>2
<1>12. GenerationIsTrue(g)'
  BY <1>4, <1>5, <1>9, <1>10, <1>11 DEF GenerationIsTrue, YetToBegin, LockIsHeld,
     StageIsKept, CommitsInOrder, MendsWhatItFound, SkMending, SkCommitting
<1>13. \A h \in SkGenerations : skFs.place[h] \in {"absent", "stage"} => h # o
  BY <1>5 DEF SkActive
<1> QED BY <1>3, <1>5, <1>6, <1>7, <1>8, <1>12, <1>13, ChangeStands

LEMMA RetiredStands ==
  ASSUME SkIndInv, NEW g \in SkGenerations, SkRetired(g)
  PROVE  SkIndInv' /\ LeavesTheOthers(g)
<1>1. /\ skPc[g] = "retireSync" /\ skFs' = skFs /\ skDisk' = skFs /\ skNext' = skNext
      /\ skStaging' = skStaging /\ skWhy' = skWhy
  BY DEF SkRetired, skMemory
<1>2. GenerationIsTrue(g) /\ g < skNext /\ g \in Int /\ skNext \in Int
  BY <1>1, Begun DEF SkIndInv
<1>3. skLock = g /\ skWhy[g] \in {"recovery", "commit", "abandoned"}
  BY <1>1, <1>2 DEF SkIndInv, SkTypes, GenerationIsTrue, LockIsHeld, SkLocked, MendsWhatItFound
<1>4. PICK step \in {"clean", "committed", "fail"} :
        /\ SkGo(g, step) /\ (step = "clean" <=> skWhy[g] = "recovery")
        /\ skLock' = IF step = "committed" THEN 0 ELSE skLock
  <2>1. CASE skWhy[g] = "recovery"
    BY <2>1 DEF SkRetired
  <2>2. CASE skWhy[g] = "commit"
    BY <2>2 DEF SkRetired
  <2>3. CASE skWhy[g] = "abandoned"
    BY <2>3 DEF SkRetired
  <2> QED BY <1>3, <2>1, <2>2, <2>3
<1>5. /\ skPc' \in [SkGenerations -> SkSteps] /\ skPc'[g] = step
      /\ \A h \in SkGenerations \ {g} : skPc'[h] = skPc[h]
  BY <1>4, StepGoes DEF SkIndInv, SkSteps
<1>6. SkTypes'
  BY <1>1, <1>4, <1>5, SkAssumption DEF SkIndInv, SkTypes
<1>7. GenerationIsTrue(g)'
  <2>1. CASE step = "clean"
    <3>1. SkEarly(g) /\ skLock' = g
      BY <1>1, <1>3, <1>4, <2>1 DEF SkEarly
    <3> QED BY <1>1, <1>2, <1>5, <2>1, <3>1 DEF GenerationIsTrue, YetToBegin, NothingEarly, LockIsHeld,
            StageIsKept, CommitsInOrder, MendsWhatItFound, SkMending, SkCommitting
  <2>2. CASE step # "clean"
    BY <1>1, <1>2, <1>4, <1>5, <1>6, <2>2, AtRest
  <2> QED BY <2>1, <2>2
<1> QED BY <1>1, <1>3, <1>4, <1>5, <1>6, <1>7, MovesOn

LEMMA CommittedStands ==
  ASSUME SkIndInv, NEW g \in SkGenerations, SkCommitted(g)
  PROVE  SkIndInv' /\ LeavesTheOthers(g)
<1>1. /\ skPc[g] = "committed" /\ skFs' = skFs /\ skDisk' = skDisk /\ skNext' = skNext
      /\ skStaging' = skStaging /\ skWhy' = skWhy /\ skLock' = skLock
  BY DEF SkCommitted, skMemory
<1>2. PICK step \in {"fail", "dispose"} : SkGo(g, step)
  BY DEF SkCommitted
<1>3. /\ skPc' \in [SkGenerations -> SkSteps] /\ skPc'[g] = step
      /\ \A h \in SkGenerations \ {g} : skPc'[h] = skPc[h]
  BY <1>2, StepGoes DEF SkIndInv, SkSteps
<1>4. SkTypes'
  BY <1>1, <1>3 DEF SkIndInv, SkTypes
<1>5. GenerationIsTrue(g)'
  BY <1>1, <1>2, <1>3, <1>4, AtRest, Begun
<1> QED BY <1>1, <1>3, <1>4, <1>5, MovesOn

LEMMA SettleStands ==
  ASSUME SkIndInv, NEW g \in SkGenerations, SkSettle(g)
  PROVE  SkIndInv' /\ LeavesTheOthers(g)
<1>1. /\ skPc[g] \in {"fail", "dispose"} /\ SkGo(g, "settled") /\ skLock' = SkUnlocked(g)
      /\ skStaging' = skStaging \ {g} /\ skDisk' = skDisk /\ skNext' = skNext /\ skWhy' = skWhy
  BY DEF SkSettle
<1>2. PICK gone \in SUBSET ({g} \ SkActive(skFs)) : skFs' = SkRemoved(skFs, gone)
  BY DEF SkSettle
<1>3. PICK t : t = SkRemoved(skFs, gone)
  OBVIOUS
<1>4. /\ skFs \in SkTree /\ TransactionIsClear(skFs) /\ TransactionIsClear(skDisk)
      /\ gone \in SUBSET SkGenerations /\ gone \cap SkActive(skFs) = {}
  BY DEF SkIndInv, SkTypes
<1>5. /\ t \in SkTree /\ TransactionIsClear(t) /\ SkActive(t) = SkActive(skFs) /\ t.live = skFs.live
      /\ \A h \in gone : t.place[h] = "absent"
      /\ \A h \in SkGenerations \ gone :
           /\ t.place[h] = skFs.place[h] /\ t.new[h] = skFs.new[h]
           /\ t.old[h] = skFs.old[h] /\ t.mark[h] = skFs.mark[h]
  BY <1>3, <1>4, TreeRemoved
<1>6. /\ skPc' \in [SkGenerations -> SkSteps] /\ skPc'[g] = "settled"
      /\ \A h \in SkGenerations \ {g} : skPc'[h] = skPc[h]
  BY <1>1, StepGoes DEF SkIndInv, SkSteps
<1>7. skFs' = t /\ skLock' \in {0, skLock} /\ (skLock' = skLock \/ skLock = g)
  BY <1>1, <1>2, <1>3 DEF SkUnlocked
<1>8. SkTypes'
  BY <1>1, <1>5, <1>6, <1>7, SkAssumption DEF SkIndInv, SkTypes
<1>9. GenerationIsTrue(g)'
  BY <1>1, <1>6, <1>8, AtRest, Begun
<1>10. \A o \in SkActive(skFs) : o \in SkGenerations \ gone
  BY <1>4 DEF SkActive
<1>11. LeavesTheOthers(g)
  BY <1>1, <1>5, <1>6, <1>7, <1>10 DEF LeavesTheOthers
<1> QED BY <1>1, <1>4, <1>5, <1>7, <1>8, <1>9, <1>11, StepStands

LEMMA FailsStands ==
  ASSUME SkIndInv, NEW g \in SkGenerations, SkFails(g)
  PROVE  SkIndInv' /\ LeavesTheOthers(g)
<1>1. ASSUME NEW at \in {"moveLive", "moveSync", "mark", "markSync"}, SkGivesUp(g, at)
      PROVE  SkIndInv' /\ LeavesTheOthers(g)
  BY <1>1, GivesUpStands
<1>2. ASSUME NEW at \in {"recover", "clean", "cleanSync", "prepare", "activate", "activeSync",
                         "finish", "restore", "placeSync", "retire", "retireSync"},
             skPc[g] = at, SkGo(g, "fail"),
             UNCHANGED <<skFs, skDisk, skNext, skWhy, skLock, skStaging, skAborted, skEmpty,
                         skResult, skCrashes>>
      PROVE  SkIndInv' /\ LeavesTheOthers(g)
  BY <1>2, GoesToFail
<1> QED BY <1>1, <1>2 DEF SkFails

(* A process that ends leaves one of the two trees, and no generation of   *)
(* its own.                                                                *)
LEMMA CrashStands ==
  ASSUME SkIndInv, SkCrash
  PROVE  SkIndInv'
<1>1. PICK tree \in {skFs, skDisk} : skFs' = tree /\ skDisk' = tree
  BY DEF SkCrash
<1>2. tree \in SkTree /\ TransactionIsClear(tree)
  BY DEF SkIndInv, SkTypes
<1>3. /\ skPc' = [g \in SkGenerations |-> IF skPc[g] \in {"idle", "settled"} THEN skPc[g] ELSE "gone"]
      /\ skLock' = 0 /\ skStaging' = {} /\ skNext' = skNext /\ skWhy' = skWhy
  BY DEF SkCrash
<1>4. skPc' \in [SkGenerations -> SkSteps]
  BY <1>3 DEF SkSteps
<1>5. SkTypes'
  BY <1>1, <1>2, <1>3, <1>4, SkAssumption DEF SkIndInv, SkTypes
<1>6. ASSUME NEW g \in SkGenerations
      PROVE  GenerationIsTrue(g)'
  <2>1. GenerationIsTrue(g)
    BY DEF SkIndInv
  <2>2. CASE skPc[g] = "idle"
    <3>1. skPc'[g] = "idle" /\ tree.place[g] = "absent"
      BY <1>3, <2>1, <2>2 DEF GenerationIsTrue, NothingEarly, SkEarly
    <3> QED BY <1>1, <3>1 DEF GenerationIsTrue, YetToBegin, NothingEarly, LockIsHeld, SkLocked,
            StageIsKept, CommitsInOrder, MendsWhatItFound, SkMending, SkCommitting
  <2>3. CASE skPc[g] # "idle"
    <3>1. skPc'[g] \in {"settled", "gone"}
      BY <1>3, <2>3
    <3> QED BY <1>3, <1>5, <2>3, <3>1, AtRest, Begun
  <2> QED BY <2>2, <2>3
<1> QED BY <1>1, <1>2, <1>5, <1>6 DEF SkIndInv

-----------------------------------------------------------------------------
LEMMA CatalogBegins ==
  ASSUME SkInit
  PROVE  SkIndInv
<1>1. PICK live \in {0, 1} :
        skFs = [live |-> live, place |-> [g \in SkGenerations |-> "absent"],
                new |-> [g \in SkGenerations |-> "none"], old |-> [g \in SkGenerations |-> 0],
                mark |-> [g \in SkGenerations |-> FALSE]]
  BY DEF SkInit
<1>2. live \in 0..SkMaxGeneration /\ 0 \in 0..SkMaxGeneration /\ 2 \in 2..(SkMaxGeneration + 1)
  BY SkAssumption
<1>3. skFs \in SkTree
  BY <1>1, <1>2 DEF SkTree
<1>4. SkActive(skFs) = {}
  BY <1>1 DEF SkActive
<1>5. TransactionIsClear(skFs)
  BY <1>1, <1>4 DEF TransactionIsClear
<1>6. SkTypes
  BY <1>2, <1>3 DEF SkInit, SkTypes, SkSteps
<1>7. ASSUME NEW g \in SkGenerations
      PROVE  GenerationIsTrue(g)
  <2>1. skPc[g] = "idle" /\ skFs.place[g] = "absent" /\ skDisk = skFs
    BY <1>1 DEF SkInit
  <2> QED BY <2>1 DEF GenerationIsTrue, YetToBegin, NothingEarly, LockIsHeld, SkLocked,
          StageIsKept, CommitsInOrder, MendsWhatItFound, SkMending, SkCommitting
<1> QED BY <1>5, <1>6, <1>7 DEF SkInit, SkIndInv

LEMMA CatalogSteps ==
  ASSUME SkIndInv, SkNext
  PROVE  SkIndInv'
<1>1. ASSUME NEW g \in SkGenerations, SkStep(g)
      PROVE  SkIndInv'
  <2>1. CASE SkLocksToRecover(g) \/ SkRecover(g) \/ SkClean(g) \/ SkRecovered(g)
    BY <2>1, LocksToRecoverStands, RecoverStands, CleanStands, RecoveredStands
  <2>2. CASE SkStage(g) \/ SkPrepare(g) \/ SkLocksToCommit(g) \/ SkActivate(g)
    BY <2>2, StageStands, PrepareStands, LocksToCommitStands, ActivateStands
  <2>3. CASE SkSync(g, "activeSync", IF skFs.live = 0 THEN "mark" ELSE "moveLive")
    <3>1. PICK step \in {"mark", "moveLive"} : step = IF skFs.live = 0 THEN "mark" ELSE "moveLive"
      OBVIOUS
    <3>2. SkSync(g, "activeSync", step)
      BY <2>3, <3>1
    <3> QED BY <3>1, <3>2, CommitSyncStands
  <2>4. CASE SkSync(g, "moveSync", "mark") \/ SkSync(g, "markSync", "finish")
    BY <2>4, CommitSyncStands
  <2>5. CASE SkMoveLive(g) \/ SkMarkCommitted(g)
    BY <2>5, MoveLiveStands, MarkCommittedStands
  <2>6. CASE SkFinish(g) \/ SkRestore(g) \/ SkSync(g, "placeSync", "retire")
    BY <2>6, FinishStands, RestoreStands, PlaceSyncStands
  <2>7. CASE SkRetire(g) \/ SkRetired(g) \/ SkCommitted(g) \/ SkSettle(g)
    BY <2>7, RetireStands, RetiredStands, CommittedStands, SettleStands
  <2> QED BY <1>1, <2>1, <2>2, <2>3, <2>4, <2>5, <2>6, <2>7 DEF SkStep
<1>2. ASSUME NEW g \in SkGenerations, SkAbort(g) \/ SkFails(g)
      PROVE  SkIndInv'
  BY <1>2, AbortStands, FailsStands
<1> QED BY <1>1, <1>2, BeginStands, CrashStands DEF SkNext

LEMMA CatalogRests ==
  ASSUME SkIndInv, UNCHANGED skVars
  PROVE  SkIndInv'
BY DEF skVars, SkIndInv, SkTypes, GenerationIsTrue, YetToBegin, NothingEarly, SkEarly, LockIsHeld,
       StageIsKept, CommitsInOrder, MendsWhatItFound

(* A clear transaction is one that recovery can end.                       *)
LEMMA ClearIsRecoverable ==
  ASSUME NEW tree \in SkTree, TransactionIsClear(tree)
  PROVE  Cardinality(SkActive(tree)) <= 1 /\ ~SkCannotFinish(tree) /\ ~SkCannotRestore(tree)
<1>1. Cardinality(SkActive(tree)) <= 1
  <2>1. CASE SkActive(tree) = {}
    BY <2>1, FS_EmptySet
  <2>2. CASE SkActive(tree) # {}
    <3>1. PICK o \in SkActive(tree) : TRUE
      BY <2>2
    <3>2. SkActive(tree) = {o}
      BY <3>1 DEF TransactionIsClear
    <3>3. Cardinality({o}) = 1
      BY FS_Singleton
    <3> QED BY <3>2, <3>3
  <2> QED BY <2>1, <2>2
<1>2. ~SkCannotFinish(tree)
  BY DEF SkCannotFinish, TransactionIsClear
<1>3. ~SkCannotRestore(tree)
  BY DEF SkCannotRestore, TransactionIsClear
<1> QED BY <1>1, <1>2, <1>3

LEMMA CatalogIsRecoverable ==
  ASSUME SkIndInv
  PROVE  SkRecoverable
<1>1. \A tree \in {skFs, skDisk} : tree \in SkTree /\ TransactionIsClear(tree)
  BY DEF SkIndInv, SkTypes
<1>2. \A g \in SkGenerations :
        skPc[g] \in {"prepare", "prepared", "activate"} => skFs.place[g] = "stage" /\ skFs.new[g] # "none"
  BY DEF SkIndInv, GenerationIsTrue, StageIsKept
<1> QED BY <1>1, <1>2, ClearIsRecoverable DEF SkRecoverable

-----------------------------------------------------------------------------
(* That the catalog is kept, which needs more: how the durable tree lags   *)
(* behind the one the process sees.                                        *)

(* A catalog that was put in place is the active generation's.             *)
LiveIsOwn(tree) == \A o \in SkActive(tree) : tree.mark[o] => tree.live \in {0, o}

(* Who may still commit is newer than every catalog there is.              *)
SkUncommitted(g) ==
  \/ SkEarly(g)
  \/ skPc[g] \in {"prepare", "prepared", "activate", "activeSync", "moveLive", "moveSync", "mark"}
Older(tree, g) == tree.live < g /\ (\A h \in SkGenerations : tree.old[h] < g) /\ ~tree.mark[g]
CatalogsAreOlder(g) ==
  g >= skNext - 1 /\ SkUncommitted(g) => Older(skFs, g) /\ Older(skDisk, g)

WholeIsKept(g) ==
  /\ skPc[g] \in {"prepared", "activate"} \cup SkCommitting => skFs.new[g] = "whole"
  /\ skPc[g] \in {"activate"} \cup SkCommitting => skDisk.new[g] = "whole"

(* Only the newest commits.                                                *)
NewestCommits(g) == skPc[g] \in {"activeSync", "moveLive", "moveSync", "mark", "markSync"} => g = skNext - 1

(* What is retired has its catalog in place.                               *)
RetireIsReady(g) ==
  skPc[g] \in {"placeSync", "retire"} =>
    \A o \in SkActive(skFs) : IF skFs.mark[o] THEN skFs.live = o ELSE skFs.old[o] = 0

ResultIsLast(g) == skResult[g] # "none" => skPc[g] = "settled"

(* A commit that goes on is the catalog, and one that is over is durable.  *)
CommitIsKept(g) ==
  /\ skPc[g] \in {"finish", "restore", "placeSync", "retire", "retireSync"} /\ skWhy[g] = "commit" =>
       SkCatalog(skFs) = g
  /\ skPc[g] \in {"committed", "dispose"} => SkCatalog(skDisk) >= g /\ skLock # g

CatalogIsTrue(g) ==
  /\ CatalogsAreOlder(g) /\ WholeIsKept(g) /\ NewestCommits(g)
  /\ RetireIsReady(g) /\ ResultIsLast(g) /\ CommitIsKept(g)

(* The durable catalog is that of the tree the process sees, or that one   *)
(* was committed by a marker that is not durable yet.                      *)
MarkerLags(disk, new) ==
  new # SkCatalog(disk) =>
    /\ new \in SkGenerations /\ new > SkCatalog(disk) /\ disk.new[new] = "whole"
    /\ (new = skNext - 1 /\ skLock = new) \/ skResult[new] = "failed"

SkKeptInv ==
  /\ SkIndInv /\ skResult \in [SkGenerations -> {"none", "nothing", "installed", "failed"}]
  /\ LiveIsOwn(skFs) /\ LiveIsOwn(skDisk)
  /\ \A g \in SkGenerations : CatalogIsTrue(g)
  /\ MarkerLags(skDisk, SkCatalog(skFs))

LEMMA CatalogOfOne ==
  ASSUME NEW tree, TransactionIsClear(tree), NEW o \in SkActive(tree)
  PROVE  SkCatalog(tree) = IF tree.mark[o] THEN o ELSE IF tree.old[o] # 0 THEN tree.old[o] ELSE tree.live
<1>1. PICK c : c = CHOOSE g \in SkActive(tree) : TRUE
  OBVIOUS
<1>2. c \in SkActive(tree)
  BY <1>1
<1>3. c = o
  BY <1>2 DEF TransactionIsClear
<1> QED BY <1>1, <1>3 DEF SkCatalog

LEMMA CatalogOfNone ==
  ASSUME NEW tree, SkActive(tree) = {}
  PROVE  SkCatalog(tree) = tree.live
BY DEF SkCatalog

LEMMA CatalogIsNumber ==
  ASSUME NEW tree \in SkTree, TransactionIsClear(tree)
  PROVE  SkCatalog(tree) \in Int
<1>1. CASE SkActive(tree) = {}
  BY <1>1, CatalogOfNone, TreeParts, SkAssumption
<1>2. CASE SkActive(tree) # {}
  <2>1. PICK o \in SkActive(tree) : TRUE
    BY <1>2
  <2>2. o \in SkGenerations /\ o \in Int
    BY DEF SkActive, SkGenerations
  <2>3. tree.live \in Int /\ tree.old[o] \in Int
    BY <2>2, TreeParts, SkAssumption
  <2> QED BY <2>2, <2>3, CatalogOfOne
<1> QED BY <1>1, <1>2

(* What an operation on the file system keeps of the catalogs of a tree.   *)
KeepsCatalog(tree, t) ==
  /\ SkCatalog(t) = SkCatalog(tree) /\ LiveIsOwn(t)
  /\ \/ t.live \in {0, tree.live}
     \/ \E o \in SkActive(tree) : tree.mark[o] /\ t.live = o
     \/ \E h \in SkGenerations : t.live = tree.old[h]
  /\ \A h \in SkGenerations : /\ t.old[h] \in {0, tree.old[h], tree.live}
                              /\ t.mark[h] => tree.mark[h]

LEMMA SameActive ==
  ASSUME NEW tree, NEW t, TransactionIsClear(tree), TransactionIsClear(t), LiveIsOwn(tree),
         SkActive(t) = SkActive(tree), t.live = tree.live,
         \A o \in SkActive(tree) : t.old[o] = tree.old[o] /\ t.mark[o] = tree.mark[o],
         \A h \in SkGenerations : /\ t.old[h] \in {0, tree.old[h], tree.live}
                                  /\ t.mark[h] => tree.mark[h]
  PROVE  KeepsCatalog(tree, t)
<1>1. SkCatalog(t) = SkCatalog(tree)
  <2>1. CASE SkActive(tree) = {}
    BY <2>1, CatalogOfNone
  <2>2. CASE SkActive(tree) # {}
    <3>1. PICK o \in SkActive(tree) : TRUE
      BY <2>2
    <3>2. SkCatalog(tree) = IF tree.mark[o] THEN o ELSE IF tree.old[o] # 0 THEN tree.old[o] ELSE tree.live
      BY CatalogOfOne
    <3>3. SkCatalog(t) = IF t.mark[o] THEN o ELSE IF t.old[o] # 0 THEN t.old[o] ELSE t.live
      BY CatalogOfOne
    <3> QED BY <3>2, <3>3
  <2> QED BY <2>1, <2>2
<1>2. LiveIsOwn(t)
  BY DEF LiveIsOwn
<1> QED BY <1>1, <1>2 DEF KeepsCatalog

LEMMA SameTree ==
  ASSUME NEW tree, TransactionIsClear(tree), LiveIsOwn(tree)
  PROVE  KeepsCatalog(tree, tree)
BY DEF KeepsCatalog

LEMMA SkStagedKeeps ==
  ASSUME NEW tree \in SkTree, TransactionIsClear(tree), LiveIsOwn(tree), NEW g \in SkGenerations,
         tree.place[g] = "absent", NEW t, t = Staged(tree, g)
  PROVE  KeepsCatalog(tree, t)
<1>1. t.live = tree.live /\ t.old = tree.old /\ t.mark = tree.mark
  BY DEF SkTree, Staged
<1>2. TransactionIsClear(t) /\ SkActive(t) = SkActive(tree)
  BY TreeStaged
<1> QED BY <1>1, <1>2, SameActive

LEMMA SkPreparedKeeps ==
  ASSUME NEW tree \in SkTree, TransactionIsClear(tree), LiveIsOwn(tree), NEW g \in SkGenerations,
         tree.place[g] = "stage", NEW t, t = Prepared(tree, g)
  PROVE  KeepsCatalog(tree, t)
<1>1. t.live = tree.live /\ t.old = tree.old /\ t.mark = tree.mark
  BY DEF SkTree, Prepared
<1>2. TransactionIsClear(t) /\ SkActive(t) = SkActive(tree)
  BY TreePrepared
<1> QED BY <1>1, <1>2, SameActive

LEMMA SkRemovedKeeps ==
  ASSUME NEW tree \in SkTree, TransactionIsClear(tree), LiveIsOwn(tree),
         NEW gone \in SUBSET SkGenerations, gone \cap SkActive(tree) = {},
         NEW t, t = SkRemoved(tree, gone)
  PROVE  KeepsCatalog(tree, t)
<1>1. /\ TransactionIsClear(t) /\ SkActive(t) = SkActive(tree) /\ t.live = tree.live
      /\ \A g \in gone : t.place[g] = "absent"
      /\ \A g \in SkGenerations \ gone : t.old[g] = tree.old[g] /\ t.mark[g] = tree.mark[g]
  BY TreeRemoved
<1>2. \A g \in gone : t.old[g] = 0 /\ ~t.mark[g]
  BY <1>1 DEF TransactionIsClear
<1>3. \A o \in SkActive(tree) : o \in SkGenerations \ gone
  BY DEF SkActive
<1>4. \A h \in SkGenerations : t.old[h] \in {0, tree.old[h], tree.live} /\ (t.mark[h] => tree.mark[h])
  BY <1>1, <1>2
<1>5. \A o \in SkActive(tree) : t.old[o] = tree.old[o] /\ t.mark[o] = tree.mark[o]
  BY <1>1, <1>3
<1> QED BY <1>1, <1>4, <1>5, SameActive

LEMMA SkActivatedKeeps ==
  ASSUME NEW tree \in SkTree, TransactionIsClear(tree), NEW g \in SkGenerations,
         tree.place[g] = "stage", tree.new[g] # "none", SkActive(tree) = {},
         NEW t, t = [tree EXCEPT !.place[g] = "active"]
  PROVE  KeepsCatalog(tree, t)
<1>1. /\ TransactionIsClear(t) /\ SkActive(t) = {g}
      /\ t.live = tree.live /\ t.mark = tree.mark /\ t.old = tree.old
      /\ t.old[g] = 0 /\ ~t.mark[g]
  BY TreeActivated
<1>2. SkCatalog(t) = t.live
  BY <1>1, CatalogOfOne
<1>3. SkCatalog(tree) = tree.live
  BY CatalogOfNone
<1>4. LiveIsOwn(t)
  BY <1>1 DEF LiveIsOwn
<1> QED BY <1>1, <1>2, <1>3, <1>4 DEF KeepsCatalog

LEMMA SkLiveMovedKeeps ==
  ASSUME NEW tree \in SkTree, TransactionIsClear(tree), NEW g \in SkActive(tree), ~tree.mark[g],
         tree.old[g] = 0, tree.live # 0, NEW t, t = LiveMoved(tree, g)
  PROVE  KeepsCatalog(tree, t)
<1>1. /\ TransactionIsClear(t) /\ SkActive(t) = SkActive(tree) /\ t.live = 0 /\ t.mark = tree.mark
  BY TreeLiveMoved
<1>2. \A h \in SkGenerations \ {g} : t.old[h] = tree.old[h]
  BY TreeLiveMoved
<1>3. t.old[g] = tree.live
  BY TreeParts DEF LiveMoved, SkActive
<1>4. SkCatalog(tree) = tree.live
  BY CatalogOfOne
<1>5. SkCatalog(t) = tree.live
  BY <1>1, <1>3, CatalogOfOne
<1>6. LiveIsOwn(t)
  BY <1>1 DEF LiveIsOwn
<1> QED BY <1>1, <1>2, <1>3, <1>4, <1>5, <1>6 DEF KeepsCatalog

LEMMA SkFinishedKeeps ==
  ASSUME NEW tree \in SkTree, TransactionIsClear(tree), NEW o \in SkActive(tree), tree.mark[o],
         NEW t, t = Finished(tree, o)
  PROVE  KeepsCatalog(tree, t) /\ t.live = o
<1>1. /\ TransactionIsClear(t) /\ SkActive(t) = SkActive(tree) /\ t.mark = tree.mark /\ t.old = tree.old
  BY TreeFinished
<1>2. t.live = o
  BY DEF Finished, SkTree
<1>3. SkCatalog(tree) = o
  BY CatalogOfOne
<1>4. SkCatalog(t) = o
  BY <1>1, CatalogOfOne
<1>5. LiveIsOwn(t)
  BY <1>1, <1>2 DEF LiveIsOwn, TransactionIsClear
<1> QED BY <1>1, <1>2, <1>3, <1>4, <1>5 DEF KeepsCatalog

LEMMA SkRestoredKeeps ==
  ASSUME NEW tree \in SkTree, TransactionIsClear(tree), NEW o \in SkActive(tree), ~tree.mark[o],
         tree.old[o] # 0, NEW t, t = Restored(tree, o)
  PROVE  KeepsCatalog(tree, t) /\ t.old[o] = 0
<1>1. /\ TransactionIsClear(t) /\ SkActive(t) = SkActive(tree) /\ t.mark = tree.mark
  BY TreeRestored
<1>2. \A h \in SkGenerations \ {o} : t.old[h] = tree.old[h]
  BY TreeRestored
<1>3. t.live = tree.old[o] /\ t.old[o] = 0 /\ o \in SkGenerations
  BY TreeParts DEF Restored, SkActive
<1>4. SkCatalog(tree) = tree.old[o]
  BY CatalogOfOne
<1>5. SkCatalog(t) = tree.old[o]
  BY <1>1, <1>3, CatalogOfOne
<1>6. LiveIsOwn(t)
  BY <1>1 DEF LiveIsOwn, TransactionIsClear
<1> QED BY <1>1, <1>2, <1>3, <1>4, <1>5, <1>6 DEF KeepsCatalog

LEMMA SkRetiredKeeps ==
  ASSUME NEW tree \in SkTree, TransactionIsClear(tree), NEW o \in SkActive(tree),
         IF tree.mark[o] THEN tree.live = o ELSE tree.old[o] = 0,
         NEW t, t = [tree EXCEPT !.place[o] = "retired"]
  PROVE  KeepsCatalog(tree, t)
<1>1. t.live = tree.live /\ t.mark = tree.mark /\ t.old = tree.old
  BY TreeRetired
<1>2. t.place = [tree.place EXCEPT ![o] = "retired"] /\ o \in SkGenerations
  BY DEF SkTree, SkActive
<1>3. \A p \in SkActive(tree) : p = o
  BY DEF TransactionIsClear
<1>4. SkActive(t) = {}
  BY <1>2, <1>3, TreeParts DEF SkActive
<1>5. SkCatalog(t) = tree.live
  BY <1>1, <1>4, CatalogOfNone
<1>6. SkCatalog(tree) = tree.live
  BY CatalogOfOne
<1>7. LiveIsOwn(t)
  BY <1>4 DEF LiveIsOwn
<1> QED BY <1>1, <1>5, <1>6, <1>7 DEF KeepsCatalog

(* The durable catalog moves on to one a marker committed, and who is told *)
(* that it is installed is in it.                                          *)
CatalogMoves ==
  /\ LET new == SkCatalog(skDisk') IN
      new # SkCatalog(skDisk) =>
        /\ new > SkCatalog(skDisk) /\ skDisk.new[new] = "whole"
        /\ new = skNext - 1 \/ skResult[new] = "failed"
  /\ \A g \in SkGenerations : (skResult'[g] = "installed" /\ skResult[g] # "installed") =>
       SkCatalog(skDisk) >= g

LEMMA ActiveHasBegun ==
  ASSUME SkIndInv, NEW o \in SkActive(skFs)
  PROVE  o \in SkGenerations /\ o < skNext /\ o \in Int /\ skNext \in Int
<1>1. o \in SkGenerations /\ skFs.place[o] = "active" /\ GenerationIsTrue(o)
  BY DEF SkActive, SkIndInv
<1>2. skPc[o] # "idle"
  BY <1>1 DEF GenerationIsTrue, NothingEarly, SkEarly
<1> QED BY <1>1, <1>2, Begun

LEMMA OlderStands ==
  ASSUME SkKeptInv, NEW h \in SkGenerations, h >= skNext - 1, Older(skFs, h),
         KeepsCatalog(skFs, skFs')
  PROVE  Older(skFs, h)' /\ Older(skFs', h)
<1>1. h \in Int /\ h > 0 /\ skFs.live \in Int /\ \A k \in SkGenerations : skFs.old[k] \in Int
  <2>1. skFs \in SkTree
    BY DEF SkKeptInv, SkIndInv, SkTypes
  <2> QED BY <2>1, TreeParts, SkAssumption DEF SkGenerations
<1>2. \A o \in SkActive(skFs) : skFs.mark[o] => o < h
  <2>1. ASSUME NEW o \in SkActive(skFs), skFs.mark[o]
        PROVE  o < h
    <3>1. o \in Int /\ o < skNext /\ skNext \in Int
      BY ActiveHasBegun DEF SkKeptInv
    <3>2. o # h
      BY <2>1 DEF Older
    <3> QED BY <1>1, <3>1, <3>2
  <2> QED BY <2>1
<1>3. skFs'.live < h
  BY <1>1, <1>2 DEF KeepsCatalog, Older
<1>4. \A k \in SkGenerations : skFs'.old[k] < h
  BY <1>1 DEF KeepsCatalog, Older
<1>5. ~skFs'.mark[h]
  BY DEF KeepsCatalog, Older
<1> QED BY <1>3, <1>4, <1>5 DEF Older

LEMMA OlderIsKept ==
  ASSUME SkKeptInv, NEW h \in SkGenerations, skNext' \in {skNext, skNext + 1},
         SkUncommitted(h)' => SkUncommitted(h), KeepsCatalog(skFs, skFs'),
         skDisk' \in {skDisk, skFs'}
  PROVE  CatalogsAreOlder(h)'
<1>1. h \in Int /\ skNext \in Int
  BY DEF SkKeptInv, SkIndInv, SkTypes, SkGenerations
<1>3. h >= skNext' - 1 => h >= skNext - 1
  <2>1. PICK n \in {skNext, skNext + 1} : n = skNext'
    OBVIOUS
  <2>2. CASE n = skNext
    BY <2>1, <2>2
  <2>3. CASE n = skNext + 1
    BY <1>1, <2>1, <2>3
  <2> QED BY <2>1, <2>2, <2>3
<1>2. ASSUME h >= skNext' - 1, SkUncommitted(h)'
      PROVE  Older(skFs', h) /\ Older(skDisk', h)
  <2>5. h >= skNext - 1
    BY <1>2, <1>3
  <2>3. h >= skNext - 1 /\ SkUncommitted(h)
    BY <1>2, <2>5
  <2>4. CatalogsAreOlder(h)
    BY DEF SkKeptInv, CatalogIsTrue
  <2>1. h >= skNext - 1 /\ Older(skFs, h) /\ Older(skDisk, h)
    BY <2>3, <2>4 DEF CatalogsAreOlder
  <2>2. Older(skFs', h)
    BY <2>1, OlderStands
  <2> QED BY <2>1, <2>2
<1> QED BY <1>2 DEF CatalogsAreOlder, Older

LEMMA OthersKept ==
  ASSUME SkKeptInv, NEW g \in SkGenerations, NEW h \in SkGenerations \ {g}, LeavesTheOthers(g),
         CatalogsAreOlder(h)',
         skDisk' \in {skDisk, skFs'}, skNext' = skNext \/ skLock = 0, skLock' \in {skLock, 0, g},
         skResult'[h] = skResult[h],
         SkCatalog(skFs') = SkCatalog(skFs) \/ skLock = g,
         SkCatalog(skDisk) \in Int, SkCatalog(skDisk') \in Int, SkCatalog(skDisk') >= SkCatalog(skDisk)
  PROVE  CatalogIsTrue(h)'
<1>1. /\ GenerationIsTrue(h) /\ CatalogIsTrue(h) /\ h # 0 /\ h # g /\ h \in Int
      /\ skPc'[h] = skPc[h] /\ skWhy'[h] = skWhy[h]
  BY DEF SkKeptInv, SkIndInv, SkGenerations, LeavesTheOthers
<1>2. /\ skPc[h] \in SkLocked => skLock = h
      /\ skLock = h => skNext' = skNext /\ SkCatalog(skFs') = SkCatalog(skFs)
      /\ skLock = h =>
           /\ skFs'.live = skFs.live /\ SkActive(skFs') = SkActive(skFs)
           /\ \A o \in SkActive(skFs) : /\ skFs'.new[o] = skFs.new[o] /\ skFs'.old[o] = skFs.old[o]
                                        /\ skFs'.mark[o] = skFs.mark[o]
  BY <1>1 DEF GenerationIsTrue, LockIsHeld, LeavesTheOthers
<1>3. WholeIsKept(h)'
  <2>1. skPc[h] \in {"prepared", "activate"} => skFs'.new[h] = skFs.new[h]
    BY <1>1 DEF GenerationIsTrue, StageIsKept, LeavesTheOthers
  <2>2. skPc[h] \in SkCommitting => skFs'.new[h] = skFs.new[h]
    BY <1>1, <1>2 DEF GenerationIsTrue, CommitsInOrder, SkLocked
  <2> QED BY <1>1, <2>1, <2>2 DEF CatalogIsTrue, WholeIsKept
<1>4. NewestCommits(h)'
  BY <1>1, <1>2 DEF CatalogIsTrue, NewestCommits, SkLocked, SkCommitting
<1>5. RetireIsReady(h)'
  BY <1>1, <1>2 DEF CatalogIsTrue, RetireIsReady, SkLocked, SkMending
<1>6. ResultIsLast(h)'
  BY <1>1 DEF CatalogIsTrue, ResultIsLast
<1>7. CommitIsKept(h)'
  <2>1. skPc[h] \in {"finish", "restore", "placeSync", "retire", "retireSync"} => skPc[h] \in SkLocked
    BY DEF SkLocked, SkMending
  <2>2. skPc[h] \in {"committed", "dispose"} => SkCatalog(skDisk') >= h /\ skLock' # h
    BY <1>1 DEF CatalogIsTrue, CommitIsKept
  <2> QED BY <1>1, <1>2, <2>1, <2>2 DEF CatalogIsTrue, CommitIsKept
<1> QED BY <1>3, <1>4, <1>5, <1>6, <1>7 DEF CatalogIsTrue

LEMMA CatalogsAreNumbers ==
  ASSUME SkKeptInv
  PROVE  SkCatalog(skFs) \in Int /\ SkCatalog(skDisk) \in Int
BY CatalogIsNumber DEF SkKeptInv, SkIndInv, SkTypes

(* A step of g that makes no catalog another.                              *)
LEMMA KeptStands ==
  ASSUME SkKeptInv, NEW g \in SkGenerations, SkIndInv', LeavesTheOthers(g), skPc[g] # "settled",
         KeepsCatalog(skFs, skFs'), skDisk' \in {skDisk, skFs'},
         skNext' = skNext \/ skLock = 0, skLock' \in {skLock, 0, g},
         skLock' = skLock \/ skLock = 0 \/ skDisk' = skFs' \/ skResult'[g] = "failed",
         skResult' \in [SkGenerations -> {"none", "nothing", "installed", "failed"}],
         \A h \in SkGenerations \ {g} : skResult'[h] = skResult[h],
         skResult'[g] = "installed" => SkCatalog(skDisk) >= g,
         CatalogIsTrue(g)'
  PROVE  SkKeptInv' /\ CatalogMoves
<1>1. /\ MarkerLags(skDisk, SkCatalog(skFs)) /\ LiveIsOwn(skDisk) /\ SkIndInv
      /\ SkCatalog(skFs') = SkCatalog(skFs) /\ LiveIsOwn(skFs')
      /\ SkCatalog(skFs) \in Int /\ SkCatalog(skDisk) \in Int
  BY CatalogsAreNumbers DEF SkKeptInv, KeepsCatalog
<1>2. SkCatalog(skDisk') \in {SkCatalog(skDisk), SkCatalog(skFs)}
  BY <1>1
<1>3. CatalogMoves
  BY <1>1, <1>2 DEF MarkerLags, CatalogMoves
<1>4. SkCatalog(skDisk') \in Int /\ SkCatalog(skDisk') >= SkCatalog(skDisk)
  BY <1>1, <1>2 DEF MarkerLags
<1>5. ASSUME NEW h \in SkGenerations \ {g}
      PROVE  CatalogIsTrue(h)'
  <2>1. SkUncommitted(h)' => SkUncommitted(h)
    BY DEF LeavesTheOthers, SkUncommitted, SkEarly
  <2>2. CatalogsAreOlder(h)'
    BY <2>1, OlderIsKept DEF LeavesTheOthers
  <2> QED BY <1>1, <1>4, <2>2, OthersKept
<1>6. MarkerLags(skDisk, SkCatalog(skFs))'
  <2>1. ASSUME SkCatalog(skFs') # SkCatalog(skDisk')
        PROVE  LET new == SkCatalog(skFs') IN
               /\ new \in SkGenerations /\ new > SkCatalog(skDisk') /\ skDisk'.new[new] = "whole"
               /\ (new = skNext' - 1 /\ skLock' = new) \/ skResult'[new] = "failed"
    <3>1. PICK new : new = SkCatalog(skFs)
      OBVIOUS
    <3>2. skDisk' = skDisk /\ skDisk' # skFs'
      BY <2>1
    <3>3. /\ new \in SkGenerations /\ new > SkCatalog(skDisk) /\ skDisk.new[new] = "whole" /\ new # 0
          /\ (new = skNext - 1 /\ skLock = new) \/ skResult[new] = "failed"
      BY <1>1, <2>1, <3>1, <3>2 DEF MarkerLags, SkGenerations
    <3>4. CASE skResult[new] = "failed"
      <4>1. new # g
        BY <3>3, <3>4 DEF SkKeptInv, CatalogIsTrue, ResultIsLast
      <4> QED BY <1>1, <3>1, <3>2, <3>3, <3>4, <4>1
    <3>5. CASE new = skNext - 1 /\ skLock = new
      <4>1. skNext' = skNext
        BY <3>3, <3>5
      <4>2. CASE skLock' = skLock
        BY <1>1, <3>1, <3>2, <3>3, <3>5, <4>1, <4>2
      <4>3. CASE skLock' # skLock
        <5>1. skResult'[g] = "failed" /\ skLock = g
          BY <3>2, <3>3, <3>5, <4>3 DEF LeavesTheOthers
        <5> QED BY <1>1, <3>1, <3>2, <3>3, <3>5, <5>1
      <4> QED BY <4>2, <4>3
    <3> QED BY <3>3, <3>4, <3>5
  <2> QED BY <2>1 DEF MarkerLags
<1>7. LiveIsOwn(skFs') /\ LiveIsOwn(skDisk')
  BY <1>1
<1>8. MarkerLags(skDisk, SkCatalog(skFs))' /\ LiveIsOwn(skFs)' /\ LiveIsOwn(skDisk)'
  BY <1>6, <1>7 DEF MarkerLags, LiveIsOwn
<1>9. \A h \in SkGenerations : CatalogIsTrue(h)'
  BY <1>5
<1> QED BY <1>3, <1>8, <1>9 DEF SkKeptInv

(* The conjuncts of CatalogIsTrue that a step speaks of depend on where it *)
(* leads.  One that is over claims nothing.                                *)
LEMMA KeptAtRest ==
  ASSUME NEW g \in SkGenerations, skPc'[g] \in {"fail", "settled", "gone"},
         skResult'[g] # "none" => skPc'[g] = "settled"
  PROVE  CatalogIsTrue(g)'
BY DEF CatalogIsTrue, CatalogsAreOlder, SkUncommitted, SkEarly, WholeIsKept, NewestCommits, RetireIsReady,
       ResultIsLast, CommitIsKept, SkCommitting, SkMending

(* One that has nothing in the transaction is only newer than all.         *)
LEMMA KeptEarly ==
  ASSUME NEW g \in SkGenerations, CatalogsAreOlder(g)',
         skPc'[g] \in {"idle", "begun", "recover", "clean", "cleanSync", "stage", "prepare"},
         skResult'[g] = "none"
  PROVE  CatalogIsTrue(g)'
BY DEF CatalogIsTrue, WholeIsKept, NewestCommits, RetireIsReady,
       ResultIsLast, CommitIsKept, SkCommitting, SkMending

LEMMA OfTheInvariant ==
  ASSUME SkKeptInv, NEW g \in SkGenerations
  PROVE  /\ SkIndInv /\ SkTypes /\ GenerationIsTrue(g) /\ CatalogIsTrue(g)
         /\ skFs \in SkTree /\ TransactionIsClear(skFs) /\ LiveIsOwn(skFs) /\ KeepsCatalog(skFs, skFs)
         /\ skResult[g] # "none" => skPc[g] = "settled"
         /\ g \in Int /\ g # 0 /\ skNext \in Int
BY SameTree DEF SkKeptInv, SkIndInv, SkTypes, CatalogIsTrue, ResultIsLast, SkGenerations

(* A step that leaves the tree, the results and who holds the lock.        *)
LEMMA StaysKept ==
  ASSUME SkKeptInv, NEW g \in SkGenerations, SkIndInv', LeavesTheOthers(g), skPc[g] # "settled",
         skFs' = skFs, skDisk' \in {skFs, skDisk}, skNext' = skNext, skResult' = skResult,
         skLock' = skLock \/ (skLock = 0 /\ skLock' = g),
         CatalogIsTrue(g)'
  PROVE  SkKeptInv' /\ CatalogMoves
<1>1. skResult[g] = "none" /\ KeepsCatalog(skFs, skFs')
  BY OfTheInvariant
<1>2. skResult' \in [SkGenerations -> {"none", "nothing", "installed", "failed"}]
  BY DEF SkKeptInv
<1> QED BY <1>1, <1>2, KeptStands

LEMMA SkFailKeeps ==
  ASSUME SkKeptInv, NEW g \in SkGenerations, SkIndInv', LeavesTheOthers(g), skPc[g] # "settled",
         SkGo(g, "fail"), skFs' = skFs, skDisk' = skDisk, skNext' = skNext, skResult' = skResult,
         skLock' = skLock
  PROVE  SkKeptInv' /\ CatalogMoves
<1>1. skPc'[g] = "fail"
  BY StepGoes DEF SkKeptInv, SkIndInv, SkSteps
<1>2. skResult'[g] # "none" => skPc'[g] = "settled"
  BY OfTheInvariant
<1>3. CatalogIsTrue(g)'
  BY <1>1, <1>2, KeptAtRest
<1> QED BY <1>3, StaysKept

(* A step of one that is newer than every catalog, and stays it.           *)
LEMMA StaysOlder ==
  ASSUME SkKeptInv, NEW g \in SkGenerations, SkUncommitted(g), skNext' = skNext,
         KeepsCatalog(skFs, skFs'), skDisk' \in {skDisk, skFs'}
  PROVE  CatalogsAreOlder(g)'
BY OlderIsKept

LEMMA SkLocksToRecoverKeeps ==
  ASSUME SkKeptInv, NEW g \in SkGenerations, SkLocksToRecover(g)
  PROVE  SkKeptInv' /\ CatalogMoves
<1>1. SkIndInv' /\ LeavesTheOthers(g)
  BY LocksToRecoverStands DEF SkKeptInv
<1>2. /\ skPc[g] = "begun" /\ skFs' = skFs /\ skDisk' = skDisk /\ skNext' = skNext /\ skResult' = skResult
      /\ skLock = 0
  BY DEF SkLocksToRecover, skMemory
<1>3. CASE SkStopped(g)
  BY <1>1, <1>2, <1>3, SkFailKeeps DEF SkLocksToRecover
<1>4. CASE ~SkStopped(g)
  <2>1. SkGo(g, "recover") /\ skLock' = g
    BY <1>4 DEF SkLocksToRecover
  <2>2. skPc'[g] = "recover"
    BY <2>1, StepGoes DEF SkKeptInv, SkIndInv, SkSteps
  <2>3. CatalogsAreOlder(g)'
    <3>1. SkUncommitted(g) /\ KeepsCatalog(skFs, skFs')
      BY <1>2, OfTheInvariant DEF SkUncommitted, SkEarly
    <3> QED BY <1>2, <3>1, StaysOlder
  <2>4. CatalogIsTrue(g)'
    BY <1>2, <2>2, <2>3, KeptEarly, OfTheInvariant
  <2> QED BY <1>1, <1>2, <2>1, <2>4, StaysKept
<1> QED BY <1>3, <1>4

LEMMA SkRecoverKeeps ==
  ASSUME SkKeptInv, NEW g \in SkGenerations, SkRecover(g)
  PROVE  SkKeptInv' /\ CatalogMoves
<1>1. SkIndInv' /\ LeavesTheOthers(g)
  BY RecoverStands DEF SkKeptInv
<1>2. /\ skPc[g] = "recover" /\ skFs' = skFs /\ skDisk' = skDisk /\ skNext' = skNext /\ skResult' = skResult
      /\ skLock' = skLock
  BY DEF SkRecover
<1>3. CASE SkGo(g, "fail") /\ UNCHANGED skWhy
  BY <1>1, <1>2, <1>3, SkFailKeeps
<1>4. CASE ~(SkGo(g, "fail") /\ UNCHANGED skWhy)
  <2>1. PICK step : step = IF SkActive(skFs) = {} THEN "clean" ELSE SkRecoveryStep(SkTheActive)
    OBVIOUS
  <2>2. skWhy' = [skWhy EXCEPT ![g] = "recovery"] /\ SkGo(g, step)
    BY <1>4, <2>1 DEF SkRecover
  <2>3. step \in {"clean", "finish", "restore"} /\ step \in SkSteps
    BY <2>1 DEF SkRecoveryStep, SkSteps
  <2>8. skPc'[g] = step
    BY <2>2, <2>3, StepGoes, OfTheInvariant
  <2>9. skWhy'[g] = "recovery"
    BY <2>2, WhyIsSet, OfTheInvariant
  <2>4. skPc'[g] = step /\ skWhy'[g] = "recovery"
    BY <2>8, <2>9
  <2>5. CatalogsAreOlder(g)'
    <3>1. SkUncommitted(g) /\ KeepsCatalog(skFs, skFs')
      BY <1>2, OfTheInvariant DEF SkUncommitted, SkEarly
    <3> QED BY <1>2, <3>1, StaysOlder
  <2>6. skResult'[g] = "none"
    BY <1>2, OfTheInvariant
  <2>7. CatalogIsTrue(g)'
    BY <2>3, <2>4, <2>5, <2>6 DEF CatalogIsTrue, WholeIsKept, NewestCommits, RetireIsReady,
       ResultIsLast, CommitIsKept, SkCommitting
  <2> QED BY <1>1, <1>2, <2>7, StaysKept
<1> QED BY <1>3, <1>4

LEMMA SkCleanKeeps ==
  ASSUME SkKeptInv, NEW g \in SkGenerations, SkClean(g)
  PROVE  SkKeptInv' /\ CatalogMoves
<1>1. SkIndInv' /\ LeavesTheOthers(g)
  BY CleanStands DEF SkKeptInv
<1>2. CASE SkChange(g, "clean", skFs, "fail")
  BY <1>1, <1>2, SkFailKeeps DEF SkChange, skMemory
<1>3. ASSUME NEW gone \in SUBSET SkSweepable, SkChange(g, "clean", SkRemoved(skFs, gone), "cleanSync")
      PROVE  SkKeptInv' /\ CatalogMoves
  <2>1. PICK t : t = SkRemoved(skFs, gone)
    OBVIOUS
  <2>2. /\ skPc[g] = "clean" /\ skFs' = t /\ SkGo(g, "cleanSync") /\ skDisk' = skDisk /\ skLock' = skLock
        /\ skNext' = skNext /\ skResult' = skResult
    BY <1>3, <2>1 DEF SkChange, skMemory
  <2>3. gone \in SUBSET SkGenerations /\ gone \cap SkActive(skFs) = {}
    BY DEF SkSweepable, SkActive
  <2>4. KeepsCatalog(skFs, skFs')
    BY <2>1, <2>2, <2>3, SkRemovedKeeps, OfTheInvariant
  <2>5. skPc'[g] = "cleanSync"
    BY <2>2, StepGoes DEF SkKeptInv, SkIndInv, SkSteps
  <2>6. CatalogsAreOlder(g)'
    <3>1. SkUncommitted(g)
      BY <2>2 DEF SkUncommitted, SkEarly
    <3> QED BY <2>2, <2>4, <3>1, StaysOlder
  <2>7. skResult[g] = "none"
    BY <2>2, OfTheInvariant
  <2>8. CatalogIsTrue(g)'
    BY <2>2, <2>5, <2>6, <2>7, KeptEarly
  <2>9. skResult' \in [SkGenerations -> {"none", "nothing", "installed", "failed"}]
    BY <2>2 DEF SkKeptInv
  <2> QED BY <1>1, <2>2, <2>4, <2>7, <2>8, <2>9, KeptStands
<1> QED BY <1>2, <1>3 DEF SkClean

LEMMA SkRecoveredKeeps ==
  ASSUME SkKeptInv, NEW g \in SkGenerations, SkRecovered(g)
  PROVE  SkKeptInv' /\ CatalogMoves
<1>1. SkIndInv' /\ LeavesTheOthers(g)
  BY RecoveredStands DEF SkKeptInv
<1>2. /\ skPc[g] = "cleanSync" /\ skDisk' = skFs /\ skLock' = 0 /\ skFs' = skFs /\ skNext' = skNext
  BY DEF SkRecovered
<1>3. skResult[g] = "none" /\ KeepsCatalog(skFs, skFs')
  BY <1>2, OfTheInvariant
<1>4. PICK step \in {"fail", "settled", "stage"} :
        /\ SkGo(g, step)
        /\ IF step = "settled" THEN skResult' = [skResult EXCEPT ![g] = "nothing"] ELSE skResult' = skResult
  BY DEF SkRecovered
<1>5. skPc'[g] = step
  BY <1>4, StepGoes DEF SkKeptInv, SkIndInv, SkSteps
<1>6. /\ skResult' \in [SkGenerations -> {"none", "nothing", "installed", "failed"}]
      /\ skResult'[g] = IF step = "settled" THEN "nothing" ELSE "none"
      /\ \A h \in SkGenerations \ {g} : skResult'[h] = skResult[h]
  BY <1>3, <1>4 DEF SkKeptInv
<1>7. CatalogsAreOlder(g)'
  <2>1. SkUncommitted(g)
    BY <1>2 DEF SkUncommitted, SkEarly
  <2> QED BY <1>2, <1>3, <2>1, StaysOlder
<1>8. CatalogIsTrue(g)'
  <2>1. CASE step = "stage"
    BY <1>5, <1>6, <1>7, <2>1, KeptEarly
  <2>2. CASE step # "stage"
    BY <1>5, <1>6, <2>2, KeptAtRest
  <2> QED BY <2>1, <2>2
<1> QED BY <1>1, <1>2, <1>3, <1>6, <1>8, KeptStands

LEMMA SkStageKeeps ==
  ASSUME SkKeptInv, NEW g \in SkGenerations, SkStage(g)
  PROVE  SkKeptInv' /\ CatalogMoves
<1>1. SkIndInv' /\ LeavesTheOthers(g)
  BY StageStands DEF SkKeptInv
<1>2. /\ skPc[g] = "stage" /\ skNext' = skNext /\ skResult' = skResult /\ skLock' = skLock
  BY DEF SkStage
<1>3. CASE SkStopped(g)
  BY <1>1, <1>2, <1>3, SkFailKeeps DEF SkStage
<1>4. CASE ~SkStopped(g)
  <2>1. PICK t : t = Staged(skFs, g)
    OBVIOUS
  <2>2. skFs' = t /\ skDisk' = t /\ SkGo(g, "prepare")
    BY <1>4, <2>1 DEF SkStage, Staged
  <2>3. skFs.place[g] = "absent"
    BY <1>2, OfTheInvariant DEF GenerationIsTrue, NothingEarly, SkEarly
  <2>4. KeepsCatalog(skFs, skFs')
    BY <2>1, <2>2, <2>3, SkStagedKeeps, OfTheInvariant
  <2>5. skPc'[g] = "prepare"
    BY <2>2, StepGoes DEF SkKeptInv, SkIndInv, SkSteps
  <2>6. CatalogsAreOlder(g)'
    <3>1. SkUncommitted(g)
      BY <1>2 DEF SkUncommitted, SkEarly
    <3> QED BY <1>2, <2>2, <2>4, <3>1, StaysOlder
  <2>7. skResult[g] = "none"
    BY <1>2, OfTheInvariant
  <2>8. CatalogIsTrue(g)'
    BY <1>2, <2>5, <2>6, <2>7, KeptEarly
  <2>9. skResult' \in [SkGenerations -> {"none", "nothing", "installed", "failed"}]
    BY <1>2 DEF SkKeptInv
  <2> QED BY <1>1, <1>2, <2>2, <2>4, <2>7, <2>8, <2>9, KeptStands
<1> QED BY <1>3, <1>4

LEMMA SkPrepareKeeps ==
  ASSUME SkKeptInv, NEW g \in SkGenerations, SkPrepare(g)
  PROVE  SkKeptInv' /\ CatalogMoves
<1>1. SkIndInv' /\ LeavesTheOthers(g)
  BY PrepareStands DEF SkKeptInv
<1>2. skPc[g] = "prepare"
  BY DEF SkPrepare, SkChange
<1>3. CASE SkChange(g, "prepare", skFs, "fail")
  BY <1>1, <1>2, <1>3, SkFailKeeps DEF SkChange, skMemory
<1>4. CASE SkChange(g, "prepare", [skFs EXCEPT !.new[g] = "whole"], "prepared")
  <2>1. PICK t : t = Prepared(skFs, g)
    OBVIOUS
  <2>2. /\ skFs' = t /\ SkGo(g, "prepared") /\ skDisk' = skDisk /\ skLock' = skLock
        /\ skNext' = skNext /\ skResult' = skResult
    BY <1>4, <2>1 DEF SkChange, skMemory, Prepared
  <2>3. skFs.place[g] = "stage"
    BY <1>2, OfTheInvariant DEF GenerationIsTrue, StageIsKept
  <2>4. KeepsCatalog(skFs, skFs') /\ skFs'.new[g] = "whole"
    BY <2>1, <2>2, <2>3, SkPreparedKeeps, TreePrepared, OfTheInvariant
  <2>5. skPc'[g] = "prepared"
    BY <2>2, StepGoes DEF SkKeptInv, SkIndInv, SkSteps
  <2>6. CatalogsAreOlder(g)'
    <3>1. SkUncommitted(g)
      BY <1>2 DEF SkUncommitted
    <3> QED BY <2>2, <2>4, <3>1, StaysOlder
  <2>7. skResult[g] = "none"
    BY <1>2, OfTheInvariant
  <2>8. CatalogIsTrue(g)'
    BY <2>2, <2>4, <2>5, <2>6, <2>7 DEF CatalogIsTrue, WholeIsKept, NewestCommits, RetireIsReady,
       ResultIsLast, CommitIsKept, SkCommitting
  <2>9. skResult' \in [SkGenerations -> {"none", "nothing", "installed", "failed"}]
    BY <2>2 DEF SkKeptInv
  <2> QED BY <1>1, <1>2, <2>2, <2>4, <2>7, <2>8, <2>9, KeptStands
<1> QED BY <1>3, <1>4 DEF SkPrepare

LEMMA SkLocksToCommitKeeps ==
  ASSUME SkKeptInv, NEW g \in SkGenerations, SkLocksToCommit(g)
  PROVE  SkKeptInv' /\ CatalogMoves
<1>1. SkIndInv' /\ LeavesTheOthers(g)
  BY LocksToCommitStands DEF SkKeptInv
<1>2. /\ skPc[g] = "prepared" /\ skLock = 0 /\ skFs' = skFs /\ skNext' = skNext /\ skResult' = skResult
  BY DEF SkLocksToCommit
<1>3. CASE SkStopped(g)
  BY <1>1, <1>2, <1>3, SkFailKeeps DEF SkLocksToCommit
<1>4. CASE ~SkStopped(g)
  <2>1. SkGo(g, "activate") /\ skLock' = g /\ skDisk' = skFs
    BY <1>4 DEF SkLocksToCommit
  <2>2. skPc'[g] = "activate"
    BY <2>1, StepGoes DEF SkKeptInv, SkIndInv, SkSteps
  <2>3. CatalogsAreOlder(g)'
    <3>1. SkUncommitted(g) /\ KeepsCatalog(skFs, skFs')
      BY <1>2, OfTheInvariant DEF SkUncommitted
    <3> QED BY <1>2, <2>1, <3>1, StaysOlder
  <2>4. skFs.new[g] = "whole" /\ skResult[g] = "none"
    BY <1>2, OfTheInvariant DEF CatalogIsTrue, WholeIsKept
  <2>5. CatalogIsTrue(g)'
    BY <1>2, <2>1, <2>2, <2>3, <2>4 DEF CatalogIsTrue, WholeIsKept, NewestCommits, RetireIsReady,
       ResultIsLast, CommitIsKept, SkCommitting
  <2> QED BY <1>1, <1>2, <2>1, <2>5, StaysKept
<1> QED BY <1>3, <1>4

LEMMA SkActivateKeeps ==
  ASSUME SkKeptInv, NEW g \in SkGenerations, SkActivate(g)
  PROVE  SkKeptInv' /\ CatalogMoves
<1>1. SkIndInv' /\ LeavesTheOthers(g)
  BY ActivateStands DEF SkKeptInv
<1>2. /\ skPc[g] = "activate" /\ skDisk' = skDisk /\ skNext' = skNext /\ skResult' = skResult
      /\ skLock' = skLock
  BY DEF SkActivate
<1>3. CASE SkStopped(g) \/ SkActive(skFs) # {}
  BY <1>1, <1>2, <1>3, SkFailKeeps DEF SkActivate
<1>4. CASE ~(SkStopped(g) \/ SkActive(skFs) # {})
  <2>1. PICK t : t = [skFs EXCEPT !.place[g] = "active"]
    OBVIOUS
  <2>2. skFs' = t /\ SkGo(g, "activeSync")
    BY <1>4, <2>1 DEF SkActivate
  <2>3. skFs.place[g] = "stage" /\ skFs.new[g] # "none"
    BY <1>2, OfTheInvariant DEF GenerationIsTrue, StageIsKept
  <2>4. KeepsCatalog(skFs, skFs') /\ skFs'.new = skFs.new
    BY <1>4, <2>1, <2>2, <2>3, SkActivatedKeeps, TreeActivated, OfTheInvariant
  <2>5. skPc'[g] = "activeSync"
    BY <2>2, StepGoes DEF SkKeptInv, SkIndInv, SkSteps
  <2>6. CatalogsAreOlder(g)'
    <3>1. SkUncommitted(g)
      BY <1>2 DEF SkUncommitted
    <3> QED BY <1>2, <2>4, <3>1, StaysOlder
  <2>7. skResult[g] = "none" /\ skFs.new[g] = "whole" /\ skDisk.new[g] = "whole"
    BY <1>2, OfTheInvariant DEF CatalogIsTrue, WholeIsKept
  <2>10. g = skNext - 1
    <3>1. g < skNext /\ g \in Int /\ skNext \in Int
      BY <1>2, OfTheInvariant, Begun
    <3>2. ~(g < skNext - 1)
      BY <1>4 DEF SkStopped, SkSuperseded
    <3> QED BY <3>1, <3>2
  <2>8. CatalogIsTrue(g)'
    BY <1>2, <2>4, <2>5, <2>6, <2>7, <2>10 DEF CatalogIsTrue, WholeIsKept, NewestCommits, RetireIsReady,
       ResultIsLast, CommitIsKept, SkCommitting
  <2>9. skResult' \in [SkGenerations -> {"none", "nothing", "installed", "failed"}]
    BY <1>2 DEF SkKeptInv
  <2> QED BY <1>1, <1>2, <2>2, <2>4, <2>7, <2>8, <2>9, KeptStands
<1> QED BY <1>3, <1>4

LEMMA SkCommitSyncKeeps ==
  ASSUME SkKeptInv, NEW g \in SkGenerations,
         NEW at \in {"activeSync", "moveSync", "markSync"}, NEW step \in {"mark", "moveLive", "finish"},
         SkSync(g, at, step),
         at = "activeSync" => step = IF skFs.live = 0 THEN "mark" ELSE "moveLive",
         at = "moveSync" => step = "mark", at = "markSync" => step = "finish"
  PROVE  SkKeptInv' /\ CatalogMoves
<1>1. SkIndInv' /\ LeavesTheOthers(g)
  BY CommitSyncStands DEF SkKeptInv
<1>2. /\ skPc[g] = at /\ SkGo(g, step) /\ skFs' = skFs /\ skDisk' = skFs /\ skLock' = skLock
      /\ skNext' = skNext /\ skResult' = skResult /\ skWhy' = skWhy
  BY DEF SkSync, skMemory
<1>3. step \in SkSteps
  BY DEF SkSteps
<1>4. skPc'[g] = step
  BY <1>2, <1>3, StepGoes DEF SkKeptInv, SkIndInv
<1>5. /\ skResult[g] = "none" /\ skFs.new[g] = "whole" /\ g = skNext - 1
      /\ skWhy[g] = "commit" /\ KeepsCatalog(skFs, skFs')
  <2>1. skPc[g] \in SkCommitting /\ skPc[g] \in {"activeSync", "moveLive", "moveSync", "mark", "markSync"}
    BY <1>2 DEF SkCommitting
  <2>2. skFs.new[g] = "whole" /\ g = skNext - 1
    BY <2>1, OfTheInvariant DEF CatalogIsTrue, WholeIsKept, NewestCommits
  <2>3. skWhy[g] = "commit"
    BY <2>1, OfTheInvariant DEF GenerationIsTrue, LockIsHeld
  <2> QED BY <1>2, <2>2, <2>3, OfTheInvariant
<1>6. CASE at # "markSync"
  <2>1. step \in {"mark", "moveLive"}
    BY <1>6
  <2>2. CatalogsAreOlder(g)'
    <3>1. SkUncommitted(g)
      BY <1>2, <1>6 DEF SkUncommitted
    <3> QED BY <1>2, <1>5, <3>1, StaysOlder
  <2>3. CatalogIsTrue(g)'
    BY <1>2, <1>4, <1>5, <2>1, <2>2 DEF CatalogIsTrue, WholeIsKept, NewestCommits, RetireIsReady,
       ResultIsLast, CommitIsKept, SkCommitting
  <2> QED BY <1>1, <1>2, <2>3, StaysKept
<1>7. CASE at = "markSync"
  <2>1. step = "finish"
    BY <1>7
  <2>2. SkCatalog(skFs) = g
    <3>1. g \in SkActive(skFs) /\ skFs.mark[g]
      BY <1>2, <1>7, OfTheInvariant DEF GenerationIsTrue, CommitsInOrder, SkCommitting
    <3> QED BY <3>1, CatalogOfOne, OfTheInvariant
  <2>3. SkCatalog(skFs') = g
    BY <1>2, <2>2
  <2>4. CatalogIsTrue(g)'
    BY <1>2, <1>4, <1>5, <2>1, <2>3 DEF CatalogIsTrue, CatalogsAreOlder, SkUncommitted, SkEarly, WholeIsKept,
       NewestCommits, RetireIsReady, ResultIsLast, CommitIsKept, SkCommitting
  <2> QED BY <1>1, <1>2, <2>4, StaysKept
<1> QED BY <1>6, <1>7

LEMMA SkMoveLiveKeeps ==
  ASSUME SkKeptInv, NEW g \in SkGenerations, SkMoveLive(g)
  PROVE  SkKeptInv' /\ CatalogMoves
<1>1. SkIndInv' /\ LeavesTheOthers(g)
  BY MoveLiveStands DEF SkKeptInv
<1>2. PICK t : t = LiveMoved(skFs, g)
  OBVIOUS
<1>3. /\ skPc[g] = "moveLive" /\ skFs' = t /\ SkGo(g, "moveSync") /\ skDisk' = skDisk /\ skLock' = skLock
      /\ skNext' = skNext /\ skResult' = skResult
  BY <1>2 DEF SkMoveLive, LiveMoved, SkChange, skMemory
<1>4. g \in SkActive(skFs) /\ ~skFs.mark[g] /\ skFs.old[g] = 0 /\ skFs.live # 0
  BY <1>3, OfTheInvariant DEF GenerationIsTrue, CommitsInOrder, SkCommitting
<1>5. KeepsCatalog(skFs, skFs') /\ skFs'.new = skFs.new
  BY <1>2, <1>3, <1>4, SkLiveMovedKeeps, TreeLiveMoved, OfTheInvariant
<1>6. skPc'[g] = "moveSync"
  BY <1>3, StepGoes DEF SkKeptInv, SkIndInv, SkSteps
<1>7. CatalogsAreOlder(g)'
  <2>1. SkUncommitted(g)
    BY <1>3 DEF SkUncommitted
  <2> QED BY <1>3, <1>5, <2>1, StaysOlder
<1>8. skResult[g] = "none" /\ skFs.new[g] = "whole" /\ skDisk.new[g] = "whole" /\ g = skNext - 1
  BY <1>3, OfTheInvariant DEF CatalogIsTrue, WholeIsKept, NewestCommits, SkCommitting
<1>9. CatalogIsTrue(g)'
  BY <1>3, <1>5, <1>6, <1>7, <1>8 DEF CatalogIsTrue, WholeIsKept, NewestCommits, RetireIsReady,
     ResultIsLast, CommitIsKept, SkCommitting
<1>10. skResult' \in [SkGenerations -> {"none", "nothing", "installed", "failed"}]
  BY <1>3 DEF SkKeptInv
<1> QED BY <1>1, <1>3, <1>5, <1>8, <1>9, <1>10, KeptStands

LEMMA SkGivesUpKeeps ==
  ASSUME SkKeptInv, NEW g \in SkGenerations, NEW at \in {"moveLive", "moveSync", "mark", "markSync"},
         SkGivesUp(g, at)
  PROVE  SkKeptInv' /\ CatalogMoves
<1>1. SkIndInv' /\ LeavesTheOthers(g)
  BY GivesUpStands DEF SkKeptInv
<1>2. PICK step \in {"finish", "restore"} : step = IF skFs.mark[g] THEN "finish" ELSE "restore"
  OBVIOUS
<1>3. /\ skPc[g] = at /\ SkGo(g, step) /\ skFs' = skFs /\ skDisk' = skDisk /\ skNext' = skNext
      /\ skLock' = skLock /\ skWhy' = [skWhy EXCEPT ![g] = "abandoned"] /\ skResult' = skResult
  BY <1>2 DEF SkGivesUp
<1>4. step \in SkSteps
  BY DEF SkSteps
<1>8. skPc'[g] = step
  BY <1>3, <1>4, StepGoes, OfTheInvariant
<1>9. skWhy'[g] = "abandoned"
  BY <1>3, WhyIsSet, OfTheInvariant
<1>5. skPc'[g] = step /\ skWhy'[g] = "abandoned"
  BY <1>8, <1>9
<1>6. skResult[g] = "none"
  BY <1>3, OfTheInvariant
<1>7. CatalogIsTrue(g)'
  BY <1>3, <1>5, <1>6 DEF CatalogIsTrue, CatalogsAreOlder, SkUncommitted, SkEarly, WholeIsKept,
     NewestCommits, RetireIsReady, ResultIsLast, CommitIsKept, SkCommitting
<1> QED BY <1>1, <1>3, <1>7, StaysKept

(* Finishing, rolling back and retiring a transaction.                     *)
LEMMA SkMendingKeeps ==
  ASSUME SkKeptInv, NEW g \in SkGenerations, SkIndInv', LeavesTheOthers(g),
         skPc[g] \in SkMending, skPc'[g] \in {"placeSync", "retire", "retireSync"}, skWhy' = skWhy,
         KeepsCatalog(skFs, skFs'), skDisk' \in {skDisk, skFs'}, skNext' = skNext, skLock' = skLock,
         skResult' = skResult, RetireIsReady(g)'
  PROVE  SkKeptInv' /\ CatalogMoves
<1>1. skPc[g] # "settled" /\ skResult[g] = "none"
  BY OfTheInvariant DEF SkMending
<1>2. CatalogsAreOlder(g)'
  <2>1. CASE skWhy[g] = "recovery"
    <3>1. SkUncommitted(g)
      BY <2>1 DEF SkUncommitted, SkEarly
    <3> QED BY <3>1, StaysOlder
  <2>2. CASE skWhy[g] # "recovery"
    BY <2>2 DEF CatalogsAreOlder, SkUncommitted, SkEarly
  <2> QED BY <2>1, <2>2
<1>3. skWhy[g] = "commit" => SkCatalog(skFs') = g
  BY OfTheInvariant DEF CatalogIsTrue, CommitIsKept, SkMending, KeepsCatalog
<1>4. CatalogIsTrue(g)'
  BY <1>1, <1>2, <1>3 DEF CatalogIsTrue, WholeIsKept, NewestCommits, ResultIsLast, CommitIsKept, SkCommitting
<1>5. skResult' \in [SkGenerations -> {"none", "nothing", "installed", "failed"}]
  BY DEF SkKeptInv
<1> QED BY <1>1, <1>4, <1>5, KeptStands

LEMMA SkFinishKeeps ==
  ASSUME SkKeptInv, NEW g \in SkGenerations, SkFinish(g)
  PROVE  SkKeptInv' /\ CatalogMoves
<1>1. SkIndInv' /\ LeavesTheOthers(g)
  BY FinishStands DEF SkKeptInv
<1>2. skPc[g] = "finish"
  BY DEF SkFinish
<1>3. PICK o : o = SkTheActive
  OBVIOUS
<1>4. skPc[g] \in SkMending
  BY <1>2 DEF SkMending
<1>5. o \in SkActive(skFs) /\ skFs.mark[o]
  BY <1>2, <1>3, <1>4, MendingIsOfTheActive, OfTheInvariant DEF GenerationIsTrue, MendsWhatItFound
<1>6. CASE SkChange(g, "finish", skFs, "fail")
  BY <1>1, <1>2, <1>6, SkFailKeeps DEF SkChange, skMemory
<1>7. CASE skFs.live # 0 /\ SkChange(g, "finish", skFs, "retire")
  <2>1. /\ skFs' = skFs /\ SkGo(g, "retire") /\ skDisk' = skDisk /\ skLock' = skLock /\ skWhy' = skWhy
        /\ skNext' = skNext /\ skResult' = skResult
    BY <1>7 DEF SkChange, skMemory
  <2>2. skPc'[g] = "retire"
    BY <2>1, StepGoes DEF SkKeptInv, SkIndInv, SkSteps
  <2>3. KeepsCatalog(skFs, skFs') /\ LiveIsOwn(skFs)
    BY <2>1, OfTheInvariant
  <2>4. \A p \in SkActive(skFs) : skFs.mark[p] /\ skFs.live = p
    BY <1>2, <1>4, <1>7, <2>3, OfTheInvariant DEF GenerationIsTrue, MendsWhatItFound, LiveIsOwn
  <2>5. RetireIsReady(g)'
    BY <2>1, <2>4 DEF RetireIsReady
  <2> QED BY <1>1, <1>4, <2>1, <2>2, <2>3, <2>5, SkMendingKeeps
<1>8. CASE SkChange(g, "finish", [skFs EXCEPT !.live = o, !.new[o] = "none"], "placeSync")
  <2>1. PICK t : t = Finished(skFs, o)
    OBVIOUS
  <2>2. /\ skFs' = t /\ SkGo(g, "placeSync") /\ skDisk' = skDisk /\ skLock' = skLock /\ skWhy' = skWhy
        /\ skNext' = skNext /\ skResult' = skResult
    BY <1>8, <2>1 DEF SkChange, skMemory, Finished
  <2>3. skPc'[g] = "placeSync"
    BY <2>2, StepGoes DEF SkKeptInv, SkIndInv, SkSteps
  <2>4. KeepsCatalog(skFs, skFs') /\ skFs'.live = o
    BY <1>5, <2>1, <2>2, SkFinishedKeeps, OfTheInvariant
  <2>5. SkActive(skFs') = SkActive(skFs) /\ skFs'.mark = skFs.mark
    BY <1>5, <2>1, <2>2, TreeFinished, OfTheInvariant
  <2>6. \A p \in SkActive(skFs) : p = o
    BY <1>5, OfTheInvariant DEF TransactionIsClear
  <2>7. RetireIsReady(g)'
    BY <1>5, <2>4, <2>5, <2>6 DEF RetireIsReady
  <2> QED BY <1>1, <1>4, <2>2, <2>3, <2>4, <2>7, SkMendingKeeps
<1> QED BY <1>3, <1>6, <1>7, <1>8 DEF SkFinish

LEMMA SkRestoreKeeps ==
  ASSUME SkKeptInv, NEW g \in SkGenerations, SkRestore(g)
  PROVE  SkKeptInv' /\ CatalogMoves
<1>1. SkIndInv' /\ LeavesTheOthers(g)
  BY RestoreStands DEF SkKeptInv
<1>2. skPc[g] = "restore"
  BY DEF SkRestore
<1>3. PICK o : o = SkTheActive
  OBVIOUS
<1>4. skPc[g] \in SkMending
  BY <1>2 DEF SkMending
<1>5. o \in SkActive(skFs) /\ ~skFs.mark[o]
  BY <1>2, <1>3, <1>4, MendingIsOfTheActive, OfTheInvariant DEF GenerationIsTrue, MendsWhatItFound
<1>6. \A p \in SkActive(skFs) : p = o
  BY <1>5, OfTheInvariant DEF TransactionIsClear
<1>7. CASE SkChange(g, "restore", skFs, "fail")
  BY <1>1, <1>2, <1>7, SkFailKeeps DEF SkChange, skMemory
<1>8. CASE skFs.old[o] = 0 /\ SkChange(g, "restore", skFs, "retire")
  <2>1. /\ skFs' = skFs /\ SkGo(g, "retire") /\ skDisk' = skDisk /\ skLock' = skLock /\ skWhy' = skWhy
        /\ skNext' = skNext /\ skResult' = skResult
    BY <1>8 DEF SkChange, skMemory
  <2>2. skPc'[g] = "retire"
    BY <2>1, StepGoes DEF SkKeptInv, SkIndInv, SkSteps
  <2>3. KeepsCatalog(skFs, skFs')
    BY <2>1, OfTheInvariant
  <2>4. RetireIsReady(g)'
    BY <1>5, <1>6, <1>8, <2>1 DEF RetireIsReady
  <2> QED BY <1>1, <1>4, <2>1, <2>2, <2>3, <2>4, SkMendingKeeps
<1>9. CASE /\ skFs.old[o] # 0
           /\ SkChange(g, "restore", [skFs EXCEPT !.live = skFs.old[o], !.old[o] = 0], "placeSync")
  <2>1. PICK t : t = Restored(skFs, o)
    OBVIOUS
  <2>2. /\ skFs' = t /\ SkGo(g, "placeSync") /\ skDisk' = skDisk /\ skLock' = skLock /\ skWhy' = skWhy
        /\ skNext' = skNext /\ skResult' = skResult
    BY <1>9, <2>1 DEF SkChange, skMemory, Restored
  <2>3. skPc'[g] = "placeSync"
    BY <2>2, StepGoes DEF SkKeptInv, SkIndInv, SkSteps
  <2>4. KeepsCatalog(skFs, skFs') /\ skFs'.old[o] = 0
    BY <1>5, <1>9, <2>1, <2>2, SkRestoredKeeps, OfTheInvariant
  <2>5. SkActive(skFs') = SkActive(skFs) /\ skFs'.mark = skFs.mark
    BY <1>5, <2>1, <2>2, TreeRestored, OfTheInvariant
  <2>6. RetireIsReady(g)'
    BY <1>5, <1>6, <2>4, <2>5 DEF RetireIsReady
  <2> QED BY <1>1, <1>4, <2>2, <2>3, <2>4, <2>6, SkMendingKeeps
<1> QED BY <1>3, <1>7, <1>8, <1>9 DEF SkRestore

LEMMA SkPlaceSyncKeeps ==
  ASSUME SkKeptInv, NEW g \in SkGenerations, SkSync(g, "placeSync", "retire")
  PROVE  SkKeptInv' /\ CatalogMoves
<1>1. SkIndInv' /\ LeavesTheOthers(g)
  BY PlaceSyncStands DEF SkKeptInv
<1>2. /\ skPc[g] = "placeSync" /\ SkGo(g, "retire") /\ skFs' = skFs /\ skDisk' = skFs /\ skLock' = skLock
      /\ skNext' = skNext /\ skResult' = skResult /\ skWhy' = skWhy
  BY DEF SkSync, skMemory
<1>3. skPc'[g] = "retire"
  BY <1>2, StepGoes DEF SkKeptInv, SkIndInv, SkSteps
<1>4. KeepsCatalog(skFs, skFs') /\ RetireIsReady(g)
  BY <1>2, OfTheInvariant DEF CatalogIsTrue
<1>5. RetireIsReady(g)'
  BY <1>2, <1>4 DEF RetireIsReady
<1>6. skPc[g] \in SkMending
  BY <1>2 DEF SkMending
<1> QED BY <1>1, <1>2, <1>3, <1>4, <1>5, <1>6, SkMendingKeeps

LEMMA SkRetireKeeps ==
  ASSUME SkKeptInv, NEW g \in SkGenerations, SkRetire(g)
  PROVE  SkKeptInv' /\ CatalogMoves
<1>1. SkIndInv' /\ LeavesTheOthers(g)
  BY RetireStands DEF SkKeptInv
<1>2. PICK o : o = SkTheActive
  OBVIOUS
<1>3. PICK t : t = [skFs EXCEPT !.place[o] = "retired"]
  OBVIOUS
<1>4. /\ skPc[g] = "retire" /\ SkGo(g, "retireSync") /\ skFs' = t /\ skDisk' = skDisk /\ skLock' = skLock
      /\ skNext' = skNext /\ skResult' = skResult /\ skWhy' = skWhy
  BY <1>2, <1>3 DEF SkRetire, SkChange, skMemory
<1>5. skPc[g] \in SkMending
  BY <1>4 DEF SkMending
<1>6. o \in SkActive(skFs)
  BY <1>2, <1>5, MendingIsOfTheActive, OfTheInvariant
<1>7. IF skFs.mark[o] THEN skFs.live = o ELSE skFs.old[o] = 0
  BY <1>4, <1>6, OfTheInvariant DEF CatalogIsTrue, RetireIsReady
<1>8. KeepsCatalog(skFs, skFs')
  BY <1>3, <1>4, <1>6, <1>7, SkRetiredKeeps, OfTheInvariant
<1>9. skPc'[g] = "retireSync"
  BY <1>4, StepGoes DEF SkKeptInv, SkIndInv, SkSteps
<1>10. RetireIsReady(g)'
  BY <1>9 DEF RetireIsReady
<1> QED BY <1>1, <1>4, <1>5, <1>8, <1>9, <1>10, SkMendingKeeps

LEMMA SkRetiredSyncKeeps ==
  ASSUME SkKeptInv, NEW g \in SkGenerations, SkRetired(g)
  PROVE  SkKeptInv' /\ CatalogMoves
<1>1. SkIndInv' /\ LeavesTheOthers(g)
  BY RetiredStands DEF SkKeptInv
<1>2. /\ skPc[g] = "retireSync" /\ skFs' = skFs /\ skDisk' = skFs /\ skNext' = skNext
      /\ skWhy' = skWhy /\ skResult' = skResult
  BY DEF SkRetired, skMemory
<1>3. skResult[g] = "none" /\ KeepsCatalog(skFs, skFs') /\ skPc[g] # "settled"
  BY <1>2, OfTheInvariant
<1>4. skWhy[g] \in {"recovery", "commit", "abandoned"} /\ skLock = g
  BY <1>2, OfTheInvariant DEF SkTypes, GenerationIsTrue, MendsWhatItFound, LockIsHeld, SkLocked
<1>5. skResult' \in [SkGenerations -> {"none", "nothing", "installed", "failed"}]
  BY <1>2 DEF SkKeptInv
<1>6. CASE skWhy[g] = "recovery"
  <2>1. SkGo(g, "clean") /\ skLock' = skLock
    BY <1>6 DEF SkRetired
  <2>2. skPc'[g] = "clean"
    BY <2>1, StepGoes DEF SkKeptInv, SkIndInv, SkSteps
  <2>3. CatalogsAreOlder(g)'
    <3>1. SkUncommitted(g)
      BY <1>2, <1>6 DEF SkUncommitted, SkEarly
    <3> QED BY <1>2, <1>3, <3>1, StaysOlder
  <2>4. CatalogIsTrue(g)'
    BY <1>2, <1>3, <2>2, <2>3, KeptEarly
  <2> QED BY <1>1, <1>2, <1>3, <1>5, <2>1, <2>4, KeptStands
<1>7. CASE skWhy[g] = "commit"
  <2>1. SkGo(g, "committed") /\ skLock' = 0
    BY <1>7 DEF SkRetired
  <2>2. skPc'[g] = "committed"
    BY <2>1, StepGoes DEF SkKeptInv, SkIndInv, SkSteps
  <2>3. SkCatalog(skFs) = g /\ g \in Int /\ g # 0
    BY <1>2, <1>7, OfTheInvariant DEF CatalogIsTrue, CommitIsKept
  <2>4. SkCatalog(skDisk') >= g /\ skLock' # g
    BY <1>2, <2>1, <2>3
  <2>5. CatalogIsTrue(g)'
    BY <1>2, <1>3, <2>2, <2>4 DEF CatalogIsTrue, CatalogsAreOlder, SkUncommitted, SkEarly, SkMending,
       WholeIsKept, NewestCommits, RetireIsReady, ResultIsLast, CommitIsKept, SkCommitting
  <2> QED BY <1>1, <1>2, <1>3, <1>5, <2>1, <2>5, KeptStands
<1>8. CASE skWhy[g] = "abandoned"
  <2>1. SkGo(g, "fail") /\ skLock' = skLock
    BY <1>8 DEF SkRetired
  <2>2. skPc'[g] = "fail"
    BY <2>1, StepGoes DEF SkKeptInv, SkIndInv, SkSteps
  <2>3. CatalogIsTrue(g)'
    BY <1>2, <1>3, <2>2, KeptAtRest
  <2> QED BY <1>1, <1>2, <1>3, <1>5, <2>1, <2>3, KeptStands
<1> QED BY <1>4, <1>6, <1>7, <1>8

LEMMA SkCommittedKeeps ==
  ASSUME SkKeptInv, NEW g \in SkGenerations, SkCommitted(g)
  PROVE  SkKeptInv' /\ CatalogMoves
<1>1. SkIndInv' /\ LeavesTheOthers(g)
  BY CommittedStands DEF SkKeptInv
<1>2. /\ skPc[g] = "committed" /\ skFs' = skFs /\ skDisk' = skDisk /\ skNext' = skNext
      /\ skLock' = skLock /\ skResult' = skResult
  BY DEF SkCommitted, skMemory
<1>3. PICK step \in {"fail", "dispose"} : SkGo(g, step)
  BY DEF SkCommitted
<1>4. skPc'[g] = step
  BY <1>3, StepGoes DEF SkKeptInv, SkIndInv, SkSteps
<1>5. skResult[g] = "none" /\ SkCatalog(skDisk) >= g /\ skLock # g
  BY <1>2, OfTheInvariant DEF CatalogIsTrue, CommitIsKept
<1>6. SkCatalog(skDisk') >= g /\ skLock' # g
  BY <1>2, <1>5
<1>7. CatalogIsTrue(g)'
  BY <1>2, <1>4, <1>5, <1>6 DEF CatalogIsTrue, CatalogsAreOlder, SkUncommitted, SkEarly, SkMending,
     WholeIsKept, NewestCommits, RetireIsReady, ResultIsLast, CommitIsKept, SkCommitting
<1> QED BY <1>1, <1>2, <1>7, StaysKept

LEMMA SkSettleKeeps ==
  ASSUME SkKeptInv, NEW g \in SkGenerations, SkSettle(g)
  PROVE  SkKeptInv' /\ CatalogMoves
<1>1. SkIndInv' /\ LeavesTheOthers(g)
  BY SettleStands DEF SkKeptInv
<1>2. PICK result \in {"installed", "failed"} :
        result = IF skPc[g] = "dispose" THEN "installed" ELSE "failed"
  OBVIOUS
<1>3. /\ skPc[g] \in {"fail", "dispose"} /\ SkGo(g, "settled") /\ skDisk' = skDisk /\ skNext' = skNext
      /\ skLock' = SkUnlocked(g) /\ skResult' = [skResult EXCEPT ![g] = result]
  BY <1>2 DEF SkSettle
<1>4. PICK gone \in SUBSET ({g} \ SkActive(skFs)) : skFs' = SkRemoved(skFs, gone)
  BY DEF SkSettle
<1>5. KeepsCatalog(skFs, skFs')
  <2>1. gone \in SUBSET SkGenerations /\ gone \cap SkActive(skFs) = {}
    OBVIOUS
  <2> QED BY <1>4, <2>1, SkRemovedKeeps, OfTheInvariant
<1>6. skPc'[g] = "settled"
  BY <1>3, StepGoes DEF SkKeptInv, SkIndInv, SkSteps
<1>7. /\ skResult' \in [SkGenerations -> {"none", "nothing", "installed", "failed"}]
      /\ skResult'[g] = result /\ \A h \in SkGenerations \ {g} : skResult'[h] = skResult[h]
  BY <1>3 DEF SkKeptInv
<1>8. skPc[g] = "dispose" => SkCatalog(skDisk) >= g /\ skLock # g
  BY OfTheInvariant DEF CatalogIsTrue, CommitIsKept
<1>9. /\ skLock' \in {skLock, 0, g} /\ (skLock' = skLock \/ skLock' = 0)
      /\ skLock' = skLock \/ skLock = g
  BY <1>3 DEF SkUnlocked
<1>10. skResult'[g] = "installed" => SkCatalog(skDisk) >= g
  BY <1>2, <1>7, <1>8
<1>11. skLock' = skLock \/ skResult'[g] = "failed"
  BY <1>2, <1>3, <1>7, <1>8, <1>9
<1>12. CatalogIsTrue(g)'
  BY <1>6, KeptAtRest
<1> QED BY <1>1, <1>3, <1>5, <1>7, <1>9, <1>10, <1>11, <1>12, KeptStands

LEMMA SkFailsKeeps ==
  ASSUME SkKeptInv, NEW g \in SkGenerations, SkFails(g)
  PROVE  SkKeptInv' /\ CatalogMoves
<1>1. ASSUME NEW at \in {"moveLive", "moveSync", "mark", "markSync"}, SkGivesUp(g, at)
      PROVE  SkKeptInv' /\ CatalogMoves
  BY <1>1, SkGivesUpKeeps
<1>2. ASSUME NEW at \in {"recover", "clean", "cleanSync", "prepare", "activate", "activeSync",
                         "finish", "restore", "placeSync", "retire", "retireSync"},
             skPc[g] = at, SkGo(g, "fail"),
             UNCHANGED <<skFs, skDisk, skNext, skWhy, skLock, skStaging, skAborted, skEmpty,
                         skResult, skCrashes>>
      PROVE  SkKeptInv' /\ CatalogMoves
  <2>1. SkIndInv' /\ LeavesTheOthers(g)
    BY FailsStands DEF SkKeptInv
  <2> QED BY <1>2, <2>1, SkFailKeeps
<1> QED BY <1>1, <1>2 DEF SkFails

(* The one step that makes another catalog the one to be found: the marker *)
(* of the newest generation, which is newer than the durable catalog.      *)
LEMMA DurableIsOlder ==
  ASSUME SkKeptInv, NEW g \in SkGenerations, g = skNext - 1, Older(skDisk, g)
  PROVE  SkCatalog(skDisk) < g
<1>1. /\ skDisk \in SkTree /\ TransactionIsClear(skDisk) /\ g \in Int /\ skNext \in Int
  BY OfTheInvariant DEF SkIndInv, SkTypes
<1>2. CASE SkActive(skDisk) = {}
  BY <1>2, CatalogOfNone DEF Older
<1>3. CASE SkActive(skDisk) # {}
  <2>1. PICK o \in SkActive(skDisk) : TRUE
    BY <1>3
  <2>2. o \in SkGenerations /\ skDisk.place[o] = "active" /\ GenerationIsTrue(o)
    BY DEF SkActive, SkKeptInv, SkIndInv
  <2>3. skPc[o] # "idle"
    BY <2>2 DEF GenerationIsTrue, NothingEarly, SkEarly
  <2>4. o < skNext /\ o \in Int
    BY <2>2, <2>3, Begun DEF SkKeptInv
  <2>5. SkCatalog(skDisk)
          = IF skDisk.mark[o] THEN o ELSE IF skDisk.old[o] # 0 THEN skDisk.old[o] ELSE skDisk.live
    BY <1>1, CatalogOfOne
  <2>6. skDisk.mark[o] => o < g
    <3>1. skDisk.mark[o] => o # g
      BY DEF Older
    <3> QED BY <1>1, <2>4, <3>1
  <2>7. skDisk.old[o] < g /\ skDisk.live < g
    BY <2>2 DEF Older
  <2> QED BY <2>5, <2>6, <2>7
<1> QED BY <1>2, <1>3

LEMMA SkMarkCommittedKeeps ==
  ASSUME SkKeptInv, NEW g \in SkGenerations, SkMarkCommitted(g)
  PROVE  SkKeptInv' /\ CatalogMoves
<1>1. CASE SkGivesUp(g, "mark") /\ UNCHANGED skFaults
  BY <1>1, SkGivesUpKeeps
<1>2. CASE SkChange(g, "mark", [skFs EXCEPT !.mark[g] = TRUE], "markSync")
  <2>1. PICK t : t = Marked(skFs, g)
    OBVIOUS
  <2>2. /\ skPc[g] = "mark" /\ skFs' = t /\ SkGo(g, "markSync") /\ skDisk' = skDisk /\ skLock' = skLock
        /\ skNext' = skNext /\ skResult' = skResult
    BY <1>2, <2>1 DEF SkChange, skMemory, Marked
  <2>3. SkIndInv' /\ LeavesTheOthers(g)
    BY MarkCommittedStands DEF SkKeptInv
  <2>4. g \in SkActive(skFs) /\ ~skFs.mark[g] /\ skFs.live = 0 /\ skLock = g
    BY <2>2, OfTheInvariant DEF GenerationIsTrue, CommitsInOrder, LockIsHeld, SkLocked, SkCommitting
  <2>5. /\ SkActive(t) = SkActive(skFs) /\ t.mark[g] /\ t.live = 0 /\ t.old = skFs.old /\ t.new = skFs.new
        /\ TransactionIsClear(t) /\ \A h \in SkGenerations \ {g} : t.mark[h] = skFs.mark[h]
    BY <2>1, <2>4, TreeMarked, OfTheInvariant
  <2>6. SkCatalog(skFs') = g
    BY <2>2, <2>4, <2>5, CatalogOfOne
  <2>7. /\ skResult[g] = "none" /\ skFs.new[g] = "whole" /\ skDisk.new[g] = "whole" /\ g = skNext - 1
        /\ CatalogsAreOlder(g) /\ g \in Int
    BY <2>2, OfTheInvariant DEF CatalogIsTrue, WholeIsKept, NewestCommits, SkCommitting
  <2>8. SkCatalog(skDisk) < g
    <3>1. SkUncommitted(g) /\ g >= skNext - 1
      BY <2>2, <2>7, OfTheInvariant DEF SkUncommitted
    <3>2. Older(skDisk, g)
      BY <2>7, <3>1 DEF CatalogsAreOlder
    <3> QED BY <2>7, <3>2, DurableIsOlder
  <2>9. skPc'[g] = "markSync"
    BY <2>2, StepGoes DEF SkKeptInv, SkIndInv, SkSteps
  <2>10. CatalogIsTrue(g)'
    BY <2>2, <2>5, <2>7, <2>9 DEF CatalogIsTrue, CatalogsAreOlder, SkUncommitted, SkEarly, SkMending,
       WholeIsKept, NewestCommits, RetireIsReady, ResultIsLast, CommitIsKept, SkCommitting
  <2>11. ASSUME NEW h \in SkGenerations \ {g}
         PROVE  CatalogIsTrue(h)'
    <3>1. CatalogsAreOlder(h) /\ skPc'[h] = skPc[h] /\ skWhy'[h] = skWhy[h] /\ h > 0
      BY <2>3, OfTheInvariant DEF CatalogIsTrue, LeavesTheOthers, SkGenerations
    <3>2. SkUncommitted(h)' => SkUncommitted(h)
      BY <3>1 DEF SkUncommitted, SkEarly
    <3>3. CatalogsAreOlder(h)'
      <4>1. ASSUME Older(skFs, h)
            PROVE  Older(t, h)
        BY <2>5, <3>1, <4>1 DEF Older
      <4>2. ASSUME h >= skNext' - 1, SkUncommitted(h)'
            PROVE  Older(t, h) /\ Older(skDisk, h)
        BY <2>2, <3>1, <3>2, <4>1, <4>2 DEF CatalogsAreOlder
      <4> QED BY <2>2, <4>2 DEF CatalogsAreOlder, Older
    <3>4. SkCatalog(skDisk) \in Int /\ SkCatalog(skDisk') = SkCatalog(skDisk)
      BY <2>2, CatalogsAreNumbers
    <3>5. SkCatalog(skDisk') \in Int /\ SkCatalog(skDisk') >= SkCatalog(skDisk)
      BY <3>4
    <3> QED BY <2>2, <2>3, <2>4, <3>3, <3>4, <3>5, OthersKept
  <2>12. LiveIsOwn(skFs)' /\ LiveIsOwn(skDisk)'
    <3>1. LiveIsOwn(skDisk)
      BY DEF SkKeptInv
    <3> QED BY <2>2, <2>5, <3>1 DEF LiveIsOwn
  <2>13. MarkerLags(skDisk, SkCatalog(skFs))'
    BY <2>2, <2>4, <2>6, <2>7, <2>8, CatalogsAreNumbers DEF MarkerLags
  <2>14. skResult' \in [SkGenerations -> {"none", "nothing", "installed", "failed"}]
    BY <2>2 DEF SkKeptInv
  <2>15. CatalogMoves
    BY <2>2 DEF CatalogMoves
  <2>16. \A h \in SkGenerations : CatalogIsTrue(h)'
    BY <2>10, <2>11
  <2> QED BY <2>3, <2>12, <2>13, <2>14, <2>15, <2>16 DEF SkKeptInv
<1> QED BY <1>1, <1>2 DEF SkMarkCommitted

LEMMA SkBeginKeeps ==
  ASSUME SkKeptInv, SkBegin
  PROVE  SkKeptInv' /\ CatalogMoves
<1>1. PICK g \in SkGenerations : g = skNext /\ LeavesTheOthers(g)
  BY BeginStands DEF SkKeptInv
<1>2. SkIndInv'
  BY BeginStands DEF SkKeptInv
<1>3. /\ skNext' = skNext + 1 /\ SkGo(g, "begun") /\ skLock = 0 /\ skLock' = skLock
      /\ skFs' = skFs /\ skDisk' = skDisk /\ skResult' = skResult
  BY <1>1 DEF SkBegin
<1>4. skPc[g] = "idle"
  <2>1. g >= skNext
    BY <1>1, OfTheInvariant
  <2> QED BY <2>1, OfTheInvariant DEF GenerationIsTrue, YetToBegin
<1>5. skResult[g] = "none" /\ KeepsCatalog(skFs, skFs')
  BY <1>3, <1>4, OfTheInvariant
<1>6. skPc'[g] = "begun"
  BY <1>3, StepGoes DEF SkKeptInv, SkIndInv, SkSteps
<1>7. CatalogsAreOlder(g)'
  <2>1. SkUncommitted(g)
    BY <1>4 DEF SkUncommitted, SkEarly
  <2> QED BY <1>3, <1>5, <2>1, OlderIsKept
<1>8. CatalogIsTrue(g)'
  BY <1>3, <1>5, <1>6, <1>7, KeptEarly
<1>9. skResult' \in [SkGenerations -> {"none", "nothing", "installed", "failed"}]
  BY <1>3 DEF SkKeptInv
<1> QED BY <1>1, <1>2, <1>3, <1>4, <1>5, <1>8, <1>9, KeptStands

LEMMA KeptRests ==
  ASSUME SkKeptInv, SkIndInv',
         UNCHANGED <<skFs, skDisk, skNext, skPc, skWhy, skLock, skResult>>
  PROVE  SkKeptInv' /\ CatalogMoves
<1>1. CatalogMoves
  BY DEF CatalogMoves
<1>2. ASSUME NEW g \in SkGenerations
      PROVE  CatalogIsTrue(g)'
  BY OfTheInvariant DEF CatalogIsTrue, CatalogsAreOlder, SkUncommitted, SkEarly, Older, WholeIsKept,
     NewestCommits, RetireIsReady, ResultIsLast, CommitIsKept
<1>3. LiveIsOwn(skFs)' /\ LiveIsOwn(skDisk)' /\ MarkerLags(skDisk, SkCatalog(skFs))'
  BY DEF SkKeptInv, LiveIsOwn, MarkerLags
<1> QED BY <1>1, <1>2, <1>3 DEF SkKeptInv

LEMMA SkCrashKeeps ==
  ASSUME SkKeptInv, SkCrash
  PROVE  SkKeptInv' /\ CatalogMoves
<1>1. SkIndInv'
  BY CrashStands DEF SkKeptInv
<1>2. PICK tree \in {skFs, skDisk} : skFs' = tree /\ skDisk' = tree
  BY DEF SkCrash
<1>3. /\ skPc' = [g \in SkGenerations |-> IF skPc[g] \in {"idle", "settled"} THEN skPc[g] ELSE "gone"]
      /\ skNext' = skNext /\ skResult' = skResult
  BY DEF SkCrash
<1>4. ASSUME NEW g \in SkGenerations
      PROVE  CatalogIsTrue(g)'
  <2>1. skPc'[g] = IF skPc[g] \in {"idle", "settled"} THEN skPc[g] ELSE "gone"
    BY <1>3
  <2>2. CASE skPc[g] = "idle"
    <3>1. CatalogsAreOlder(g) /\ SkUncommitted(g) /\ skResult[g] = "none"
      BY <2>2, OfTheInvariant DEF CatalogIsTrue, SkUncommitted, SkEarly
    <3>2. CatalogsAreOlder(g)'
      <4>1. g >= skNext - 1 => Older(tree, g)
        BY <3>1 DEF CatalogsAreOlder
      <4> QED BY <1>2, <1>3, <4>1 DEF CatalogsAreOlder, Older
    <3> QED BY <1>3, <2>1, <2>2, <3>1, <3>2, KeptEarly
  <2>3. CASE skPc[g] # "idle"
    <3>1. skPc'[g] \in {"settled", "gone"} /\ (skResult'[g] # "none" => skPc'[g] = "settled")
      BY <1>3, <2>1, <2>3, OfTheInvariant
    <3> QED BY <3>1, KeptAtRest
  <2> QED BY <2>2, <2>3
<1>5. LiveIsOwn(tree) /\ MarkerLags(skDisk, SkCatalog(skFs))
  BY DEF SkKeptInv
<1>6. LiveIsOwn(skFs)' /\ LiveIsOwn(skDisk)' /\ MarkerLags(skDisk, SkCatalog(skFs))'
  BY <1>2, <1>5 DEF LiveIsOwn, MarkerLags
<1>7. CatalogMoves
  <2>1. SkCatalog(skDisk') \in {SkCatalog(skDisk), SkCatalog(skFs)}
    BY <1>2
  <2> QED BY <1>3, <1>5, <2>1 DEF CatalogMoves, MarkerLags
<1>8. skResult' \in [SkGenerations -> {"none", "nothing", "installed", "failed"}]
  BY <1>3 DEF SkKeptInv
<1> QED BY <1>1, <1>4, <1>6, <1>7, <1>8 DEF SkKeptInv

LEMMA KeptBegins ==
  ASSUME SkInit
  PROVE  SkKeptInv
<1>1. PICK live \in {0, 1} :
        skFs = [live |-> live, place |-> [g \in SkGenerations |-> "absent"],
                new |-> [g \in SkGenerations |-> "none"], old |-> [g \in SkGenerations |-> 0],
                mark |-> [g \in SkGenerations |-> FALSE]]
  BY DEF SkInit
<1>2. /\ skDisk = skFs /\ skFs.live = live /\ SkActive(skFs) = {}
      /\ \A h \in SkGenerations : skFs.old[h] = 0 /\ ~skFs.mark[h]
  BY <1>1 DEF SkInit, SkActive
<1>3. /\ \A g \in SkGenerations : skPc[g] = "idle" /\ skResult[g] = "none"
      /\ skResult \in [SkGenerations -> {"none", "nothing", "installed", "failed"}]
  BY DEF SkInit
<1>4. ASSUME NEW g \in SkGenerations
      PROVE  CatalogIsTrue(g)
  <2>1. live < g /\ 0 < g
    BY DEF SkGenerations
  <2>2. Older(skFs, g) /\ Older(skDisk, g)
    BY <1>2, <2>1 DEF Older
  <2> QED BY <1>3, <2>2 DEF CatalogIsTrue, CatalogsAreOlder, WholeIsKept, NewestCommits, RetireIsReady,
          ResultIsLast, CommitIsKept, SkCommitting
<1>5. LiveIsOwn(skFs) /\ LiveIsOwn(skDisk)
  BY <1>2 DEF LiveIsOwn
<1>6. MarkerLags(skDisk, SkCatalog(skFs))
  BY <1>2 DEF MarkerLags
<1> QED BY <1>3, <1>4, <1>5, <1>6, CatalogBegins DEF SkKeptInv

LEMMA KeptSteps ==
  ASSUME SkKeptInv, SkNext
  PROVE  SkKeptInv' /\ CatalogMoves
<1>1. ASSUME NEW g \in SkGenerations, SkStep(g)
      PROVE  SkKeptInv' /\ CatalogMoves
  <2>1. CASE SkLocksToRecover(g) \/ SkRecover(g) \/ SkClean(g) \/ SkRecovered(g)
    BY <2>1, SkLocksToRecoverKeeps, SkRecoverKeeps, SkCleanKeeps, SkRecoveredKeeps
  <2>2. CASE SkStage(g) \/ SkPrepare(g) \/ SkLocksToCommit(g) \/ SkActivate(g)
    BY <2>2, SkStageKeeps, SkPrepareKeeps, SkLocksToCommitKeeps, SkActivateKeeps
  <2>3. CASE SkSync(g, "activeSync", IF skFs.live = 0 THEN "mark" ELSE "moveLive")
    <3>1. PICK step \in {"mark", "moveLive"} : step = IF skFs.live = 0 THEN "mark" ELSE "moveLive"
      OBVIOUS
    <3>2. SkSync(g, "activeSync", step)
      BY <2>3, <3>1
    <3> QED BY <3>1, <3>2, SkCommitSyncKeeps
  <2>4. CASE SkSync(g, "moveSync", "mark") \/ SkSync(g, "markSync", "finish")
    BY <2>4, SkCommitSyncKeeps
  <2>5. CASE SkMoveLive(g) \/ SkMarkCommitted(g)
    BY <2>5, SkMoveLiveKeeps, SkMarkCommittedKeeps
  <2>6. CASE SkFinish(g) \/ SkRestore(g) \/ SkSync(g, "placeSync", "retire")
    BY <2>6, SkFinishKeeps, SkRestoreKeeps, SkPlaceSyncKeeps
  <2>7. CASE SkRetire(g) \/ SkRetired(g) \/ SkCommitted(g) \/ SkSettle(g)
    BY <2>7, SkRetireKeeps, SkRetiredSyncKeeps, SkCommittedKeeps, SkSettleKeeps
  <2> QED BY <1>1, <2>1, <2>2, <2>3, <2>4, <2>5, <2>6, <2>7 DEF SkStep
<1>2. ASSUME NEW g \in SkGenerations, SkAbort(g)
      PROVE  SkKeptInv' /\ CatalogMoves
  <2>1. SkIndInv'
    BY <1>2, AbortStands DEF SkKeptInv
  <2> QED BY <1>2, <2>1, KeptRests DEF SkAbort
<1>3. ASSUME NEW g \in SkGenerations, SkFails(g)
      PROVE  SkKeptInv' /\ CatalogMoves
  BY <1>3, SkFailsKeeps
<1> QED BY <1>1, <1>2, <1>3, SkBeginKeeps, SkCrashKeeps DEF SkNext

LEMMA KeptAtLeisure ==
  ASSUME SkKeptInv, UNCHANGED skVars
  PROVE  SkKeptInv'
<1>1. SkIndInv'
  BY CatalogRests DEF SkKeptInv
<1> QED BY <1>1, KeptRests DEF skVars

-----------------------------------------------------------------------------
(* What the four invariants promise.                                       *)
LEMMA CommittedIsFound ==
  ASSUME CpIndInv
  PROVE  CommittedIsRecoverable
<1>1. cpHost \in 0..CpMaxRuns /\ cpRun \in CpRuns
  BY DEF CpIndInv, CpTypes, CpTypeOK
<1>2. cpHost # 0 => cpHost \in CpRuns
  BY <1>1, CpAssumption DEF CpRuns
<1> QED BY <1>1, <1>2 DEF CpIndInv, SealedHoldsRun, HostIsKnown, Durable, CommittedIsRecoverable

LEMMA TreeIsGone ==
  ASSUME PsIndInv
  PROVE  PsTreeIsGone
BY DEF PsIndInv, PsTypes, ToldIsTrue, PsTreeIsGone

(* The skill catalog can be recovered at every moment, whatever fails and  *)
(* wherever the process ends: the tree it sees, and the one a crash would  *)
(* leave, hold one transaction at most and all that ending it needs.       *)
THEOREM SkillsAreRecoverable == SkSpec => []SkRecoverable
<1>1. SkIndInv /\ [SkNext]_skVars => SkIndInv'
  BY CatalogSteps, CatalogRests
<1>2. SkIndInv => SkRecoverable
  BY CatalogIsRecoverable
<1> QED BY CatalogBegins, <1>1, <1>2, PTL DEF SkSpec

(* No crash, failure, rollback or later generation loses a durable catalog *)
(* or puts anything in its place but a whole one of a newer generation,    *)
(* and who is told that its catalog is installed finds it, or a later one. *)
THEOREM SkillsAreKept == SkSpec => SkCatalogIsKept
<1>1. SkKeptInv /\ [SkNext]_skVars => SkKeptInv'
  BY KeptSteps, KeptAtLeisure
<1>2. SkKeptInv /\ [SkNext]_skVars => [CatalogMoves]_skVars
  BY KeptSteps
<1>3. SkSpec => [][CatalogMoves]_skVars
  BY KeptBegins, <1>1, <1>2, PTL DEF SkSpec
<1> QED BY <1>3 DEF SkCatalogIsKept, CatalogMoves

(* The checkpoint the host committed stays on disk, whole and durable,     *)
(* with the turn of its run, through later runs, cleanups and crashes.     *)
THEOREM CheckpointsAreRecoverable == CpSpec => []CommittedIsRecoverable
<1>1. CpIndInv /\ [CpNext]_cpVars => CpIndInv'
  BY CheckpointSteps, CheckpointsRest
<1>2. CpIndInv => CommittedIsRecoverable
  BY CommittedIsFound
<1> QED BY CheckpointsBegin, <1>1, <1>2, PTL DEF CpSpec

(* A restoration puts the whole checkpoint in place or the home back, and  *)
(* no old tree is gone before it has succeeded.                            *)
THEOREM HomeIsRestoredSafely == RsSpec => []RsRestoresSafely
<1>1. RsIndInv /\ [RsNext]_rsVars => RsIndInv'
  BY RestoreSteps, RestoreRests
<1>2. RsIndInv => RsRestoresSafely
  BY RestoreIsSafe
<1> QED BY RestoreBegins, <1>1, <1>2, PTL DEF RsSpec

(* Who was told that the agent's processes are gone was told the truth,    *)
(* unless a fork fell into each of the two scans that found nothing.       *)
THEOREM ProcessesAreGone == PsSpec => []PsTreeIsGone
<1>1. PsIndInv /\ [PsNext]_psVars => PsIndInv'
  BY TreeSteps, TreeRests
<1>2. PsIndInv => PsTreeIsGone
  BY TreeIsGone
<1> QED BY TreeBegins, <1>1, <1>2, PTL DEF PsSpec

StorageIndInv == SkIndInv /\ CpIndInv /\ RsIndInv /\ PsIndInv

(* A step of the whole is a step of one part, and the others rest.         *)
LEMMA StorageSteps ==
  ASSUME StorageIndInv, [StorageNext]_storageVars
  PROVE  StorageIndInv'
<1>1. CASE Skills(SkNext)
  BY <1>1, CatalogSteps, CheckpointsRest, RestoreRests, TreeRests DEF Skills, StorageIndInv
<1>2. CASE Checkpoints(CpNext)
  BY <1>2, CatalogRests, CheckpointSteps, RestoreRests, TreeRests DEF Checkpoints, StorageIndInv
<1>3. CASE Restore(RsNext)
  BY <1>3, CatalogRests, CheckpointsRest, RestoreSteps, TreeRests DEF Restore, StorageIndInv
<1>4. CASE Processes(PsNext)
  BY <1>4, CatalogRests, CheckpointsRest, RestoreRests, TreeSteps DEF Processes, StorageIndInv
<1>5. CASE UNCHANGED storageVars
  BY <1>5, CatalogRests, CheckpointsRest, RestoreRests, TreeRests DEF storageVars, StorageIndInv
<1> QED BY <1>1, <1>2, <1>3, <1>4, <1>5 DEF StorageNext

(* Whatever fails and whenever the process ends: the catalog, the          *)
(* committed checkpoint and the old home can be found again, and no        *)
(* process is left running that was to be gone.                            *)
THEOREM SessionLeavesAsPromised == StorageSpec => []LeftAsPromised
<1>1. StorageInit => StorageIndInv
  BY CatalogBegins, CheckpointsBegin, RestoreBegins, TreeBegins DEF StorageInit, StorageIndInv
<1>2. StorageIndInv /\ [StorageNext]_storageVars => StorageIndInv'
  BY StorageSteps
<1>3. StorageIndInv => LeftAsPromised
  BY CatalogIsRecoverable, CommittedIsFound, RestoreIsSafe, TreeIsGone DEF StorageIndInv, LeftAsPromised
<1> QED BY <1>1, <1>2, <1>3, PTL DEF StorageSpec

(* The catalog is kept, too, in what a session leaves.                     *)
THEOREM CatalogIsKept == StorageSpec => SkCatalogIsKept
<1>1. StorageInit => SkKeptInv
  BY KeptBegins DEF StorageInit
<1>2. SkKeptInv /\ [StorageNext]_storageVars => SkKeptInv' /\ [CatalogMoves]_skVars
  <2>1. CASE Skills(SkNext)
    BY <2>1, KeptSteps DEF Skills
  <2>2. CASE UNCHANGED skVars
    BY <2>2, KeptAtLeisure
  <2>3. Checkpoints(CpNext) \/ Restore(RsNext) \/ Processes(PsNext) => UNCHANGED skVars
    BY DEF Checkpoints, Restore, Processes
  <2>4. UNCHANGED storageVars => UNCHANGED skVars
    BY DEF storageVars
  <2> QED BY <2>1, <2>2, <2>3, <2>4 DEF StorageNext
<1>3. StorageSpec => [][CatalogMoves]_skVars
  BY <1>1, <1>2, PTL DEF StorageSpec
<1> QED BY <1>3 DEF SkCatalogIsKept, CatalogMoves
=============================================================================
