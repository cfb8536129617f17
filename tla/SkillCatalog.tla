---------------------------- MODULE SkillCatalog ----------------------------
(***************************************************************************)
(* The skills of a session are one directory, replaced as a whole.  A      *)
(* generation downloads its packages into a directory of its own           *)
(* ("stage"), and then, under the process's commit lock, renames that      *)
(* directory to "active", moves the live catalog into it as the backup,    *)
(* creates the commit marker, moves the new catalog to the live place and  *)
(* retires the directory.  The next generation, in this process or in the  *)
(* one after a crash, first finishes or rolls back an active transaction.  *)
(*                                                                         *)
(* Generations are numbered in the order in which they begin; a newer one  *)
(* aborts the older.  Generation 1 is the catalog an earlier process left  *)
(* (0: none).  `skFs' is the directory tree the process sees and `skDisk' the  *)
(* one the last sync made durable: a crash leaves either (the file system  *)
(* journals, so changes are lost from the last one back).                  *)
(***************************************************************************)
EXTENDS Integers, FiniteSets

CONSTANTS SkMaxGeneration,   \* generations 2..SkMaxGeneration are begun
          SkMaxFaults,       \* file operations or downloads that fail
          SkMaxCrashes

ASSUME SkAssumption == SkMaxGeneration \in Nat \ {0}

VARIABLES skFs, skDisk,
          skNext,            \* the generation that begins next
          skPc, skWhy,       \* per generation: its step; what finishing is part of
          skLock,            \* the generation that holds the commit lock, or 0
          skStaging,         \* activeStagingPaths
          skAborted,         \* generations whose caller has aborted
          skEmpty,           \* generations that resolve no skill
          skResult,
          skFaults, skCrashes

skVars == <<skFs, skDisk, skNext, skPc, skWhy, skLock, skStaging, skAborted, skEmpty,
            skResult, skFaults, skCrashes>>
skMemory == <<skNext, skWhy, skStaging, skAborted, skEmpty, skResult, skFaults, skCrashes>>

SkGenerations == 2..SkMaxGeneration
SkTree == [live : 0..SkMaxGeneration,
           place : [SkGenerations -> {"absent", "stage", "active", "retired"}],
           new : [SkGenerations -> {"none", "part", "whole"}],
           old : [SkGenerations -> 0..SkMaxGeneration],
           mark : [SkGenerations -> BOOLEAN]]

SkTypeOK ==
  /\ skFs \in SkTree /\ skDisk \in SkTree
  /\ skNext \in 2..(SkMaxGeneration + 1)
  /\ skLock \in 0..SkMaxGeneration
  /\ skStaging \subseteq SkGenerations

SkInit ==
  /\ \E live \in {0, 1} :
       skFs = [live |-> live, place |-> [g \in SkGenerations |-> "absent"],
             new |-> [g \in SkGenerations |-> "none"], old |-> [g \in SkGenerations |-> 0],
             mark |-> [g \in SkGenerations |-> FALSE]]
  /\ skDisk = skFs
  /\ skNext = 2
  /\ skPc = [g \in SkGenerations |-> "idle"] /\ skWhy = [g \in SkGenerations |-> "none"]
  /\ skLock = 0 /\ skStaging = {} /\ skAborted = {} /\ skEmpty = {}
  /\ skResult = [g \in SkGenerations |-> "none"]
  /\ skFaults = 0 /\ skCrashes = 0

SkActive(tree) == {g \in SkGenerations : tree.place[g] = "active"}
SkTheActive == CHOOSE g \in SkActive(skFs) : TRUE

\* The newer generation's beginning aborts the older one's operation.
SkSuperseded(g) == g < skNext - 1
IgnoresSupersession(g) == g \in skAborted
SkStopped(g) == g \in skAborted \/ SkSuperseded(g)

SkGo(g, step) == skPc' = [skPc EXCEPT ![g] = step]

\* skFs' is what the operation makes of the tree; a sync makes all of it durable.
SkChange(g, at, tree, step) ==
  /\ skPc[g] = at /\ skFs' = tree /\ SkGo(g, step)
  /\ UNCHANGED <<skDisk, skLock, skMemory>>
SkSync(g, at, step) ==
  /\ skPc[g] = at /\ skDisk' = skFs /\ SkGo(g, step)
  /\ UNCHANGED <<skFs, skLock, skMemory>>

----------------------------------------------------------------------------
\* Beginning, recovery and cleaning.

SkBegin ==
  /\ skNext \in SkGenerations /\ skLock = 0
  /\ skNext' = skNext + 1
  /\ SkGo(skNext, "begun")
  /\ \E empty \in BOOLEAN : skEmpty' = IF empty THEN skEmpty \cup {skNext} ELSE skEmpty
  /\ UNCHANGED <<skFs, skDisk, skWhy, skLock, skStaging, skAborted, skResult, skFaults, skCrashes>>

SkAbort(g) ==
  /\ skPc[g] \notin {"idle", "settled", "gone"} /\ g \notin skAborted
  /\ skAborted' = skAborted \cup {g}
  /\ UNCHANGED <<skFs, skDisk, skNext, skPc, skWhy, skLock, skStaging, skEmpty, skResult,
                 skFaults, skCrashes>>

SkLocksToRecover(g) ==
  /\ skPc[g] = "begun" /\ skLock = 0
  /\ IF SkStopped(g) THEN SkGo(g, "fail") /\ UNCHANGED skLock
                     ELSE SkGo(g, "recover") /\ skLock' = g
  /\ UNCHANGED <<skFs, skDisk, skMemory>>

IgnoresMarker(g) == "restore"
SkRecoveryStep(g) == IF skFs.mark[g] THEN "finish" ELSE "restore"

SkRecover(g) ==
  /\ skPc[g] = "recover"
  /\ \/ SkStopped(g) /\ SkGo(g, "fail") /\ UNCHANGED skWhy
     \/ /\ ~SkStopped(g)
        /\ skWhy' = [skWhy EXCEPT ![g] = "recovery"]
        /\ SkGo(g, IF SkActive(skFs) = {} THEN "clean" ELSE SkRecoveryStep(SkTheActive))
  /\ UNCHANGED <<skFs, skDisk, skNext, skLock, skStaging, skAborted, skEmpty, skResult,
                 skFaults, skCrashes>>

\* Removing a directory may be put off: the time and the entries it may take are bounded.
SkRemoved(tree, gone) ==
  [tree EXCEPT !.place = [g \in SkGenerations |-> IF g \in gone THEN "absent" ELSE @[g]],
               !.new = [g \in SkGenerations |-> IF g \in gone THEN "none" ELSE @[g]],
               !.old = [g \in SkGenerations |-> IF g \in gone THEN 0 ELSE @[g]],
               !.mark = [g \in SkGenerations |-> g \notin gone /\ @[g]]]

SweepsEveryStage == {g \in SkGenerations : skFs.place[g] \in {"stage", "retired"}}
SkSweepable == {g \in SkGenerations : skFs.place[g] \in {"stage", "retired"} /\ g \notin skStaging}

SkClean(g) ==
  \/ \E gone \in SUBSET SkSweepable : SkChange(g, "clean", SkRemoved(skFs, gone), "cleanSync")
  \/ SkStopped(g) /\ SkChange(g, "clean", skFs, "fail")

\* No skills wanted and no catalog there: nothing is done.
SkRecovered(g) ==
  /\ skPc[g] = "cleanSync"
  /\ skDisk' = skFs /\ skLock' = 0
  /\ IF g \in skEmpty /\ skFs.live = 0
     THEN IF SkStopped(g) THEN SkGo(g, "fail") /\ UNCHANGED skResult
          ELSE SkGo(g, "settled") /\ skResult' = [skResult EXCEPT ![g] = "nothing"]
     ELSE SkGo(g, "stage") /\ UNCHANGED skResult
  /\ UNCHANGED <<skFs, skNext, skWhy, skStaging, skAborted, skEmpty, skFaults, skCrashes>>

----------------------------------------------------------------------------
\* The new catalog, and its commit.

SkStage(g) ==
  /\ skPc[g] = "stage"
  /\ IF SkStopped(g) THEN SkGo(g, "fail") /\ UNCHANGED <<skFs, skDisk, skStaging>>
     ELSE /\ skStaging' = skStaging \cup {g}
          /\ skFs' = [skFs EXCEPT !.place[g] = "stage", !.new[g] = "part"]
          /\ skDisk' = skFs'
          /\ SkGo(g, "prepare")
  /\ UNCHANGED <<skNext, skWhy, skLock, skAborted, skEmpty, skResult, skFaults, skCrashes>>

\* Every package is downloaded, its checksum compared, its entries written and synced.
SkPrepare(g) ==
  \/ ~SkStopped(g) /\ SkChange(g, "prepare", [skFs EXCEPT !.new[g] = "whole"], "prepared")
  \/ SkStopped(g) /\ SkChange(g, "prepare", skFs, "fail")

SkLocksToCommit(g) ==
  /\ skPc[g] = "prepared" /\ skLock = 0
  /\ IF SkStopped(g) THEN SkGo(g, "fail") /\ UNCHANGED <<skDisk, skLock, skWhy>>
     ELSE /\ SkGo(g, "activate") /\ skLock' = g /\ skDisk' = skFs
          /\ skWhy' = [skWhy EXCEPT ![g] = "commit"]
  /\ UNCHANGED <<skFs, skNext, skStaging, skAborted, skEmpty, skResult, skFaults, skCrashes>>

\* An active directory that another generation left is not empty: the rename fails.
SkActivate(g) ==
  /\ skPc[g] = "activate"
  /\ IF SkStopped(g) \/ SkActive(skFs) # {} THEN SkGo(g, "fail") /\ UNCHANGED <<skFs, skStaging>>
     ELSE /\ skFs' = [skFs EXCEPT !.place[g] = "active"]
          /\ skStaging' = skStaging \ {g}
          /\ SkGo(g, "activeSync")
  /\ UNCHANGED <<skDisk, skNext, skWhy, skLock, skAborted, skEmpty, skResult, skFaults, skCrashes>>

SkMoveLive(g) ==
  SkChange(g, "moveLive", [skFs EXCEPT !.live = 0, !.old[g] = skFs.live], "moveSync")

SkGivesUp(g, at) ==
  /\ skPc[g] = at
  /\ skWhy' = [skWhy EXCEPT ![g] = "abandoned"]
  /\ SkGo(g, IF skFs.mark[g] THEN "finish" ELSE "restore")
  /\ UNCHANGED <<skFs, skDisk, skNext, skLock, skStaging, skAborted, skEmpty, skResult, skCrashes>>

SkMarkCommitted(g) ==
  \/ ~SkStopped(g) /\ SkChange(g, "mark", [skFs EXCEPT !.mark[g] = TRUE], "markSync")
  \/ SkStopped(g) /\ SkGivesUp(g, "mark") /\ UNCHANGED skFaults

\* finishCommittedSkillTransaction and rollbackSkillTransaction, of the active owner.
SkCannotFinish(tree) ==
  \E g \in SkActive(tree) : tree.mark[g] /\ ((tree.live = 0) <=> (tree.new[g] = "none"))
SkCannotRestore(tree) ==
  \E g \in SkActive(tree) :
     ~tree.mark[g] /\ (tree.new[g] = "none" \/ (tree.live # 0 /\ tree.old[g] # 0))

SkFinish(g) ==
  LET o == SkTheActive IN
  /\ skPc[g] = "finish"
  /\ \/ SkCannotFinish(skFs) /\ SkChange(g, "finish", skFs, "fail")
     \/ ~SkCannotFinish(skFs) /\ skFs.live # 0 /\ SkChange(g, "finish", skFs, "retire")
     \/ /\ ~SkCannotFinish(skFs) /\ skFs.live = 0
        /\ SkChange(g, "finish", [skFs EXCEPT !.live = o, !.new[o] = "none"], "placeSync")

SkRestore(g) ==
  LET o == SkTheActive IN
  /\ skPc[g] = "restore"
  /\ \/ SkCannotRestore(skFs) /\ SkChange(g, "restore", skFs, "fail")
     \/ ~SkCannotRestore(skFs) /\ skFs.old[o] = 0 /\ SkChange(g, "restore", skFs, "retire")
     \/ /\ ~SkCannotRestore(skFs) /\ skFs.old[o] # 0
        /\ SkChange(g, "restore", [skFs EXCEPT !.live = skFs.old[o], !.old[o] = 0], "placeSync")

SkRetire(g) ==
  SkChange(g, "retire", [skFs EXCEPT !.place[SkTheActive] = "retired"], "retireSync")

SkRetired(g) ==
  /\ skPc[g] = "retireSync" /\ skDisk' = skFs
  /\ SkGo(g, CASE skWhy[g] = "recovery" -> "clean"
               [] skWhy[g] = "commit" -> "committed"
               [] skWhy[g] = "abandoned" -> "fail")
  /\ skLock' = IF skWhy[g] = "commit" THEN 0 ELSE skLock
  /\ UNCHANGED <<skFs, skMemory>>

\* Once committed only a newer generation makes this one fail.
SkCommitted(g) ==
  /\ skPc[g] = "committed"
  /\ SkGo(g, IF SkSuperseded(g) THEN "fail" ELSE "dispose")
  /\ UNCHANGED <<skFs, skDisk, skLock, skMemory>>

HoldsLockIfFailed(g) == IF skLock = g /\ skPc[g] # "fail" THEN 0 ELSE skLock
SkUnlocked(g) == IF skLock = g THEN 0 ELSE skLock

\* disposeMaterializationOwner: an owner still active is left to the next recovery.
SkSettle(g) ==
  /\ skPc[g] \in {"fail", "dispose"}
  /\ SkGo(g, "settled")
  /\ skLock' = SkUnlocked(g)
  /\ skStaging' = skStaging \ {g}
  /\ skResult' = [skResult EXCEPT ![g] = IF skPc[g] = "dispose" THEN "installed" ELSE "failed"]
  /\ \E gone \in SUBSET ({g} \ SkActive(skFs)) : skFs' = SkRemoved(skFs, gone)
  /\ UNCHANGED <<skDisk, skNext, skWhy, skAborted, skEmpty, skFaults, skCrashes>>

----------------------------------------------------------------------------
\* Faults.

SkFails(g) ==
  /\ skFaults < SkMaxFaults
  /\ skFaults' = skFaults + 1
  /\ \/ \E at \in {"recover", "clean", "cleanSync", "prepare", "activate", "activeSync",
                   "finish", "restore", "placeSync", "retire", "retireSync"} :
          /\ skPc[g] = at /\ SkGo(g, "fail")
          /\ UNCHANGED <<skFs, skDisk, skNext, skWhy, skLock, skStaging, skAborted, skEmpty,
                         skResult, skCrashes>>
     \/ \E at \in {"moveLive", "moveSync", "mark", "markSync"} : SkGivesUp(g, at)

\* The process ends: its generations are gone, and a new process starts.
SkCrash ==
  /\ skCrashes < SkMaxCrashes
  /\ skCrashes' = skCrashes + 1
  /\ \E tree \in {skFs, skDisk} : skFs' = tree /\ skDisk' = tree
  /\ skPc' = [g \in SkGenerations |-> IF skPc[g] \in {"idle", "settled"} THEN skPc[g] ELSE "gone"]
  /\ skLock' = 0 /\ skStaging' = {}
  /\ UNCHANGED <<skNext, skWhy, skAborted, skEmpty, skResult, skFaults>>

SkStep(g) ==
  \/ SkLocksToRecover(g) \/ SkRecover(g) \/ SkClean(g) \/ SkRecovered(g)
  \/ SkStage(g) \/ SkPrepare(g) \/ SkLocksToCommit(g) \/ SkActivate(g)
  \/ SkSync(g, "activeSync", IF skFs.live = 0 THEN "mark" ELSE "moveLive")
  \/ SkMoveLive(g) \/ SkSync(g, "moveSync", "mark") \/ SkMarkCommitted(g)
  \/ SkSync(g, "markSync", "finish") \/ SkFinish(g) \/ SkRestore(g)
  \/ SkSync(g, "placeSync", "retire") \/ SkRetire(g) \/ SkRetired(g)
  \/ SkCommitted(g) \/ SkSettle(g)

SkNext ==
  \/ SkBegin \/ SkCrash
  \/ \E g \in SkGenerations : SkStep(g) \/ SkAbort(g) \/ SkFails(g)

SkSpec == SkInit /\ [][SkNext]_skVars /\ \A g \in SkGenerations : WF_skVars(SkStep(g))

----------------------------------------------------------------------------
\* The catalog a recovery from this tree would end with.
SkCatalog(tree) ==
  LET o == CHOOSE g \in SkActive(tree) : TRUE IN
  IF SkActive(tree) = {} THEN tree.live
  ELSE IF tree.mark[o] THEN o
  ELSE IF tree.old[o] # 0 THEN tree.old[o] ELSE tree.live

\* At every moment, of the tree the process sees and of the one a crash would leave: recovery
\* meets none of the contradictions it refuses (both catalogs, none, a lost new one), and a
\* generation still preparing has its directory: cleaning takes none that is in use.
SkRecoverable ==
  /\ \A tree \in {skFs, skDisk} : /\ Cardinality(SkActive(tree)) <= 1
                              /\ ~SkCannotFinish(tree) /\ ~SkCannotRestore(tree)
  /\ \A g \in SkGenerations :
       skPc[g] \in {"prepare", "prepared", "activate"} => skFs.place[g] = "stage" /\ skFs.new[g] # "none"

\* The durable catalog only moves on, to a whole catalog of a later generation: no crash,
\* failure or rollback loses or replaces it.  It is the newest generation's, or that of one
\* which was told it failed, its compensation too, and whose marker a crash made durable.  A
\* generation reported installed is what a reader finds, or a later one.
SkCatalogIsKept ==
  [][/\ LET new == SkCatalog(skDisk') IN
         new # SkCatalog(skDisk) =>
           /\ new > SkCatalog(skDisk) /\ skDisk.new[new] = "whole"
           /\ new = skNext - 1 \/ skResult[new] = "failed"
     /\ \A g \in SkGenerations : (skResult'[g] = "installed" /\ skResult[g] # "installed") =>
          SkCatalog(skDisk) >= g]_skVars

\* Every generation settles, unless the process ends: nothing holds the locks for ever.
SkAwaited == \E g \in SkGenerations : skPc[g] \notin {"idle", "settled", "gone"}
SkEnds == []<>~SkAwaited
=============================================================================
