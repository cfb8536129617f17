--------------------------- MODULE MCSessionStorage ---------------------------
(* What a session leaves on a machine: the skill catalog, the checkpoints,   *)
(* the home a checkpoint is restored into, and the processes of its agents.  *)
(* The parts share no file: a behaviour is one of one part, with its own     *)
(* faults, crashes and fairness.                                             *)
EXTENDS SkillCatalog, NativeCheckpoints, CheckpointRestore, ProcessTree
VARIABLE part
storageVars == <<skVars, cpVars, rsVars, psVars, part>>

StorageInit ==
  /\ SkInit /\ CpInit /\ RsInit /\ PsInit
  /\ part \in {"skills", "checkpoints", "restore", "processes"}
  /\ part # "skills" => skFs.live = 0                       \* one idle state of a part at rest
  /\ part # "restore" => rsProvider = "claude" /\ rsHome = RsNothing
  /\ part # "processes" => psOf[1] = 1

Skills(step) == part = "skills" /\ step /\ UNCHANGED <<cpVars, rsVars, psVars, part>>
Checkpoints(step) == part = "checkpoints" /\ step /\ UNCHANGED <<skVars, rsVars, psVars, part>>
Restore(step) == part = "restore" /\ step /\ UNCHANGED <<skVars, cpVars, psVars, part>>
Processes(step) == part = "processes" /\ step /\ UNCHANGED <<skVars, cpVars, rsVars, part>>

StorageNext == Skills(SkNext) \/ Checkpoints(CpNext) \/ Restore(RsNext) \/ Processes(PsNext)

(* The fairness of the part that runs: a WF stands for one of every part.    *)
HostWork == Checkpoints(CpHostCommits) \/ Restore(RsStep) \/ Processes(PsScanning)
StorageFair ==
  /\ \A g \in SkGenerations : WF_storageVars(Skills(SkStep(g)))
  /\ \A c \in CpCreators : WF_storageVars(Checkpoints(CpStep(c)))
  /\ WF_storageVars(HostWork) /\ WF_storageVars(Checkpoints(CpAcknowledged))
  /\ WF_storageVars(Checkpoints(CpCleanup)) /\ WF_storageVars(Checkpoints(CpRestore))
StorageSpec == StorageInit /\ [][StorageNext]_storageVars /\ StorageFair

(* Whatever fails and whenever the process ends, what was durable can be     *)
(* found again (the catalog, the committed checkpoint, the old home), and no *)
(* process is left running that was to be gone.                              *)
LeftAsPromised ==
  SkRecoverable /\ CommittedIsRecoverable /\ RsRestoresSafely /\ PsTreeIsGone

(* A generation, a run that hands its checkpoint over, a restoration and the *)
(* end of a tree of processes do not stay unfinished.                        *)
Unfinished == SkAwaited \/ CpAwaited \/ PsAwaited \/ (part = "restore" /\ rsPc # "done")
WorkIsFinished == []<>~Unfinished
=============================================================================
