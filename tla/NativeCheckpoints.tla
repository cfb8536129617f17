-------------------------- MODULE NativeCheckpoints --------------------------
(***************************************************************************)
(* A successful run exports the native session as a bundle named after the *)
(* run: staged in a directory of its own, sealed by a manifest, renamed to *)
(* the run's name, validated again, and only then put into the run's       *)
(* terminal.  Once the host has acknowledged the terminal, the driver      *)
(* removes every other bundle; after a crash the next process restores the *)
(* bundle the host committed.                                              *)
(*                                                                         *)
(* A native history is the number of the last run whose turn it holds      *)
(* whole: it is written by the agent, before or after it reports the turn's *)
(* end, and can be read while a record is being written.                   *)
(***************************************************************************)
EXTENDS Integers

CONSTANTS CpMaxRuns, CpCreators, CpMaxFaults, CpMaxCrashes,
          CpVerifies    \* Claude and Pi compare the sealed bundle with the run again; OpenAI does not

ASSUME CpAssumption == CpMaxRuns \in Nat \ {0}

VARIABLES cpRun,         \* the run that is open
          cpPhase,       \* "running", "reported", "pruning", "restoring"
          cpHistory,     \* the last turn the native history holds
          cpTorn,        \* a record of it is half written
          cpBundle,      \* per run: "none", "whole", "partial"
          cpHolds,       \* per run: the last turn its bundle holds
          cpUnsynced,    \* bundles whose rename is not durable
          cpPc, cpOf, cpStaged,  \* per creator: its step, its run, what it copied
          cpHost,        \* the run whose checkpoint the host committed, 0: none
          cpCommitted,   \* the driver's #committedCheckpoint
          cpFaults, cpCrashes

cpVars == <<cpRun, cpPhase, cpHistory, cpTorn, cpBundle, cpHolds, cpUnsynced, cpPc, cpOf,
            cpStaged, cpHost, cpCommitted, cpFaults, cpCrashes>>
cpFiles == <<cpBundle, cpHolds, cpUnsynced>>
cpLife == <<cpRun, cpPhase, cpHost, cpCommitted, cpCrashes>>

CpRuns == 1..CpMaxRuns

CpTypeOK ==
  /\ cpRun \in CpRuns /\ cpHistory \in 0..CpMaxRuns
  /\ cpPhase \in {"running", "reported", "pruning", "restoring"}
  /\ cpBundle \in [CpRuns -> {"none", "whole", "partial"}]
  /\ cpHolds \in [CpRuns -> 0..CpMaxRuns] /\ cpUnsynced \subseteq CpRuns
  /\ cpHost \in 0..CpMaxRuns /\ cpCommitted \in 0..CpMaxRuns

CpInit ==
  /\ cpRun = 1 /\ cpPhase = "running" /\ cpHistory = 0 /\ cpTorn = FALSE
  /\ cpBundle = [r \in CpRuns |-> "none"] /\ cpHolds = [r \in CpRuns |-> 0] /\ cpUnsynced = {}
  /\ cpPc = [c \in CpCreators |-> "idle"] /\ cpOf = [c \in CpCreators |-> 1]
  /\ cpStaged = [c \in CpCreators |-> 0]
  /\ cpHost = 0 /\ cpCommitted = 0 /\ cpFaults = 0 /\ cpCrashes = 0

CpGo(c, step) == cpPc' = [cpPc EXCEPT ![c] = step]

\* The agent writes its history: a record begun, and the run's turn whole.
CpAgentWrites ==
  /\ cpPhase = "running" /\ cpHistory < cpRun /\ ~cpTorn
  /\ cpTorn' = TRUE
  /\ UNCHANGED <<cpHistory, cpFiles, cpPc, cpOf, cpStaged, cpLife, cpFaults>>
CpAgentFlushes ==
  /\ cpTorn
  /\ cpTorn' = FALSE /\ cpHistory' = cpRun
  /\ UNCHANGED <<cpFiles, cpPc, cpOf, cpStaged, cpLife, cpFaults>>

\* A bundle that is there is only validated: the first sealed copy is the checkpoint.
CpBegin(c) ==
  /\ cpPhase = "running" /\ cpPc[c] \in {"idle", "failed"}
  /\ cpOf' = [cpOf EXCEPT ![c] = cpRun]
  /\ CpGo(c, CASE cpBundle[cpRun] = "none" -> "copy"
               [] cpBundle[cpRun] = "whole" -> "verify"
               [] OTHER -> "failed")
  /\ UNCHANGED <<cpHistory, cpTorn, cpFiles, cpStaged, cpLife, cpFaults>>

\* What the copy must hold: a transcript without an incomplete record, and the run's turn.
AcceptsAnyTurn(c) == ~cpTorn
CpCopyHoldsRun(c) == ~cpTorn /\ cpHistory >= cpOf[c]

CpCopy(c) ==
  /\ cpPc[c] = "copy"
  /\ IF CpCopyHoldsRun(c)
     THEN CpGo(c, "publish") /\ cpStaged' = [cpStaged EXCEPT ![c] = cpHistory]
     ELSE CpGo(c, "failed") /\ UNCHANGED cpStaged
  /\ UNCHANGED <<cpHistory, cpTorn, cpFiles, cpOf, cpLife, cpFaults>>

\* The rename that seals it; where another creator was first, its bundle is validated.
CpPublish(c) ==
  LET r == cpOf[c] IN
  /\ cpPc[c] = "publish"
  /\ IF cpBundle[r] = "none"
     THEN /\ cpBundle' = [cpBundle EXCEPT ![r] = "whole"]
          /\ cpHolds' = [cpHolds EXCEPT ![r] = cpStaged[c]]
          /\ cpUnsynced' = cpUnsynced \cup {r}
          /\ CpGo(c, "sync")
     ELSE /\ UNCHANGED cpFiles
          /\ CpGo(c, IF cpBundle[r] = "whole" THEN "sync" ELSE "failed")
  /\ UNCHANGED <<cpHistory, cpTorn, cpOf, cpStaged, cpLife, cpFaults>>

SkipsSync(c) == cpUnsynced
CpSynced(c) == cpUnsynced \ {cpOf[c]}

CpSync(c) ==
  /\ cpPc[c] = "sync"
  /\ cpUnsynced' = CpSynced(c) /\ CpGo(c, "verify")
  /\ UNCHANGED <<cpHistory, cpTorn, cpBundle, cpHolds, cpOf, cpStaged, cpLife, cpFaults>>

\* An existing bundle's name is synced as well before it is reported.
CpVerify(c) ==
  LET r == cpOf[c] IN
  /\ cpPc[c] = "verify"
  /\ cpUnsynced' = CpSynced(c)
  /\ CpGo(c, IF cpBundle[r] = "whole" /\ (CpVerifies => cpHolds[r] >= r)
             THEN "created" ELSE "failed")
  /\ UNCHANGED <<cpHistory, cpTorn, cpBundle, cpHolds, cpOf, cpStaged, cpLife, cpFaults>>

\* An abort or a file error: the creator removes its own directory.
CpFails(c) ==
  /\ cpPc[c] \in {"copy", "publish", "sync", "verify"} /\ cpFaults < CpMaxFaults
  /\ cpFaults' = cpFaults + 1 /\ CpGo(c, "failed")
  /\ UNCHANGED <<cpHistory, cpTorn, cpFiles, cpOf, cpStaged, cpLife>>

----------------------------------------------------------------------------
\* The run's terminal, its acknowledgement, and the cleanup that follows.

CpReport ==
  /\ cpPhase = "running"
  /\ \E c \in CpCreators : cpPc[c] = "created" /\ cpOf[c] = cpRun
  /\ cpPhase' = "reported"
  /\ UNCHANGED <<cpRun, cpHistory, cpTorn, cpFiles, cpPc, cpOf, cpStaged, cpHost, cpCommitted,
                 cpFaults, cpCrashes>>
CpReportFailure ==
  /\ cpPhase = "running"
  /\ cpPhase' = "pruning"
  /\ UNCHANGED <<cpRun, cpHistory, cpTorn, cpFiles, cpPc, cpOf, cpStaged, cpHost, cpCommitted,
                 cpFaults, cpCrashes>>
CpHostCommits ==
  /\ cpPhase = "reported" /\ cpHost # cpRun
  /\ cpHost' = cpRun
  /\ UNCHANGED <<cpRun, cpPhase, cpHistory, cpTorn, cpFiles, cpPc, cpOf, cpStaged, cpCommitted,
                 cpFaults, cpCrashes>>
CpAcknowledged ==
  /\ cpPhase = "reported" /\ cpHost = cpRun
  /\ cpCommitted' = cpRun /\ cpPhase' = "pruning"
  /\ UNCHANGED <<cpRun, cpHistory, cpTorn, cpFiles, cpPc, cpOf, cpStaged, cpHost,
                 cpFaults, cpCrashes>>

PrunesAllButRun == CpRuns \ {cpRun}
CpPrunable == CpRuns \ {cpCommitted}

\* A bundle goes file by file.
CpPrune(r) ==
  /\ cpPhase = "pruning" /\ r \in CpPrunable /\ cpBundle[r] # "none"
  /\ cpBundle' = [cpBundle EXCEPT ![r] = IF @ = "whole" THEN "partial" ELSE "none"]
  /\ cpHolds' = [cpHolds EXCEPT ![r] = 0] /\ cpUnsynced' = cpUnsynced \ {r}
  /\ UNCHANGED <<cpHistory, cpTorn, cpPc, cpOf, cpStaged, cpLife, cpFaults>>

\* The run is over for good once the cleanup is complete: the next may begin.
CpNextRun ==
  /\ cpPhase = "pruning" /\ \A r \in CpPrunable : cpBundle[r] = "none"
  /\ cpRun < CpMaxRuns
  /\ cpRun' = cpRun + 1 /\ cpPhase' = "running" /\ cpTorn' = FALSE
  /\ cpPc' = [c \in CpCreators |-> IF cpPc[c] = "created" THEN "idle" ELSE cpPc[c]]
  /\ UNCHANGED <<cpHistory, cpFiles, cpOf, cpStaged, cpHost, cpCommitted, cpFaults, cpCrashes>>

----------------------------------------------------------------------------
\* A crash loses the creators and any rename not yet durable; the open run is over.

CpCrash ==
  /\ cpCrashes < CpMaxCrashes /\ cpPhase # "restoring"
  /\ cpCrashes' = cpCrashes + 1
  /\ \E lost \in SUBSET cpUnsynced :
       /\ cpBundle' = [r \in CpRuns |-> IF r \in lost THEN "none" ELSE cpBundle[r]]
       /\ cpHolds' = [r \in CpRuns |-> IF r \in lost THEN 0 ELSE cpHolds[r]]
  /\ cpUnsynced' = {}
  /\ cpPc' = [c \in CpCreators |-> "idle"]
  /\ cpPhase' = "restoring"
  /\ UNCHANGED <<cpRun, cpHistory, cpTorn, cpOf, cpStaged, cpHost, cpCommitted, cpFaults>>

\* The next process is started with the host's checkpoint; without one it begins a new session.
CpRestore ==
  /\ cpPhase = "restoring" /\ cpRun < CpMaxRuns
  /\ cpHost # 0 => cpBundle[cpHost] = "whole"
  /\ cpHistory' = IF cpHost = 0 THEN 0 ELSE cpHolds[cpHost]
  /\ cpTorn' = FALSE /\ cpCommitted' = cpHost
  /\ cpRun' = cpRun + 1 /\ cpPhase' = "running"
  /\ UNCHANGED <<cpFiles, cpPc, cpOf, cpStaged, cpHost, cpFaults, cpCrashes>>

CpStep(c) == CpCopy(c) \/ CpPublish(c) \/ CpSync(c) \/ CpVerify(c)
CpCleanup == (\E r \in CpRuns : CpPrune(r)) \/ CpNextRun

CpNext ==
  \/ CpAgentWrites \/ CpAgentFlushes
  \/ \E c \in CpCreators : CpBegin(c) \/ CpStep(c) \/ CpFails(c)
  \/ CpReport \/ CpReportFailure \/ CpHostCommits \/ CpAcknowledged
  \/ CpCleanup \/ CpCrash \/ CpRestore

CpSpec ==
  /\ CpInit /\ [][CpNext]_cpVars
  /\ \A c \in CpCreators : WF_cpVars(CpStep(c))
  /\ WF_cpVars(CpHostCommits) /\ WF_cpVars(CpAcknowledged)
  /\ WF_cpVars(CpCleanup) /\ WF_cpVars(CpRestore)

----------------------------------------------------------------------------
\* The checkpoint the host committed is on disk, durable and whole, and holds the run's own
\* turn, through every later run, failure, cleanup and crash; and so does every bundle a
\* creator has reported while its run is open.
CommittedIsRecoverable ==
  LET Recoverable(r) == cpBundle[r] = "whole" /\ cpHolds[r] >= r /\ r \notin cpUnsynced
  IN  /\ cpHost # 0 => Recoverable(cpHost)
      /\ cpPhase = "running" =>
           \A c \in CpCreators : cpPc[c] = "created" /\ cpOf[c] = cpRun => Recoverable(cpRun)

\* A reported run is handed over, by the cleanup or by the restart after a crash, unless it
\* is the last; and a restart always finds what it needs.
CpAwaited == cpPhase # "running" /\ cpRun < CpMaxRuns
CpHandsOver == []<>~CpAwaited
=============================================================================
