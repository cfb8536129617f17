-------------------------- MODULE CheckpointRestore --------------------------
(***************************************************************************)
(* Restoring a native checkpoint into the agent's home, before the agent   *)
(* starts.  The bundle's files are staged beside the trees they replace;   *)
(* then each tree of the home is renamed away and the staged one renamed   *)
(* into its place; an error renames everything back, in reverse.  Claude   *)
(* keeps the previous trees beside the home's and removes its staging      *)
(* directory whatever happens; OpenAI keeps them in the staging directory  *)
(* and then keeps that when renaming back failed, and also moves away the  *)
(* database it rebuilds from the trees ("projection", replaced by none).   *)
(* An error of the removal that follows the swap fails the restore too,    *)
(* and nothing is renamed back then: the home keeps the checkpoint.        *)
(*                                                                         *)
(* A tree's content is "old", "new" (the checkpoint's) or "none".  A       *)
(* process that crashes leaves everything where it is, and the next one    *)
(* restores the same checkpoint.  A restore that throws is "uncleaned" when*)
(* only the removal failed, and otherwise "failed".                        *)
(***************************************************************************)
EXTENDS Integers, Sequences, SequencesExt

CONSTANTS RsMaxFaults, RsMaxCrashes

VARIABLES rsProvider, rsPc,
          rsHome,      \* per tree: what the home holds
          rsBefore,    \* what it held when this attempt began
          rsStaged,    \* what the staging directory holds of the checkpoint
          rsPrevious,  \* what was renamed away
          rsKept,      \* trees whose old content an earlier process left elsewhere
          rsMoves,     \* the renames made: <<tree, "away">> and <<tree, "in">>
          rsRollbackFailed, rsResult,
          rsFaults, rsCrashes

rsVars == <<rsProvider, rsPc, rsHome, rsBefore, rsStaged, rsPrevious, rsKept, rsMoves,
            rsRollbackFailed, rsResult, rsFaults, rsCrashes>>

RsTrees == {"projection", "first", "second"}
\* The order in which a provider's trees are swapped.
RsOrder == IF rsProvider = "claude" THEN <<"first", "second">>
           ELSE <<"projection", "first", "second">>
RsContents == {"none", "old", "new"}
RsNothing == [t \in RsTrees |-> "none"]

RsTypeOK ==
  /\ rsProvider \in {"claude", "openai"}
  /\ rsPc \in {"begin", "stage", "swap", "rollback", "clean", "done"}
  /\ rsHome \in [RsTrees -> RsContents] /\ rsBefore \in [RsTrees -> RsContents]
  /\ rsStaged \in [RsTrees -> {"none", "new"}] /\ rsPrevious \in [RsTrees -> RsContents]
  /\ rsKept \subseteq RsTrees
  /\ rsResult \in {"none", "restored", "uncleaned", "failed"}

RsInit ==
  /\ rsProvider \in {"claude", "openai"}
  /\ rsHome \in {h \in [RsTrees -> {"none", "old"}] : rsProvider = "claude" => h["projection"] = "none"}
  /\ rsPc = "begin" /\ rsBefore = rsHome /\ rsStaged = RsNothing /\ rsPrevious = RsNothing
  /\ rsKept = {} /\ rsMoves = <<>> /\ rsRollbackFailed = FALSE /\ rsResult = "none"
  /\ rsFaults = 0 /\ rsCrashes = 0

\* The bundle is read and validated; its files are written, synced, into the staging directory.
RsBegin ==
  /\ rsPc = "begin" /\ rsPc' = "stage"
  /\ rsBefore' = rsHome /\ rsMoves' = <<>> /\ rsStaged' = RsNothing /\ rsPrevious' = RsNothing
  /\ rsResult' = "none"
  /\ UNCHANGED <<rsProvider, rsHome, rsKept, rsRollbackFailed, rsFaults, rsCrashes>>
RsStage ==
  /\ rsPc = "stage" /\ rsPc' = "swap"
  /\ rsStaged' = [RsNothing EXCEPT !["first"] = "new", !["second"] = "new"]
  /\ UNCHANGED <<rsProvider, rsHome, rsBefore, rsPrevious, rsKept, rsMoves, rsRollbackFailed,
                 rsResult, rsFaults, rsCrashes>>

\* The places of the trees that have not been swapped; the first of them makes its next rename.
NeedsEveryTreeIn(t) == <<t, "in">> \in ToSet(rsMoves)
RsDone(t) == \/ <<t, "in">> \in ToSet(rsMoves)
             \/ t = "projection" /\ rsHome[t] = "none"
RsRemaining == {i \in 1..Len(RsOrder) : ~RsDone(RsOrder[i])}

RsMoveAway(t) ==
  /\ rsHome[t] # "none" /\ <<t, "away">> \notin ToSet(rsMoves)
  /\ rsPrevious' = [rsPrevious EXCEPT ![t] = rsHome[t]]
  /\ rsHome' = [rsHome EXCEPT ![t] = "none"]
  /\ rsMoves' = Append(rsMoves, <<t, "away">>)
  /\ UNCHANGED rsStaged
RsMoveIn(t) ==
  /\ rsHome[t] = "none" /\ rsStaged[t] # "none"
  /\ rsHome' = [rsHome EXCEPT ![t] = rsStaged[t]]
  /\ rsStaged' = [rsStaged EXCEPT ![t] = "none"]
  /\ rsMoves' = Append(rsMoves, <<t, "in">>)
  /\ UNCHANGED rsPrevious

RsSwap ==
  /\ rsPc = "swap"
  /\ \/ /\ RsRemaining = {} /\ rsPc' = "clean" /\ rsResult' = "restored"
        /\ UNCHANGED <<rsHome, rsStaged, rsPrevious, rsMoves>>
     \/ \E i \in RsRemaining :
          /\ \A j \in RsRemaining : i <= j
          /\ RsMoveAway(RsOrder[i]) \/ RsMoveIn(RsOrder[i])
          /\ UNCHANGED <<rsPc, rsResult>>
  /\ UNCHANGED <<rsProvider, rsBefore, rsKept, rsRollbackFailed, rsFaults, rsCrashes>>

\* An abort, a changed directory or a file error, while staging or swapping.
RsFails ==
  /\ rsPc \in {"stage", "swap"} /\ rsFaults < RsMaxFaults
  /\ rsFaults' = rsFaults + 1 /\ rsResult' = "failed"
  /\ rsPc' = IF rsMoves = <<>> THEN "clean" ELSE "rollback"
  /\ UNCHANGED <<rsProvider, rsHome, rsBefore, rsStaged, rsPrevious, rsKept, rsMoves,
                 rsRollbackFailed, rsCrashes>>

\* The renames are undone from the last to the first.
UndoesOldestFirst == 1
RsUndoneFirst == Len(rsMoves)

RsUndo ==
  LET at == RsUndoneFirst
      t == rsMoves[at][1]
  IN
  /\ rsPc = "rollback" /\ rsMoves # <<>>
  /\ IF rsMoves[at][2] = "in"
     THEN /\ rsStaged' = [rsStaged EXCEPT ![t] = rsHome[t]]
          /\ rsHome' = [rsHome EXCEPT ![t] = "none"]
          /\ UNCHANGED <<rsPrevious, rsRollbackFailed>>
     ELSE \* A tree that is still there is not renamed over.
          /\ IF rsHome[t] = "none"
             THEN /\ rsHome' = [rsHome EXCEPT ![t] = rsPrevious[t]]
                  /\ rsPrevious' = [rsPrevious EXCEPT ![t] = "none"]
                  /\ UNCHANGED rsRollbackFailed
             ELSE rsRollbackFailed' = TRUE /\ UNCHANGED <<rsHome, rsPrevious>>
          /\ UNCHANGED rsStaged
  /\ rsMoves' = RemoveAt(rsMoves, at)
  /\ UNCHANGED <<rsProvider, rsPc, rsBefore, rsKept, rsResult, rsFaults, rsCrashes>>

\* A rename back that fails is reported, and the others are still tried.
RsUndoFails ==
  /\ rsPc = "rollback" /\ rsMoves # <<>> /\ rsFaults < RsMaxFaults
  /\ rsFaults' = rsFaults + 1 /\ rsRollbackFailed' = TRUE
  /\ rsMoves' = RemoveAt(rsMoves, RsUndoneFirst)
  /\ UNCHANGED <<rsProvider, rsPc, rsHome, rsBefore, rsStaged, rsPrevious, rsKept, rsResult, rsCrashes>>

\* The rollback ends by syncing; OpenAI reports it as failed when that fails.
RsUndone ==
  /\ rsPc = "rollback" /\ rsMoves = <<>> /\ rsPc' = "clean"
  /\ \/ UNCHANGED <<rsRollbackFailed, rsFaults>>
     \/ /\ rsFaults < RsMaxFaults /\ rsFaults' = rsFaults + 1
        /\ rsRollbackFailed' = (rsRollbackFailed \/ rsProvider = "openai")
  /\ UNCHANGED <<rsProvider, rsHome, rsBefore, rsStaged, rsPrevious, rsKept, rsMoves, rsResult,
                 rsCrashes>>

\* What is removed at the end: the previous trees once all are swapped; and, but for OpenAI
\* after a rollback that failed, the staging directory, OpenAI's previous trees in it.
RemovesStagingAlways == rsResult = "restored" \/ rsProvider = "openai"
RsRemovesPrevious ==
  \/ rsResult = "restored"
  \/ rsProvider = "openai" /\ ~rsRollbackFailed

RsKeepsStaging == rsProvider = "openai" /\ rsRollbackFailed

RsClean ==
  /\ rsPc = "clean" /\ rsPc' = "done"
  /\ rsPrevious' = IF RsRemovesPrevious THEN RsNothing ELSE rsPrevious
  /\ rsStaged' = IF RsKeepsStaging THEN rsStaged ELSE RsNothing
  /\ UNCHANGED <<rsProvider, rsHome, rsBefore, rsKept, rsMoves, rsRollbackFailed, rsResult,
                 rsFaults, rsCrashes>>

\* A removal, or the sync after it, fails: part of it is done, the restore throws, and a
\* home that was swapped stays so.
RsCleanFails ==
  /\ rsPc = "clean" /\ ~RsKeepsStaging /\ rsPc' = "done"
  /\ rsFaults < RsMaxFaults /\ rsFaults' = rsFaults + 1
  /\ rsResult' = IF rsResult = "restored" THEN "uncleaned" ELSE rsResult
  /\ \E removed \in SUBSET RsTrees :
       rsPrevious' = [t \in RsTrees |-> IF RsRemovesPrevious /\ t \in removed THEN "none"
                                       ELSE rsPrevious[t]]
  /\ rsStaged' \in {rsStaged, RsNothing}
  /\ UNCHANGED <<rsProvider, rsHome, rsBefore, rsKept, rsMoves, rsRollbackFailed, rsCrashes>>

\* The process ends, or the failed start is tried again: what it renamed away stays there, but
\* for what a removal under way has taken.
RsIsSwapped == rsResult \in {"restored", "uncleaned"}
RsRestarts ==
  /\ rsCrashes < RsMaxCrashes /\ rsPc # "begin" /\ ~(rsPc = "done" /\ rsResult = "restored")
  /\ rsCrashes' = rsCrashes + 1 /\ rsPc' = "begin"
  /\ rsKept' = IF RsIsSwapped THEN rsKept ELSE rsKept \cup {t \in RsTrees : rsPrevious[t] = "old"}
  /\ rsMoves' = <<>> /\ rsStaged' = RsNothing /\ rsPrevious' = RsNothing
  /\ rsRollbackFailed' = FALSE
  /\ UNCHANGED <<rsProvider, rsHome, rsBefore, rsResult, rsFaults>>

RsStep == RsBegin \/ RsStage \/ RsSwap \/ RsUndo \/ RsUndone \/ RsClean
RsNext == RsStep \/ RsFails \/ RsUndoFails \/ RsCleanFails \/ RsRestarts

RsSpec == RsInit /\ [][RsNext]_rsVars /\ WF_rsVars(RsStep)

----------------------------------------------------------------------------
\* A restore that succeeds leaves the checkpoint's trees, all of them, and so does one that
\* throws because only the removal after the swap failed.  One that fails before leaves the
\* home as it found it, unless undoing it failed too and it reports so: never some trees of
\* each.  And no old tree is gone before every tree is swapped: it is in the home, renamed
\* away, or left aside.
RestoreIsWhole ==
  /\ rsPc = "done" /\ RsIsSwapped =>
       rsHome["first"] = "new" /\ rsHome["second"] = "new" /\ rsHome["projection"] = "none"
  /\ rsPc = "done" /\ rsResult = "failed" /\ (rsFaults = 1 \/ ~rsRollbackFailed) => rsHome = rsBefore
NothingOldIsLost ==
  \A t \in RsTrees : rsBefore[t] = "old" /\ ~RsIsSwapped =>
     rsHome[t] = "old" \/ rsPrevious[t] = "old" \/ t \in rsKept

RsRestoresSafely == RestoreIsWhole /\ NothingOldIsLost

\* Every restore comes to its end.
RsEnds == []<>(rsPc = "done")
=============================================================================
