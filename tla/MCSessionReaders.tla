--------------------------- MODULE MCSessionReaders ---------------------------
(* What is told of a session: the outcome of its runs, decided by the        *)
(* terminal state machine; the records of the CMA store (of the driver's     *)
(* events, and of clients that post commands and follow a stream); the       *)
(* replicated log of mutations; and the preview of a text under way.         *)
(* The parts share no state: a behaviour is one of one part.                 *)
EXTENDS TerminalState, CmaStore, SessionLog, PreviewStream
CONSTANTS CmMaxSaid   \* events of the driver while clients are connected
VARIABLE part
readerVars == <<terminalVars, cmVars, slVars, pvVars, part>>

ReadersInit ==
  /\ TerminalInit /\ CmInit /\ SlInit /\ PvInit
  /\ part \in {"outcome", "events", "clients", "log", "preview"}
  /\ part # "log" => slStates = <<SlStart>>                 \* one idle state of a part at rest

Machine(step) == part = "outcome" /\ step /\ UNCHANGED <<cmVars, slVars, pvVars, part>>
Cma(step) ==
  part \in {"events", "clients"} /\ step /\ UNCHANGED <<terminalVars, slVars, pvVars, part>>
Log(step) == part = "log" /\ step /\ UNCHANGED <<terminalVars, cmVars, pvVars, part>>
Preview(step) == part = "preview" /\ step /\ UNCHANGED <<terminalVars, cmVars, slVars, part>>

(* With clients the driver says little: a text that is not kept, and the end *)
(* of the session.                                                           *)
Said == {CmEvent(k, NoRequest) : k \in {"delta", "run.failed"}}
CmaStep ==
  \/ part = "events" /\ CmDriverStep
  \/ /\ part = "clients"
     /\ \/ Len(cmEvents) < CmMaxSaid /\ \E e \in Said : CmDriverEvent(e)
        \/ \E p \in CmPosts : CmPostStep(p)
        \/ \E c \in CmCommands : CmExpires(c)
        \/ \E s \in CmStreams : CmStreamStep(s)

ReadersNext == Machine(TerminalNext) \/ Cma(CmaStep) \/ Log(SlNext) \/ Preview(PvNext)

(* A client that is connected reads; what the coordinator publishes arrives  *)
(* in the end; timers fire, and a flush returns. A WF stands for one of each *)
(* part.                                                                     *)
Reads ==
  \/ Cma(\E s \in CmStreams : CmServed(s))
  \/ Log(SlSync /\ slReplica' # slReplica)
  \/ Preview(PvTimerFires)
ReadersFair ==
  WF_readerVars(Reads) /\ WF_readerVars(Preview(PvFlushed)) /\ WF_readerVars(Preview(PvFinally))
ReadersSpec == ReadersInit /\ [][ReadersNext]_readerVars /\ ReadersFair

(* What a reader has is the truth up to where it says it is: a client of the *)
(* store has every record, the session's status is the one shown, a replica  *)
(* is the authority at its revision, a preview the text at its chunk.        *)
ReadersSeeTheTruth ==
  CmReaderIsComplete /\ CmStatusIsShown /\ SlReplicaIsTrue /\ PvShownIsTrue /\ PvNothingVanishes

(* A command that is posted again, and a mutation that is proposed again,    *)
(* take effect once.                                                         *)
NothingHappensTwice == CmDispatchedOnce /\ SlTakesEffectOnce

(* What has ended, a settled command, a terminated session, a run of the log,*)
(* stays as it ended.                                                        *)
EndsStand == CmEndsStand /\ SlEndedStands

(* A client reads to the end of a session that has ended, a replica catches  *)
(* up, and no update waits in the preview buffer for ever.                   *)
Behind == CmAwaited \/ (part = "log" /\ SlAwaited) \/ PvAwaited
ReadersCatchUp == []<>~Behind
=============================================================================
