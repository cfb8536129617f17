--------------------------- MODULE MCProviderTurns ---------------------------
(* The turns of the four providers and the terminals of an ACP agent.  No    *)
(* driver process runs two of them, so a behaviour is one of one part, with  *)
(* its own fairness; the parts share nothing but the contract they keep.     *)
EXTENDS PiBackend, AcpBackend, AcpTerminals, ClaudeBackend, OpenAiBackend
VARIABLE part
turnVars == <<piVars, acpVars, tmVars, clVars, oaVars, part>>

TurnsInit ==
  /\ PiInit /\ AcpInit /\ TmInit /\ ClInit /\ OaInit
  /\ part \in {"pi", "acp", "terminals", "claude", "openai"}
  /\ part # "claude" => clWarm = "gone"                   \* one idle state of a part at rest

(* The fairness of the part that runs: each WF or SF stands for one of every *)
(* part, for the others never step.                                          *)
Pi(step) == part = "pi" /\ step /\ UNCHANGED <<acpVars, tmVars, clVars, oaVars, part>>
Acp(step) == part = "acp" /\ step /\ UNCHANGED <<piVars, tmVars, clVars, oaVars, part>>
Tm(step) == part = "terminals" /\ step /\ UNCHANGED <<piVars, acpVars, clVars, oaVars, part>>
Cl(step) == part = "claude" /\ step /\ UNCHANGED <<piVars, acpVars, tmVars, oaVars, part>>
Oa(step) == part = "openai" /\ step /\ UNCHANGED <<piVars, acpVars, tmVars, clVars, part>>

TurnsNext == Pi(PiNext) \/ Acp(AcpNext) \/ Tm(TmNext) \/ Cl(ClNext) \/ Oa(OaNext)

Turns == Pi(PiTurnStep) \/ Acp(AcpTurnStep) \/ Cl(ClTurnStep)
Stops ==
  Pi(PiStopStep) \/ Acp(AcpStopStep) \/ Tm(TmStopStep) \/ Cl(ClStopStep) \/ Oa(OaStopStep)
Settlements == Pi(PiCancelStep) \/ Acp(AcpApplied) \/ Cl(ClCloseStep) \/ Oa(OaSettleStep)
Requests ==
  Pi(PiAskedSettles) \/ Acp(AcpAborted /\ AcpRequestStep) \/ Cl(ClControlStep) \/ Oa(OaKilled)
Deliveries == Pi(PiTaskSettles) \/ Acp(AcpAgentClosed) \/ Cl(ClWarmCleaned)
Aborts == Pi(PiAborted /\ PiPermissionAnswered) \/ Cl((~clStream.open) /\ ClProcessEnds)
TurnsFair ==
  /\ \A t \in AcpTerminalIds : WF_turnVars(Tm(TmTaskStep(t)))
  /\ WF_turnVars(Turns) /\ WF_turnVars(Stops) /\ WF_turnVars(Settlements)
  /\ WF_turnVars(Requests) /\ WF_turnVars(Deliveries) /\ WF_turnVars(Aborts)
  /\ SF_turnVars(Oa(OaTaskStep))

TurnsSpec == TurnsInit /\ [][TurnsNext]_turnVars /\ TurnsFair

(* Every provider's turn keeps the contract of BackendTurn.                  *)
BackendsKeepContract == PiRefines /\ AcpRefines /\ ClRefines /\ OaRefines

(* What a turn opened is closed and applied when it ends; the terminals and  *)
(* the session it leaves are the ones the host knows.                        *)
NothingLeftBehind == PiItemsClosed /\ AcpNothingLeft /\ TerminalsAreKept /\ ClSessionKnown

(* A cancelled turn ends and a stop is answered, whatever the provider does. *)
(* Who is cancelled or stops stays so until then: that nobody waits for ever *)
(* is that time and again nobody waits.                                      *)
TurnsEnd == []<>~(PiAwaited \/ AcpAwaited \/ TmAwaited \/ ClAwaited \/ OaAwaited)
=============================================================================
