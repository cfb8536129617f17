--------------------------- MODULE MCProviderItems ---------------------------
(* What the providers' streams become: the transcript of an ACP agent, the   *)
(* items of the Claude and OpenAI event bridges, the usage each run is       *)
(* charged, and the queue those streams and the commands wait in.  The parts *)
(* share nothing: a behaviour is one of one part.                            *)
EXTENDS AcpTranscript, ClaudeItems, OpenAiItems, RunUsage, AsyncValueQueue
VARIABLE part
itemVars == <<trVars, ciVars, oiVars, UsVars, queueVars, part>>

ItemsInit ==
  /\ TrInit /\ CiInit /\ OiInit /\ UsInit /\ QueueInit
  /\ part \in {"transcript", "claude", "openai", "usage", "queue"}
  /\ part # "usage" => uoThread.total = 0                    \* one idle state of a part at rest

Transcript(step) == part = "transcript" /\ step /\ UNCHANGED <<ciVars, oiVars, UsVars, queueVars, part>>
Claude(step) == part = "claude" /\ step /\ UNCHANGED <<trVars, oiVars, UsVars, queueVars, part>>
OpenAi(step) == part = "openai" /\ step /\ UNCHANGED <<trVars, ciVars, UsVars, queueVars, part>>
Usage(step) == part = "usage" /\ step /\ UNCHANGED <<trVars, ciVars, oiVars, queueVars, part>>
Queue(step) == part = "queue" /\ step /\ UNCHANGED <<trVars, ciVars, oiVars, UsVars, part>>

ItemsNext ==
  \/ Transcript(TrNext) \/ Claude(CiNext) \/ OpenAi(OiNext) \/ Usage(UsNext) \/ Queue(QueueNext)
ItemsSpec == ItemsInit /\ [][ItemsNext]_itemVars

(* What a turn showed is whole when it ends: whatever a stream opened is     *)
(* closed, and the final message is the last thing the provider said and     *)
(* stands.                                                                   *)
ItemsAreClosed == TranscriptClosed /\ CiItemsClosed /\ OiItemsClosed
FinalMessageStands == FinalIsLast /\ TerminalFits /\ CiFinalStands /\ OiFinalStands
TurnIsToldWhole == ItemsAreClosed /\ FinalMessageStands
=============================================================================
