----------------------------- MODULE AcpTranscript -----------------------------
(***************************************************************************)
(* AcpAssistantTranscriptState and AcpToolEventState (runtimes/acp): the   *)
(* chunks an agent sends become messages, a thought and tool calls of the  *)
(* stream of events, and the terminal of the run names its final message.  *)
(* A chunk that cannot be delivered leaves the state as it was.  The bound *)
(* of the replay caches (1,024 entries) is not reached here.               *)
(***************************************************************************)
EXTENDS Naturals, FiniteSets

CONSTANTS AcpNatives,      \* ids the agent gives its messages
          AcpTools,
          AcpMaxIds,       \* a bound on the messages of a turn
          AcpRetained      \* MAX_ACP_RETAINED_TURN_ITEMS
ASSUME TranscriptAssumption == AcpMaxIds \in Nat /\ AcpRetained \in Nat

VARIABLES
  trActive,                \* the message under way: [id, native, visible], id 0 for none
  trLast,                  \* #lastCompletedAssistantMessage, the same
  trSettled,               \* #settledAssistantNativeMessageIds
  trFallback,              \* the thought that may be the answer: [native, visible]
  trThought,               \* none, open, done
  trTools,                 \* of each call: unknown, open, done
  trIds,                   \* messages so far
  trShown,                 \* what is open in the stream: messages, other items
  trState,                 \* open, broken (an update failed), completed, cancelled, failed
  trFinal,                 \* finalMessageId, or 0
  trBatch,                 \* the events of the terminal batch
  trSaid                   \* a history: whose words came last, in the stream or in a thought

trVars == <<trActive, trLast, trSettled, trFallback, trThought, trTools, trIds, trShown, trState,
            trFinal, trBatch, trSaid>>

Anonymous == "anonymous"
NoMessage == [id |-> 0, native |-> Anonymous, visible |-> FALSE]
NothingShown == [messages |-> {}, items |-> {}]
NoFallback == [native |-> Anonymous, visible |-> FALSE]

TrInit ==
  /\ trActive = NoMessage /\ trLast = NoMessage /\ trSettled = {} /\ trFallback = NoFallback
  /\ trThought = "none" /\ trTools = [t \in AcpTools |-> "unknown"]
  /\ trIds = 0 /\ trShown = NothingShown /\ trState = "open" /\ trFinal = 0 /\ trBatch = 0 /\ trSaid = Anonymous

-----------------------------------------------------------------------------
(* What the operations make of the state s, a record of the six parts.     *)

TrNow == [active |-> trActive, last |-> trLast, settled |-> trSettled, fallback |-> trFallback,
          thought |-> trThought, tools |-> trTools, ids |-> trIds, shown |-> trShown]

TrSettle(s) == IF s.active.native = Anonymous THEN s.settled ELSE s.settled \cup {s.active.native}

(* #finishMessage: an anonymous message is nobody's final one.             *)
TrFinish(s) ==
  IF s.active.id = 0 THEN s
  ELSE [s EXCEPT !.active = NoMessage, !.settled = TrSettle(s),
                 !.last = IF s.active.native = Anonymous THEN NoMessage ELSE s.active,
                 !.shown.messages = @ \ {s.active.id}]

(* #finishMessageWithOutcome and #failMessage                              *)
TrDrop(s) ==
  IF s.active.id = 0 THEN s
  ELSE [s EXCEPT !.active = NoMessage, !.settled = TrSettle(s), !.last = NoMessage,
                 !.shown.messages = @ \ {s.active.id}]

(* #startUnsettledMessage                                                  *)
TrOpen(s, native) ==
  IF s.active.id # 0 /\ s.active.native = native THEN s
  ELSE LET id == s.ids + 1
       IN [TrFinish(s) EXCEPT !.active = [id |-> id, native |-> native, visible |-> FALSE],
                              !.ids = id, !.fallback = NoFallback, !.shown.messages = @ \cup {id}]

TrSay(s, visible) == [s EXCEPT !.active.visible = @ \/ visible]

TrMessageChunk(s, native, visible) ==
  IF native \in s.settled THEN s ELSE TrSay(TrOpen(s, native), visible)

KeepsLast(s) == TrFinish(s)                    \* bug: a thought of nobody's leaves the last message final
TrAnonymousThought(s) == [TrFinish(s) EXCEPT !.last = NoMessage, !.fallback = NoFallback]

TrIdentifiedThought(s, native, visible) ==
  IF native \in s.settled THEN s
  ELSE LET r == IF s.active.id # 0 /\ s.active.native # native THEN TrFinish(s) ELSE s
       IN IF r.active.id # 0 THEN r
          ELSE [r EXCEPT !.fallback = [native |-> native,
                                       visible |-> visible \/ (r.fallback.native = native /\ r.fallback.visible)]]

TrThoughtChunk(s, native, visible) ==
  [IF native = Anonymous THEN TrAnonymousThought(s) ELSE TrIdentifiedThought(s, native, visible) EXCEPT
     !.thought = IF @ = "none" THEN "open" ELSE @,
     !.shown.items = IF s.thought = "none" THEN @ \cup {"thought"} ELSE @]

(* #ensureToolParentMessage, then ensureStarted                            *)
TrToolOpens(s, t) ==
  IF s.tools[t] # "unknown" THEN s
  ELSE LET r == IF s.active.id = 0 THEN TrOpen(s, Anonymous) ELSE s
       IN [r EXCEPT !.tools[t] = "open", !.shown.items = @ \cup {t}]

TrTool(s, t, running) ==
  LET r == TrToolOpens(s, t)
  IN IF running \/ r.tools[t] = "done" THEN r
     ELSE [r EXCEPT !.tools[t] = "done", !.shown.items = @ \ {t}]

OpenTools(s) == {t \in AcpTools : s.tools[t] = "open"}

CountsNoMessage(s) == (IF s.fallback = NoFallback THEN 0 ELSE 1) + Cardinality(OpenTools(s))    \* bug
TrItems(s) ==
  (IF s.active.id = 0 THEN 0 ELSE 1) + (IF s.fallback = NoFallback THEN 0 ELSE 1)
    + Cardinality(OpenTools(s))

-----------------------------------------------------------------------------
TrBecomes(s) ==
  /\ trActive' = s.active /\ trLast' = s.last /\ trSettled' = s.settled /\ trFallback' = s.fallback
  /\ trThought' = s.thought /\ trTools' = s.tools /\ trIds' = s.ids

TrRestored == UNCHANGED <<trActive, trLast, trSettled, trFallback, trThought, trTools, trIds>>

(* #withTranscriptTransaction.  Events that were not delivered may be still*)
(* on their way.                                                           *)
TrTransaction(s) ==
  /\ trState = "open"
  /\ \/ TrItems(s) <= AcpRetained /\ TrBecomes(s) /\ trShown' = s.shown /\ UNCHANGED trState
     \/ TrRestored /\ trState' = "broken" /\ trShown' \in {trShown, s.shown}
  /\ UNCHANGED <<trFinal, trBatch>>

TrHeard(native, visible) == trSaid' = IF visible /\ native \notin trSettled THEN native ELSE trSaid

TrChunk ==
  /\ trIds < AcpMaxIds
  /\ \E native \in AcpNatives \cup {Anonymous}, visible \in BOOLEAN :
       TrTransaction(TrMessageChunk(TrNow, native, visible)) /\ TrHeard(native, visible)
TrThoughts ==
  \E native \in AcpNatives \cup {Anonymous}, visible \in BOOLEAN :
    TrTransaction(TrThoughtChunk(TrNow, native, visible)) /\ TrHeard(native, visible)
TrToolUpdate ==
  /\ trIds < AcpMaxIds
  /\ \E t \in AcpTools, running \in BOOLEAN : TrTransaction(TrTool(TrNow, t, running))
  /\ UNCHANGED trSaid
TrPermission ==
  /\ trIds < AcpMaxIds
  /\ \E t \in AcpTools : TrTransaction(TrToolOpens(TrNow, t))
  /\ UNCHANGED trSaid

-----------------------------------------------------------------------------
(* The terminal.  #promoteThought: the thought becomes the final message.  *)
TrPromotes(s) == s.active.id = 0 /\ s.fallback.visible
TrPromote(s) ==
  IF TrPromotes(s) THEN TrSay(TrMessageChunk([s EXCEPT !.fallback = NoFallback], s.fallback.native, TRUE), TRUE)
  ELSE s

TrClosesAll(s) ==
  [s EXCEPT !.thought = IF @ = "open" THEN "done" ELSE @,
            !.tools = [t \in AcpTools |-> IF @[t] = "open" THEN "done" ELSE @[t]],
            !.shown.items = @ \ ({"thought"} \cup OpenTools(s))]

(* Two events for an item that was open, one for the thought, the usage,   *)
(* the terminal, one more to start a promoted message.                     *)
TrClosures(s) ==
  2 * Cardinality(OpenTools(s)) + (IF s.active.id # 0 THEN 2 ELSE IF TrPromotes(s) THEN 3 ELSE 0)
    + (IF s.thought = "open" THEN 1 ELSE 0) + 2

TrEnds(s, how, final) ==
  /\ TrBecomes(s) /\ trShown' = s.shown
  /\ trState' = how /\ trFinal' = final /\ trBatch' = TrClosures(TrNow)
  /\ UNCHANGED trSaid

TrEmpty(s) == ~s.last.visible /\ \A t \in AcpTools : s.tools[t] = "unknown"

TrCompletes ==
  /\ trState = "open"
  /\ LET s == TrClosesAll(TrFinish(TrPromote(TrNow)))
     IN IF TrEmpty(s) THEN TrEnds(s, "failed", 0)                     \* acp.empty_turn
        ELSE TrEnds(s, "completed", IF s.last.visible THEN s.last.id ELSE 0)

ForgetsThought(s) == [TrClosesAll(s) EXCEPT !.shown.items = s.shown.items \ OpenTools(s)]    \* bug
TrAbandons(s) == TrClosesAll(s)
TrStops ==
  /\ trState = "open"
  /\ \E how \in {"cancelled", "failed"} : TrEnds(TrAbandons(TrDrop(TrPromote(TrNow))), how, 0)

TrFails ==
  /\ trState \in {"open", "broken"}
  /\ TrEnds(TrAbandons(TrDrop(TrNow)), IF trState = "open" THEN "failed" ELSE "lost", 0)

(* begin: the next turn                                                    *)
TrBegin ==
  /\ trState \notin {"open", "broken"}
  /\ trActive' = NoMessage /\ trLast' = NoMessage /\ trSettled' = {} /\ trFallback' = NoFallback
  /\ trThought' = "none" /\ trTools' = [t \in AcpTools |-> "unknown"]
  /\ trIds' = 0 /\ trShown' = NothingShown /\ trState' = "open" /\ trFinal' = 0 /\ trBatch' = 0 /\ trSaid' = Anonymous

TrNext == TrChunk \/ TrThoughts \/ TrToolUpdate \/ TrPermission \/ TrCompletes \/ TrStops \/ TrFails \/ TrBegin
TrSpec == TrInit /\ [][TrNext]_trVars

-----------------------------------------------------------------------------
(* The final message of a completed run is the newest message of the       *)
(* stream, it has ended there, and it holds the words that came last: never *)
(* an earlier one, however replays and thoughts were ordered.              *)
FinalIsLast ==
  trFinal # 0 => /\ trFinal = trIds /\ trFinal \notin trShown.messages
                 /\ trLast.native = trSaid /\ trSaid # Anonymous

(* A terminal leaves nothing open in the stream, unless a delivery failed. *)
TranscriptClosed == trState \in {"completed", "cancelled", "failed"} => trShown = NothingShown

(* The terminal batch fits in the room kept for it: two events for a       *)
(* retained item and four more.                                            *)
TerminalFits == trBatch <= 2 * AcpRetained + 4
=============================================================================
