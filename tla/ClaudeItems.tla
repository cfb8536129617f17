------------------------------ MODULE ClaudeItems ------------------------------
(***************************************************************************)
(* The messages, thoughts and tool calls of a Claude turn                  *)
(* (agent-sdk-message-translator, -message-state, -event-writer): frames   *)
(* of the SDK become a list of operations of the event writer, each of     *)
(* which pushes one batch and then records it; a push may fail, and then   *)
(* the rest of the list is dropped and the turn fails.  A failed push was  *)
(* not received.  A message is named after its native id, the envelope it  *)
(* came in, the burst of frames it began with ("burst"), or a sequence     *)
(* ("seq"); its thought is named by it.  There is one tool call, "tool".   *)
(***************************************************************************)
EXTENDS Naturals, Sequences, SequencesExt

CONSTANTS CiNatives,       \* native message ids
          CiWires,         \* uuids of assistant envelopes
          CiMaxFrames      \* bound: frames of the turn

CiMessages == CiNatives \cup CiWires \cup {"burst", "seq"}
CiTexts == {"a", "b"}
CiNone == "none"

VARIABLES
  ciWriter,                \* sets of the event writer
  ciState,                 \* the message state
  ciOps,                   \* operations the frame in hand still asks for
  ciHost,                  \* what the host shows
  ciTurn,                  \* [pc, frames, result, final]
  ciGone                   \* ids used before a reset of the conversation

ciVars == <<ciWriter, ciState, ciOps, ciHost, ciTurn, ciGone>>

CiNoWriter == [started |-> {}, ended |-> {}, sealed |-> {}, retracted |-> {},
               thoughts |-> {}, thoughtsEnded |-> {}, contents |-> {},
               tool |-> {}]                 \* "started", "ended", "retracted"
CiNoAnchor == [id |-> CiNone, confirmed |-> FALSE]
CiNoState == [active |-> CiNone, order |-> <<>>, runs |-> {}, texts |-> [m \in CiMessages |-> CiNone],
              authoritative |-> {}, streamed |-> {}, thoughts |-> {},
              wires |-> [w \in CiWires |-> CiNone], wireTools |-> {},
              anchor |-> CiNoAnchor, parked |-> CiNoAnchor, bound |-> CiNone,
              alias |-> [w \in CiWires |-> CiNone]]

CiInit ==
  /\ ciWriter = CiNoWriter /\ ciState = CiNoState /\ ciOps = <<>>
  /\ ciHost = [message |-> [m \in CiMessages |-> CiNone], thought |-> [m \in CiMessages |-> CiNone],
               text |-> [m \in CiMessages |-> CiNone], tool |-> CiNone, twice |-> FALSE]
  /\ ciTurn = [pc |-> "reading", frames |-> 0, result |-> CiNone, final |-> CiNone]
  /\ ciGone = {}

-----------------------------------------------------------------------------
(* The message state                                                       *)

(* assistantMessageId: the message is the active one from here on.         *)
CiNamed(s, m) ==
  [s EXCEPT !.active = m, !.runs = @ \cup {m},
            !.order = IF \E i \in DOMAIN @ : @[i] = m THEN @ ELSE Append(@, m)]
CiUnnamed(s) == IF s.active = CiNone THEN "seq" ELSE s.active

(* resolveAssistantMessageNativeId: the message an envelope is of, and the *)
(* state that remembers it.                                                *)
CiBound(s, m, w) == [id |-> m, state |-> [s EXCEPT !.alias[w] = m]]
CiResolved(s, native, w) ==
  LET unparked == [s EXCEPT !.parked = CiNoAnchor]
  IN IF s.alias[w] # CiNone THEN [id |-> s.alias[w], state |-> s]
     ELSE IF s.parked # CiNoAnchor
     THEN IF s.parked.confirmed /\ native # s.parked.id THEN [id |-> w, state |-> unparked]
          ELSE CiBound(unparked, s.parked.id, w)
     ELSE IF s.anchor = CiNoAnchor THEN [id |-> w, state |-> s]
     ELSE IF ~s.anchor.confirmed THEN CiBound([s EXCEPT !.anchor = CiNoAnchor], s.anchor.id, w)
     ELSE IF native = s.anchor.id /\ s.bound \in {CiNone, w}
     THEN CiBound([s EXCEPT !.bound = w], s.anchor.id, w)
     ELSE [id |-> w, state |-> s]

(* completeAssistantMessage *)
CiCompletes(s, m) == [s EXCEPT !.active = IF @ = m THEN CiNone ELSE @]

(* commitWireMessageRetraction *)
CiKeepsText(s, w, m) ==                                \* bug: the text stays a candidate
  [s EXCEPT !.wires[w] = CiNone, !.runs = @ \ {m}, !.active = IF @ = m THEN CiNone ELSE @]
CiRetracts(s, w, m) ==
  [s EXCEPT !.wires[w] = CiNone, !.runs = @ \ {m}, !.authoritative = @ \ {m},
            !.streamed = @ \ {m}, !.texts[m] = CiNone, !.active = IF @ = m THEN CiNone ELSE @]

(* resolveFinalAssistantSnapshot: the latest complete message that says    *)
(* what the result says.                                                   *)
CiCandidates(result) ==
  {i \in DOMAIN ciState.order :
     /\ ciState.order[i] \in ciState.runs \cap ciState.authoritative
     /\ ciState.texts[ciState.order[i]] = result}
CiFinal(result) ==
  IF CiCandidates(result) = {} THEN CiNone
  ELSE ciState.order[CHOOSE i \in CiCandidates(result) : \A j \in CiCandidates(result) : j <= i]

-----------------------------------------------------------------------------
(* The event writer: one operation, one push                               *)

CiOp(kind, m, w, arg) == [op |-> kind, m |-> m, w |-> w, arg |-> arg]

CiEnds(item, how) == [ciHost EXCEPT ![item] = how, !.twice = @ \/ ciHost[item] # "open"]
CiEndsMessage(m, how) ==
  [ciHost EXCEPT !.message[m] = how, !.twice = @ \/ ciHost.message[m] # "open"]
CiShows(field, m, what) == [ciHost EXCEPT ![field][m] = what]

(* An operation that has nothing left to do.                               *)
CiMoot(o) ==
  \/ o.op = "start" /\ o.m \in ciWriter.started
  \/ o.op = "delta" /\ o.m \in ciWriter.ended \cup ciWriter.sealed
  \/ o.op = "snapshot" /\ o.m \in ciWriter.ended
  \/ o.op = "settle" /\ (o.m \notin ciWriter.started \/ o.m \in ciWriter.ended)
  \/ o.op = "retract" /\ (o.m \notin ciWriter.started \/ o.m \in ciWriter.retracted)
  \/ o.op = "think" /\ o.m \in ciWriter.thoughts
  \/ o.op = "content" /\ (o.m \notin ciWriter.thoughts \ ciWriter.thoughtsEnded \/ o.m \in ciWriter.contents)
  \/ o.op = "settleThought" /\ o.m \notin ciWriter.thoughts \ ciWriter.thoughtsEnded
  \/ o.op = "toolStart" /\ "started" \in ciWriter.tool
  \/ o.op = "toolResult" /\ ({"retracted"} \subseteq ciWriter.tool \/ ("ended" \in ciWriter.tool /\ o.w # "authoritative"))
  \/ o.op = "retractTool" /\ ("started" \notin ciWriter.tool \/ "retracted" \in ciWriter.tool)
  \/ o.op = "finishTools" /\ ("started" \notin ciWriter.tool \/ "ended" \in ciWriter.tool)

(* ensureMessageStarted is the first thing some operations do.             *)
CiStartsFirst(o) ==
  o.op \in {"delta", "snapshot", "toolStart"} /\ o.m # CiNone /\ o.m \notin ciWriter.started

CiRecord(field, m) == ciWriter' = [ciWriter EXCEPT ![field] = @ \cup {m}]

CiPushStart(m) == CiRecord("started", m) /\ ciHost' = CiShows("message", m, "open")

CiText(o) ==
  \/ /\ o.op = "delta"
     /\ ciState' = [ciState EXCEPT !.texts[o.m] = o.arg,
                      !.streamed = @ \cup (IF o.w = "streamed" THEN {o.m} ELSE {})]
  \/ /\ o.op = "snapshot" /\ o.w = "completed"        \* markAuthoritative
     /\ ciState' = [ciState EXCEPT !.texts[o.m] = o.arg, !.authoritative = @ \cup {o.m}]
  \/ o.op = "snapshot" /\ o.w # "completed" /\ UNCHANGED ciState
CiPushText(o) ==
  /\ o.op \in {"delta", "snapshot"} /\ CiText(o)
  /\ ciHost' = CiShows("text", o.m, o.arg) /\ UNCHANGED ciWriter

CiPushEnd(o) ==
  /\ o.op = "settle"
  /\ ciHost' = CiEndsMessage(o.m, o.arg) /\ CiRecord("ended", o.m)
  /\ ciState' = CiCompletes(ciState, o.m)

CiPushRetraction(o) ==
  /\ o.op = "retract"
  /\ ciHost' = CiShows("message", o.m, "cancelled")
  /\ ciWriter' = [ciWriter EXCEPT !.retracted = @ \cup {o.m}, !.ended = @ \cup {o.m}]
  /\ ciState' = CiRetracts(ciState, o.w, o.m)

CiPushThought(o) ==
  /\ \/ o.op = "think" /\ CiRecord("thoughts", o.m) /\ ciHost' = CiShows("thought", o.m, "open")
        /\ UNCHANGED ciState
     \/ o.op = "content" /\ CiRecord("contents", o.m) /\ UNCHANGED <<ciHost, ciState>>
     \/ /\ o.op = "settleThought" /\ CiRecord("thoughtsEnded", o.m)
        /\ ciHost' = [ciHost EXCEPT !.thought[o.m] = o.arg, !.twice = @ \/ ciHost.thought[o.m] # "open"]
        /\ ciState' = [ciState EXCEPT !.thoughts = @ \ {o.m}]

CiForgetsEnd == {"retracted"}                          \* bug: the tool call counts as open
CiRetractedTool == {"retracted", "ended"}
CiPushTool(o) ==
  /\ \/ o.op = "toolStart" /\ CiRecord("tool", "started") /\ ciHost' = [ciHost EXCEPT !.tool = "open"]
     \/ /\ o.op = "toolResult"
        /\ IF "started" \in ciWriter.tool /\ "ended" \notin ciWriter.tool
           THEN CiRecord("tool", "ended") /\ ciHost' = CiEnds("tool", o.arg)
           ELSE UNCHANGED <<ciWriter, ciHost>>
     \/ /\ o.op = "retractTool"
        /\ ciWriter' = [ciWriter EXCEPT !.tool = @ \cup CiRetractedTool]
        /\ ciHost' = IF "ended" \in ciWriter.tool THEN [ciHost EXCEPT !.tool = "cancelled"]
                     ELSE CiEnds("tool", "cancelled")
     \/ o.op = "finishTools" /\ CiRecord("tool", "ended") /\ ciHost' = CiEnds("tool", o.arg)
  /\ UNCHANGED ciState

(* A settled message or thought that had nothing to end is still done with. *)
CiSkip(o) ==
  /\ CiMoot(o) /\ ciOps' = Tail(ciOps)
  /\ ciState' = CASE o.op = "settle" -> CiCompletes(ciState, o.m)
                  [] o.op = "settleThought" -> [ciState EXCEPT !.thoughts = @ \ {o.m}]
                  [] o.op = "retract" -> CiRetracts(ciState, o.w, o.m)
                  [] OTHER -> ciState
  /\ UNCHANGED <<ciWriter, ciHost>>

CiPush ==
  /\ ciTurn.pc = "reading" /\ ciOps # <<>>
  /\ LET o == Head(ciOps)
     IN \/ CiSkip(o)
        \/ ~CiMoot(o) /\ CiStartsFirst(o) /\ CiPushStart(o.m) /\ UNCHANGED <<ciOps, ciState>>
        \/ /\ ~CiMoot(o) /\ ~CiStartsFirst(o) /\ ciOps' = Tail(ciOps)
           /\ \/ o.op = "start" /\ CiPushStart(o.m) /\ UNCHANGED ciState
              \/ CiPushText(o) \/ CiPushEnd(o) \/ CiPushRetraction(o)
              \/ CiPushThought(o) \/ CiPushTool(o)
  /\ UNCHANGED <<ciTurn, ciGone>>
CiPushFails ==
  /\ ciTurn.pc = "reading" /\ ciOps # <<>> /\ ~CiMoot(Head(ciOps))
  /\ ciTurn' = [ciTurn EXCEPT !.pc = "failing"] /\ ciOps' = <<>>
  /\ UNCHANGED <<ciWriter, ciState, ciHost, ciGone>>

-----------------------------------------------------------------------------
(* Frames                                                                  *)

CiFrame ==
  /\ ciTurn.pc = "reading" /\ ciOps = <<>> /\ ciTurn.frames < CiMaxFrames
  /\ ciTurn' = [ciTurn EXCEPT !.frames = @ + 1]
  /\ UNCHANGED <<ciWriter, ciHost>>

CiMessageStart ==
  /\ CiFrame
  /\ \E n \in CiNatives \ ciGone :
       /\ ciState' = CiNamed([ciState EXCEPT !.anchor = [id |-> n, confirmed |-> TRUE],
                                !.parked = CiNoAnchor, !.bound = CiNone], n)
       /\ ciOps' = <<CiOp("start", n, CiNone, CiNone)>>
  /\ UNCHANGED ciGone

(* Without a message_start the first content frame names the burst.        *)
CiContentFrame ==
  /\ CiFrame /\ (ciState.anchor = CiNoAnchor => "burst" \notin ciGone \cup ciState.runs)
  /\ LET anchored == IF ciState.anchor # CiNoAnchor THEN ciState
                     ELSE [ciState EXCEPT !.anchor = [id |-> "burst", confirmed |-> FALSE],
                                          !.parked = CiNoAnchor]
         m == anchored.anchor.id
     IN \/ /\ \E x \in CiTexts : ciOps' = <<CiOp("delta", m, "streamed", x)>>
           /\ ciState' = CiNamed(anchored, m)
        \/ /\ ciOps' = <<CiOp("think", m, CiNone, CiNone)>>
           /\ ciState' = [CiNamed(anchored, m) EXCEPT !.thoughts = @ \cup {m}]
        \/ /\ "tool" \notin ciGone /\ ciOps' = <<CiOp("toolStart", m, CiNone, CiNone)>>
           /\ ciState' = CiNamed(anchored, m)
  /\ UNCHANGED ciGone

CiMessageStop ==
  /\ CiFrame /\ ciState.anchor # CiNoAnchor
  /\ ciState' = [CiNamed(ciState, ciState.anchor.id)
                   EXCEPT !.parked = ciState.anchor, !.anchor = CiNoAnchor, !.bound = CiNone]
  /\ ciOps' = <<CiOp("seal", ciState.anchor.id, CiNone, CiNone)>>
  /\ UNCHANGED ciGone

(* sealMessage pushes nothing.                                             *)
CiSeals ==
  /\ ciTurn.pc = "reading" /\ ciOps # <<>> /\ Head(ciOps).op = "seal"
  /\ CiRecord("sealed", Head(ciOps).m) /\ ciOps' = Tail(ciOps)
  /\ UNCHANGED <<ciState, ciHost, ciTurn, ciGone>>

CiSettlesThought(m, how) == <<CiOp("content", m, CiNone, CiNone), CiOp("settleThought", m, CiNone, how)>>

(* #retractWireItems *)
CiRetracted(w) ==
  (IF ciState.wires[w] = CiNone THEN <<>>
   ELSE (IF ciState.wires[w] \in ciState.thoughts THEN CiSettlesThought(ciState.wires[w], "cancelled") ELSE <<>>)
        \o <<CiOp("retract", ciState.wires[w], w, CiNone)>>)
  \o (IF w \in ciState.wireTools THEN <<CiOp("retractTool", CiNone, w, CiNone)>> ELSE <<>>)

(* #handleAssistantMessage, once what it supersedes is retracted.  A       *)
(* failed outcome stands with the cancelled ones.                          *)
CiEnvelopeOps(m, e, streamed) ==
  (IF e.text # CiNone /\ ~streamed THEN <<CiOp("delta", m, CiNone, e.text)>> ELSE <<>>)
  \o (IF e.tool THEN <<CiOp("toolStart", m, CiNone, CiNone)>> ELSE <<>>)
  \o (IF e.thinking THEN <<CiOp("think", m, CiNone, CiNone)>> ELSE <<>>)
  \o (IF e.text # CiNone THEN <<CiOp("snapshot", m, e.outcome, e.text)>> ELSE <<>>)
  \o (IF e.thinking \/ m \in ciState.thoughts
      THEN CiSettlesThought(m, IF e.outcome = "completed" THEN "completed" ELSE "cancelled") ELSE <<>>)
  \o (IF e.outcome = "completed" THEN <<>> ELSE <<CiOp("start", m, CiNone, CiNone)>>)
  \o <<CiOp("settle", m, CiNone, e.outcome)>>

CiEnvelopes ==
  {e \in [native : CiNatives \cup {CiNone}, text : CiTexts \cup {CiNone}, thinking : BOOLEAN,
          tool : BOOLEAN, outcome : {"completed", "cancelled"}] :
     ~(e.thinking /\ e.tool) /\ (e.outcome = "cancelled" => e.text = "a" /\ ~e.tool)}

CiEnvelope ==
  /\ CiFrame
  /\ \E w \in CiWires \ ciGone, e \in {x \in CiEnvelopes : x.tool => "tool" \notin ciGone} :
       LET found == CiResolved(ciState, e.native, w)
           m == found.id
       IN /\ ciOps' = CiEnvelopeOps(m, e, m \in ciState.streamed)
          /\ ciState' = [CiNamed(found.state, m) EXCEPT !.wires[w] = m,
                           !.wireTools = @ \cup (IF e.tool THEN {w} ELSE {}),
                           !.thoughts = @ \cup (IF e.thinking THEN {m} ELSE {})]
  /\ UNCHANGED ciGone

(* supersedes of the envelope to come, and model_refusal_fallback.         *)
CiSupersedes ==
  /\ CiFrame
  /\ \E w \in CiWires :
       /\ CiRetracted(w) # <<>>
       /\ ciOps' = CiRetracted(w)
       /\ ciState' = [ciState EXCEPT !.wireTools = @ \ {w}]
  /\ UNCHANGED ciGone

(* #handleUserMessage, #handleTaskNotification and the denied permissions  *)
(* of a result, which are authoritative and start the call if need be.     *)
CiToolResult ==
  /\ CiFrame /\ "tool" \notin ciGone
  /\ \/ ciOps' = <<CiOp("toolResult", CiNone, CiNone, "completed")>>
     \/ ciOps' = <<CiOp("toolStart", CiNone, CiNone, CiNone),
                   CiOp("toolResult", CiNone, "authoritative", "failed")>>
  /\ UNCHANGED <<ciState, ciGone>>

(* #handleConversationReset: everything open is cancelled, then the state  *)
(* of the turn starts over; ids are never used again.                      *)
CiReset ==
  /\ CiFrame
  /\ ciOps' = FoldRight(LAMBDA m, ops : CiSettlesThought(m, "cancelled") \o ops, SetToSeq(ciState.thoughts), <<>>)
              \o FoldRight(LAMBDA m, ops : <<CiOp("settle", m, CiNone, "cancelled")>> \o ops,
                           SetToSeq(ciState.runs), <<>>)
              \o <<CiOp("finishTools", CiNone, CiNone, "cancelled"), CiOp("reset", CiNone, CiNone, CiNone)>>
  /\ UNCHANGED <<ciState, ciGone>>
CiResetDone ==
  /\ ciTurn.pc = "reading" /\ ciOps # <<>> /\ Head(ciOps).op = "reset"
  /\ ciGone' = ciGone \cup ciState.runs \cup {w \in CiWires : ciState.wires[w] # CiNone} \cup ciWriter.started
               \cup (IF ciWriter.tool = {} THEN {} ELSE {"tool"})
  /\ ciWriter' = CiNoWriter /\ ciState' = CiNoState /\ ciOps' = <<>>
  /\ UNCHANGED <<ciHost, ciTurn>>

-----------------------------------------------------------------------------
(* The end of the turn                                                     *)

(* #prepareResultMessage: a result no frame has shown becomes a message.   *)
CiResult ==
  /\ ciTurn.pc = "reading" /\ ciOps = <<>> /\ ciTurn.result = CiNone
  /\ \E x \in CiTexts :
       /\ ciTurn' = [ciTurn EXCEPT !.result = x]
       /\ IF \A m \in ciState.runs : ciState.texts[m] = CiNone
          THEN LET m == CiUnnamed(ciState)
               IN /\ ciState' = CiNamed(ciState, m)
                  /\ ciOps' = IF m \in ciWriter.ended THEN <<>>
                              ELSE <<CiOp("snapshot", m, "completed", x)>>
                                   \o (IF m \in ciState.thoughts THEN CiSettlesThought(m, "completed") ELSE <<>>)
                                   \o <<CiOp("settle", m, CiNone, "completed")>>
          ELSE UNCHANGED <<ciState, ciOps>>
  /\ UNCHANGED <<ciWriter, ciHost, ciGone>>

(* prepareTurnClosure: the open items end with the terminal.               *)
CiClosure(how) ==
  LET open == ciWriter.started \ ciWriter.ended
      thoughts == ciWriter.thoughts \ ciWriter.thoughtsEnded
      tool == "started" \in ciWriter.tool /\ "ended" \notin ciWriter.tool
  IN [ciHost EXCEPT
        !.message = [m \in CiMessages |-> IF m \in open THEN how ELSE @[m]],
        !.thought = [m \in CiMessages |-> IF m \in thoughts THEN how ELSE @[m]],
        !.tool = IF tool THEN how ELSE @,
        !.twice = \/ @ \/ (tool /\ ciHost.tool # "open")
                  \/ \E m \in open : ciHost.message[m] # "open"
                  \/ \E m \in thoughts : ciHost.thought[m] # "open"]

(* A turn ends as completed, with its final message, or cancelled, which   *)
(* stands for failed too.                                                  *)
CiTerminal ==
  /\ \/ /\ ciTurn.pc = "reading" /\ ciOps = <<>> /\ ciTurn.result # CiNone
        /\ ciTurn' = [ciTurn EXCEPT !.pc = "completed", !.final = CiFinal(ciTurn.result)]
        /\ ciHost' = CiClosure("completed")
     \/ /\ ciTurn.pc \in {"reading", "failing"}
        /\ ciTurn' = [ciTurn EXCEPT !.pc = "cancelled"] /\ ciHost' = CiClosure("cancelled")
  /\ ciOps' = <<>> /\ ciWriter' = CiNoWriter /\ ciState' = CiNoState
  /\ UNCHANGED ciGone

CiNext ==
  \/ CiPush \/ CiPushFails \/ CiSeals
  \/ CiMessageStart \/ CiContentFrame \/ CiMessageStop \/ CiEnvelope \/ CiSupersedes
  \/ CiToolResult \/ CiReset \/ CiResetDone \/ CiResult \/ CiTerminal
CiSpec == CiInit /\ [][CiNext]_ciVars

-----------------------------------------------------------------------------
(* Nothing is open in the events of a turn that has its terminal, and no   *)
(* item was ended twice on the way, whatever was retracted.                *)
CiItemsClosed ==
  /\ ~ciHost.twice
  /\ ciTurn.pc \in {"completed", "cancelled"}
       => /\ ciHost.tool # "open"
          /\ \A m \in CiMessages : "open" \notin {ciHost.message[m], ciHost.thought[m]}

(* The final message of a completed run is a message the host shows as     *)
(* complete, with the text of the result: never one that was retracted.    *)
CiFinalStands ==
  ciTurn.final # CiNone => /\ ciHost.message[ciTurn.final] = "completed"
                           /\ ciHost.text[ciTurn.final] = ciTurn.result
=============================================================================
