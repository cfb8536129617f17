------------------------------ MODULE OpenAiItems ------------------------------
(***************************************************************************)
(* The messages, thought, tool call and sub-agent task of an OpenAI turn   *)
(* (app-server-item-events, -event-state, -agent-task-events): the         *)
(* app-server's notifications are handled one after the other, each by a   *)
(* list of pushes; what a push shows is recorded once it was received, and *)
(* a push that fails drops the rest of the list and fails the turn.  A     *)
(* failed push was not received.  Tool calls hang off the turn's own       *)
(* message, "turn".                                                        *)
(***************************************************************************)
EXTENDS Naturals, Sequences, SequencesExt

CONSTANTS OiItems,         \* agent message items of the turn
          OiMaxFrames      \* bound: notifications before turn/completed

OiMessages == OiItems \cup {"turn"}
OiNone == "none"
OiTexts == {"full", "empty"}
OiPhases == {OiNone, "progress", "final", "async"}    \* "async": delivered apart

VARIABLES
  oiMsgs,                  \* OpenAiMessageState
  oiThought,               \* its part for the one reasoning item
  oiCalls,                 \* the open tool call, the task, the items completed
  oiOps,                   \* pushes the notification in hand still asks for
  oiHost,                  \* what the host shows
  oiTurn                   \* [pc, frames, listed, final]

oiVars == <<oiMsgs, oiThought, oiCalls, oiOps, oiHost, oiTurn>>

OiNoMsgs == [started |-> {}, ended |-> {}, order |-> <<>>,
             snaps |-> [i \in OiItems |-> [phase |-> OiNone, text |-> OiNone]]]
OiNoThought == [text |-> FALSE, started |-> FALSE, ended |-> FALSE]
OiNoCalls == [tool |-> FALSE, task |-> FALSE, closed |-> FALSE, done |-> {}]

OiInit ==
  /\ oiMsgs = OiNoMsgs /\ oiThought = OiNoThought /\ oiCalls = OiNoCalls /\ oiOps = <<>>
  /\ oiHost = [message |-> [m \in OiMessages |-> OiNone], text |-> [m \in OiMessages |-> OiNone],
               order |-> <<>>, thought |-> OiNone, tool |-> OiNone, task |-> FALSE, twice |-> FALSE]
  /\ oiTurn = [pc |-> "reading", frames |-> 0, listed |-> OiNone,
               final |-> [id |-> OiNone, text |-> OiNone]]

-----------------------------------------------------------------------------
(* Messages                                                                *)

(* #observeItem: an item keeps the place it was first seen at.             *)
OiOrdersByEnd(order, i) == Append(SelectSeq(order, LAMBDA j : j # i), i)  \* bug: the place it ended at
OiObserved(order, i) == IF i \in ToSet(order) THEN order ELSE Append(order, i)

OiKnown == {i \in OiItems : oiMsgs.snaps[i].text # OiNone}

(* finalSnapshot, and the choice of resolveFinalMessage in a listed turn:  *)
(* the last message of the phase that counts.                              *)
OiFinalPhase(phases) == IF phases \cap {"final", "progress"} = {} THEN OiNone ELSE "final"
OiFinalSnapshots ==
  LET phase == OiFinalPhase({oiMsgs.snaps[i].phase : i \in OiKnown})
  IN SelectSeq(oiMsgs.order, LAMBDA i : i \in OiKnown /\ oiMsgs.snaps[i].phase = phase)
OiFinalsListed(items) ==
  LET own == SelectSeq(items, LAMBDA e : e.phase # "async")
      phase == OiFinalPhase({e.phase : e \in ToSet(own)})
  IN SelectSeq(own, LAMBDA e : e.phase = phase)

OiSkipsSnapshot(s, i, phase, text) ==                  \* bug: what ended is not shown again
  i \notin s.ended
OiNeedsSnapshot(s, i, phase, text) == s.snaps[i] # [phase |-> phase, text |-> text]

-----------------------------------------------------------------------------
(* Pushes                                                                  *)

OiOp(kind, m, phase, text) == [op |-> kind, m |-> m, phase |-> phase, text |-> text]
OiDo(kind) == OiOp(kind, OiNone, OiNone, OiNone)

(* An operation that pushes nothing.                                       *)
OiMoot(o) ==
  \/ o.op = "start" /\ o.m \in oiMsgs.started \cup oiMsgs.ended
  \/ o.op = "delta" /\ o.m \in oiMsgs.ended
  \/ o.op = "tool" /\ oiCalls.tool
  \/ o.op = "think" /\ oiThought.ended
  \/ o.op = "content" /\ (~oiThought.text \/ oiThought.ended)
  \/ o.op = "last"
  \/ o.op = "final" /\ ~OiNeedsSnapshot(oiMsgs, o.m, o.phase, o.text)
OiSkip ==
  /\ OiMoot(Head(oiOps)) /\ oiOps' = Tail(oiOps)
  /\ LET o == Head(oiOps)
         lasts == OiFinalSnapshots
     IN oiTurn' = CASE o.op = "final" -> [oiTurn EXCEPT !.final = [id |-> o.m, text |-> o.text]]
                    [] o.op = "last" /\ lasts # <<>> ->
                         [oiTurn EXCEPT !.final = [id |-> Last(lasts), text |-> oiMsgs.snaps[Last(lasts)].text]]
                    [] OTHER -> oiTurn
  /\ UNCHANGED <<oiMsgs, oiThought, oiCalls, oiHost>>

(* ensureItemMessage, ensureTurnMessage                                    *)
OiPushStart(o) ==
  /\ o.op = "start"
  /\ oiHost' = [oiHost EXCEPT !.message[o.m] = "open", !.order = Append(@, o.m)]
  /\ oiMsgs' = [oiMsgs EXCEPT !.started = @ \cup {o.m},
                  !.order = IF o.m = "turn" THEN @ ELSE OiObserved(@, o.m)]
  /\ UNCHANGED <<oiThought, oiCalls, oiTurn>>

OiPushDelta(o) ==
  /\ o.op = "delta" /\ oiHost' = [oiHost EXCEPT !.text[o.m] = "partial"]
  /\ UNCHANGED <<oiMsgs, oiThought, oiCalls, oiTurn>>

OiRecorded(s, o) ==
  IF o.phase = "async" \/ o.text = OiNone THEN s
  ELSE [s EXCEPT !.order = OiObserved(@, o.m), !.snaps[o.m] = [phase |-> o.phase, text |-> o.text]]
OiEndedMessage(s, o) == [OiRecorded(s, o) EXCEPT !.ended = @ \cup {o.m}, !.started = @ \ {o.m}]
OiPushEnd(o) ==                                        \* #prepareMessageEnd
  /\ o.op = "end"
  /\ oiHost' = [oiHost EXCEPT !.message[o.m] = "completed",
                  !.text[o.m] = IF o.text = OiNone THEN @ ELSE o.text,
                  !.twice = @ \/ (o.m \notin oiMsgs.ended /\ oiHost.message[o.m] # "open")]
  /\ oiMsgs' = OiEndedMessage(oiMsgs, o)
  /\ oiCalls' = [oiCalls EXCEPT !.done = @ \cup {o.m}]
  /\ UNCHANGED <<oiThought, oiTurn>>

(* resolveFinalMessage: the listed text is shown if it was not yet.        *)
OiPushFinal(o) ==
  /\ o.op = "final"
  /\ oiHost' = [oiHost EXCEPT !.text[o.m] = o.text]
  /\ oiMsgs' = OiRecorded(oiMsgs, o)
  /\ oiTurn' = [oiTurn EXCEPT !.final = [id |-> o.m, text |-> o.text]]
  /\ UNCHANGED <<oiThought, oiCalls>>

(* onReasoningDelta, publishReasoningSnapshots, #prepareReasoningEnd       *)
OiPushThought(o) ==
  /\ \/ /\ o.op \in {"think", "content"}
        /\ oiThought' = [oiThought EXCEPT !.text = TRUE, !.started = TRUE]
        /\ oiHost' = IF oiThought.started THEN oiHost
                     ELSE [oiHost EXCEPT !.thought = "open", !.twice = @ \/ oiHost.thought # OiNone]
        /\ UNCHANGED oiCalls
     \/ /\ o.op = "thought"
        /\ oiThought' = [text |-> TRUE, started |-> FALSE, ended |-> TRUE]
        /\ oiHost' = [oiHost EXCEPT !.thought = "completed"]
        /\ oiCalls' = [oiCalls EXCEPT !.done = @ \cup {"reasoning"}]
  /\ UNCHANGED <<oiMsgs, oiTurn>>

(* OpenAiToolState.ensureStarted, #prepareToolEnd; an update of a running  *)
(* call is a notice.                                                       *)
OiPushTool(o) ==
  /\ \/ /\ o.op = "tool" /\ oiCalls' = [oiCalls EXCEPT !.tool = TRUE]
        /\ oiHost' = [oiHost EXCEPT !.tool = "open"]
     \/ /\ o.op = "toolEnd" /\ oiCalls' = [oiCalls EXCEPT !.tool = FALSE, !.done = @ \cup {"tool"}]
        /\ oiHost' = [oiHost EXCEPT !.tool = o.text]
  /\ UNCHANGED <<oiMsgs, oiThought, oiTurn>>

(* OpenAiAgentTaskState.prepare: a start that comes after the end of the   *)
(* task opens nothing, an interaction does.                                *)
OiTaskActive(kind) ==
  IF kind = "interacted" THEN TRUE
  ELSE IF kind = "started" THEN oiCalls.task \/ ~oiCalls.closed ELSE FALSE
OiPushTask(o) ==
  /\ o.op = "task"
  /\ oiCalls' = [oiCalls EXCEPT !.task = OiTaskActive(o.text),
                   !.closed = IF o.text = "interacted" THEN FALSE
                              ELSE @ \/ o.text \notin {"started", "interacted"}]
  /\ oiHost' = [oiHost EXCEPT !.task = OiTaskActive(o.text)]
  /\ UNCHANGED <<oiMsgs, oiThought, oiTurn>>

(* A notice leaves nothing behind: handlers that push one event.           *)
OiPushNotice(o) == o.op = "notice" /\ UNCHANGED <<oiMsgs, oiThought, oiCalls, oiHost, oiTurn>>

OiPush ==
  /\ oiTurn.pc \in {"reading", "closing"} /\ oiOps # <<>>
  /\ LET o == Head(oiOps)
     IN \/ OiSkip
        \/ /\ ~OiMoot(o) /\ oiOps' = Tail(oiOps)
           /\ \/ OiPushStart(o) \/ OiPushDelta(o) \/ OiPushEnd(o) \/ OiPushFinal(o)
              \/ OiPushThought(o) \/ OiPushTool(o) \/ OiPushTask(o) \/ OiPushNotice(o)

(* What the handler of a failed push had recorded before it: the text of   *)
(* a thought, which the terminal then shows, and nothing else.             *)
OiCommitsEnds(o) ==                                    \* bug: a message is ended before it is told
  /\ oiMsgs' = IF o.op = "end" THEN OiEndedMessage(oiMsgs, o) ELSE oiMsgs
  /\ oiThought' = [oiThought EXCEPT !.text = @ \/ o.op \in {"think", "thought"}]
OiCommittedBefore(o) ==
  /\ oiThought' = [oiThought EXCEPT !.text = @ \/ o.op \in {"think", "thought"}]
  /\ UNCHANGED oiMsgs
OiPushFails ==
  /\ oiTurn.pc \in {"reading", "closing"} /\ oiOps # <<>> /\ ~OiMoot(Head(oiOps))
  /\ OiCommittedBefore(Head(oiOps))
  /\ oiTurn' = [oiTurn EXCEPT !.pc = "failing"] /\ oiOps' = <<>>
  /\ UNCHANGED <<oiCalls, oiHost>>

-----------------------------------------------------------------------------
(* Notifications                                                           *)

OiFrame ==
  /\ oiTurn.pc = "reading" /\ oiOps = <<>> /\ oiTurn.frames < OiMaxFrames
  /\ oiTurn' = [oiTurn EXCEPT !.frames = @ + 1]
  /\ UNCHANGED <<oiMsgs, oiThought, oiCalls, oiHost>>
OiStart(m) == OiOp("start", m, OiNone, OiNone)

OiMessageDelta ==
  OiFrame /\ \E i \in OiItems : oiOps' = <<OiStart(i), OiOp("delta", i, OiNone, OiNone)>>

OiReasoningDelta == OiFrame /\ oiOps' = <<OiDo("think")>>

(* onItemStarted, onFilePatch: neither asks whether the call has ended.    *)
OiToolFrame ==
  /\ OiFrame
  /\ \/ oiOps' = <<OiStart("turn"), OiDo("tool")>>
     \/ oiOps' = (IF oiCalls.tool THEN <<>> ELSE <<OiStart("turn"), OiDo("tool")>>) \o <<OiDo("notice")>>

(* onToolOutput, onMcpToolProgress and onTerminalInteraction only speak of *)
(* a running call.                                                         *)
OiToolNotice == OiFrame /\ oiCalls.tool /\ oiOps' = <<OiDo("notice")>>

(* Handlers that show the host something and keep nothing of it: plans,    *)
(* hooks and reviews, warnings (some only logged), items only reported.    *)
OiPlans == {<<OiDo("notice")>>}
OiReviews == {<<OiDo("notice")>>}
OiWarnings == {<<>>, <<OiDo("notice")>>}
OiReportedItems == {<<>>, <<OiDo("notice")>>}
OiNotice == OiFrame /\ oiOps' \in OiPlans \cup OiReviews \cup OiWarnings \cup OiReportedItems

(* The operations of onItemCompleted for an agent message.                 *)
OiCompletion(i, phase, text) ==
  IF i \in oiCalls.done THEN <<>> ELSE <<OiStart(i), OiOp("end", i, phase, text)>>
OiMessageCompleted ==
  /\ OiFrame
  /\ \E i \in OiItems, phase \in OiPhases, text \in OiTexts \cup {OiNone} :
       oiOps' = OiCompletion(i, phase, text)

OiReasoningCompleted ==
  /\ OiFrame
  /\ \E summary \in BOOLEAN :
       oiOps' = IF "reasoning" \in oiCalls.done \/ (~summary /\ ~oiThought.started) THEN <<>>
                ELSE <<OiDo("thought")>>

OiToolCompleted ==
  /\ OiFrame
  /\ \E how \in {"completed", "failed"} :
       oiOps' = IF "tool" \in oiCalls.done THEN <<>>
                ELSE <<OiStart("turn"), OiDo("tool"), OiOp("toolEnd", OiNone, OiNone, how)>>

OiTaskActivity ==
  /\ OiFrame
  /\ \E kind \in {"started", "interacted", "completed"} :
       oiOps' = <<OiOp("task", OiNone, OiNone, kind)>>

(* A malformed item throws before anything is pushed.                      *)
OiMalformed ==
  /\ oiTurn.pc = "reading" /\ oiOps = <<>>
  /\ oiTurn' = [oiTurn EXCEPT !.pc = "failing"]
  /\ UNCHANGED <<oiMsgs, oiThought, oiCalls, oiOps, oiHost>>

-----------------------------------------------------------------------------
(* The end of the turn                                                     *)

(* turn/completed lists the turn's items, in the provider's order, or none *)
(* of them; an item without a text cannot be the final message.            *)
OiListings ==
  {<<>>} \cup {<<[id |-> i, phase |-> ph, text |-> t]>> :
                 i \in OiItems, ph \in {OiNone, "final", "async"}, t \in OiTexts \cup {OiNone}}
         \cup {<<[id |-> i, phase |-> "final", text |-> "full"], [id |-> j, phase |-> ph, text |-> "full"]>> :
                 i \in OiItems, j \in OiItems, ph \in {"progress", "final"}}
OiListingsWellFormed == {l \in OiListings : Len(l) = 2 => l[1].id # l[2].id}

OiTurnItems(items) ==
  FoldLeft(LAMBDA ops, e : ops \o OiCompletion(e.id, e.phase, e.text), <<>>, items)
OiResolution(items, full) ==
  LET finals == OiFinalsListed(items)
  IN IF finals = <<>> THEN IF full THEN <<>> ELSE <<OiDo("last")>>
     ELSE IF Last(finals).text = OiNone THEN <<>>
     ELSE <<OiStart(Last(finals).id), OiOp("final", Last(finals).id, Last(finals).phase, Last(finals).text)>>

OiTurnCompleted ==
  /\ oiTurn.pc = "reading" /\ oiOps = <<>> /\ oiTurn.listed = OiNone
  /\ \E items \in OiListingsWellFormed, full \in BOOLEAN :
       /\ oiOps' = OiTurnItems(items) \o OiResolution(items, full) \o <<OiDo("settle")>>
       /\ oiTurn' = [oiTurn EXCEPT !.listed = IF OiFinalsListed(items) = <<>> THEN "no" ELSE "yes"]
  /\ UNCHANGED <<oiMsgs, oiThought, oiCalls, oiHost>>

(* terminalEvents: a thought that was never shown is, before it is closed. *)
OiCloses ==
  /\ \/ oiTurn.pc = "reading" /\ oiOps # <<>> /\ Head(oiOps).op = "settle"
     \/ oiTurn.pc = "reading" /\ oiOps = <<>>
     \/ oiTurn.pc = "failing"
  /\ oiTurn' = [oiTurn EXCEPT !.pc = "closing",
                  !.listed = IF oiOps = <<>> THEN "cancelled" ELSE @,
                  !.final = IF oiOps = <<>> THEN [id |-> OiNone, text |-> OiNone] ELSE @]
  /\ oiOps' = <<OiDo("content")>>
  /\ UNCHANGED <<oiMsgs, oiThought, oiCalls, oiHost>>

OiClosure(how) ==
  [oiHost EXCEPT
     !.message = [m \in OiMessages |-> IF m \in oiMsgs.started THEN how ELSE @[m]],
     !.thought = IF oiThought.started THEN how ELSE @,
     !.tool = IF oiCalls.tool THEN how ELSE @, !.task = FALSE,
     !.twice = @ \/ \E m \in oiMsgs.started : oiHost.message[m] # "open"]
OiTerminal ==
  /\ oiTurn.pc = "closing" /\ oiOps = <<>>
  /\ oiHost' = OiClosure(IF oiTurn.listed = "cancelled" THEN "cancelled" ELSE "completed")
  /\ oiTurn' = [oiTurn EXCEPT !.pc = "ended", !.final = IF @.text = "empty" THEN [@ EXCEPT !.id = OiNone] ELSE @]
  /\ oiMsgs' = OiNoMsgs /\ oiThought' = OiNoThought /\ oiCalls' = OiNoCalls
  /\ UNCHANGED oiOps

(* onPostTerminalSubAgentActivity: the task that outlived the run ends.    *)
OiPostTerminal ==
  /\ oiTurn.pc = "ended" /\ "late" \notin oiCalls.done
  /\ oiCalls' = [oiCalls EXCEPT !.done = @ \cup {"late"}]
  /\ oiHost' = [oiHost EXCEPT !.task = FALSE]
  /\ UNCHANGED <<oiMsgs, oiThought, oiOps, oiTurn>>

OiNext ==
  \/ OiPush \/ OiPushFails
  \/ OiMessageDelta \/ OiReasoningDelta \/ OiToolFrame \/ OiToolNotice \/ OiNotice
  \/ OiMessageCompleted \/ OiReasoningCompleted \/ OiToolCompleted \/ OiTaskActivity \/ OiMalformed
  \/ OiTurnCompleted \/ OiCloses \/ OiTerminal \/ OiPostTerminal
OiSpec == OiInit /\ [][OiNext]_oiVars

-----------------------------------------------------------------------------
(* Nothing the host was shown is open, or active, once it has the terminal *)
(* of the turn, and no message or thought was started or ended again.      *)
OiItemsClosed ==
  /\ ~oiHost.twice
  /\ oiTurn.pc = "ended" =>
       /\ "open" \notin {oiHost.thought, oiHost.tool} /\ ~oiHost.task
       /\ \A m \in OiMessages : oiHost.message[m] # "open"

(* The final message of a completed run is complete and shown with exactly *)
(* the text that makes it final; and when the turn lists no items, no      *)
(* message that the host saw start later has a better claim, however late  *)
(* the completions came.                                                   *)
OiFinalStands ==
  oiTurn.pc = "closing" /\ oiTurn.final.id # OiNone =>
    LET f == oiTurn.final.id
    IN /\ oiHost.message[f] # OiNone /\ oiHost.text[f] = oiTurn.final.text
       /\ oiTurn.listed = "no" =>
            \A i \in OiKnown \ {f} :
              oiMsgs.snaps[i].phase = oiMsgs.snaps[f].phase =>
                \E a, b \in DOMAIN oiHost.order : oiHost.order[a] = i /\ oiHost.order[b] = f /\ a < b
=============================================================================
