---------------------------- MODULE PreviewStream ----------------------------
(***************************************************************************)
(* The preview of one stream of text.  The source numbers its chunks; a    *)
(* chunk is appended, or starts the text anew, and the whole text may be   *)
(* sent again.  The buffer coalesces what waits and flushes one batch at a *)
(* time; the transport may lose, repeat and reorder batches; the receiver  *)
(* shows a text only where it has no gap.                                  *)
(*                                                                         *)
(* A text is the sequence of the chunks in it.                             *)
(***************************************************************************)
EXTENDS Integers, Sequences, SequencesExt

CONSTANTS PvMaxChunks, PvMaxUpdates

ASSUME PvAssumption == PvMaxChunks \in Nat /\ PvMaxUpdates \in Nat \ {0}

VARIABLES pvTexts,       \* the source's text after each of its chunks
          pvUpdates,     \* the buffer
          pvTimer, pvRequested, pvDisposed,
          pvDrain,       \* "idle", "flushing", "ending": the loop is left, its finally not yet run
          pvBatch,       \* the batch the flush is given
          pvTold,        \* chunks reported as dropped
          pvSent,        \* chunks in flushed batches
          pvNet,         \* batches under way
          pvShown        \* the receiver's text and sequence

pvBuffer == <<pvUpdates, pvTimer, pvRequested, pvDisposed, pvDrain, pvBatch, pvTold, pvSent>>
pvVars == <<pvTexts, pvBuffer, pvNet, pvShown>>

PvChunks == 1..PvMaxChunks
PvUnknown == <<0>>          \* text: undefined
PvNone == [text |-> <<>>, through |-> 0]
PvUpdate(op, from, through, text) == [op |-> op, from |-> from, through |-> through, text |-> text]

PvTypeOK ==
  /\ Len(pvTexts) <= PvMaxChunks /\ pvDrain \in {"idle", "flushing", "ending"}
  /\ pvTimer \in BOOLEAN /\ pvRequested \in BOOLEAN /\ pvDisposed \in BOOLEAN
  /\ Len(pvUpdates) < PvMaxUpdates
  /\ pvTold \subseteq PvChunks /\ pvSent \subseteq PvChunks /\ pvShown.through \in 0..PvMaxChunks

PvInit ==
  /\ pvTexts = <<>> /\ pvUpdates = <<>> /\ pvTimer = FALSE /\ pvRequested = FALSE
  /\ pvDisposed = FALSE /\ pvDrain = "idle" /\ pvBatch = <<>> /\ pvTold = {} /\ pvSent = {}
  /\ pvNet = {} /\ pvShown = PvNone

----------------------------------------------------------------------------
\* Coalescing: an update joins the one before it where it continues or replaces it.

\* Mutant: an append joins across a gap.
PvJoinsLater(a, b) == b.from > a.through
PvFollows(a, b) == b.from = a.through + 1
PvJoins(a, b) == b.op = "replace" \/ PvFollows(a, b)
PvJoined(a, b) ==
  CASE b.op = "replace" -> IF b.through < a.through THEN a ELSE b
    [] b.op = "append" -> [a EXCEPT !.text = @ \o b.text, !.through = b.through]
PvCoalesced(updates) ==
  FoldLeft(LAMBDA out, b :
             IF out # <<>> /\ PvJoins(Last(out), b) THEN Append(Front(out), PvJoined(Last(out), b))
             ELSE Append(out, b),
           <<>>, updates)

PvCover(updates) == UNION {updates[i].from .. updates[i].through : i \in DOMAIN updates}

----------------------------------------------------------------------------
\* The buffer.

\* The drain loop: a batch while a flush was asked for and something waits.
PvDrains(asked, updates) ==
  IF asked /\ updates # <<>> /\ ~pvDisposed
  THEN pvDrain' = "flushing" /\ pvBatch' = PvCoalesced(updates) /\ pvUpdates' = <<>>
  ELSE pvDrain' = "ending" /\ pvBatch' = <<>> /\ pvUpdates' = updates

\* flush(): a drain that runs is asked to go on.
PvFlush(updates) ==
  /\ pvTimer' = FALSE
  /\ IF pvDrain = "idle" THEN PvDrains(TRUE, updates) /\ pvRequested' = FALSE
     ELSE pvRequested' = TRUE /\ pvUpdates' = updates /\ UNCHANGED <<pvDrain, pvBatch>>

PvWaits(updates) ==
  pvUpdates' = updates /\ pvTimer' = TRUE /\ UNCHANGED <<pvRequested, pvDrain, pvBatch, pvTold>>
PvDrops(updates, kept) ==
  pvTold' = pvTold \cup PvCover(updates) /\ pvUpdates' = kept /\ UNCHANGED <<pvRequested, pvDrain, pvBatch>>

\* Mutant: a full buffer is emptied without a report.
PvDropsSilently(updates) ==
  /\ pvTimer' = FALSE
  /\ IF pvDrain = "idle" THEN PvFlush(updates) /\ UNCHANGED pvTold
     ELSE pvUpdates' = <<>> /\ UNCHANGED <<pvRequested, pvDrain, pvBatch, pvTold>>
\* Full: a batch of what is there, or while one is flushed, none of it.
PvFills(updates) ==
  IF pvDrain = "idle" THEN PvFlush(updates) /\ UNCHANGED pvTold
  ELSE PvDrops(updates, <<>>) /\ pvTimer' = FALSE

\* An update that is too large; that does not fit with what waits; that does.
PvPush(u) ==
  /\ ~pvDisposed /\ UNCHANGED <<pvDisposed, pvSent, pvNet, pvShown>>
  /\ \/ PvDrops(<<u>>, pvUpdates) /\ UNCHANGED pvTimer
     \/ /\ pvUpdates # <<>> /\ pvDrain # "idle"
        /\ PvDrops(<<u>>, pvUpdates) /\ UNCHANGED pvTimer
     \/ /\ pvUpdates # <<>> /\ pvDrain = "idle"
        /\ pvDrain' = "flushing" /\ pvBatch' = PvCoalesced(pvUpdates) /\ UNCHANGED pvRequested
        /\ \/ pvUpdates' = <<u>> /\ pvTimer' = TRUE /\ PvMaxUpdates > 1 /\ UNCHANGED pvTold
           \/ pvUpdates' = <<>> /\ pvTimer' = FALSE /\ pvTold' = pvTold \cup PvCover(<<u>>)
     \/ Len(pvUpdates) + 1 < PvMaxUpdates /\ PvWaits(Append(pvUpdates, u))
     \/ PvFills(Append(pvUpdates, u))

PvAppends ==
  LET n == Len(pvTexts) + 1
      before == IF pvTexts = <<>> THEN <<>> ELSE Last(pvTexts) IN
  /\ n <= PvMaxChunks
  /\ pvTexts' = Append(pvTexts, Append(before, n))
  /\ PvPush(PvUpdate("append", n, n, <<n>>))
PvStartsAnew ==
  LET n == Len(pvTexts) + 1 IN
  /\ n <= PvMaxChunks
  /\ pvTexts' = Append(pvTexts, <<n>>)
  /\ PvPush(PvUpdate("replace", 1, n, <<n>>))
PvRepeats ==
  /\ pvTexts # <<>> /\ UNCHANGED pvTexts
  /\ PvPush(PvUpdate("replace", 1, Len(pvTexts), Last(pvTexts)))

PvFlushIsCalled ==
  /\ ~pvDisposed
  /\ PvFlush(pvUpdates)
  /\ UNCHANGED <<pvTexts, pvDisposed, pvTold, pvSent, pvNet, pvShown>>
PvTimerFires ==
  /\ pvTimer
  /\ PvFlush(pvUpdates)
  /\ UNCHANGED <<pvTexts, pvDisposed, pvTold, pvSent, pvNet, pvShown>>

\* A flush that fails is reported; its batch may have left.
PvFlushed ==
  /\ pvDrain = "flushing"
  /\ \/ /\ pvSent' = pvSent \cup PvCover(pvBatch) /\ UNCHANGED pvTold
        /\ pvNet' = pvNet \cup {pvBatch}
     \/ /\ pvTold' = pvTold \cup PvCover(pvBatch) /\ UNCHANGED pvSent
        /\ pvNet' \in {pvNet, pvNet \cup {pvBatch}}
  /\ PvDrains(pvRequested, pvUpdates) /\ pvRequested' = (pvRequested /\ pvDisposed)
  /\ UNCHANGED <<pvTexts, pvTimer, pvDisposed, pvShown>>

\* Mutant: what was asked for as the loop ended is forgotten.
PvForgets == FALSE
\* What was asked for between the end of the loop and its finally starts a drain of its own.
PvAsksAgain == pvRequested /\ ~pvDisposed
PvFinally ==
  /\ pvDrain = "ending"
  /\ IF PvAsksAgain
     THEN pvTimer' = FALSE /\ pvRequested' = FALSE /\ PvDrains(TRUE, pvUpdates)
     ELSE pvDrain' = "idle" /\ UNCHANGED <<pvTimer, pvRequested, pvUpdates, pvBatch>>
  /\ UNCHANGED <<pvTexts, pvDisposed, pvTold, pvSent, pvNet, pvShown>>

PvDispose ==
  /\ ~pvDisposed
  /\ pvDisposed' = TRUE /\ pvTimer' = FALSE /\ pvUpdates' = <<>>
  /\ UNCHANGED <<pvTexts, pvRequested, pvDrain, pvBatch, pvTold, pvSent, pvNet, pvShown>>

----------------------------------------------------------------------------
\* The receiver.

PvIsOld(shown, u) ==
  IF u.op = "replace" THEN u.through < shown.through ELSE u.through <= shown.through
\* Mutant: an append continues a text that is not known.
PvContinuesUnknown(shown, u) == u.op = "replace" \/ u.from = shown.through + 1
PvContinues(shown, u) == u.op = "replace" \/ (u.from = shown.through + 1 /\ shown.text # PvUnknown)

PvApplied(shown, u) ==
  CASE PvIsOld(shown, u) -> shown
    [] ~PvIsOld(shown, u) /\ u.op = "replace" -> [text |-> u.text, through |-> u.through]
    [] ~PvIsOld(shown, u) /\ u.op = "append" ->
         [text |-> IF PvContinues(shown, u) THEN shown.text \o u.text ELSE PvUnknown, through |-> u.through]

PvArrives(batch) ==
  /\ batch \in pvNet
  /\ pvShown' = FoldLeft(PvApplied, pvShown, batch)
  /\ UNCHANGED <<pvTexts, pvBuffer, pvNet>>

PvBufferStep == PvTimerFires \/ PvFlushed \/ PvFinally
PvNext ==
  \/ PvAppends \/ PvStartsAnew \/ PvRepeats \/ PvFlushIsCalled \/ PvDispose \/ PvBufferStep
  \/ \E batch \in pvNet : PvArrives(batch)

----------------------------------------------------------------------------
\* Whatever was dropped, joined, lost, repeated or late, a text that is shown is the one the
\* source had at that chunk.
PvShownIsTrue == pvShown.through > 0 => pvShown.text \in {PvUnknown, pvTexts[pvShown.through]}

\* Every chunk is in the buffer, in a flush, sent, or reported as dropped.
PvNothingVanishes ==
  ~pvDisposed => DOMAIN pvTexts \subseteq pvSent \cup pvTold \cup PvCover(pvUpdates) \cup PvCover(pvBatch)

\* Something waits to be flushed.
PvAwaited == pvUpdates # <<>>
=============================================================================
