----------------------------- MODULE ClaudeBackend -----------------------------
(***************************************************************************)
(* ClaudeAgentSdkDriverBackend (runtimes/claude): the turns of a session,  *)
(* one native process and one reader of it that outlive a turn, the native *)
(* session whose identity the process may reset at any time, and what the  *)
(* host is told of it.  handleInput, the reader, the delivery of session   *)
(* controls, the close of a query, the prewarmed process and the stop of   *)
(* the backend are tasks of one thread; the process is the environment.    *)
(* A native session is a number in 1..3; 0 is no session.                  *)
(***************************************************************************)
EXTENDS Naturals, Sequences

CONSTANT ClMaxMessages     \* bound: messages of a turn that wait for handleInput

VARIABLES
  clPc,                    \* handleInput
  clTurn,                  \* [state, aborted, started, prepared, acked, error]
  clStream,                \* ClaudeStreamingQuery: see ClNoStream
  clControls,              \* the reset that waits in it: the new session, or 0
  clSending,               \* a control is being delivered
  clClose,                 \* queryCloseTask: none, running, ok, failed
  clAborted,               \* abortController
  clIds,                   \* [native, pending]: #nativeSessionId, #pendingReset
  clHost,                  \* [ref, ckpt]: the session the host would resume, and restore
  clCli,                   \* the process: [alive, session, turn, tools, resets]
  clWarm,                  \* the prewarmed process: starting, ready, stale, failed, gone
  clStop,                  \* none, waiting, flushing, ok, failed
  clTold                   \* for BackendTurn: [terminal, outcome]

clVars == <<clPc, clTurn, clStream, clControls, clSending, clClose, clAborted, clIds, clHost,
            clCli, clWarm, clStop, clTold>>

NoClTurn == [state |-> "running", aborted |-> FALSE, started |-> FALSE, prepared |-> "none",
             acked |-> FALSE, error |-> FALSE]
(* on: there is one; busy: #turn; ended: the messages of the turn are closed. *)
ClNoStream == [on |-> FALSE, open |-> FALSE, busy |-> FALSE, released |-> TRUE, recycle |-> FALSE,
               failed |-> FALSE, ended |-> FALSE, messages |-> <<>>]
ClNoCli == [alive |-> FALSE, session |-> 0, turn |-> FALSE, tools |-> FALSE, resets |-> TRUE]

ClInit ==
  /\ clPc = "idle" /\ clTurn = NoClTurn /\ clStream = ClNoStream
  /\ clControls = 0 /\ clSending = FALSE /\ clClose = "none" /\ clAborted = FALSE
  /\ clIds = [native |-> 0, pending |-> 0] /\ clHost = [ref |-> 0, ckpt |-> 0]
  /\ clCli = ClNoCli /\ clWarm \in {"starting", "gone"}
  /\ clStop = "none" /\ clTold = [terminal |-> "none", outcome |-> "none"]

ClCancelled == clTurn.state = "cancelled" \/ clTurn.aborted      \* isTurnCancelled
ClHearsBackend == clAborted                     \* bug: the signal of the run is not composed
ClTurnSignal == clAborted \/ clTurn.aborted     \* turnSignal.aborted
ClFlushed == clControls = 0 /\ ~clSending /\ clIds.pending = 0

-----------------------------------------------------------------------------
(* handleInput up to the prompt                                            *)

ClGoes(pc) == clPc' = pc
ClThread == <<clControls, clSending, clIds, clHost, clWarm, clStop>>   \* left alone by most steps
ClQueryRest == <<clStream, clClose, clAborted, clCli>>

ClClosesInput == clStream' = [clStream EXCEPT !.open = FALSE]
ClBeginsClose == clClose' = IF clClose = "none" THEN "running" ELSE clClose

(* The catch block: the cancellation, or the failure of the turn.          *)
ClCaught ==
  IF ~clTurn.started THEN ClGoes("finishing") /\ clTurn' = [clTurn EXCEPT !.error = TRUE]
  ELSE IF ClCancelled THEN ClGoes("cancelClosing") /\ UNCHANGED clTurn
  ELSE ClGoes("failClosing") /\ clTurn' = [clTurn EXCEPT !.state = "finalizing", !.error = TRUE]
ClThrows == ClCaught /\ UNCHANGED <<ClThread, ClQueryRest, clTold>>

ClBegin ==
  /\ clPc = "idle" /\ clStop = "none" /\ clTold.outcome # "rejected"
  /\ clStream.on \/ clWarm # "failed"
  /\ ClGoes("flushing") /\ clTurn' = NoClTurn
  /\ clTold' = [terminal |-> "none", outcome |-> "none"]
  /\ IF clStream.on THEN UNCHANGED <<clWarm, clAborted, clClose>>          \* #idleTurn
     ELSE /\ clWarm' = IF clWarm = "starting" THEN "stale" ELSE clWarm     \* prewarm.take
          /\ clAborted' = FALSE /\ clClose' = "none"
  /\ UNCHANGED <<clStream, clControls, clSending, clIds, clHost, clCli, clStop>>

(* prewarm.take throws: its process could not be cleaned up.               *)
ClRefused ==
  /\ clPc = "idle" /\ clStop = "none" /\ ~clStream.on /\ clWarm = "failed"
  /\ clTold' = [terminal |-> "none", outcome |-> "rejected"]
  /\ UNCHANGED <<clPc, clTurn>> /\ UNCHANGED <<ClThread, ClQueryRest>>

(* #flushSessionControls, and then the push of run.started.                *)
ClSessionFlushed ==
  /\ clPc = "flushing" /\ ClFlushed
  /\ \/ ClGoes("started") /\ clTurn' = [clTurn EXCEPT !.started = TRUE]
        /\ UNCHANGED <<ClThread, ClQueryRest, clTold>>
     \/ ClThrows

(* A retained query that ended meanwhile is closed and its controls told.  *)
ClStarted ==
  /\ clPc = "started" /\ ClFlushed
  /\ \/ (ClCancelled \/ clStop # "none") /\ ClThrows
     \/ /\ ~ClCancelled /\ clStop = "none"
        /\ IF clStream.on /\ ~clStream.open
           THEN /\ clClose # "failed" /\ ClGoes("recycling") /\ ClBeginsClose
           ELSE /\ ClGoes("creating") /\ UNCHANGED clClose
        /\ UNCHANGED <<clTurn, clStream, clAborted, clCli, clTold>> /\ UNCHANGED ClThread
     \/ clClose = "failed" /\ ClThrows

ClRecycled ==
  /\ clPc = "recycling" /\ clClose # "running" /\ (ClFlushed \/ clClose = "failed")
  /\ IF clClose = "failed" \/ ClCancelled \/ clStop # "none" THEN ClThrows
     ELSE /\ ClGoes("creating")
          /\ clStream' = ClNoStream /\ clClose' = "none" /\ clAborted' = FALSE
          /\ UNCHANGED <<clTurn, clCli, clTold>> /\ UNCHANGED ClThread

(* createQueryOptions is raced with the signal; it and the spawn may fail. *)
ClCreateFails == clPc = "creating" /\ ClThrows

ClTaken(s) == [s EXCEPT !.busy = TRUE, !.released = FALSE, !.ended = FALSE, !.messages = <<>>]

ClCreated ==
  /\ clPc = "creating" /\ ~ClCancelled
  /\ clStream.on => clStream.open /\ ~clStream.busy /\ clStream.released /\ clControls = 0
  /\ \E reuse \in (IF clStream.on THEN {TRUE} ELSE BOOLEAN) :
       clStream' = ClTaken([clStream EXCEPT !.on = TRUE, !.open = TRUE, !.recycle = ~reuse])
  /\ clCli' = [alive |-> IF clStream.on THEN clCli.alive ELSE TRUE,
               session |-> IF clStream.on THEN clCli.session
                           ELSE IF clIds.native = 0 THEN 1 ELSE clIds.native,
               turn |-> TRUE, tools |-> FALSE, resets |-> TRUE]
  /\ clWarm' = IF clWarm = "ready" THEN "gone" ELSE clWarm
  /\ ClGoes("reading")
  /\ UNCHANGED <<clTurn, clControls, clSending, clClose, clAborted, clIds, clHost, clStop, clTold>>

-----------------------------------------------------------------------------
(* The read loop                                                           *)

ClTook == clStream' = [clStream EXCEPT !.messages = Tail(@)]
ClReadRest == <<clClose, clAborted, clCli, clControls, clSending, clWarm, clStop, clTold>>

(* A message is dropped with the turn that throws at it.                   *)
ClReadThrows ==
  /\ clPc = "reading"
  /\ \/ ClTurnSignal /\ ~(clTurn.prepared # "none" /\ ~ClCancelled)      \* raceWithAbort
     \/ clStream.messages # <<>>                                         \* a push of its failed
  /\ ClThrows

(* recordNativeSessionId: the first session is told, another is refused.   *)
ClKnows(session) ==
  /\ clIds.native \in {0, session}
  /\ clIds' = [clIds EXCEPT !.native = session]
  /\ clHost' = IF clIds.native = 0 THEN [clHost EXCEPT !.ref = session] ELSE clHost

ClReadsContent ==
  /\ clPc = "reading" /\ clStream.messages # <<>> /\ ~ClTurnSignal
  /\ clTurn.prepared = "none" /\ Head(clStream.messages).kind = "content"
  /\ ClTook /\ ClKnows(Head(clStream.messages).session)
  /\ UNCHANGED <<clPc, clTurn>> /\ UNCHANGED ClReadRest

(* #handleConversationReset: the open items are cancelled, then the new    *)
(* identity is taken over at once and told; the event is kept until then.  *)
ClReadsReset ==
  /\ clPc = "reading" /\ clStream.messages # <<>> /\ ~ClTurnSignal
  /\ clTurn.prepared = "none"
  /\ LET next == Head(clStream.messages).session
     IN /\ Head(clStream.messages).kind = "reset"
        /\ \/ /\ ClTook /\ UNCHANGED <<clPc, clTurn>>
              /\ clIds' = [native |-> next, pending |-> 0]
              /\ clHost' = [ref |-> next, ckpt |-> 0]
           \/ /\ ClCaught /\ UNCHANGED <<clStream, clHost>>
              /\ clIds' = [native |-> next, pending |-> next]
  /\ UNCHANGED ClReadRest

(* The state is finalizing before the result is translated; a result that  *)
(* reports success may still be refused or carry a cancellation.           *)
ClReadsResult ==
  /\ clPc = "reading" /\ clStream.messages # <<>> /\ ~ClTurnSignal
  /\ clTurn.prepared = "none"
  /\ LET result == Head(clStream.messages)
     IN /\ result.kind \in {"ok", "bad"}
        /\ ClTook /\ ClKnows(result.session) /\ UNCHANGED clPc
        /\ \E how \in {"cancelled", "failed"} \cup (IF result.kind = "ok" THEN {"completed"} ELSE {}) :
             clTurn' = [clTurn EXCEPT !.state = "finalizing", !.prepared = how]
  /\ UNCHANGED ClReadRest

(* The loop ends with the messages, or an abort after the result ends it.  *)
ClReadEnds ==
  /\ clPc = "reading"
  /\ \/ clStream.messages = <<>> /\ clStream.ended /\ ~ClTurnSignal
     \/ clTurn.prepared # "none" /\ ClTurnSignal /\ ~ClCancelled
  /\ \/ /\ clTurn.prepared # "none" /\ ~clStream.failed
        /\ ClGoes(IF clStream.open /\ clTurn.prepared = "completed" THEN "persisting" ELSE "settling")
        /\ UNCHANGED clTurn /\ UNCHANGED <<ClThread, ClQueryRest, clTold>>
     \/ (clTurn.prepared = "none" \/ clStream.failed) /\ ClThrows

-----------------------------------------------------------------------------
(* From the result to the terminal                                         *)

(* waitForTranscript; unconfirmed, EOF makes the process flush it.         *)
ClPersisted ==
  /\ clPc = "persisting"
  /\ \/ ~ClTurnSignal /\ ClGoes("settling") /\ UNCHANGED clStream
     \/ ~ClTurnSignal /\ ClGoes("draining") /\ ClClosesInput
     \/ clClose # "none" /\ clAborted /\ ~ClCancelled /\ ClGoes("settling") /\ ClClosesInput
  /\ UNCHANGED <<clTurn, clClose, clAborted, clCli, clTold>> /\ UNCHANGED ClThread
ClPersistFails == clPc \in {"persisting", "draining"} /\ ClThrows

ClDrained ==
  /\ clPc = "draining" /\ ~clStream.failed
  /\ clClose # "none" \/ (~clCli.alive /\ ~clStream.busy)
  /\ ClGoes("settling")
  /\ UNCHANGED <<clTurn, clTold>> /\ UNCHANGED <<ClThread, ClQueryRest>>

ClKeepsQuery ==
  /\ clStream.open /\ clTurn.prepared = "completed"
  /\ clClose = "none" /\ ~clAborted /\ clStop = "none"
ClSettling ==
  /\ clPc = "settling"
  /\ IF ClKeepsQuery THEN ClGoes("checkpointing") /\ UNCHANGED <<clClose, clStream>>
     ELSE ClGoes("closing") /\ ClBeginsClose /\ ClClosesInput
  /\ UNCHANGED <<clTurn, clAborted, clCli, clTold>> /\ UNCHANGED ClThread
ClQueryClosed ==
  /\ clPc = "closing" /\ clClose \in {"ok", "failed"}
  /\ IF clClose = "failed" THEN ClThrows
     ELSE /\ ClGoes(IF clTurn.prepared = "completed" THEN "checkpointing" ELSE "publishing")
          /\ UNCHANGED <<clTurn, clTold>> /\ UNCHANGED <<ClThread, ClQueryRest>>

(* The checkpoint of the session and the resume reference go out before    *)
(* the terminal that carries the checkpoint.                               *)
ClCheckpointed ==
  /\ clPc = "checkpointing"
  /\ \/ /\ clIds.native # 0 /\ ~clTurn.aborted
        /\ ClGoes("publishing") /\ clHost' = [clHost EXCEPT !.ref = clIds.native]
        /\ UNCHANGED <<clTurn, clControls, clSending, clIds, clWarm, clStop, clTold>> /\ UNCHANGED ClQueryRest
     \/ ClThrows

(* The host takes the checkpoint over with the completed terminal: it is   *)
(* the one of the session whose id was read in ClCheckpointed.             *)
ClTells(t) ==
  /\ clTold' = [clTold EXCEPT !.terminal = t]
  /\ clHost' = IF t = "completed" THEN [clHost EXCEPT !.ckpt = clIds.native] ELSE clHost
ClTerminalAccepted ==
  /\ clPc = "publishing"
  /\ ClTells(clTurn.prepared) /\ ClGoes("releasing")
  /\ clTurn' = [clTurn EXCEPT !.acked = TRUE]
  /\ UNCHANGED <<clControls, clSending, clIds, clWarm, clStop>> /\ UNCHANGED ClQueryRest

(* The cleanup of checkpoints failed after the host has the terminal: the  *)
(* release of the session's controls waits for the stop of the backend.    *)
ClTerminalUncleaned ==
  /\ clPc = "publishing" /\ clTurn.prepared = "completed"
  /\ ClTells("completed") /\ ClGoes("finishing")
  /\ clTurn' = [clTurn EXCEPT !.error = TRUE]
  /\ UNCHANGED <<clControls, clSending, clIds, clWarm, clStop>> /\ UNCHANGED ClQueryRest

(* Only a completion that a cancellation superseded may be replaced.       *)
ClTerminalFails ==
  /\ clPc = "publishing"
  /\ \/ clTurn.prepared = "completed" /\ clTurn.aborted /\ ClGoes("cancelClosing") /\ UNCHANGED <<clTurn, clTold, clHost>>
     \/ /\ ClGoes("finishing") /\ clTurn' = [clTurn EXCEPT !.error = TRUE]
        /\ ClTells(clTurn.prepared) \/ UNCHANGED <<clTold, clHost>>
  /\ UNCHANGED <<clControls, clSending, clIds, clWarm, clStop>> /\ UNCHANGED ClQueryRest

-----------------------------------------------------------------------------
(* The catch and the finally of handleInput                                *)

ClCatchCloses ==
  /\ clPc \in {"cancelClosing", "failClosing"} /\ clClose = "none"
  /\ ClBeginsClose /\ ClClosesInput
  /\ UNCHANGED <<clPc, clTurn, clAborted, clCli, clTold>> /\ UNCHANGED ClThread
ClCatchClosed ==
  /\ clPc \in {"cancelClosing", "failClosing"} /\ clClose \in {"ok", "failed"}
  /\ IF clClose = "failed" THEN ClGoes("finishing") /\ clTurn' = [clTurn EXCEPT !.error = TRUE]
     ELSE ClGoes(IF clPc = "cancelClosing" THEN "cancelTelling" ELSE "failTelling") /\ UNCHANGED clTurn
  /\ UNCHANGED clTold /\ UNCHANGED <<ClThread, ClQueryRest>>
ClCatchTold ==
  /\ clPc \in {"cancelTelling", "failTelling"}
  /\ LET t == IF clPc = "cancelTelling" THEN "cancelled" ELSE "failed"
     IN \/ /\ clTold' = [clTold EXCEPT !.terminal = t] /\ ClGoes("releasing")
           /\ clTurn' = [clTurn EXCEPT !.acked = TRUE, !.prepared = t]
        \/ /\ clTold' \in {clTold, [clTold EXCEPT !.terminal = t]} /\ ClGoes("finishing")
           /\ clTurn' = [clTurn EXCEPT !.error = TRUE]
  /\ UNCHANGED <<ClThread, ClQueryRest>>

(* releaseTurn: the controls that waited for the terminal may go out.      *)
ClReleases ==
  /\ clPc = "releasing" /\ ~clStream.released
  /\ clStream' = [clStream EXCEPT !.released = TRUE]
  /\ UNCHANGED <<clPc, clTurn, clClose, clAborted, clCli, clTold>> /\ UNCHANGED ClThread
ClReleased ==
  /\ clPc = "releasing" /\ clStream.released /\ clControls = 0 /\ ~clSending
  /\ ClGoes(IF ClKeepsQuery THEN "retained" ELSE "finishing")
  /\ UNCHANGED <<clTurn, clTold>> /\ UNCHANGED <<ClThread, ClQueryRest>>

ClOutcome ==
  IF clTurn.error \/ clTurn.prepared = "failed" THEN "rejected"
  ELSE IF clTurn.prepared = "completed" THEN "resolved" ELSE "cancelled"
ClEnd == ClGoes("idle") /\ clTold' = [clTold EXCEPT !.outcome = ClOutcome]

ClRetained ==
  /\ clPc = "retained" /\ ClEnd
  /\ UNCHANGED clTurn /\ UNCHANGED <<ClThread, ClQueryRest>>

ClFinishCloses ==
  /\ clPc = "finishing" /\ clClose = "none"
  /\ ClBeginsClose /\ ClClosesInput
  /\ UNCHANGED <<clPc, clTurn, clAborted, clCli, clTold>> /\ UNCHANGED ClThread
ClFinished ==
  /\ clPc = "finishing" /\ clClose \in {"ok", "failed"}
  /\ ClGoes("idle")
  /\ clTold' = [clTold EXCEPT !.outcome = IF clClose = "failed" THEN "rejected" ELSE ClOutcome]
  /\ clStream' = IF clControls = 0 /\ clStream.released THEN ClNoStream ELSE clStream
  /\ UNCHANGED <<clTurn, clClose, clAborted, clCli>> /\ UNCHANGED ClThread

-----------------------------------------------------------------------------
(* cancelActiveTurn, and the close of a query                              *)

ClRunAborts ==
  /\ clPc # "idle" /\ ~clTurn.aborted /\ clTold.terminal = "none"
  /\ clTurn' = [clTurn EXCEPT !.aborted = TRUE]
  /\ UNCHANGED <<clPc, clTold>> /\ UNCHANGED <<ClThread, ClQueryRest>>

ClCancels ==
  /\ clAborted' = (clAborted \/ clTurn.state # "cancelled")
  /\ clTurn' = IF clTurn.state = "running" THEN [clTurn EXCEPT !.state = "cancelled"] ELSE clTurn
  /\ ClBeginsClose /\ ClClosesInput
ClCancelActive ==
  /\ clPc # "idle" /\ clTurn.aborted /\ clTurn.state # "cancelled" /\ clClose = "none"
  /\ ClCancels
  /\ UNCHANGED <<clPc, clCli, clTold>> /\ UNCHANGED ClThread

(* query.close, query.return within 2.5 seconds, or the abort: the process *)
(* and its tree are gone, or their supervision reports that they are not.  *)
ClCloseEnds ==
  /\ clClose = "running" /\ ~clStream.busy
  /\ \/ ~clCli.alive /\ clClose' = "ok"
     \/ clStream.on /\ clClose' = "failed"
  /\ UNCHANGED <<clPc, clTurn, clStream, clAborted, clCli, clTold>> /\ UNCHANGED ClThread
ClCloseAborts ==
  /\ clClose = "running" /\ ~clAborted /\ clStream.on
  /\ clAborted' = TRUE
  /\ UNCHANGED <<clPc, clTurn, clStream, clClose, clCli, clTold>> /\ UNCHANGED ClThread

-----------------------------------------------------------------------------
(* The process and the reader                                              *)

ClProcessRest == <<clPc, clTurn, clClose, clIds, clHost, clSending, clWarm, clStop, clTold>>
ClFails(s) == [s EXCEPT !.failed = TRUE, !.open = FALSE, !.busy = FALSE, !.ended = TRUE]
ClPushes(kind) == Append(clStream.messages, [kind |-> kind, session |-> clCli.session])
ClRoom == clCli.alive /\ clStream.on /\ ~clStream.failed /\ Len(clStream.messages) < ClMaxMessages

(* A tool makes the query one that is closed with its turn, because a tool *)
(* may go on after the result.                                             *)
ClKeepsToolQuery(s) == s                \* bug: the query is kept for the next turn
ClSawTool(s) == [s EXCEPT !.recycle = TRUE]
ClEmitsContent ==
  /\ ClRoom /\ clStream.busy /\ clCli.turn
  /\ \E tool \in BOOLEAN :
       /\ clStream' = [(IF tool THEN ClSawTool(clStream) ELSE clStream) EXCEPT !.messages = ClPushes("content")]
       /\ clCli' = [clCli EXCEPT !.tools = @ \/ tool]
  /\ UNCHANGED <<clControls, clAborted>> /\ UNCHANGED ClProcessRest
ClToolEnds ==
  /\ clCli.tools /\ clCli' = [clCli EXCEPT !.tools = FALSE]
  /\ UNCHANGED <<clStream, clControls, clAborted>> /\ UNCHANGED ClProcessRest

ClEmitsResult ==
  /\ ClRoom /\ clStream.busy /\ clCli.turn
  /\ \E kind \in {"ok", "bad"} :
       LET recycle == clStream.recycle \/ kind = "bad"
       IN clStream' = [clStream EXCEPT !.messages = ClPushes(kind), !.recycle = recycle,
                         !.open = @ /\ ~recycle, !.busy = recycle, !.ended = ~recycle]
  /\ clCli' = [clCli EXCEPT !.turn = FALSE]
  /\ UNCHANGED <<clControls, clAborted>> /\ UNCHANGED ClProcessRest

(* A reset while a turn works goes to the turn; after its result or in no  *)
(* turn it is a control of the session.  One comes per turn (a bound).     *)
ClResets ==
  /\ ClRoom /\ clCli.resets /\ clControls = 0 /\ clIds.pending = 0
  /\ LET next == (clCli.session % 3) + 1
     IN /\ clCli' = [clCli EXCEPT !.session = next, !.resets = FALSE]
        /\ IF clStream.busy /\ clCli.turn
           THEN /\ clStream' = [clStream EXCEPT !.messages = Append(@, [kind |-> "reset", session |-> next])]
                /\ UNCHANGED clControls
           ELSE clControls' = next /\ UNCHANGED clStream
  /\ UNCHANGED clAborted /\ UNCHANGED ClProcessRest

(* The stream ends, or breaks: what cannot be read, or content in no turn. *)
ClProcessEnds ==
  /\ clCli.alive
  /\ clCli' = [clCli EXCEPT !.alive = FALSE, !.turn = FALSE, !.tools = FALSE]
  /\ \/ clStream' = [clStream EXCEPT !.open = FALSE, !.busy = FALSE, !.ended = TRUE] /\ UNCHANGED clAborted
     \/ clStream' = ClFails(clStream) /\ clAborted' = TRUE
  /\ UNCHANGED clControls /\ UNCHANGED ClProcessRest

-----------------------------------------------------------------------------
(* The controls of the session                                             *)

(* A failed delivery is repeated by whoever flushes the session next.      *)
ClFlusher == clPc \in {"flushing", "started", "recycling", "releasing"} \/ clStop = "flushing"
ClIgnoresTerminal == ~clStream.failed \/ ClFlusher       \* bug: a reset does not wait for the terminal
ClMayDeliver == clStream.released /\ (~clStream.failed \/ ClFlusher)

(* #replaceNativeSessionId: the identity changes at once.                  *)
ClControlTaken ==
  /\ clControls # 0 /\ ~clSending /\ ClMayDeliver
  /\ clSending' = TRUE
  /\ clIds' = [native |-> clControls, pending |-> clControls]
  /\ UNCHANGED <<clPc, clTurn, clControls, clHost, clWarm, clStop, clTold>> /\ UNCHANGED ClQueryRest

ClControlTold ==
  /\ clSending /\ clSending' = FALSE
  /\ clHost' = [ref |-> clIds.pending, ckpt |-> 0]
  /\ clIds' = [clIds EXCEPT !.pending = 0] /\ clControls' = 0
  /\ UNCHANGED <<clPc, clTurn, clWarm, clStop, clTold>> /\ UNCHANGED ClQueryRest

(* A reset that a turn could not tell is told by the next flush.           *)
ClPendingTold ==
  /\ clIds.pending # 0 /\ clControls = 0 /\ ~clSending
  /\ clPc = "flushing" \/ clStop = "flushing"
  /\ clHost' = [ref |-> clIds.pending, ckpt |-> 0] /\ clIds' = [clIds EXCEPT !.pending = 0]
  /\ UNCHANGED <<clPc, clTurn, clControls, clSending, clWarm, clStop, clTold>> /\ UNCHANGED ClQueryRest

(* The event stays; the query fails, and whoever waits for the flush.      *)
ClControlFails ==
  /\ clSending /\ clSending' = FALSE
  /\ clStream' = [clStream EXCEPT !.failed = TRUE, !.open = FALSE] /\ clAborted' = TRUE
  /\ IF clPc \in {"flushing", "started", "recycling"} THEN ClCaught
     ELSE IF clPc = "releasing" THEN ClGoes("finishing") /\ clTurn' = [clTurn EXCEPT !.error = TRUE]
     ELSE UNCHANGED <<clPc, clTurn>>
  /\ clStop' = IF clStop = "flushing" THEN "failed" ELSE clStop
  /\ UNCHANGED <<clControls, clClose, clIds, clHost, clCli, clWarm, clTold>>

-----------------------------------------------------------------------------
(* The prewarmed process, and stop                                         *)

ClWarmReady ==
  /\ clWarm = "starting" /\ clWarm' \in {"ready", "failed", "gone"}
  /\ UNCHANGED <<clPc, clTurn, clControls, clSending, clIds, clHost, clStop, clTold>> /\ UNCHANGED ClQueryRest
ClWarmCleaned ==
  /\ clWarm = "stale" /\ clWarm' \in {"failed", "gone"}
  /\ UNCHANGED <<clPc, clTurn, clControls, clSending, clIds, clHost, clStop, clTold>> /\ UNCHANGED ClQueryRest

ClStop ==
  /\ clStop \in {"none", "failed"}
  /\ clStop' = "waiting"
  /\ clWarm' = IF clWarm \in {"starting", "ready", "failed"} THEN "stale" ELSE clWarm
  /\ IF clPc # "idle" THEN ClCancels
     ELSE ClBeginsClose /\ ClClosesInput /\ UNCHANGED <<clTurn, clAborted>>
  /\ UNCHANGED <<clPc, clControls, clSending, clIds, clHost, clCli, clTold>>

(* The turn, its query, the prewarmed process; then the controls.          *)
ClStopDrained ==
  /\ clStop = "waiting" /\ clPc = "idle" /\ clClose \in {"ok", "failed"} /\ clWarm \in {"gone", "failed"}
  /\ clStop' = IF clClose = "ok" /\ clWarm = "gone" THEN "flushing" ELSE "failed"
  /\ clStream' = [clStream EXCEPT !.released = @ \/ clStop' = "flushing"]
  /\ UNCHANGED <<clPc, clTurn, clControls, clSending, clClose, clAborted, clIds, clHost, clCli, clWarm, clTold>>
ClStopTimesOut ==
  /\ clStop \in {"waiting", "flushing"} /\ clStop' = "failed"
  /\ UNCHANGED <<clPc, clTurn, clControls, clSending, clIds, clHost, clWarm, clTold>> /\ UNCHANGED ClQueryRest
ClStopped ==
  /\ clStop = "flushing" /\ ClFlushed /\ clStop' = "ok"
  /\ UNCHANGED <<clPc, clTurn, clControls, clSending, clIds, clHost, clWarm, clTold>> /\ UNCHANGED ClQueryRest

-----------------------------------------------------------------------------
ClTurnStep ==
  \/ ClSessionFlushed \/ ClStarted \/ ClRecycled \/ ClCreateFails \/ ClCreated
  \/ ClReadThrows \/ ClReadsContent \/ ClReadsReset \/ ClReadsResult \/ ClReadEnds
  \/ ClPersisted \/ ClPersistFails \/ ClDrained \/ ClSettling \/ ClQueryClosed \/ ClCheckpointed
  \/ ClTerminalAccepted \/ ClTerminalUncleaned \/ ClTerminalFails
  \/ ClCatchCloses \/ ClCatchClosed \/ ClCatchTold
  \/ ClReleases \/ ClReleased \/ ClRetained \/ ClFinishCloses \/ ClFinished
ClCloseStep == ClCloseEnds
ClControlStep == ClControlTaken \/ ClControlTold \/ ClPendingTold \/ ClControlFails
ClStopStep == ClStopDrained \/ ClStopped

ClNext ==
  \/ ClTurnStep \/ ClCloseStep \/ ClCloseAborts \/ ClControlStep \/ ClStopStep \/ ClStopTimesOut
  \/ ClBegin \/ ClRefused \/ ClRunAborts \/ ClCancelActive \/ ClStop \/ ClWarmReady \/ ClWarmCleaned
  \/ ClEmitsContent \/ ClToolEnds \/ ClEmitsResult \/ ClResets \/ ClProcessEnds

(* A process whose input is closed ends, by EOF, by return or by a kill;   *)
(* the native turn itself has no timer.                                    *)
ClFair ==
  /\ WF_clVars(ClTurnStep) /\ WF_clVars(ClCloseStep) /\ WF_clVars(ClControlStep)
  /\ WF_clVars(ClStopStep) /\ WF_clVars(ClWarmCleaned)
  /\ WF_clVars((~clStream.open) /\ ClProcessEnds)
ClSpec == ClInit /\ [][ClNext]_clVars /\ ClFair

-----------------------------------------------------------------------------
ClAsTurn == INSTANCE BackendTurn WITH
  Terminals <- {"completed", "cancelled", "failed"},
  working <- clPc # "idle", terminal <- clTold.terminal, outcome <- clTold.outcome,
  native <- clCli.alive /\ (clCli.turn \/ clCli.tools)
ClRefines == ClAsTurn!TurnSpec

(* The checkpoint the host would restore is of the session it would        *)
(* resume, and a query that is kept for the next turn works in the session *)
(* the backend believes it to be in, once its controls are told.           *)
ClSessionKnown ==
  /\ clHost.ckpt \in {0, clHost.ref}
  /\ (clPc = "idle" /\ clStream.on /\ clStream.open /\ ClFlushed)
       => clIds.native = clCli.session /\ clHost.ref = clCli.session

(* A turn that is cancelled ends, and a stop of the backend is answered.   *)
ClAwaited == \/ clTurn.aborted /\ clPc # "idle"
             \/ clStop \notin {"none", "ok", "failed"}
ClEnds == []<>~ClAwaited
=============================================================================
