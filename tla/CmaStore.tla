------------------------------ MODULE CmaStore ------------------------------
(***************************************************************************)
(* A session of the CMA store and its HTTP surface: the driver's events    *)
(* become records of the session and move its status; a posted command is  *)
(* claimed once, dispatched and settled under a lease; a client follows    *)
(* the records over a stream, and reconnects after the last cursor it has. *)
(*                                                                         *)
(* A record is its cursor, what it is about, what it shows of it and the   *)
(* permission it asks for.  The driver may deliver an event again.         *)
(***************************************************************************)
EXTENDS Integers, Sequences, FiniteSets

CONSTANTS CmCommands, CmPosts, CmRequests, NoRequest,
          CmMaxEvents,   \* events of the driver
          CmStreams,     \* connections of the client, each used once
          CmMaxStreams,  \* CMA_MAX_STREAMS
          CmMaxPending   \* MAX_PENDING_SUBSCRIBER_EVENTS

ASSUME CmAssumption == CmMaxEvents \in Nat /\ CmMaxPending \in Nat /\ NoRequest \notin CmRequests

VARIABLES cmEvents,    \* the driver's events so far
          cmSources,   \* those the store has recorded
          cmStatus,    \* the session's status
          cmAsked,     \* its pending permissions, in order
          cmLog, cmCursor,       \* the persisted records, the last cursor given
          cmClaim, cmLease,      \* per command: its status, whether its lease has time left
          cmPost, cmOf, cmKept,  \* per post: its step, its command, its keeper has not failed
          cmDispatches, cmReturned,  \* what the dispatcher was asked, and answered
          cmStream,    \* per connection: the server's end
          cmReader     \* the client: its connection, last cursor, what it read, its end

cmSession == <<cmEvents, cmSources, cmStatus, cmAsked>>
cmRecords == <<cmLog, cmCursor, cmStream>>
cmHandler == <<cmPost, cmOf, cmKept>>
cmDriver == <<cmDispatches, cmReturned>>
cmVars == <<cmSession, cmRecords, cmClaim, cmLease, cmHandler, cmDriver, cmReader>>

CmStatuses == {"idle", "running", "rescheduling", "terminated"}
CmSettled == {"completed", "failed"}
CmEvent(k, q) == [kind |-> k, request |-> q]
CmKinds == {"run.started", "run.waiting", "run.ended", "run.failed", "run.retryable",
            "message", "delta", "hidden"}
CmAllEvents == {CmEvent(k, NoRequest) : k \in CmKinds}
  \cup {CmEvent(k, q) : k \in {"requested", "resolved"}, q \in CmRequests}
CmRecord == [cursor : Nat, about : CmCommands \cup {"session"}, shows : STRING,
             asks : CmRequests \cup {NoRequest}]
CmUnused == [at |-> "unused", replay |-> <<>>, pending |-> <<>>, wire |-> <<>>,
             accepting |-> FALSE, registered |-> FALSE, subscribed |-> FALSE, demanded |-> FALSE]

CmTypeOK ==
  /\ cmEvents \in Seq(CmAllEvents) /\ cmSources \subseteq Nat
  /\ cmStatus \in CmStatuses /\ cmAsked \in Seq(CmRequests)
  /\ cmLog \in Seq(CmRecord) /\ cmCursor \in Nat
  /\ cmClaim \in [CmCommands -> {"none", "accepted"} \cup CmSettled]
  /\ cmPost \in [CmPosts -> {"new", "claimed", "dispatching", "settling", "failing", "answered"}]
  /\ \A s \in CmStreams : cmStream[s].at \in {"unused", "open", "closed", "error", "cancelled"}
  /\ cmReader.on \in CmStreams \cup {0}

CmInit ==
  /\ cmEvents = <<>> /\ cmSources = {} /\ cmStatus = "idle" /\ cmAsked = <<>>
  /\ cmLog = <<>> /\ cmCursor = 0
  /\ cmClaim = [c \in CmCommands |-> "none"] /\ cmLease = [c \in CmCommands |-> FALSE]
  /\ cmPost = [p \in CmPosts |-> "new"] /\ cmOf \in [CmPosts -> CmCommands]
  /\ cmKept = [p \in CmPosts |-> TRUE]
  /\ cmDispatches = [c \in CmCommands |-> 0] /\ cmReturned = {}
  /\ cmStream = [s \in CmStreams |-> CmUnused]
  /\ cmReader = [on |-> 0, last |-> 0, seen |-> {}, ended |-> FALSE]

----------------------------------------------------------------------------
\* The server's end of a stream.

CmReleased(st, at) == [CmUnused EXCEPT !.at = at, !.wire = st.wire]

\* Mutant: a stream ends before its replay is read.
CmFinishesEarly(st) == IF st.pending = <<>> /\ ~st.accepting THEN CmReleased(st, "closed") ELSE st
\* Mutant: a stream of a session that has ended stays open.
CmNeverFinishes(st) == st
\* A stream that takes no more records ends after the last it holds.
CmFinished(st) ==
  IF st.replay = <<>> /\ st.pending = <<>> /\ ~st.accepting THEN CmReleased(st, "closed") ELSE st

\* One record for the read that waits, the replay first.
CmDrained(st) ==
  CASE st.at # "open" \/ ~st.demanded -> st
    [] st.replay # <<>> ->
         CmFinished([st EXCEPT !.replay = Tail(@), !.wire = <<Head(st.replay)>>, !.demanded = FALSE])
    [] st.replay = <<>> /\ st.pending # <<>> ->
         CmFinished([st EXCEPT !.pending = Tail(@), !.wire = <<Head(st.pending)>>, !.demanded = FALSE])
    [] OTHER -> CmFinished(st)

CmIsTerminal(r) == r.about = "session" /\ r.shows = "terminated"

CmPushed(st, r) ==
  CASE ~st.subscribed \/ ~st.accepting -> st
    [] st.subscribed /\ st.accepting /\ Len(st.pending) >= CmMaxPending -> CmReleased(st, "error")
    [] OTHER -> CmDrained([st EXCEPT !.pending = Append(@, r),
                                     !.accepting = ~CmIsTerminal(r), !.subscribed = ~CmIsTerminal(r)])

CmPublish(r) == cmStream' = [s \in CmStreams |-> CmPushed(cmStream[s], r)]

----------------------------------------------------------------------------
\* The driver's events.

\* The status an event proposes, and the one the session takes with it.
CmProposed(e) ==
  CASE e.kind \in {"run.started", "resolved"} -> "running"
    [] e.kind \in {"run.waiting", "run.ended", "requested"} -> "idle"
    [] e.kind = "run.failed" -> "terminated"
    [] e.kind = "run.retryable" -> "rescheduling"
    [] OTHER -> "none"

CmAskedAfter(e) ==
  CASE e.kind = "requested" -> Append(cmAsked, e.request)
    [] e.kind = "resolved" -> SelectSeq(cmAsked, LAMBDA q : q # e.request)
    [] e.kind \in {"run.started", "run.ended", "run.failed", "run.retryable"} -> <<>>
    [] OTHER -> cmAsked

CmIsAsked(q) == \E i \in DOMAIN cmAsked : cmAsked[i] = q

\* Mutant: the status is the proposed one, whatever is still asked.
CmTakesProposed(e) == CmProposed(e)
CmNextStatus(e) ==
  CASE e.kind \in {"requested", "run.waiting"} /\ cmStatus = "rescheduling" -> cmStatus
    [] e.kind = "resolved" /\ (~CmIsAsked(e.request) \/ cmStatus = "rescheduling") -> cmStatus
    [] e.kind = "resolved" /\ CmIsAsked(e.request) /\ cmStatus # "rescheduling" ->
         IF CmAskedAfter(e) # <<>> THEN "idle" ELSE "running"
    [] OTHER -> CmProposed(e)

\* What an idle session asks for: the request itself, or the first that is still open.
CmAsks(e) ==
  CASE e.kind = "requested" -> e.request
    [] e.kind # "requested" /\ CmNextStatus(e) = "idle" /\ CmAskedAfter(e) # <<>> -> Head(CmAskedAfter(e))
    [] OTHER -> NoRequest

CmIsLossless(e) == e.kind # "delta"
CmIsRecorded(n) == n \in cmSources
\* Mutant: an ended session is moved by later events.
CmShownAnyway(e) == e.kind # "hidden"
CmIsShown(e) == cmStatus # "terminated" /\ e.kind # "hidden"

CmShow(e) ==
  LET status == CmNextStatus(e)
      r == [cursor |-> cmCursor + 1, about |-> "session",
            shows |-> IF status = "none" THEN e.kind ELSE status, asks |-> CmAsks(e)] IN
  /\ cmCursor' = r.cursor
  /\ cmLog' = IF CmIsLossless(e) THEN Append(cmLog, r) ELSE cmLog
  /\ cmStatus' = IF status = "none" THEN cmStatus ELSE status
  /\ cmAsked' = CmAskedAfter(e)
  /\ CmPublish(r)

CmAppend(n, e) ==
  /\ cmSources' = IF CmIsLossless(e) THEN cmSources \cup {n} ELSE cmSources
  /\ IF ~CmIsRecorded(n) /\ CmIsShown(e) THEN CmShow(e)
     ELSE UNCHANGED <<cmStatus, cmAsked, cmRecords>>
  /\ UNCHANGED <<cmClaim, cmLease, cmHandler, cmDriver, cmReader>>

\* A request is asked once, and resolved after it was asked.
CmMayHappen(e) ==
  /\ e.kind = "requested" => e \notin {cmEvents[i] : i \in DOMAIN cmEvents}
  /\ e.kind = "resolved" =>
       /\ CmEvent("requested", e.request) \in {cmEvents[i] : i \in DOMAIN cmEvents}
       /\ e \notin {cmEvents[i] : i \in DOMAIN cmEvents}

CmDriverEvent(e) ==
  /\ Len(cmEvents) < CmMaxEvents /\ CmMayHappen(e)
  /\ cmEvents' = Append(cmEvents, e)
  /\ CmAppend(Len(cmEvents) + 1, e)
\* The acknowledgement was lost: a lossless event comes again.
CmRedelivered(n) ==
  /\ n \in DOMAIN cmEvents /\ CmIsLossless(cmEvents[n])
  /\ UNCHANGED cmEvents
  /\ CmAppend(n, cmEvents[n])

----------------------------------------------------------------------------
\* A posted command.

CmAt(p, step) == cmPost' = [cmPost EXCEPT ![p] = step]
CmAnswers(p) == CmAt(p, "answered") /\ cmKept' = [cmKept EXCEPT ![p] = TRUE]
\* Mutant: a claim whose lease ran out is given again.
CmClaimsExpired(c) == cmClaim[c] \in {"none", "accepted"} /\ ~cmLease[c] /\ cmStatus # "terminated"
CmMayClaim(c) == cmClaim[c] = "none" /\ cmStatus # "terminated"

CmClaimRecord(c, status) ==
  [cursor |-> cmCursor + 1, about |-> c, shows |-> status, asks |-> NoRequest]

\* Only the first post of a command claims it; the others are answered with what is known.
CmClaims(p) ==
  LET c == cmOf[p] IN
  /\ cmPost[p] = "new" /\ CmMayClaim(c)
  /\ cmClaim' = [cmClaim EXCEPT ![c] = "accepted"] /\ cmLease' = [cmLease EXCEPT ![c] = TRUE]
  /\ cmCursor' = cmCursor + 1
  /\ cmLog' = Append(cmLog, CmClaimRecord(c, "accepted"))
  /\ CmPublish(CmClaimRecord(c, "accepted"))
  /\ CmAt(p, "claimed")
  /\ UNCHANGED <<cmSession, cmOf, cmKept, cmDriver, cmReader>>
CmAnswered(p) ==
  /\ cmPost[p] = "new" /\ ~CmMayClaim(cmOf[p])
  /\ CmAt(p, "answered")
  /\ UNCHANGED <<cmSession, cmRecords, cmClaim, cmLease, cmOf, cmKept, cmDriver, cmReader>>

\* A request that was aborted by then is not dispatched.
CmDispatch(p) ==
  LET c == cmOf[p] IN
  /\ cmPost[p] = "claimed"
  /\ \/ /\ cmKept[p]
        /\ cmDispatches' = [cmDispatches EXCEPT ![c] = @ + 1] /\ CmAt(p, "dispatching")
     \/ CmAt(p, "failing") /\ UNCHANGED cmDispatches
  /\ UNCHANGED <<cmSession, cmRecords, cmClaim, cmLease, cmOf, cmKept, cmReturned, cmReader>>

\* The driver's answer; where the request or the keeper is aborted it may be none.
CmReturns(p) ==
  /\ cmPost[p] = "dispatching"
  /\ cmReturned' = cmReturned \cup {cmOf[p]} /\ CmAt(p, "settling")
  /\ UNCHANGED <<cmSession, cmRecords, cmClaim, cmLease, cmOf, cmKept, cmDispatches, cmReader>>
CmThrows(p) ==
  /\ cmPost[p] = "dispatching" /\ CmAt(p, "failing")
  /\ UNCHANGED <<cmSession, cmRecords, cmClaim, cmLease, cmOf, cmKept, cmDriver, cmReader>>

\* Time passes without a renewal; the keeper finds the lease gone or the session ended.
CmExpires(c) ==
  /\ cmLease[c] /\ cmClaim[c] = "accepted"
  /\ cmLease' = [cmLease EXCEPT ![c] = FALSE]
  /\ UNCHANGED <<cmSession, cmRecords, cmClaim, cmHandler, cmDriver, cmReader>>
CmRenewalFails(p) ==
  /\ cmPost[p] \in {"claimed", "dispatching", "settling", "failing"} /\ cmKept[p]
  /\ ~cmLease[cmOf[p]] \/ cmStatus = "terminated"
  /\ cmKept' = [cmKept EXCEPT ![p] = FALSE]
  /\ UNCHANGED <<cmSession, cmRecords, cmClaim, cmLease, cmPost, cmOf, cmDriver, cmReader>>

\* Mutant: the settled record stands where the accepted one stood.
CmReplacedInPlace(r) == [i \in DOMAIN cmLog |-> IF cmLog[i].about = r.about THEN r ELSE cmLog[i]]
\* The settled record takes the place of the accepted one, at the end and with a cursor of its own.
CmReplaced(r) == Append(SelectSeq(cmLog, LAMBDA old : old.about # r.about), r)

CmSettleAs(c, status) ==
  LET r == CmClaimRecord(c, status) IN
  /\ cmClaim' = [cmClaim EXCEPT ![c] = status]
  /\ cmCursor' = cmCursor + 1 /\ cmLog' = CmReplaced(r) /\ CmPublish(r)

CmMaySettle(c) == cmLease[c]

\* A result too large for a frame is settled as a failure.
CmSettles(p) ==
  LET c == cmOf[p] IN
  /\ cmPost[p] = "settling" /\ CmAnswers(p)
  /\ IF CmMaySettle(c) THEN \E status \in CmSettled : CmSettleAs(c, status)
     ELSE UNCHANGED <<cmClaim, cmRecords>>
  /\ UNCHANGED <<cmSession, cmLease, cmOf, cmDriver, cmReader>>
\* A failure is not recorded once the keeper has failed: the effect is unknown.
CmFails(p) ==
  LET c == cmOf[p] IN
  /\ cmPost[p] = "failing" /\ CmAnswers(p)
  /\ IF cmKept[p] /\ CmMaySettle(c) THEN CmSettleAs(c, "failed") ELSE UNCHANGED <<cmClaim, cmRecords>>
  /\ UNCHANGED <<cmSession, cmLease, cmOf, cmDriver, cmReader>>

----------------------------------------------------------------------------
\* The client and its streams.

CmReplay(last) == SelectSeq(cmLog, LAMBDA r : r.cursor > last)
CmOpen == {s \in CmStreams : cmStream[s].registered}

CmStreamOf(last) ==
  [CmUnused EXCEPT !.at = "open", !.replay = CmReplay(last), !.registered = TRUE,
                   !.accepting = cmStatus # "terminated", !.subscribed = cmStatus # "terminated"]

CmConnect(s) ==
  /\ cmReader.on = 0 /\ cmStream[s].at = "unused" /\ Cardinality(CmOpen) < CmMaxStreams
  /\ cmStream' = [cmStream EXCEPT ![s] = CmStreamOf(cmReader.last)]
  /\ cmReader' = [cmReader EXCEPT !.on = s]
  /\ UNCHANGED <<cmSession, cmLog, cmCursor, cmClaim, cmLease, cmHandler, cmDriver>>
\* The surface reads when it has sent what it read before.
CmPull(s) ==
  /\ cmReader.on = s /\ cmStream[s].at = "open" /\ cmStream[s].wire = <<>> /\ ~cmStream[s].demanded
  /\ cmStream' = [cmStream EXCEPT ![s] = CmDrained([@ EXCEPT !.demanded = TRUE])]
  /\ UNCHANGED <<cmSession, cmLog, cmCursor, cmClaim, cmLease, cmHandler, cmDriver, cmReader>>
CmRead(s) ==
  /\ cmReader.on = s /\ cmStream[s].wire # <<>>
  /\ LET r == Head(cmStream[s].wire) IN
     cmReader' = [cmReader EXCEPT !.last = r.cursor, !.seen = @ \cup {r}]
  /\ cmStream' = [cmStream EXCEPT ![s].wire = <<>>]
  /\ UNCHANGED <<cmSession, cmLog, cmCursor, cmClaim, cmLease, cmHandler, cmDriver>>
CmEnds(s) ==
  /\ cmReader.on = s /\ cmStream[s].at = "closed" /\ cmStream[s].wire = <<>>
  /\ cmReader' = [cmReader EXCEPT !.on = 0, !.ended = TRUE]
  /\ UNCHANGED <<cmSession, cmRecords, cmClaim, cmLease, cmHandler, cmDriver>>
\* The connection breaks, or the server drops a slow client: what was sent last may be lost.
CmBreaks(s) ==
  /\ cmReader.on = s /\ cmStream[s].at \in {"open", "closed", "error"}
  /\ cmReader' = [cmReader EXCEPT !.on = 0]
  /\ cmStream' = [cmStream EXCEPT ![s].wire = <<>>]
  /\ UNCHANGED <<cmSession, cmLog, cmCursor, cmClaim, cmLease, cmHandler, cmDriver>>
\* The server notices that a connection is gone.
CmCancel(s) ==
  /\ cmReader.on # s /\ cmStream[s].at = "open"
  /\ cmStream' = [cmStream EXCEPT ![s] = CmReleased(@, "cancelled")]
  /\ UNCHANGED <<cmSession, cmLog, cmCursor, cmClaim, cmLease, cmHandler, cmDriver, cmReader>>

CmDriverStep == (\E e \in CmAllEvents : CmDriverEvent(e)) \/ (\E n \in DOMAIN cmEvents : CmRedelivered(n))
CmPostStep(p) ==
  \/ CmClaims(p) \/ CmAnswered(p) \/ CmDispatch(p) \/ CmReturns(p) \/ CmThrows(p)
  \/ CmRenewalFails(p) \/ CmSettles(p) \/ CmFails(p)
CmServed(s) == CmPull(s) \/ CmRead(s) \/ CmEnds(s)
CmStreamStep(s) == CmConnect(s) \/ CmServed(s) \/ CmBreaks(s) \/ CmCancel(s)
CmNext ==
  \/ CmDriverStep
  \/ \E p \in CmPosts : CmPostStep(p)
  \/ \E c \in CmCommands : CmExpires(c)
  \/ \E s \in CmStreams : CmStreamStep(s)

----------------------------------------------------------------------------
\* A client has every record up to its cursor, in order, however often the connection
\* broke; when a stream ends, it has the end of the session.
CmReaderIsComplete ==
  /\ \A i \in DOMAIN cmLog : cmLog[i].cursor <= cmReader.last => cmLog[i] \in cmReader.seen
  /\ \A s \in CmStreams : cmReader.on = s /\ cmStream[s].wire # <<>>
                            => Head(cmStream[s].wire).cursor > cmReader.last
  /\ cmReader.ended => \E r \in cmReader.seen : CmIsTerminal(r)

\* The last status shown is the session's; a session that runs waits for no permission,
\* one that waits shows a permission that is still open.
CmStatusRecords == SelectSeq(cmLog, LAMBDA r : r.about = "session" /\ r.shows \in CmStatuses)
CmStatusIsShown ==
  /\ \A i \in DOMAIN cmAsked : CmEvent("resolved", cmAsked[i]) \notin {cmEvents[n] : n \in DOMAIN cmEvents}
  /\ cmStatus = "running" => cmAsked = <<>>
  /\ CmStatusRecords # <<>> =>
       LET r == CmStatusRecords[Len(CmStatusRecords)] IN
       /\ r.shows = cmStatus
       /\ cmStatus = "idle" => IF cmAsked = <<>> THEN r.asks = NoRequest ELSE CmIsAsked(r.asks)

\* However often a command is posted it is dispatched at most once, and recorded as
\* completed only if the driver answered; its record is the one of its claim.
CmDispatchedOnce ==
  \A c \in CmCommands :
    /\ cmDispatches[c] <= 1
    /\ cmClaim[c] = "completed" => c \in cmReturned
    /\ {cmLog[i].shows : i \in {j \in DOMAIN cmLog : cmLog[j].about = c}}
         = IF cmClaim[c] = "none" THEN {} ELSE {cmClaim[c]}

\* A settled command and an ended session stay as they are.
CmEndsStand ==
  [][/\ \A c \in CmCommands : cmClaim[c] \in CmSettled => cmClaim'[c] = cmClaim[c]
     /\ cmStatus = "terminated" => cmStatus' = "terminated"]_cmVars

\* A client is still connected although the session has ended.
CmAwaited == \E s \in CmStreams : cmReader.on = s /\ cmStatus = "terminated" /\ cmStream[s].at # "error"
=============================================================================
