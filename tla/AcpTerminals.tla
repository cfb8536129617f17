------------------------------ MODULE AcpTerminals ------------------------------
(***************************************************************************)
(* AcpTerminalManager (runtimes/acp): terminals an agent opens for the     *)
(* commands it runs.  Creating, killing and releasing one are tasks that   *)
(* overlap, the host is told of each step by an event that may be refused  *)
(* or lost, and the end of a turn takes down whatever is left.             *)
(***************************************************************************)
EXTENDS Naturals, FiniteSets

CONSTANTS AcpTerminalIds, AcpMaxTerminals
ASSUME TerminalsAssumption == AcpMaxTerminals \in Nat \ {0}

VARIABLES
  tm,                      \* of each terminal, its AcpTerminalState: see NoTerminal
  tmCount,                 \* #terminalReservations
  tmStop,                  \* the stop: none, creations, releases, ok, failed
  tmHost                   \* of each terminal, the events the host has

tmVars == <<tm, tmCount, tmStop, tmHost>>

(* create: its task; process: none, running, closed; exit: the status is   *)
(* known; owned: hostMayOwn; created, exited: the tasks of the events;     *)
(* joined: a stop waits for the release (yes), or it failed.               *)
NoTerminal ==
  [create |-> "none", held |-> FALSE, process |-> "none", exit |-> FALSE, owned |-> FALSE, orphaned |-> FALSE,
   broken |-> FALSE, created |-> "no", exited |-> "no", kill |-> "none", release |-> "none", joined |-> "no"]

TmInit ==
  /\ tm = [t \in AcpTerminalIds |-> NoTerminal] /\ tmCount = 0
  /\ tmStop = "none" /\ tmHost = [t \in AcpTerminalIds |-> {}]

TmStopping == tmStop # "none"
TmSet(t, r) == tm' = [tm EXCEPT ![t] = r]
TmKeeps == UNCHANGED <<tmCount, tmStop, tmHost>>
TmFrees == tmCount' = tmCount - 1

(* An event is accepted, refused, or nobody knows.                         *)
TmPush(t, event, answer) ==
  tmHost' = [tmHost EXCEPT ![t] = IF answer \in {"accepted", "lost"} THEN @ \cup {event} ELSE @]
TmAnswers == {"accepted", "refused", "lost", "unheard"}

-----------------------------------------------------------------------------
(* create                                                                  *)

TmCreate(t) ==
  /\ tm[t].create = "none" /\ ~tm[t].held /\ ~TmStopping
  /\ tmCount < AcpMaxTerminals
  /\ tmCount' = tmCount + 1
  /\ TmSet(t, [NoTerminal EXCEPT !.create = "spawning"])
  /\ UNCHANGED <<tmStop, tmHost>>

TmSpawned(t) ==
  /\ tm[t].create = "spawning"
  /\ \/ /\ TmSet(t, [tm[t] EXCEPT !.create = "supervising", !.held = TRUE, !.process = "running"])
        /\ UNCHANGED tmCount
     \/ TmSet(t, [tm[t] EXCEPT !.create = "over"]) /\ TmFrees
  /\ UNCHANGED <<tmStop, tmHost>>

(* The watchdog is up, the manager not stopping, the request not aborted;  *)
(* or not.                                                                 *)
TmSupervised(t) ==
  /\ tm[t].create = "supervising"
  /\ \/ /\ ~TmStopping /\ ~tm[t].broken
        /\ TmSet(t, [tm[t] EXCEPT !.create = "announcing", !.created = "out"])
     \/ TmSet(t, [tm[t] EXCEPT !.create = "failing"])
  /\ TmKeeps

(* terminal.created: a terminal the host may have heard of is its own.     *)
OwnsAccepted(answer) == answer = "accepted"      \* bug: one whose answer was lost is forgotten
TmOwns(answer) == answer # "refused"
TmAnnounced(t) ==
  /\ tm[t].create = "announcing"
  /\ \E answer \in TmAnswers :
       /\ TmPush(t, "created", answer)
       /\ TmSet(t, [tm[t] EXCEPT !.owned = TmOwns(answer),
                                 !.created = IF answer = "accepted" THEN "ok" ELSE "no",
                                 !.create = IF answer = "accepted" THEN "exiting" ELSE "failing"])
  /\ UNCHANGED <<tmCount, tmStop>>

(* publishExit is joined, if the process has ended; then the last checks.  *)
TmCreated(t) ==
  /\ tm[t].create = "exiting"
  /\ \/ /\ ~TmStopping /\ (~tm[t].exit \/ tm[t].exited = "ok")
        /\ TmSet(t, [tm[t] EXCEPT !.create = "over"])
     \/ TmSet(t, [tm[t] EXCEPT !.create = "failing"])
  /\ TmKeeps

(* What the host may own is released; else the process is killed, or it is *)
(* left as an orphan.                                                      *)
TmUnwinds(t) ==
  /\ tm[t].create = "failing" /\ tm[t].owned
  /\ TmSet(t, [tm[t] EXCEPT !.create = "unwinding", !.release = IF @ = "none" THEN "closing" ELSE @])
  /\ TmKeeps
TmDiscards(t) ==
  /\ tm[t].create = "failing" /\ ~tm[t].owned
  /\ \/ /\ tm[t].exit
        /\ TmSet(t, [tm[t] EXCEPT !.create = "over", !.held = FALSE])
        /\ TmFrees
     \/ /\ ~tm[t].exit
        /\ TmSet(t, [tm[t] EXCEPT !.create = "orphaning", !.orphaned = TRUE])
        /\ UNCHANGED tmCount
  /\ UNCHANGED <<tmStop, tmHost>>
TmCreateEnds(t) ==
  /\ \/ tm[t].create = "unwinding" /\ tm[t].release = "none"
     \/ tm[t].create = "orphaning"
  /\ TmSet(t, [tm[t] EXCEPT !.create = "over"])
  /\ TmKeeps

-----------------------------------------------------------------------------
(* The process: its end, then #completeExit; its supervision may fail.     *)

TmCloses(t) ==
  /\ tm[t].process = "running"
  /\ TmSet(t, [tm[t] EXCEPT !.process = "closed"])
  /\ TmKeeps
TmCompletes(t) ==
  /\ tm[t].held /\ tm[t].process = "closed" /\ ~tm[t].exit /\ ~tm[t].broken
  /\ \E ok \in BOOLEAN :
       TmSet(t, [tm[t] EXCEPT !.exit = ok, !.broken = ~ok, !.exited = IF ok /\ tm[t].owned /\ @ = "no" THEN "out" ELSE @])
  /\ TmKeeps
TmUnsupervised(t) ==
  /\ tm[t].held /\ tm[t].process = "running" /\ ~tm[t].broken
  /\ TmSet(t, [tm[t] EXCEPT !.broken = TRUE])
  /\ TmKeeps

(* publishExit's event.  One that fails is published again when asked.     *)
TmExitTold(t) ==
  /\ tm[t].exited = "out"
  /\ \E answer \in TmAnswers :
       /\ TmPush(t, "exited", answer)
       /\ TmSet(t, [tm[t] EXCEPT !.exited = IF answer = "accepted" THEN "ok" ELSE "failed"])
  /\ UNCHANGED <<tmCount, tmStop>>
TmAsksExit(r) == IF r.owned /\ r.exit /\ r.exited \in {"no", "failed"} THEN [r EXCEPT !.exited = "out"] ELSE r
TmExitKnown(r) == r.exited = "ok" \/ ~r.owned

-----------------------------------------------------------------------------
(* kill: terminal.killed follows terminal.exited.                          *)

TmKill(t) ==
  /\ tm[t].held /\ tm[t].release = "none" /\ (tm[t].owned \/ tm[t].orphaned)
  /\ tm[t].create = "over" /\ tm[t].kill \in {"none", "failed"}
  /\ TmSet(t, [tm[t] EXCEPT !.kill = "waiting"])
  /\ TmKeeps
TmKilled(t) ==
  /\ tm[t].kill = "waiting"
  /\ \/ tm[t].exit /\ TmSet(t, [TmAsksExit(tm[t]) EXCEPT !.kill = "publishing"])
     \/ ~tm[t].exit /\ TmSet(t, [tm[t] EXCEPT !.kill = "failed"])
  /\ TmKeeps
TmKillTold(t) ==
  /\ tm[t].kill = "publishing" /\ tm[t].exited # "out"
  /\ IF ~TmExitKnown(tm[t])
     THEN TmSet(t, [tm[t] EXCEPT !.kill = "failed"]) /\ UNCHANGED tmHost
     ELSE \E answer \in TmAnswers :
            /\ TmPush(t, "killed", answer)
            /\ TmSet(t, [tm[t] EXCEPT !.kill = IF answer = "accepted" THEN "ok" ELSE "failed"])
  /\ UNCHANGED <<tmCount, tmStop>>

-----------------------------------------------------------------------------
(* release                                                                 *)

TmReleaseEnds(r, how) == [r EXCEPT !.release = "none", !.joined = IF @ = "yes" THEN how ELSE @]
TmReleaseFails(r) == TmReleaseEnds(r, "failed")

TmRelease(t) ==
  /\ tm[t].held /\ tm[t].release = "none" /\ (tm[t].owned \/ tm[t].orphaned) /\ tm[t].create = "over"
  /\ TmSet(t, [tm[t] EXCEPT !.release = "closing"])
  /\ TmKeeps

(* The process is ended, by force if need be; its tree is gone.            *)
WaitsForClose(t) ==                        \* bug: no timeout for the end of the process
  /\ tm[t].release = "closing" /\ tm[t].process = "closed"
  /\ TmSet(t, [tm[t] EXCEPT !.exit = TRUE, !.release = "announcing"])
  /\ TmKeeps
TmReleaseCloses(t) ==
  /\ tm[t].release = "closing"
  /\ \/ /\ tm[t].process = "closed"
        /\ TmSet(t, [tm[t] EXCEPT !.exit = TRUE, !.release = "announcing"])
     \/ TmSet(t, TmReleaseFails(tm[t]))
  /\ TmKeeps

(* What the host has not acknowledged is published again, in order.        *)
TmReleaseAnnounces(t) ==
  /\ tm[t].release = "announcing"
  /\ IF tm[t].owned /\ tm[t].created # "ok"
     THEN \E answer \in TmAnswers :
            /\ TmPush(t, "created", answer)
            /\ TmSet(t, IF answer = "accepted" THEN [tm[t] EXCEPT !.created = "ok"] ELSE TmReleaseFails(tm[t]))
     ELSE TmSet(t, [TmAsksExit(tm[t]) EXCEPT !.release = "exiting"]) /\ UNCHANGED tmHost
  /\ UNCHANGED <<tmCount, tmStop>>

TmReleaseExits(t) ==
  /\ tm[t].release = "exiting" /\ tm[t].exited # "out"
  /\ IF ~TmExitKnown(tm[t]) THEN TmSet(t, TmReleaseFails(tm[t]))
     ELSE TmSet(t, [tm[t] EXCEPT !.release = "killing",              \* a kill that failed is done again
                                 !.kill = IF @ = "failed" THEN "waiting" ELSE @])
  /\ TmKeeps
TmReleaseJoinsKill(t) ==
  /\ tm[t].release = "killing" /\ tm[t].kill \in {"none", "ok", "failed"}
  /\ TmSet(t, IF tm[t].kill = "failed" THEN TmReleaseFails(tm[t]) ELSE [tm[t] EXCEPT !.release = "telling"])
  /\ TmKeeps
TmReleased(t) ==
  /\ tm[t].release = "telling"
  /\ \E answer \in (IF tm[t].owned THEN TmAnswers ELSE {"accepted"}) :
       /\ IF tm[t].owned THEN TmPush(t, "released", answer) ELSE UNCHANGED tmHost
       /\ IF answer = "accepted"
          THEN TmSet(t, [TmReleaseEnds(tm[t], "no") EXCEPT !.held = FALSE]) /\ TmFrees
          ELSE TmSet(t, TmReleaseFails(tm[t])) /\ UNCHANGED tmCount
  /\ UNCHANGED tmStop

-----------------------------------------------------------------------------
(* #stop: the creations settle, then every terminal is released.           *)

TmStop ==
  /\ tmStop \in {"none", "failed"}
  /\ tmStop' = "creations"
  /\ UNCHANGED <<tm, tmCount, tmHost>>
TmNotCreating(t) == tm[t].create \in {"none", "over"}
TmStopReleases ==
  /\ tmStop = "creations" /\ \A t \in AcpTerminalIds : TmNotCreating(t)
  /\ tmStop' = "releases"
  /\ tm' = [t \in AcpTerminalIds |->
              [tm[t] EXCEPT !.joined = IF tm[t].held THEN "yes" ELSE "no",
                            !.release = IF tm[t].held /\ @ = "none" THEN "closing" ELSE @]]
  /\ UNCHANGED <<tmCount, tmHost>>
TmStopped ==
  /\ tmStop = "releases" /\ \A t \in AcpTerminalIds : tm[t].joined # "yes"
  /\ tmStop' = IF \A t \in AcpTerminalIds : tm[t].joined = "no" THEN "ok" ELSE "failed"
  /\ UNCHANGED <<tm, tmCount, tmHost>>

-----------------------------------------------------------------------------
TmCreateStep(t) ==
  \/ TmSpawned(t) \/ TmSupervised(t) \/ TmAnnounced(t) \/ TmCreated(t)
  \/ TmUnwinds(t) \/ TmDiscards(t) \/ TmCreateEnds(t)
TmKillStep(t) == TmKilled(t) \/ TmKillTold(t)
TmReleaseStep(t) ==
  \/ TmReleaseCloses(t) \/ TmReleaseAnnounces(t) \/ TmReleaseExits(t) \/ TmReleaseJoinsKill(t) \/ TmReleased(t)
TmStopStep == TmStopReleases \/ TmStopped

TmNext ==
  \/ \E t \in AcpTerminalIds :
       \/ TmCreate(t) \/ TmCreateStep(t) \/ TmCloses(t) \/ TmCompletes(t) \/ TmUnsupervised(t) \/ TmExitTold(t)
       \/ TmKill(t) \/ TmKillStep(t) \/ TmRelease(t) \/ TmReleaseStep(t)
  \/ TmStop \/ TmStopStep

(* Deliveries and waits have timers: a terminal's tasks come to their end. *)
TmTaskStep(t) == TmCreateStep(t) \/ TmKillStep(t) \/ TmReleaseStep(t) \/ TmExitTold(t)
TmFair == (\A t \in AcpTerminalIds : WF_tmVars(TmTaskStep(t))) /\ WF_tmVars(TmStopStep)
TmSpec == TmInit /\ [][TmNext]_tmVars /\ TmFair

-----------------------------------------------------------------------------
(* A slot is taken for every terminal that is held or being created.       *)
(* A terminal nobody holds any more has no process, and the host knows its *)
(* whole history or never heard of it, but for the kill of an orphan.      *)
TmGone(t) == tm[t].create = "over" /\ ~tm[t].held
TerminalsAreKept ==
  /\ tmCount = Cardinality({t \in AcpTerminalIds : tm[t].held \/ tm[t].create = "spawning"})
  /\ \A t \in AcpTerminalIds : TmGone(t) =>
       /\ tm[t].process # "running"
       /\ \/ {"created", "exited", "released"} \subseteq tmHost[t]
          \/ ~tm[t].owned /\ tmHost[t] \subseteq (IF tm[t].orphaned THEN {"killed"} ELSE {})
       /\ tm[t].kill # "none" /\ tm[t].owned => "killed" \in tmHost[t]
  /\ tmStop = "ok" => \A t \in AcpTerminalIds : TmGone(t) \/ tm[t].create = "none"

(* A stop of the terminals ends, whatever the host answers.                *)
TmAwaited == tmStop \notin {"none", "ok", "failed"}
TerminalsStop == []<>~TmAwaited
=============================================================================
