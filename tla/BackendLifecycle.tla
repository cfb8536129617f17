--------------------------- MODULE BackendLifecycle ---------------------------
(***************************************************************************)
(* AgentBackendLifecycle (core/agent-backend-lifecycle.ts): one start and  *)
(* the bounded, retried shutdown of a provider backend.  A cleanup owner   *)
(* stops the backend once while a start is in flight and finally after it, *)
(* within one deadline; what is still running when an owner gives up is    *)
(* watched, and completed or reported later.  The backend is external: its *)
(* start and stop settle when they like, or never.                         *)
(***************************************************************************)
EXTENDS Naturals

CONSTANTS
  MaxCalls,                \* bound: calls of shutdown by the host
  MaxOwners                \* bound: cleanup owners

ASSUME LifecycleBounds == MaxCalls \in Nat \ {0} /\ MaxOwners \in Nat \ {0}

Calls == 1..MaxCalls
Owners == 1..MaxOwners
Generations == 1..(2 * MaxOwners)      \* an owner stops the backend at most twice

VARIABLES
  signal,                  \* shutdownSignal.aborted
  start,                   \* [task, caller, aborted]: #startTask, start(), its controller
  startupStop,             \* #startupStopTask is the start task
  stops,                   \* generation |-> [state, final] of every backend.stop
  generation,              \* #stopGeneration
  inFlight,                \* #inFlightStop, its generation or 0
  owner,                   \* #cleanupOwner: [n, pc, gen], n = 0 for null
  created,                 \* owners created so far
  outcome,                 \* owner |-> how its task ended
  watch,                   \* owner |-> the deferred cleanup it left
  call,                    \* shutdown calls: [state, owner]
  stopped                  \* #stopped

lifecycleVars == <<signal, start, startupStop, stops, generation, inFlight, owner, created,
                   outcome, watch, call, stopped>>

NoOwner == [n |-> 0, pc |-> "none", gen |-> 0]
NoWatch == [kind |-> "none", state |-> "none", start |-> FALSE, gen |-> 0, owner |-> 0]
StartPending == start.task \in {"scheduled", "running"}        \* #startTask # null

LifecycleInit ==
  /\ signal = FALSE
  /\ start = [task |-> "none", caller |-> "none", aborted |-> FALSE]
  /\ startupStop = FALSE
  /\ stops = [g \in Generations |-> [state |-> "none", final |-> FALSE]]
  /\ generation = 0 /\ inFlight = 0
  /\ owner = NoOwner /\ created = 0
  /\ outcome = [n \in Owners |-> "none"]
  /\ watch = [n \in Owners |-> NoWatch]
  /\ call = [c \in Calls |-> [state |-> "idle", owner |-> 0]]
  /\ stopped = FALSE

-----------------------------------------------------------------------------
(* start.  Its callers call it once, where they create the lifecycle, so   *)
(* that no shutdown of the lifecycle precedes it.                          *)

Start ==
  /\ start.task = "none"
  /\ \A c \in Calls : call[c].state = "idle"
  /\ start' = [start EXCEPT !.task = "scheduled", !.caller = "waiting"]
  /\ UNCHANGED <<signal, startupStop, stops, generation, inFlight, owner, created, outcome, watch,
                 call, stopped>>

(* The microtask of start: an aborted shutdown signal keeps the backend out. *)
StartChecked == signal
StartRuns ==
  /\ start.task = "scheduled"
  /\ start' = IF StartChecked
              THEN [start EXCEPT !.task = "settled",
                                 !.caller = IF @ = "waiting" THEN "rejected" ELSE @]
              ELSE [start EXCEPT !.task = "running"]
  /\ UNCHANGED <<signal, startupStop, stops, generation, inFlight, owner, created, outcome, watch,
                 call, stopped>>

StartSettles ==
  /\ start.task = "running"
  /\ \E result \in {"resolved", "rejected"} :
       start' = [start EXCEPT !.task = "settled",
                              !.caller = IF @ = "waiting" THEN result ELSE @,
                              !.aborted = IF start.caller = "waiting" /\ result = "rejected"
                                          THEN TRUE ELSE @]
  /\ UNCHANGED <<signal, startupStop, stops, generation, inFlight, owner, created, outcome, watch,
                 call, stopped>>

(* The caller of start gives up at its timeout or at the shutdown signal.  *)
StartGivesUp ==
  /\ start.caller = "waiting"
  /\ start' = [start EXCEPT !.caller = "rejected", !.aborted = TRUE]
  /\ UNCHANGED <<signal, startupStop, stops, generation, inFlight, owner, created, outcome, watch,
                 call, stopped>>

(* The process or the kernel aborts the signal before it calls shutdown.   *)
AbortSignal ==
  /\ ~signal
  /\ signal' = TRUE
  /\ UNCHANGED <<start, startupStop, stops, generation, inFlight, owner, created, outcome, watch,
                 call, stopped>>

-----------------------------------------------------------------------------
(* #stop, within #runCleanup                                               *)

(* A stop in flight is waited for; otherwise the next one is issued.       *)
EntersStopAtOnce(n, final) ==              \* bug: does not wait for the stop in flight
  /\ generation' = generation + 1
  /\ stops' = [stops EXCEPT ![generation + 1] = [state |-> "running", final |-> final]]
  /\ inFlight' = generation + 1
  /\ owner' = [n |-> n, pc |-> IF final THEN "final" ELSE "startup", gen |-> generation + 1]
EntersStop(n, final) ==
  IF inFlight # 0
  THEN /\ owner' = [n |-> n, pc |-> IF final THEN "prevFinal" ELSE "prev", gen |-> inFlight]
       /\ UNCHANGED <<stops, generation, inFlight>>
  ELSE /\ generation' = generation + 1
       /\ stops' = [stops EXCEPT ![generation + 1] = [state |-> "running", final |-> final]]
       /\ inFlight' = generation + 1
       /\ owner' = [n |-> n, pc |-> IF final THEN "final" ELSE "startup", gen |-> generation + 1]

(* #createCleanupOwner and #runCleanup up to its first await.              *)
NewOwner == created + 1
CreatesOwner ==
  /\ NewOwner \in Owners
  /\ created' = NewOwner
  /\ outcome' = [outcome EXCEPT ![NewOwner] = "running"]
  /\ start' = [start EXCEPT !.aborted = @ \/ StartPending]
  /\ IF StartPending
     THEN /\ startupStop' = TRUE
          /\ IF startupStop
             THEN /\ owner' = [n |-> NewOwner, pc |-> "awaitStart", gen |-> 0]
                  /\ UNCHANGED <<stops, generation, inFlight>>
             ELSE EntersStop(NewOwner, FALSE)
     ELSE /\ EntersStop(NewOwner, TRUE)
          /\ UNCHANGED startupStop

(* shutdown joins the owner there is or creates one.                       *)
JoinsOwner ==
  IF owner.n # 0
  THEN UNCHANGED <<start, startupStop, stops, generation, inFlight, owner, created, outcome>>
  ELSE CreatesOwner
JoinedOwner == IF owner.n # 0 THEN owner.n ELSE NewOwner

Shutdown ==
  \E c \in Calls :
    /\ signal
    /\ call[c].state = "idle"
    /\ \A d \in 1..(c - 1) : call[d].state # "idle"
    /\ IF stopped
       THEN /\ call' = [call EXCEPT ![c].state = "resolved"]
            /\ UNCHANGED <<start, startupStop, stops, generation, inFlight, owner, created, outcome>>
       ELSE /\ JoinsOwner
            /\ call' = [call EXCEPT ![c] = [state |-> "waiting", owner |-> JoinedOwner]]
    /\ UNCHANGED <<signal, watch, stopped>>

(* The backend's stop settles, when it likes.                              *)
StopSettles ==
  \E g \in Generations :
    /\ stops[g].state = "running"
    /\ \E result \in {"completed", "failed"} : stops' = [stops EXCEPT ![g].state = result]
    /\ inFlight' = IF inFlight = g THEN 0 ELSE inFlight
    /\ UNCHANGED <<signal, start, startupStop, generation, owner, created, outcome, watch, call, stopped>>

-----------------------------------------------------------------------------
(* #runCleanup                                                             *)

OwnerSucceeds ==
  /\ owner' = NoOwner
  /\ outcome' = [outcome EXCEPT ![owner.n] = "succeeded"]
  /\ stopped' = TRUE
  /\ UNCHANGED watch
OwnerFails(deferred) ==
  /\ owner' = NoOwner
  /\ outcome' = [outcome EXCEPT ![owner.n] = "failed"]
  /\ watch' = [watch EXCEPT ![owner.n] = deferred]
  /\ UNCHANGED stopped

Deferred(kind, afterStart, gen) ==
  [kind |-> kind, state |-> "watching", start |-> afterStart, gen |-> gen, owner |-> 0]
FinalStopAfter(afterStart, gen) == Deferred("final_stop", afterStart, gen)
LateStop(gen) == Deferred("late_stop", FALSE, gen)

(* The stop it waited for is over: its own can be issued.                  *)
PreviousSettles ==
  /\ owner.pc \in {"prev", "prevFinal"}
  /\ inFlight # owner.gen
  /\ EntersStop(owner.n, owner.pc = "prevFinal")
  /\ UNCHANGED <<signal, start, startupStop, created, outcome, watch, call, stopped>>

PreviousTimesOut ==
  /\ owner.pc \in {"prev", "prevFinal"}
  /\ inFlight = owner.gen
  /\ IF owner.pc = "prevFinal"
     THEN OwnerFails(FinalStopAfter(FALSE, owner.gen))
     ELSE owner' = [owner EXCEPT !.pc = "awaitStart"] /\ UNCHANGED <<outcome, watch, stopped>>
  /\ UNCHANGED <<signal, start, startupStop, stops, generation, inFlight, created, call>>

(* A startup stop that fails or times out is ignored; the final one decides. *)
StartupStopEnds ==
  /\ owner.pc = "startup"
  /\ owner' = [owner EXCEPT !.pc = "awaitStart"]
  /\ UNCHANGED <<signal, start, startupStop, stops, generation, inFlight, created, outcome, watch,
                 call, stopped>>

StartIsOverNow == TRUE                     \* bug: the final stop does not wait for start
StartIsOver == ~StartPending
StartAwaited ==
  /\ owner.pc = "awaitStart"
  /\ StartIsOver
  /\ EntersStop(owner.n, TRUE)
  /\ UNCHANGED <<signal, start, startupStop, created, outcome, watch, call, stopped>>

StartOutlastsOwner ==
  /\ owner.pc = "awaitStart"
  /\ StartPending
  /\ OwnerFails(FinalStopAfter(TRUE, inFlight))
  /\ UNCHANGED <<signal, start, startupStop, stops, generation, inFlight, created, call>>

FinalStopEnds ==
  /\ owner.pc = "final"
  /\ stops[owner.gen].state # "running"
  /\ IF stops[owner.gen].state = "completed" THEN OwnerSucceeds ELSE OwnerFails(NoWatch)
  /\ UNCHANGED <<signal, start, startupStop, stops, generation, inFlight, created, call>>

UnansweredNever == FALSE                   \* bug: the final stop has no deadline
Unanswered == stops[owner.gen].state = "running"
FinalStopTimesOut ==
  /\ owner.pc = "final"
  /\ Unanswered
  /\ OwnerFails(LateStop(owner.gen))
  /\ UNCHANGED <<signal, start, startupStop, stops, generation, inFlight, created, call>>

CallSettles ==
  \E c \in Calls :
    /\ call[c].state = "waiting"
    /\ outcome[call[c].owner] # "running"
    /\ call' = [call EXCEPT ![c].state =
                  IF outcome[call[c].owner] = "succeeded" THEN "resolved" ELSE "rejected"]
    /\ UNCHANGED <<signal, start, startupStop, stops, generation, inFlight, owner, created, outcome,
                   watch, stopped>>

-----------------------------------------------------------------------------
(* Deferred cleanup                                                        *)

Settled(g) == g \notin {h \in Generations : stops[h].state = "running"}
Report(n, state) == watch' = [watch EXCEPT ![n].state = state]

(* #runDeferredCleanup: what outlasted the owner is over, shut down again. *)
FinalStopDue ==
  \E n \in Owners :
    /\ watch[n].kind = "final_stop" /\ watch[n].state = "watching"
    /\ Settled(watch[n].gen)
    /\ watch[n].start => ~StartPending
    /\ IF stopped
       THEN /\ Report(n, "complete")
            /\ UNCHANGED <<start, startupStop, stops, generation, inFlight, owner, created, outcome>>
       ELSE /\ JoinsOwner
            /\ watch' = [watch EXCEPT ![n].state = "joined", ![n].owner = JoinedOwner]
    /\ UNCHANGED <<signal, call, stopped>>

(* #acceptLateStop: a stop that outlasted its owner did complete.          *)
IsLatestStop(g) == g = generation
AcceptLateStop ==
  \E n \in Owners :
    /\ watch[n].kind = "late_stop" /\ watch[n].state = "watching"
    /\ Settled(watch[n].gen)
    /\ IF stops[watch[n].gen].state = "failed"
       THEN Report(n, "error") /\ UNCHANGED stopped
       ELSE IF owner.n # 0
       THEN /\ watch' = [watch EXCEPT ![n].state = "joined", ![n].owner = owner.n]
            /\ UNCHANGED stopped
       ELSE IF IsLatestStop(watch[n].gen)
       THEN Report(n, "complete") /\ stopped' = TRUE
       ELSE Report(n, "superseded") /\ UNCHANGED stopped
    /\ UNCHANGED <<signal, start, startupStop, stops, generation, inFlight, owner, created, outcome, call>>

(* The owner it joined is done.  A late stop stands if that owner failed   *)
(* without another stop.                                                   *)
WatchResumes ==
  \E n \in Owners :
    /\ watch[n].state = "joined"
    /\ outcome[watch[n].owner] # "running"
    /\ IF outcome[watch[n].owner] = "succeeded"
       THEN Report(n, "complete") /\ UNCHANGED stopped
       ELSE IF watch[n].kind = "late_stop" /\ IsLatestStop(watch[n].gen) /\ inFlight = 0
       THEN Report(n, "complete") /\ stopped' = TRUE
       ELSE Report(n, "error") /\ UNCHANGED stopped
    /\ UNCHANGED <<signal, start, startupStop, stops, generation, inFlight, owner, created, outcome, call>>

OwnerStep ==
  \/ PreviousSettles \/ PreviousTimesOut \/ StartupStopEnds \/ StartAwaited
  \/ StartOutlastsOwner \/ FinalStopEnds \/ FinalStopTimesOut

LifecycleNext ==
  \/ Start \/ StartRuns \/ StartSettles \/ StartGivesUp \/ AbortSignal
  \/ Shutdown \/ StopSettles
  \/ PreviousSettles \/ PreviousTimesOut \/ StartupStopEnds \/ StartAwaited
  \/ StartOutlastsOwner \/ FinalStopEnds \/ FinalStopTimesOut
  \/ CallSettles \/ FinalStopDue \/ AcceptLateStop \/ WatchResumes

(* Microtasks and timers run; the backend owes nothing.                    *)
LifecycleSpec ==
  /\ LifecycleInit /\ [][LifecycleNext]_lifecycleVars
  /\ WF_lifecycleVars(StartRuns)
  /\ WF_lifecycleVars(StartGivesUp)
  /\ WF_lifecycleVars(OwnerStep)
  /\ WF_lifecycleVars(CallSettles)
  /\ WF_lifecycleVars(AcceptLateStop)
  /\ WF_lifecycleVars(WatchResumes)

-----------------------------------------------------------------------------
(* Properties                                                              *)

WatchStates == {"none", "watching", "joined", "complete", "error", "superseded"}

Issued == 0..(2 * MaxOwners)
StopRecords == [state : {"none", "running", "completed", "failed"}, final : BOOLEAN]
OwnerRecords ==
  [n : 0..MaxOwners, gen : Issued,
   pc : {"none", "prev", "prevFinal", "startup", "final", "awaitStart"}]
WatchRecords ==
  [kind : {"none", "final_stop", "late_stop"}, state : WatchStates,
   start : BOOLEAN, gen : Issued, owner : 0..MaxOwners]
CallRecords == [state : {"idle", "waiting", "resolved", "rejected"}, owner : 0..MaxOwners]

LifecycleTypeOK ==
  /\ signal \in BOOLEAN /\ startupStop \in BOOLEAN /\ stopped \in BOOLEAN
  /\ start \in [task : {"none", "scheduled", "running", "settled"},
                caller : {"none", "waiting", "resolved", "rejected"}, aborted : BOOLEAN]
  /\ stops \in [Generations -> StopRecords] /\ generation \in Issued /\ inFlight \in Issued
  /\ owner \in OwnerRecords /\ created \in 0..MaxOwners
  /\ outcome \in [Owners -> {"none", "running", "succeeded", "failed"}]
  /\ watch \in [Owners -> WatchRecords] /\ call \in [Calls -> CallRecords]

(* However many shutdowns, retries and late completions there are, the     *)
(* backend never runs two stops at once.                                   *)
OneStopAtATime ==
  \A g, h \in Generations : stops[g].state = "running" /\ stops[h].state = "running" => g = h

(* A lifecycle that says stopped has a backend that is stopped: a stop     *)
(* that began after the start had settled completed, no start runs and no  *)
(* stop is still at work.                                                  *)
StoppedIsStopped ==
  stopped =>
    /\ \E g \in Generations : stops[g].state = "completed" /\ stops[g].final
    /\ start.task # "running"
    /\ \A g \in Generations : stops[g].state # "running"

(* To the host the lifecycle is the contract: start and shutdown answer    *)
(* even if neither the start nor a stop of the backend ever settles, and a *)
(* shutdown resolves only if the backend is down, which it then remains.   *)
Contract == INSTANCE BackendContract WITH
  aborted <- signal, startup <- start.caller, answer <- [c \in Calls |-> call[c].state],
  down <- stopped
RefinesContract == Contract!ContractSpec

(* The stops of the backend never overlap, and stopped means that a stop   *)
(* which came after the start did its work.                                *)
StopsAreOrderly == OneStopAtATime /\ StoppedIsStopped
=============================================================================
