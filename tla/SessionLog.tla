----------------------------- MODULE SessionLog -----------------------------
(***************************************************************************)
(* The replicated state of a session.  The authority commits mutations,    *)
(* one revision each: its own, and those an executor proposes against the  *)
(* revision it has seen.  A replica follows by snapshots and by batches of  *)
(* mutations, which may be lost, late, repeated or out of order.           *)
(*                                                                         *)
(* A snapshot is the status of the session, of its runs, of one item per   *)
(* run and of one interaction.  Sizes, times and capabilities are left out.*)
(***************************************************************************)
EXTENDS Integers, Sequences, SequencesExt

CONSTANTS SlMaxRevision, SlMaxProposals

ASSUME SlAssumption == SlMaxRevision \in Nat /\ SlMaxProposals \in Nat

VARIABLES slLog,        \* the mutation of every revision
          slStates,     \* the authority's snapshot before the first and after each
          slReplica,    \* the replica's revision and snapshot; revision -1: none yet
          slProposals,  \* what the executor has proposed: its base and operations
          slCommitted   \* per proposal: the revisions it became

slAuthority == <<slLog, slStates>>
slVars == <<slAuthority, slReplica, slProposals, slCommitted>>

\* A run, a child of it, and a run that retries it.
SlRuns == {"top", "child", "retry"}
SlParent(x) == IF x = "child" THEN "top" ELSE "none"
SlRetryOf(x) == IF x = "retry" THEN "top" ELSE "none"
SlItemRuns == {"top", "child"}   \* the runs that have an item
SlAsker == "child"               \* the run of the interaction

SlRunStatuses == {"active", "ended"}
SlItemStates == {"active", "ended", "enriched"}   \* enriched: ended, with other content
SlAskStatuses == {"open", "resolved", "expired"}
SlSnapshots ==
  [session : {"open", "closed"}, run : [SlRuns -> SlRunStatuses \cup {"none"}],
   item : [SlItemRuns -> SlItemStates \cup {"none"}], ask : SlAskStatuses \cup {"none"}]

SlOp(on, id, to) == [on |-> on, id |-> id, to |-> to]
SlRemovals == {SlOp("remove", x, "none") : x \in SlRuns}
SlPuts ==
  {SlOp("session", "session", "closed")}
  \cup {SlOp("run", x, s) : x \in SlRuns, s \in SlRunStatuses}
  \cup {SlOp("item", x, s) : x \in SlItemRuns, s \in SlItemStates}
  \cup {SlOp("ask", "ask", s) : s \in SlAskStatuses}
SlOps == SlPuts \cup SlRemovals
\* One operation, or any with one on a run after it.
SlMutations ==
  {<<a>> : a \in SlOps} \cup {<<a, b>> : a \in SlOps, b \in {o \in SlOps : o.on \in {"run", "remove"}}}

SlRevision == Len(slLog)
SlNow == slStates[SlRevision + 1]

----------------------------------------------------------------------------
\* What a mutation does to a snapshot.

SlTerminal(status) == status = "ended"
SlTree(x) == {x} \cup {y \in SlRuns : SlParent(y) = x}

\* The transition tables.
SlMayMove(s, op) ==
  CASE op.on = "session" -> s.session = "open"
    [] op.on = "run" /\ s.run[op.id] = "none" -> op.to = "active"
    [] op.on = "run" /\ s.run[op.id] # "none" -> s.run[op.id] = "active"
    [] op.on = "item" -> s.item[op.id] \in {"none", "active"} \/ {s.item[op.id], op.to} = {"ended", "enriched"}
    [] op.on = "ask" /\ s.ask = "none" -> op.to = "open"
    [] op.on = "ask" /\ s.ask # "none" -> s.ask = "open"
    [] op.on = "remove" -> /\ s.run[op.id] # "none"
                           /\ \A y \in SlTree(op.id) : s.run[y] # "active"

SlRemoved(s, gone) ==
  [s EXCEPT !.run = [x \in SlRuns |-> IF x \in gone THEN "none" ELSE s.run[x]],
            !.item = [x \in SlItemRuns |-> IF x \in gone THEN "none" ELSE s.item[x]],
            !.ask = IF SlAsker \in gone THEN "none" ELSE @]

SlMoved(s, op) ==
  CASE op.on = "session" -> [s EXCEPT !.session = op.to]
    [] op.on = "run" -> [s EXCEPT !.run[op.id] = op.to]
    [] op.on = "item" -> [s EXCEPT !.item[op.id] = op.to]
    [] op.on = "ask" -> [s EXCEPT !.ask = op.to]
    [] op.on = "remove" -> SlRemoved(s, SlTree(op.id))

\* A mutation compacts or writes, never both, and names nothing twice.
SlTarget(op) == IF op.on = "remove" THEN <<"run", op.id>> ELSE <<op.on, op.id>>
SlIsWellFormed(m) ==
  /\ (\A i \in DOMAIN m : m[i].on = "remove") \/ (\A i \in DOMAIN m : m[i].on # "remove")
  /\ \A i, j \in DOMAIN m : i # j => SlTarget(m[i]) # SlTarget(m[j])

\* Mutant: items of ended runs are written.
SlWritesAnywhere(s, m) == SlRuns
\* Items are written in runs that were active before the mutation, or that it starts.
SlWritable(s, m) == {x \in SlRuns : s.run[x] \in {"none", "active"}}
SlWritesOpenRuns(s, m) == \A i \in DOMAIN m : m[i].on = "item" => m[i].id \in SlWritable(s, m)

\* A run that is started as a retry has a run to retry.
SlRetriesExist(s, m, after) ==
  \A i \in DOMAIN m :
    (m[i].on = "run" /\ s.run[m[i].id] = "none" /\ SlRetryOf(m[i].id) # "none")
      => SlTerminal(after.run[SlRetryOf(m[i].id)])

SlIsValid(s) ==
  /\ ~(s.run["top"] = "active" /\ s.run["retry"] = "active")
  /\ \A x \in SlRuns : s.run[x] # "none" =>
       /\ SlParent(x) # "none" => /\ s.run[SlParent(x)] # "none"
                                  /\ s.run[x] = "active" => s.run[SlParent(x)] = "active"
       /\ SlRetryOf(x) # "none" => s.run[SlRetryOf(x)] # "active"
  /\ \A x \in SlItemRuns : s.item[x] # "none" =>
       s.run[x] # "none" /\ (s.item[x] = "active" => s.run[x] = "active")
  /\ s.ask # "none" => s.run[SlAsker] # "none" /\ (s.ask = "open" => s.run[SlAsker] = "active")
  /\ s.session = "closed" => (\A x \in SlRuns : s.run[x] # "active") /\ s.ask # "open"

\* The snapshot after a mutation; it is admitted where every operation is, in its order.
SlThrough(s, m) ==
  FoldLeft(LAMBDA at, op : [ok |-> at.ok /\ SlMayMove(at.s, op),
                            s |-> IF SlMayMove(at.s, op) THEN SlMoved(at.s, op) ELSE at.s],
           [ok |-> TRUE, s |-> s], m)
SlAfter(s, m) == SlThrough(s, m).s
SlAdmits(s, m) ==
  /\ SlIsWellFormed(m) /\ SlWritesOpenRuns(s, m)
  /\ SlThrough(s, m).ok /\ SlRetriesExist(s, m, SlAfter(s, m)) /\ SlIsValid(SlAfter(s, m))

----------------------------------------------------------------------------
SlStart == [session |-> "open",
            run |-> [x \in SlRuns |-> IF x = "retry" THEN "none" ELSE "active"],
            item |-> [x \in SlItemRuns |-> IF x = "child" THEN "active" ELSE "none"],
            ask |-> "none"]
SlLater == [SlStart EXCEPT !.run = [x \in SlRuns |-> IF x = "retry" THEN "active" ELSE "ended"],
                           !.item = [x \in SlItemRuns |-> "ended"], !.ask = "expired"]
SlNoReplica == [revision |-> -1, s |-> SlStart]

SlInit ==
  /\ slLog = <<>> /\ slStates \in {<<SlStart>>, <<SlLater>>}
  /\ slReplica = SlNoReplica /\ slProposals = <<>> /\ slCommitted = <<>>

SlCommit(m) ==
  /\ SlRevision < SlMaxRevision /\ SlAdmits(SlNow, m)
  /\ slLog' = Append(slLog, m) /\ slStates' = Append(slStates, SlAfter(SlNow, m))

\* The coordinator's own mutation; one that changes nothing is left out of the model.
SlCoordinate(m) ==
  /\ SlCommit(m) /\ SlAfter(SlNow, m) # SlNow
  /\ UNCHANGED <<slReplica, slProposals, slCommitted>>

\* An executor compacts nothing, leaves the session alone, and resolves no interaction.
SlMayPropose(op) == op.on \in {"run", "item", "ask"} /\ op.to # "resolved"

SlPropose(m) ==
  /\ slReplica.revision >= 0 /\ Len(slProposals) < SlMaxProposals
  /\ \A i \in DOMAIN m : SlMayPropose(m[i])
  /\ SlAdmits(slReplica.s, m)
  /\ slProposals' = Append(slProposals, [base |-> slReplica.revision, ops |-> m])
  /\ slCommitted' = Append(slCommitted, {})
  /\ UNCHANGED <<slAuthority, slReplica>>

\* Mutant: a proposal for another revision is accepted.
SlIsAlwaysCurrent(n) == TRUE
\* The proposal arrives, once, again or late; one made for another revision is refused.
SlIsCurrent(n) == slProposals[n].base = SlRevision
SlAccept(n) ==
  /\ SlIsCurrent(n) /\ SlCommit(slProposals[n].ops)
  /\ slCommitted' = [slCommitted EXCEPT ![n] = @ \cup {SlRevision + 1}]
  /\ UNCHANGED <<slReplica, slProposals>>

----------------------------------------------------------------------------
\* The replica.

\* Mutant: an older snapshot replaces a newer one.
SlTakesAny(revision) == TRUE
SlIsNewer(revision) == revision >= slReplica.revision
SlSnapshotArrives(n) ==
  /\ n \in 0..SlRevision /\ SlIsNewer(n)
  /\ slReplica' = [revision |-> n, s |-> slStates[n + 1]]
  /\ UNCHANGED <<slAuthority, slProposals, slCommitted>>

\* Mutant: a batch is applied although revisions are missing before it.
SlCoversAnything(base, through) == through > slReplica.revision
\* A batch holds the revisions after base; those the replica has are left out.
SlCovers(base, through) == base <= slReplica.revision /\ through > slReplica.revision
SlBatch(base, through) == [i \in 1..(through - base) |-> base + i]
SlUnseen(batch) == SelectSeq(batch, LAMBDA v : v > slReplica.revision)
SlReplayed(s, revisions) == FoldLeft(LAMBDA at, v : SlAfter(at, slLog[v]), s, revisions)

SlBatchArrives(base, through) ==
  /\ slReplica.revision >= 0 /\ 0 <= base /\ through <= SlRevision /\ SlCovers(base, through)
  /\ slReplica' = [revision |-> through,
                    s |-> SlReplayed(slReplica.s, SlUnseen(SlBatch(base, through)))]
  /\ UNCHANGED <<slAuthority, slProposals, slCommitted>>

SlSync ==
  \/ \E n \in 0..SlRevision : SlSnapshotArrives(n)
  \/ \E base, through \in 0..SlRevision : SlBatchArrives(base, through)
SlNext ==
  \/ \E m \in SlMutations : SlCoordinate(m) \/ SlPropose(m)
  \/ \E n \in DOMAIN slProposals : SlAccept(n)
  \/ SlSync

----------------------------------------------------------------------------
\* Whatever was lost, late, repeated or out of order, a replica is the authority as it was at
\* the replica's revision.
SlReplicaIsTrue == slReplica.revision >= 0 => slReplica.s = slStates[slReplica.revision + 1]

\* However often a proposal arrives it is committed at most once, and directly after the
\* revision it was made for: nothing came between what the executor saw and what it did.
SlTakesEffectOnce ==
  \A n \in DOMAIN slProposals : \A v, w \in slCommitted[n] : v = w /\ v = slProposals[n].base + 1

\* A run that has ended keeps its outcome and its items until both are compacted away, and a
\* replica never goes back to an earlier revision.
SlEndedStands ==
  [][LET old == SlNow  new == SlNow' IN
     /\ \A x \in SlRuns : SlTerminal(old.run[x]) =>
          \/ new.run[x] = "none" /\ (x \in SlItemRuns => new.item[x] = "none")
          \/ new.run[x] = old.run[x] /\ (x \in SlItemRuns => new.item[x] = old.item[x])
     /\ slReplica'.revision >= slReplica.revision]_slVars

\* The replica is behind the authority.
SlAwaited == slReplica.revision # SlRevision
=============================================================================
