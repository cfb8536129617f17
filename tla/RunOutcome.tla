----------------------------- MODULE RunOutcome -----------------------------
(***************************************************************************)
(* What the driver promises the control plane about the outcome of a run,  *)
(* without saying how: runs are opened one after the other (a run is named *)
(* by its revision, because a run id may be driven again), a cancellation  *)
(* may be claimed for the open run, and a run is decided at most once, by  *)
(* one status that never changes and that is never "completed" once the    *)
(* cancellation was claimed.                                               *)
(***************************************************************************)
EXTENDS Naturals

CONSTANT Status            \* the statuses a run can end with

VARIABLES
  opened,                  \* revision of the latest opened run, 0 before the first
  claims,                  \* revisions whose cancellation was claimed
  decided                  \* set of [revision, status]: the decisions taken

outcomeVars == <<opened, claims, decided>>

Undecided == \A d \in decided : d.revision # opened

OutcomeInit ==
  /\ opened = 0
  /\ claims = {}
  /\ decided = {}

Open ==
  /\ opened' = opened + 1
  /\ UNCHANGED <<claims, decided>>

Claim ==
  /\ opened \notin claims
  /\ opened > 0
  /\ Undecided
  /\ claims' = claims \cup {opened}
  /\ UNCHANGED <<opened, decided>>

Decide(status) ==
  /\ opened > 0
  /\ Undecided
  /\ opened \in claims => status # "completed"
  /\ decided' = decided \cup {[revision |-> opened, status |-> status]}
  /\ UNCHANGED <<opened, claims>>

OutcomeNext == Open \/ Claim \/ \E status \in Status : Decide(status)

OutcomeSpec == OutcomeInit /\ [][OutcomeNext]_outcomeVars
=============================================================================
