---------------------------- MODULE MCEventPublisher ----------------------------
(* Constants of the event publisher's runs.                                *)
EXTENDS EventPublisher

Draft(id, of, kind, body) == [id |-> id, run |-> of, kind |-> kind, body |-> body]
MCBatches ==
  {<<Draft(1, 1, "event", "a")>>,
   <<Draft(3, NoRun, "event", "bad"), Draft(0, NoRun, "delta", "d"), Draft(2, NoRun, "event", "b")>>}
Ending(closures, kind, revocable) ==
  [closures |-> closures, terminal |-> Draft(0, NoRun, kind, "end"), revocable |-> revocable]
MCEndings ==
  {Ending(<< >>, "completed", TRUE), Ending(<<Draft(0, NoRun, "event", "b")>>, "cancelled", FALSE)}
=============================================================================
