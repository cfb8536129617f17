---------------------------- MODULE MCDispatcher ----------------------------
(* Two instances of the dispatcher. Control: one run, an MCP command of it *)
(* and every command that controls it, each delivered once or twice, while *)
(* the driver may be interrupted. Handoff: two inputs of two runs, a       *)
(* cancellation of the second and a stop, so that every handoff, cancelled *)
(* or not, races the first run's end and the shutdown.                     *)
EXTENDS CommandDispatcher
CONSTANTS r1, r2
ControlCommands == {[id |-> "in1", kind |-> "input.start", run |-> r1],
                    [id |-> "cancel1", kind |-> "turn.cancel", run |-> r1],
                    [id |-> "permission1", kind |-> "permission.resolve", run |-> r1],
                    [id |-> "mcp1", kind |-> "mcp.execute", run |-> r1],
                    [id |-> "stop", kind |-> "session.stop", run |-> NoRun]}
FirstInput == {[id |-> "in1", kind |-> "input.start", run |-> r1]}
HandoffCommands == {[id |-> "in1", kind |-> "input.start", run |-> r1],
                    [id |-> "in2", kind |-> "input.start", run |-> r2],
                    [id |-> "cancel2", kind |-> "turn.cancel", run |-> r2],
                    [id |-> "stop", kind |-> "session.stop", run |-> NoRun]}
=============================================================================
