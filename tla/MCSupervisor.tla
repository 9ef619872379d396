----------------------------- MODULE MCSupervisor ---------------------------
(* Instances of Supervisor for TLC. *)
EXTENDS Supervisor

CONSTANTS call, call2, child

TurnCalls == {call, call2}
ChildCalls == {<<child, call>>}

Controls(id, type, c) == [id |-> id, type |-> type, call |-> c]
Cancel == Controls("cancel", "cancel", "none")
Steer == Controls("steer", "steer", "none")
Result(c, id) == Controls(id, "tool_result", c)

\* One turn with everything in it, and two turns with a stop in between.
TurnCommands == {Cancel, Steer, Result(call, "r1"), Result(call2, "r2"),
                 Result(<<child, call>>, "r3")}
HandoverCommands == {Cancel}
=============================================================================
