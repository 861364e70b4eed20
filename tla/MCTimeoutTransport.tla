------------------------- MODULE MCTimeoutTransport -------------------------
(* TimeoutTransport with two motors and calls that mix frames which ask    *)
(* for an answer with frames that do not.                                  *)
EXTENDS TimeoutTransport

Ask(m) == [destination |-> m, reply_required |-> TRUE]
Tell(m) == [destination |-> m, reply_required |-> FALSE]

MCMotor == {1, 2}
MCPipelines == {1, -1}
MCCallFrames == {<<>>, <<Ask(1), Ask(2)>>, <<Tell(1), Ask(1)>>}
=============================================================================
