------------------------------ MODULE MCPi3Hat ------------------------------
(* Instances of Pi3Hat: how the motors' buses are wired to processors. *)
EXTENDS Pi3Hat

SharedProcessor == [m \in Motor |-> IF m <= 2 THEN 1 ELSE 2]
=============================================================================
