------------------------------ MODULE MCLogger ------------------------------
(* Instances of Logger: a component and one sub-component. *)
EXTENDS Logger

CONSTANTS main, sub

(* initialize names components only, or both, in either order of failure. *)
OneComponent == {<<main>>}
BothComponents == {<<main>>, <<main, sub>>, <<sub, main>>}
=============================================================================
