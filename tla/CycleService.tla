---------------------------- MODULE CycleService ----------------------------
(* What a caller of Transport::BlockingCycle relies on: the frames of a    *)
(* call go out on the bus once, while the call lasts, and the call returns *)
(* with the replies to those frames.                                       *)
EXTENDS Naturals

CONSTANT MaxCalls      \* bound: calls the client makes

VARIABLES
    phase,      \* how far the call in progress has come
    calls,      \* calls made so far; the last is the one in progress
    exchanged,  \* how often the frames of each call went out
    replies     \* the call whose replies the client holds, 0 before the first

vars == <<phase, calls, exchanged, replies>>

Init ==
    /\ phase = "idle"
    /\ calls = 0
    /\ exchanged = [c \in 1..MaxCalls |-> 0]
    /\ replies = 0

Call ==
    /\ phase = "idle" /\ calls < MaxCalls
    /\ phase' = "called"
    /\ calls' = calls + 1
    /\ UNCHANGED <<exchanged, replies>>

Exchange ==
    /\ phase = "called"
    /\ phase' = "exchanged"
    /\ exchanged' = [exchanged EXCEPT ![calls] = @ + 1]
    /\ UNCHANGED <<calls, replies>>

Deliver ==
    /\ phase = "exchanged"
    /\ phase' = "answered"
    /\ replies' = calls
    /\ UNCHANGED <<calls, exchanged>>

Return ==
    /\ phase = "answered"
    /\ phase' = "idle"
    /\ UNCHANGED <<calls, exchanged, replies>>

Next == Call \/ Exchange \/ Deliver \/ Return

Spec == Init /\ [][Next]_vars
=============================================================================
