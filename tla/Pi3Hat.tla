------------------------------- MODULE Pi3Hat -------------------------------
(***************************************************************************)
(* Pi3Hat::Cycle, one exchange of CAN frames with the motors, as the       *)
(* transport's child thread calls it, and what Telemetry::cycle makes of   *)
(* the replies.                                                            *)
(*                                                                         *)
(* The hat's processors queue the replies of the motors on their buses.    *)
(* Replies may be lost or come late, after the cycle that asked for them   *)
(* has returned.  A reply carries its age: how many cycles began since the *)
(* command it answers was sent.                                            *)
(***************************************************************************)
EXTENDS Integers, Sequences, FiniteSets

CONSTANTS
    Motor,
    P,              \* processors, numbered in the order they are read
    At,             \* the processor of each motor's bus
    Forced,         \* processors of the forced check: those of buses 1 to 4
    Batch,          \* queue sizes a processor reports at once
    MinRoom,        \* room for replies when nothing was sent before
    MaxAge,         \* bound: ages are told apart up to here
    MaxDisruptions  \* bound: replies lost or late

Proc == 1..P

ASSUME HatAssumption ==
    /\ IsFiniteSet(Motor)
    /\ P \in Nat \ {0}
    /\ At \in [Motor -> Proc]
    /\ Forced \subseteq Proc
    /\ {Batch, MinRoom, MaxAge} \subseteq Nat \ {0}
    /\ MaxDisruptions \in Nat

VARIABLES
    pc,             \* where Cycle stands
    at,             \* the processor it reads next
    tx,             \* the motors it commands; none to clear stale replies
    sent,           \* tx_can_.size() of the cycle before
    room,           \* rx_can_.size()
    bus_replies,    \* replies still expected of each processor
    rx_can,         \* frames read so far
    flight,         \* replies on the buses
    queue,          \* replies each processor holds
    shown,          \* the age of the data last reported of each motor
    disruptions

netVars == <<flight, queue>>
vars == <<pc, at, tx, sent, room, bus_replies, rx_can, netVars, shown, disruptions>>

Larger(a, b) == IF a >= b THEN a ELSE b
Smallest(S) == CHOOSE x \in S : \A y \in S : x <= y
Aged(a) == IF a < MaxAge THEN a + 1 ELSE a
Older(s) == [i \in DOMAIN s |-> [s[i] EXCEPT !.age = Aged(@)]]
Frame == [motor : Motor, age : 0..MaxAge]

(* A robot that restarts may find replies meant for its predecessor.       *)
Init ==
    /\ pc = "idle" /\ at = 1
    /\ tx = {} /\ sent = 0 /\ room = 0
    /\ bus_replies = [p \in Proc |-> 0]
    /\ rx_can = <<>>
    /\ flight \in SUBSET {[motor |-> m, age |-> 1] : m \in Motor}
    /\ queue = [p \in Proc |-> <<>>]
    /\ shown = [m \in Motor |-> MaxAge]
    /\ disruptions = 0

(* The environment's budget of lost and late replies. *)
Disrupts(b) ==
    IF b THEN disruptions < MaxDisruptions /\ disruptions' = disruptions + 1
    ELSE UNCHANGED disruptions

----------------------------------------------------------------------------
(* CHILD_Cycle makes room by the number of frames sent before, and Cycle   *)
(* counts the replies it expects.  The first call, of the constructor of   *)
(* the transport, sends nothing and clears stale replies; later ones       *)
(* command one motor (SetStop) or all (Telemetry::cycle).  A reply still   *)
(* on a bus when the next cycle begins is late; one of MaxAge is given up  *)
(* by the bus.                                                             *)
\* Variant: the replies of the cycle before are kept.
RepliesKept == rx_can' = Older(rx_can)
RepliesCleared == rx_can' = <<>>

Begin ==
    /\ pc = "idle"
    /\ tx' \in IF room = 0 THEN {{}} ELSE {Motor} \cup {{m} : m \in Motor}
    /\ room' = Larger(MinRoom, 2 * sent)
    /\ sent' = Cardinality(tx')
    /\ bus_replies' = [p \in Proc |-> Cardinality({m \in tx' : At[m] = p})]
    /\ RepliesCleared
    /\ pc' = "flush" /\ at' = 1
    /\ Disrupts(flight # {})
    /\ flight' = {[f EXCEPT !.age = Aged(@)] : f \in {g \in flight : g.age < MaxAge}}
    /\ queue' = [p \in Proc |-> Older(queue[p])]
    /\ shown' = [m \in Motor |-> Aged(shown[m])]

(* Processors that should answer, and those of the constructor's forced    *)
(* check.                                                                  *)
Asked(p) == (tx = {} /\ p \in Forced) \/ \E m \in tx : At[m] = p

\* Variant: the room left is not tested between two frames.
TakenUnchecked(p) == Smallest({Batch, Len(queue[p])})
Taken(p) ==
    IF Asked(p) THEN Smallest({Batch, Len(queue[p]), Larger(0, room - Len(rx_can))}) ELSE 0

(* ReadCanFrames: one pass over the queue sizes the processor reports.     *)
ReadCanFrames(p) ==
    /\ rx_can' = rx_can \o SubSeq(queue[p], 1, Taken(p))
    /\ queue' = [queue EXCEPT ![p] = SubSeq(@, Taken(p) + 1, Len(@))]

Advance(next) ==
    IF at < P THEN at' = at + 1 /\ pc' = pc ELSE at' = 1 /\ pc' = next

\* Variant: frames found before sending count as replies.
FlushCounts == bus_replies' = [bus_replies EXCEPT ![at] = @ - Taken(at)]
FlushNotCounted == UNCHANGED bus_replies

FlushReadCan ==
    /\ pc = "flush"
    /\ ReadCanFrames(at)
    /\ Advance("send")
    /\ FlushNotCounted
    /\ UNCHANGED <<tx, sent, room, flight, shown, disruptions>>

SendCan ==
    /\ pc = "send"
    /\ pc' = "read"
    /\ \E lost \in SUBSET tx :
        /\ Disrupts(lost # {})
        /\ flight' = flight \cup {[motor |-> m, age |-> 0] : m \in tx \ lost}
    /\ UNCHANGED <<at, tx, sent, room, bus_replies, rx_can, queue, shown>>

ReadCan ==
    /\ pc = "read"
    /\ ReadCanFrames(at)
    /\ bus_replies' = [bus_replies EXCEPT ![at] = @ - Taken(at)]
    /\ Advance("check")
    /\ UNCHANGED <<tx, sent, room, flight, shown, disruptions>>

Full == Len(rx_can) >= room
Complete == \A p \in Proc : bus_replies[p] <= 0

(* Another round: replies are expected, or the minimum waits are not over. *)
ReadAgain ==
    /\ pc = "check"
    /\ ~Full
    /\ pc' = "read"
    /\ UNCHANGED <<at, tx, sent, room, bus_replies, rx_can, netVars, shown, disruptions>>

(* Telemetry::cycle keeps, of each motor, what the last frame said. *)
Reported == {rx_can[i].motor : i \in DOMAIN rx_can}
FramesOf(m) == {i \in DOMAIN rx_can : rx_can[i].motor = m}
\* Variant: the first frame is kept, as emplace would.
FirstOf(m) == CHOOSE i \in FramesOf(m) : \A j \in FramesOf(m) : i <= j
LastOf(m) == CHOOSE i \in FramesOf(m) : \A j \in FramesOf(m) : i >= j

Return ==
    /\ pc' = "idle"
    /\ shown' = [m \in Motor |-> IF m \in Reported THEN rx_can[LastOf(m)].age ELSE shown[m]]
    /\ UNCHANGED <<at, tx, sent, room, bus_replies, rx_can, netVars>>

ReturnFull ==
    /\ pc = "check"
    /\ Full
    /\ Return
    /\ UNCHANGED disruptions

ReturnComplete ==
    /\ pc = "check"
    /\ ~Full /\ Complete
    /\ Return
    /\ UNCHANGED disruptions

(* The timeout: the replies still on their way, or queued since the last   *)
(* reading, are late.                                                      *)
ReturnTimeout ==
    /\ pc = "check"
    /\ ~Full /\ ~Complete
    /\ Disrupts(flight # {} \/ \E p \in Proc : Asked(p) /\ queue[p] # <<>>)
    /\ Return

(* A processor receives a reply; those of one motor stay in order.         *)
Receive ==
    /\ \E f \in flight :
        /\ \A g \in flight : g.motor = f.motor => g.age <= f.age
        /\ flight' = flight \ {f}
        /\ queue' = [queue EXCEPT ![At[f.motor]] = Append(@, f)]
    /\ UNCHANGED <<pc, at, tx, sent, room, bus_replies, rx_can, shown, disruptions>>

Returns == ReturnFull \/ ReturnComplete \/ ReturnTimeout
Next == Begin \/ FlushReadCan \/ SendCan \/ ReadCan \/ ReadAgain \/ Returns \/ Receive

Spec == Init /\ [][Next]_vars

(* The thread runs, replies on a bus arrive, and the clock ends the wait.  *)
FairSpec == Spec /\ WF_vars(Next) /\ SF_vars(Returns) /\ WF_vars(Receive)

----------------------------------------------------------------------------
(* Correctness. *)

TypeOK ==
    /\ pc \in {"idle", "flush", "send", "read", "check"}
    /\ at \in Proc
    /\ tx \subseteq Motor
    /\ sent \in Nat /\ room \in Nat
    /\ bus_replies \in [Proc -> Int]
    /\ rx_can \in Seq(Frame)
    /\ flight \subseteq Frame
    /\ queue \in [Proc -> Seq(Frame)]
    /\ shown \in [Motor -> 0..MaxAge]
    /\ disruptions \in 0..MaxDisruptions

(* Frames are stored within rx_can_, whatever the queues hold before and   *)
(* while the cycle reads (pi3hat.cc:1524-1582).                            *)
RoomRespected == Len(rx_can) <= room

(* What telemetry reports of a motor is never older than, or the same as,  *)
(* what it reported before (pi3hat.cc:1701-1736, Telemetry.cpp:56-69).     *)
NoStepBack ==
    [][Returns => \A m \in Reported : shown'[m] < shown[m] \/ shown[m] = MaxAge]_vars

(* It reports the newest of the frames read, stale ones among them.        *)
NewestReported ==
    [][Returns => \A i \in DOMAIN rx_can : shown'[rx_can[i].motor] <= rx_can[i].age]_vars

(* Late replies do not set telemetry back for ever: once the buses are     *)
(* quiet, every cycle reports what its own commands were answered          *)
(* (pi3hat.cc:1585-1608).                                                  *)
FreshAgain == <>[](pc = "idle" => \A m \in tx : shown[m] = 0)
=============================================================================
