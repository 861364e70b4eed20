--------------------------- MODULE Pi3Hat_proofs ---------------------------
(* Proofs about Pi3Hat: its types, that frames stay within rx_can_, and     *)
(* that telemetry neither steps back nor passes over a newer frame.         *)
(*                                                                          *)
(* The last two rest on the order of one motor's frames.  What was shown    *)
(* last, the store, the queue of the processor and the bus are passed in    *)
(* this order, and ages fall along it (OrderInv), but for those that reached *)
(* MaxAge, where they are no longer told apart.                             *)
EXTENDS Pi3Hat, FiniteSetTheorems, WellFoundedInduction, TLAPS

(* Smallest of three lengths is one of them and no more than any. *)
LEMMA SmallestOfThree ==
    ASSUME NEW a \in Nat, NEW b \in Nat, NEW c \in Nat
    PROVE  /\ Smallest({a, b, c}) \in Nat
           /\ Smallest({a, b, c}) <= a
           /\ Smallest({a, b, c}) <= b
           /\ Smallest({a, b, c}) <= c
<1>1. \E x \in {a, b, c} : \A y \in {a, b, c} : x <= y
    <2>1. CASE a <= b /\ a <= c BY <2>1
    <2>2. CASE b <= a /\ b <= c BY <2>2
    <2>3. CASE c <= a /\ c <= b BY <2>3
    <2> QED BY <2>1, <2>2, <2>3
<1>2. /\ Smallest({a, b, c}) \in {a, b, c}
      /\ \A y \in {a, b, c} : Smallest({a, b, c}) <= y
    BY <1>1, Zenon DEF Smallest
<1> QED BY <1>2

(* An older frame is a frame; so it is for sequences of frames. *)
LEMMA OlderFrames ==
    ASSUME NEW s \in Seq(Frame)
    PROVE  Older(s) \in Seq(Frame)
<1>1. \A i \in DOMAIN s : [s[i] EXCEPT !.age = Aged(@)] \in Frame
    <2> TAKE i \in DOMAIN s
    <2>1. s[i] \in Frame OBVIOUS
    <2>2. s[i].age \in 0..MaxAge /\ s[i].motor \in Motor BY <2>1 DEF Frame
    <2>3. Aged(s[i].age) \in 0..MaxAge BY <2>2, HatAssumption DEF Aged
    <2> QED BY <2>1, <2>2, <2>3 DEF Frame
<1>2. DOMAIN s = 1..Len(s) /\ Len(s) \in Nat OBVIOUS
<1>3. Older(s) \in [1..Len(s) -> Frame] BY <1>1, <1>2 DEF Older
<1> QED BY <1>2, <1>3

(* How many frames one pass takes from a queue. *)
LEMMA TakenBounds ==
    ASSUME TypeOK, RoomRespected, NEW p \in Proc
    PROVE  /\ Taken(p) \in Nat
           /\ Taken(p) <= Len(queue[p])
           /\ Len(rx_can) + Taken(p) <= room
<1>1. Len(queue[p]) \in Nat /\ Len(rx_can) \in Nat /\ room \in Nat /\ Batch \in Nat
    BY HatAssumption DEF TypeOK
<1>2. Larger(0, room - Len(rx_can)) = room - Len(rx_can) /\ room - Len(rx_can) \in Nat
    BY <1>1 DEF Larger, RoomRespected
<1>3. CASE Asked(p)
    <2>1. Taken(p) = Smallest({Batch, Len(queue[p]), room - Len(rx_can)})
        BY <1>2, <1>3 DEF Taken
    <2>2. /\ Taken(p) \in Nat /\ Taken(p) <= Len(queue[p])
          /\ Taken(p) <= room - Len(rx_can)
        <3> DEFINE l == Len(queue[p])
                   r == room - Len(rx_can)
        <3>1. LET s == Smallest({Batch, l, r})
              IN  s \in Nat /\ s <= l /\ s <= r
            <4>1. Batch \in Nat /\ l \in Nat /\ r \in Nat BY <1>1, <1>2
            <4> HIDE DEF l, r
            <4> QED BY <4>1, SmallestOfThree
        <3> QED BY <2>1, <3>1
    <2> QED BY <2>2, <1>1
<1>4. CASE ~Asked(p)
    <2>1. Taken(p) = 0 BY <1>4 DEF Taken
    <2> QED BY <2>1, <1>1 DEF RoomRespected
<1> QED BY <1>3, <1>4

(* A pass keeps the frames frames and the store within its room. *)
LEMMA PassKeeps ==
    ASSUME TypeOK, RoomRespected, NEW p \in Proc, ReadCanFrames(p)
    PROVE  /\ rx_can' \in Seq(Frame)
           /\ queue' \in [Proc -> Seq(Frame)]
           /\ Len(rx_can') <= room
<1> DEFINE q == queue[p]
           n == Taken(p)
<1>1. q \in Seq(Frame) /\ rx_can \in Seq(Frame) BY DEF TypeOK
<1>2. n \in Nat /\ n <= Len(q) /\ Len(rx_can) + n <= room BY TakenBounds
<1>3. SubSeq(q, 1, n) \in Seq(Frame) /\ Len(SubSeq(q, 1, n)) = n BY <1>1, <1>2
<1>4. SubSeq(q, n + 1, Len(q)) \in Seq(Frame) BY <1>1, <1>2
<1>5. rx_can' = rx_can \o SubSeq(q, 1, n) BY DEF ReadCanFrames
<1>6. queue' = [queue EXCEPT ![p] = SubSeq(q, n + 1, Len(q))] BY DEF ReadCanFrames
<1>7. queue' \in [Proc -> Seq(Frame)] BY <1>4, <1>6 DEF TypeOK
<1>8. rx_can' \in Seq(Frame) /\ Len(rx_can') = Len(rx_can) + n BY <1>1, <1>3, <1>5
<1> QED BY <1>2, <1>7, <1>8

(* A bounded set of numbers that is not empty has a greatest one. *)
LEMMA LastExists ==
    ASSUME NEW n \in Nat, NEW S, S \subseteq 1..n, S # {}
    PROVE  \E i \in S : \A j \in S : i >= j
<1> DEFINE T == {n - i : i \in S}
           R == OpToRel(<, Nat)
<1>1. T \subseteq Nat OBVIOUS
<1>2. T # {} OBVIOUS
<1>3. IsWellFoundedOn(R, Nat) BY NatLessThanWellFounded
<1>4. \E x \in T : \A y \in T : ~(<<y, x>> \in R)
    <2> HIDE DEF R, T
    <2> QED BY <1>1, <1>2, <1>3, WFMin
<1>5. PICK i \in S : \A j \in S : ~(<<n - j, n - i>> \in R) BY <1>4
<1>6. \A j \in S : n - j \in Nat /\ n - i \in Nat OBVIOUS
<1>7. \A j \in S : ~(n - j < n - i) BY <1>5, <1>6 DEF OpToRel
<1>8. \A j \in S : i >= j BY <1>7
<1> QED BY <1>8

(* The last frame of a motor that answered is one of the frames: there is  *)
(* a last one because the positions are bounded.                           *)
LEMMA LastIsAFrame ==
    ASSUME TypeOK, NEW m \in Reported
    PROVE  LastOf(m) \in FramesOf(m) /\ LastOf(m) \in DOMAIN rx_can
<1>1. FramesOf(m) \subseteq 1..Len(rx_can) /\ Len(rx_can) \in Nat
    BY DEF FramesOf, TypeOK
<1>2. FramesOf(m) # {} BY DEF FramesOf, Reported
<1>3. \E i \in FramesOf(m) : \A j \in FramesOf(m) : i >= j
    BY <1>1, <1>2, LastExists
<1>4. LastOf(m) \in FramesOf(m) BY <1>3, Zenon DEF LastOf
<1> QED BY <1>4 DEF FramesOf

(* The inductive invariant needs nothing but the types. *)
IInv == TypeOK /\ RoomRespected

(* Types and room are kept by every step of an exchange (pi3hat.cc:1524-   *)
(* 1582, 1701-1736).                                                       *)
THEOREM Invariance == Spec => []IInv
<1>1. Init => IInv
    <2> SUFFICES ASSUME Init PROVE IInv OBVIOUS
    <2>1. 1 \in Proc /\ MaxAge \in 0..MaxAge /\ 1 \in 0..MaxAge /\ 0 \in 0..MaxDisruptions
        BY HatAssumption DEF Proc
    <2>2. <<>> \in Seq(Frame) OBVIOUS
    <2>3. flight \subseteq Frame BY <2>1 DEF Init, Frame
    <2>4. queue \in [Proc -> Seq(Frame)] BY <2>2 DEF Init
    <2>5. shown \in [Motor -> 0..MaxAge] BY <2>1 DEF Init
    <2>6. Len(rx_can) <= room BY DEF Init
    <2> QED BY <2>1, <2>2, <2>3, <2>4, <2>5, <2>6 DEF Init, IInv, TypeOK, RoomRespected
<1>2. IInv /\ [Next]_vars => IInv'
    <2> SUFFICES ASSUME TypeOK, RoomRespected, [Next]_vars PROVE IInv'
        BY DEF IInv
    <2> USE DEF IInv
    <2>1. CASE Begin
        <3>1. tx' \subseteq Motor BY <2>1 DEF Begin
        <3>2. IsFiniteSet(tx') BY <3>1, HatAssumption, FS_Subset
        <3>3. Cardinality(tx') \in Nat BY <3>2, FS_CardinalityType
        <3>4. bus_replies' \in [Proc -> Int]
            <4>1. \A p \in Proc : Cardinality({m \in tx' : At[m] = p}) \in Nat
                BY <3>2, FS_Subset, FS_CardinalityType
            <4>2. bus_replies' = [p \in Proc |-> Cardinality({m \in tx' : At[m] = p})]
                BY <2>1 DEF Begin
            <4> QED BY <4>1, <4>2
        <3>5. room' \in Nat BY <2>1, HatAssumption DEF Begin, Larger, TypeOK
        <3>6. sent' \in Nat BY <2>1, <3>3 DEF Begin
        <3>7. rx_can' = <<>> /\ rx_can' \in Seq(Frame) BY <2>1 DEF Begin, RepliesCleared
        <3>8. flight' \subseteq Frame
            <4>1. flight' = {[f EXCEPT !.age = Aged(@)] : f \in {g \in flight : g.age < MaxAge}}
                BY <2>1 DEF Begin
            <4>2. \A f \in flight : [f EXCEPT !.age = Aged(@)] \in Frame
                <5> TAKE f \in flight
                <5>1. f \in Frame BY DEF TypeOK
                <5>2. f.age \in 0..MaxAge BY <5>1 DEF Frame
                <5>3. Aged(f.age) \in 0..MaxAge BY <5>2, HatAssumption DEF Aged
                <5> QED BY <5>1, <5>3 DEF Frame
            <4>3. ASSUME NEW x \in flight' PROVE x \in Frame
                <5>1. PICK f \in flight : x = [f EXCEPT !.age = Aged(@)] BY <4>1
                <5> QED BY <5>1, <4>2
            <4> QED BY <4>3
        <3>9. queue' \in [Proc -> Seq(Frame)]
            <4>1. \A p \in Proc : Older(queue[p]) \in Seq(Frame)
                BY OlderFrames DEF TypeOK
            <4>2. queue' = [p \in Proc |-> Older(queue[p])] BY <2>1 DEF Begin
            <4> QED BY <4>1, <4>2
        <3>10. shown' \in [Motor -> 0..MaxAge]
            <4>1. \A m \in Motor : Aged(shown[m]) \in 0..MaxAge
                BY HatAssumption DEF TypeOK, Aged
            <4>2. shown' = [m \in Motor |-> Aged(shown[m])] BY <2>1 DEF Begin
            <4> QED BY <4>1, <4>2
        <3>11. disruptions' \in 0..MaxDisruptions
            BY <2>1, HatAssumption, SMTT(30) DEF Begin, Disrupts, TypeOK
        <3>12. pc' = "flush" /\ at' \in Proc BY <2>1, HatAssumption DEF Begin, Proc
        <3>13. Len(rx_can') <= room' BY <3>5, <3>7
        <3> QED BY <3>1, <3>4, <3>5, <3>6, <3>7, <3>8, <3>9, <3>10, <3>11, <3>12, <3>13
            DEF TypeOK, RoomRespected
    <2>2. CASE FlushReadCan
        <3>1. at \in Proc BY DEF TypeOK
        <3>2. /\ rx_can' \in Seq(Frame) /\ queue' \in [Proc -> Seq(Frame)]
              /\ Len(rx_can') <= room
            BY <2>2, <3>1, PassKeeps DEF FlushReadCan
        <3>3. at' \in Proc /\ pc' \in {"flush", "send"}
            <4>1. Advance("send") /\ pc = "flush" BY <2>2 DEF FlushReadCan
            <4> QED BY <3>1, <4>1, HatAssumption DEF Advance, Proc
        <3> QED BY <2>2, <3>2, <3>3 DEF FlushReadCan, FlushNotCounted, TypeOK, RoomRespected
    <2>3. CASE SendCan
        <3>1. flight' \subseteq Frame BY <2>3, HatAssumption DEF SendCan, TypeOK, Frame
        <3>2. disruptions' \in 0..MaxDisruptions
            BY <2>3, HatAssumption, SMTT(30) DEF SendCan, Disrupts, TypeOK
        <3> QED BY <2>3, <3>1, <3>2 DEF SendCan, TypeOK, RoomRespected
    <2>4. CASE ReadCan
        <3>1. at \in Proc BY DEF TypeOK
        <3>2. /\ rx_can' \in Seq(Frame) /\ queue' \in [Proc -> Seq(Frame)]
              /\ Len(rx_can') <= room
            BY <2>4, <3>1, PassKeeps DEF ReadCan
        <3>3. at' \in Proc /\ pc' \in {"read", "check"}
            BY <2>4, HatAssumption, SMTT(30) DEF ReadCan, Advance, TypeOK, Proc
        <3>4. Taken(at) \in Nat BY <3>1, TakenBounds
        <3>5. bus_replies' \in [Proc -> Int] BY <2>4, <3>1, <3>4 DEF ReadCan, TypeOK
        <3> QED BY <2>4, <3>2, <3>3, <3>5 DEF ReadCan, TypeOK, RoomRespected
    <2>5. CASE ReadAgain
        BY <2>5 DEF ReadAgain, netVars, TypeOK, RoomRespected
    <2>6. CASE Returns
        <3>1. Return BY <2>6 DEF Returns, ReturnFull, ReturnComplete, ReturnTimeout
        <3>2. disruptions' \in 0..MaxDisruptions
            BY <2>6, HatAssumption
            DEF Returns, ReturnFull, ReturnComplete, ReturnTimeout, Disrupts, TypeOK
        <3>3. shown' \in [Motor -> 0..MaxAge]
            <4>1. \A m \in Reported : rx_can[LastOf(m)].age \in 0..MaxAge
                <5> SUFFICES ASSUME NEW m \in Reported
                             PROVE  rx_can[LastOf(m)].age \in 0..MaxAge
                    OBVIOUS
                <5>1. LastOf(m) \in DOMAIN rx_can BY LastIsAFrame
                <5>2. rx_can \in Seq(Frame) BY DEF TypeOK
                <5>3. rx_can[LastOf(m)] \in Frame BY <5>1, <5>2
                <5> QED BY <5>3 DEF Frame
            <4>2. shown' = [m \in Motor |->
                     IF m \in Reported THEN rx_can[LastOf(m)].age ELSE shown[m]]
                BY <3>1 DEF Return
            <4> QED BY <4>1, <4>2 DEF TypeOK
        <3> QED BY <3>1, <3>2, <3>3 DEF Return, netVars, TypeOK, RoomRespected
    <2>7. CASE Receive
        <3>1. PICK f \in flight :
                 /\ flight' = flight \ {f}
                 /\ queue' = [queue EXCEPT ![At[f.motor]] = Append(@, f)]
            BY <2>7 DEF Receive
        <3>2. f \in Frame /\ At[f.motor] \in Proc BY HatAssumption DEF TypeOK, Frame
        <3>3. queue' \in [Proc -> Seq(Frame)] BY <3>1, <3>2 DEF TypeOK
        <3> QED BY <2>7, <3>1, <3>3 DEF Receive, TypeOK, RoomRespected
    <2>8. CASE UNCHANGED vars
        BY <2>8 DEF vars, netVars, TypeOK, RoomRespected
    <2> QED BY <2>1, <2>2, <2>3, <2>4, <2>5, <2>6, <2>7, <2>8 DEF Next
<1> QED BY <1>1, <1>2, PTL DEF Spec

(* Every variable keeps its type (pi3hat.cc:1523-1736). *)
THEOREM TypeCorrect == Spec => []TypeOK
<1>1. IInv => TypeOK BY DEF IInv
<1> QED BY <1>1, Invariance, PTL

(* The frames found before and while a cycle reads fit in the room the     *)
(* transport made for them, for every wiring, batch and number of motors   *)
(* (pi3hat.cc:1527, 1549).                                                 *)
THEOREM RoomIsRespected == Spec => []RoomRespected
<1>1. IInv => RoomRespected BY DEF IInv
<1> QED BY <1>1, Invariance, PTL

-----------------------------------------------------------------------------
(* The order of a motor's frames. *)

Follows(a, b) == b < a \/ a = MaxAge
Precedes(f, g) == f.motor = g.motor => Follows(f.age, g.age)

Ordered(s) == \A i, j \in DOMAIN s : i < j => Precedes(s[i], s[j])
Ahead(s, t) == \A i \in DOMAIN s : \A j \in DOMAIN t : Precedes(s[i], t[j])
AheadOf(s, S) == \A i \in DOMAIN s : \A g \in S : Precedes(s[i], g)

(* What was shown is older than what is still to come. *)
ShownFirst(s) == \A i \in DOMAIN s : Follows(shown[s[i].motor], s[i].age)

StoreInv ==
    /\ Ordered(rx_can)
    /\ AheadOf(rx_can, flight)
    /\ \A p \in Proc : Ahead(rx_can, queue[p])
    /\ pc # "idle" => ShownFirst(rx_can)

QueueInv ==
    \A p \in Proc :
        /\ \A i \in DOMAIN queue[p] : At[queue[p][i].motor] = p
        /\ Ordered(queue[p])
        /\ AheadOf(queue[p], flight)
        /\ ShownFirst(queue[p])

BusInv == \A f \in flight : Follows(shown[f.motor], f.age)

(* Until the commands of a cycle are sent, nothing answers them. *)
NoneFresh ==
    pc \in {"flush", "send"} =>
        /\ \A i \in DOMAIN rx_can : rx_can[i].age > 0
        /\ \A p \in Proc : \A i \in DOMAIN queue[p] : queue[p][i].age > 0
        /\ \A f \in flight : f.age > 0
        /\ \A m \in Motor : shown[m] > 0

OrderInv == StoreInv /\ QueueInv /\ BusInv /\ NoneFresh

(* Growing older keeps an order, and leaves no age at 0. *)
LEMMA AgedFollows ==
    ASSUME NEW a \in 0..MaxAge, NEW b \in 0..MaxAge
    PROVE  /\ Follows(a, b) => Follows(Aged(a), Aged(b))
           /\ Aged(a) \in 0..MaxAge /\ Aged(a) > 0
BY HatAssumption DEF Follows, Aged

LEMMA OlderFrame ==
    ASSUME NEW f \in Frame
    PROVE  /\ [f EXCEPT !.age = Aged(@)] \in Frame
           /\ [f EXCEPT !.age = Aged(@)].motor = f.motor
           /\ [f EXCEPT !.age = Aged(@)].age = Aged(f.age)
           /\ f.age \in 0..MaxAge /\ f.motor \in Motor
<1>1. f.age \in 0..MaxAge /\ f.motor \in Motor BY DEF Frame
<1>2. Aged(f.age) \in 0..MaxAge BY <1>1, AgedFollows
<1> QED BY <1>1, <1>2 DEF Frame

LEMMA OlderElements ==
    ASSUME NEW s \in Seq(Frame)
    PROVE  /\ DOMAIN Older(s) = DOMAIN s
           /\ \A i \in DOMAIN s :
                 /\ s[i] \in Frame /\ Older(s)[i].motor = s[i].motor
                 /\ Older(s)[i].age = Aged(s[i].age)
<1>1. \A i \in DOMAIN s : s[i] \in Frame OBVIOUS
<1> QED BY <1>1, OlderFrame DEF Older

(* A pass moves the head of a queue behind the store: what was in order     *)
(* over both stays so.                                                      *)
LEMMA PassElements ==
    ASSUME NEW s \in Seq(Frame), NEW q \in Seq(Frame), NEW n \in Nat, n <= Len(q)
    PROVE  LET t == s \o SubSeq(q, 1, n)
               r == SubSeq(q, n + 1, Len(q))
           IN  /\ t \in Seq(Frame) /\ r \in Seq(Frame)
               /\ \A i \in DOMAIN t : \/ i \in DOMAIN s /\ t[i] = s[i]
                                     \/ /\ i > Len(s) /\ i - Len(s) \in DOMAIN q
                                        /\ i - Len(s) <= n /\ t[i] = q[i - Len(s)]
               /\ \A i \in DOMAIN r : n + i \in DOMAIN q /\ n + i > n /\ r[i] = q[n + i]
<1> DEFINE h == SubSeq(q, 1, n)
           t == s \o h
           r == SubSeq(q, n + 1, Len(q))
<1>1. h \in Seq(Frame) /\ Len(h) = n /\ \A i \in 1..n : h[i] = q[i] OBVIOUS
<1>2. r \in Seq(Frame) /\ Len(r) = Len(q) - n /\ \A i \in 1..Len(r) : r[i] = q[n + i]
    OBVIOUS
<1>3. t \in Seq(Frame) /\ Len(t) = Len(s) + n BY <1>1
<1>4. \A i \in 1..Len(t) : t[i] = IF i <= Len(s) THEN s[i] ELSE h[i - Len(s)] BY <1>1, <1>3
<1>5. \A i \in DOMAIN t : \/ i \in DOMAIN s /\ t[i] = s[i]
                          \/ /\ i > Len(s) /\ i - Len(s) \in DOMAIN q
                             /\ i - Len(s) <= n /\ t[i] = q[i - Len(s)]
    <2> SUFFICES ASSUME NEW i \in DOMAIN t
                 PROVE  \/ i \in DOMAIN s /\ t[i] = s[i]
                        \/ /\ i > Len(s) /\ i - Len(s) \in DOMAIN q
                           /\ i - Len(s) <= n /\ t[i] = q[i - Len(s)]
        OBVIOUS
    <2> HIDE DEF t, h
    <2>1. i \in 1..(Len(s) + n) /\ Len(s) \in Nat BY <1>3
    <2>2. CASE i <= Len(s) BY <2>1, <2>2, <1>3, <1>4
    <2>3. CASE i > Len(s)
        <3>1. i - Len(s) \in 1..n /\ t[i] = h[i - Len(s)] BY <2>1, <2>3, <1>3, <1>4
        <3> QED BY <3>1, <2>3, <1>1
    <2> QED BY <2>1, <2>2, <2>3
<1>6. \A i \in DOMAIN r : n + i \in DOMAIN q /\ n + i > n /\ r[i] = q[n + i]
    <2> HIDE DEF r
    <2> QED BY <1>2
<1> QED BY <1>2, <1>3, <1>5, <1>6

LEMMA PassOrder ==
    ASSUME NEW s \in Seq(Frame), NEW q \in Seq(Frame), NEW n \in Nat, n <= Len(q),
           Ordered(s), Ordered(q), Ahead(s, q)
    PROVE  LET t == s \o SubSeq(q, 1, n)
               r == SubSeq(q, n + 1, Len(q))
           IN  Ordered(t) /\ Ordered(r) /\ Ahead(t, r)
<1> DEFINE t == s \o SubSeq(q, 1, n)
           r == SubSeq(q, n + 1, Len(q))
<1>1. /\ t \in Seq(Frame) /\ r \in Seq(Frame)
      /\ \A i \in DOMAIN t : \/ i \in DOMAIN s /\ t[i] = s[i]
                            \/ /\ i > Len(s) /\ i - Len(s) \in DOMAIN q
                               /\ i - Len(s) <= n /\ t[i] = q[i - Len(s)]
      /\ \A i \in DOMAIN r : n + i \in DOMAIN q /\ n + i > n /\ r[i] = q[n + i]
    BY PassElements
<1> HIDE DEF t, r
<1>2. Ordered(t)
    <2> SUFFICES ASSUME NEW i \in DOMAIN t, NEW j \in DOMAIN t, i < j
                 PROVE  Precedes(t[i], t[j])
        BY DEF Ordered
    <2>1. i \in Nat \ {0} /\ j \in Nat \ {0} /\ Len(s) \in Nat BY <1>1
    <2>2. CASE j \in DOMAIN s /\ t[j] = s[j]
        <3>1. i \in DOMAIN s
            <4>1. DOMAIN s = 1..Len(s) OBVIOUS
            <4> QED BY <2>1, <2>2, <4>1
        <3>2. t[i] = s[i] BY <1>1, <2>1, <3>1
        <3> QED BY <2>2, <3>1, <3>2 DEF Ordered
    <2>3. CASE j > Len(s) /\ j - Len(s) \in DOMAIN q /\ t[j] = q[j - Len(s)]
        <3>1. CASE i \in DOMAIN s /\ t[i] = s[i] BY <2>3, <3>1 DEF Ahead
        <3>2. CASE i > Len(s) /\ i - Len(s) \in DOMAIN q /\ t[i] = q[i - Len(s)]
            <4>1. i - Len(s) < j - Len(s) BY <2>1
            <4> QED BY <2>3, <3>2, <4>1 DEF Ordered
        <3> QED BY <1>1, <3>1, <3>2
    <2> QED BY <1>1, <2>2, <2>3
<1>3. Ordered(r)
    <2> SUFFICES ASSUME NEW i \in DOMAIN r, NEW j \in DOMAIN r, i < j
                 PROVE  Precedes(r[i], r[j])
        BY DEF Ordered
    <2>1. i \in Nat /\ j \in Nat /\ n + i < n + j BY <1>1
    <2> QED BY <1>1, <2>1 DEF Ordered
<1>4. Ahead(t, r)
    <2> SUFFICES ASSUME NEW i \in DOMAIN t, NEW j \in DOMAIN r
                 PROVE  Precedes(t[i], r[j])
        BY DEF Ahead
    <2>1. n + j \in DOMAIN q /\ r[j] = q[n + j] BY <1>1
    <2>2. CASE i \in DOMAIN s /\ t[i] = s[i] BY <2>1, <2>2 DEF Ahead
    <2>3. CASE /\ i > Len(s) /\ i - Len(s) \in DOMAIN q
               /\ i - Len(s) <= n /\ t[i] = q[i - Len(s)]
        <3>1. i - Len(s) < n + j BY <1>1, <2>3
        <3> QED BY <2>1, <2>3, <3>1 DEF Ordered
    <2> QED BY <1>1, <2>2, <2>3
<1> QED BY <1>2, <1>3, <1>4 DEF t, r

(* Every action keeps the order. *)

LEMMA BeginOrder ==
    ASSUME TypeOK, OrderInv, Begin
    PROVE  OrderInv'
<1>1. rx_can' = <<>> BY DEF Begin, RepliesCleared
<1>2. StoreInv' BY <1>1 DEF StoreInv, Ordered, AheadOf, Ahead, ShownFirst
<1>3. \A p \in Proc :
        /\ queue[p] \in Seq(Frame)
        /\ DOMAIN queue'[p] = DOMAIN queue[p]
        /\ \A i \in DOMAIN queue[p] :
              /\ queue[p][i] \in Frame
              /\ queue'[p][i].motor = queue[p][i].motor
              /\ queue'[p][i].age = Aged(queue[p][i].age)
    BY OlderElements DEF Begin, TypeOK
<1>4. \A g \in flight' : \E f \in flight :
        /\ f \in Frame /\ f.motor \in Motor
        /\ g.motor = f.motor /\ g.age = Aged(f.age)
    <2>1. flight' = {[f EXCEPT !.age = Aged(@)] : f \in {g \in flight : g.age < MaxAge}}
        BY DEF Begin
    <2> QED BY <2>1, OlderFrame DEF TypeOK
<1>5. \A m \in Motor : shown[m] \in 0..MaxAge /\ shown'[m] = Aged(shown[m])
    BY DEF Begin, TypeOK
<1>6. QueueInv'
    <2> SUFFICES ASSUME NEW p \in Proc
                 PROVE  /\ \A i \in DOMAIN queue'[p] : At[queue'[p][i].motor] = p
                        /\ Ordered(queue[p])'
                        /\ AheadOf(queue[p], flight)'
                        /\ ShownFirst(queue[p])'
        BY DEF QueueInv
    <2>0. \A i \in DOMAIN queue[p] :
            queue[p][i].age \in 0..MaxAge /\ queue[p][i].motor \in Motor
        BY <1>3, OlderFrame
    <2>1. \A i \in DOMAIN queue'[p] : At[queue'[p][i].motor] = p
        BY <1>3 DEF OrderInv, QueueInv
    <2>2. Ordered(queue[p])'
        BY <1>3, <2>0, AgedFollows DEF OrderInv, QueueInv, Ordered, Precedes
    <2>3. AheadOf(queue[p], flight)'
        <3> SUFFICES ASSUME NEW i \in DOMAIN queue[p], NEW g \in flight'
                     PROVE  Precedes(queue'[p][i], g)
            BY <1>3 DEF AheadOf
        <3>1. PICK f \in flight : /\ f \in Frame /\ f.motor \in Motor
                                 /\ g.motor = f.motor /\ g.age = Aged(f.age)
            BY <1>4
        <3>2. Precedes(queue[p][i], f) BY DEF OrderInv, QueueInv, AheadOf
        <3>3. f.age \in 0..MaxAge BY <3>1, OlderFrame
        <3> QED BY <1>3, <2>0, <3>1, <3>2, <3>3, AgedFollows DEF Precedes
    <2>4. ShownFirst(queue[p])'
        <3> SUFFICES ASSUME NEW i \in DOMAIN queue[p]
                     PROVE  Follows(shown'[queue'[p][i].motor], queue'[p][i].age)
            BY <1>3 DEF ShownFirst
        <3>1. Follows(shown[queue[p][i].motor], queue[p][i].age)
            BY DEF OrderInv, QueueInv, ShownFirst
        <3> QED BY <1>3, <1>5, <2>0, <3>1, AgedFollows
    <2> QED BY <2>1, <2>2, <2>3, <2>4
<1>7. BusInv'
    <2> SUFFICES ASSUME NEW g \in flight' PROVE Follows(shown'[g.motor], g.age)
        BY DEF BusInv, Follows
    <2>1. PICK f \in flight : /\ f \in Frame /\ f.motor \in Motor
                             /\ g.motor = f.motor /\ g.age = Aged(f.age)
        BY <1>4
    <2>2. f.age \in 0..MaxAge BY <2>1, OlderFrame
    <2> QED BY <1>5, <2>1, <2>2, AgedFollows DEF OrderInv, BusInv
<1>8. NoneFresh'
    <2>1. \A p \in Proc : \A i \in DOMAIN queue'[p] : queue'[p][i].age > 0
        <3> SUFFICES ASSUME NEW p \in Proc, NEW i \in DOMAIN queue[p]
                     PROVE  queue'[p][i].age > 0
            BY <1>3
        <3>1. queue[p][i] \in Frame /\ queue'[p][i].age = Aged(queue[p][i].age)
            BY <1>3
        <3>2. queue[p][i].age \in 0..MaxAge BY <3>1, OlderFrame
        <3> QED BY <3>1, <3>2, AgedFollows
    <2>2. \A f \in flight' : f.age > 0
        <3> SUFFICES ASSUME NEW g \in flight' PROVE g.age > 0
            OBVIOUS
        <3>1. PICK f \in flight : f \in Frame /\ g.age = Aged(f.age)
            BY <1>4
        <3>2. f.age \in 0..MaxAge BY <3>1, OlderFrame
        <3> QED BY <3>1, <3>2, AgedFollows
    <2>3. \A m \in Motor : shown'[m] > 0 BY <1>5, AgedFollows
    <2> QED BY <1>1, <2>1, <2>2, <2>3 DEF NoneFresh
<1> QED BY <1>2, <1>6, <1>7, <1>8 DEF OrderInv

(* Reading a processor, before and after the commands are sent. *)
LEMMA PassKeepsOrder ==
    ASSUME TypeOK, RoomRespected, OrderInv, NEW p \in Proc, ReadCanFrames(p),
           UNCHANGED <<flight, shown>>, pc # "idle",
           pc' \in {"flush", "send"} => pc \in {"flush", "send"}
    PROVE  OrderInv'
<1> DEFINE q == queue[p]
           n == Taken(p)
           t == rx_can \o SubSeq(q, 1, n)
           r == SubSeq(q, n + 1, Len(q))
<1>1. q \in Seq(Frame) /\ rx_can \in Seq(Frame) /\ n \in Nat /\ n <= Len(q)
    BY TakenBounds DEF TypeOK
<1>2. rx_can' = t /\ queue' = [queue EXCEPT ![p] = r] BY DEF ReadCanFrames
<1>3. /\ \A i \in DOMAIN t : \/ i \in DOMAIN rx_can /\ t[i] = rx_can[i]
                            \/ /\ i > Len(rx_can) /\ i - Len(rx_can) \in DOMAIN q
                               /\ i - Len(rx_can) <= n /\ t[i] = q[i - Len(rx_can)]
      /\ \A i \in DOMAIN r : n + i \in DOMAIN q /\ n + i > n /\ r[i] = q[n + i]
    <2> HIDE DEF q, n
    <2> QED BY <1>1, PassElements
<1>4. Ordered(t) /\ Ordered(r) /\ Ahead(t, r)
    BY <1>1, PassOrder DEF OrderInv, StoreInv, QueueInv
<1> HIDE DEF t, r
<1>5. queue'[p] = r /\ \A o \in Proc \ {p} : queue'[o] = queue[o] BY <1>2 DEF TypeOK
<1>6. \A i \in DOMAIN t : (\E j \in DOMAIN rx_can : t[i] = rx_can[j])
                          \/ (\E j \in DOMAIN q : t[i] = q[j])
    BY <1>3
<1>7. \A i \in DOMAIN r : \E j \in DOMAIN q : r[i] = q[j] BY <1>3
<1>8. StoreInv'
    <2>1. Ordered(rx_can)' BY <1>2, <1>4
    <2>2. AheadOf(rx_can, flight)'
        BY <1>2, <1>6 DEF OrderInv, StoreInv, QueueInv, AheadOf
    <2>3. ASSUME NEW o \in Proc PROVE Ahead(rx_can, queue[o])'
        <3>1. CASE o = p BY <1>2, <1>4, <1>5, <3>1
        <3>2. CASE o # p
            <4>1. queue'[o] = queue[o] BY <1>5, <3>2
            <4> SUFFICES ASSUME NEW i \in DOMAIN t, NEW k \in DOMAIN queue[o]
                         PROVE  Precedes(t[i], queue[o][k])
                BY <1>2, <4>1 DEF Ahead
            <4>2. CASE \E j \in DOMAIN rx_can : t[i] = rx_can[j]
                BY <4>2 DEF OrderInv, StoreInv, Ahead
            <4>3. CASE \E j \in DOMAIN q : t[i] = q[j]
                <5>1. At[t[i].motor] = p /\ At[queue[o][k].motor] = o
                    BY <4>3 DEF OrderInv, QueueInv
                <5> QED BY <3>2, <5>1 DEF Precedes
            <4> QED BY <1>6, <4>2, <4>3
        <3> QED BY <3>1, <3>2
    <2>4. ShownFirst(rx_can)'
        BY <1>2, <1>6 DEF OrderInv, StoreInv, QueueInv, ShownFirst
    <2> QED BY <2>1, <2>2, <2>3, <2>4 DEF StoreInv
<1>9. QueueInv'
    <2> SUFFICES ASSUME NEW o \in Proc
                 PROVE  /\ \A i \in DOMAIN queue'[o] : At[queue'[o][i].motor] = o
                        /\ Ordered(queue[o])'
                        /\ AheadOf(queue[o], flight)'
                        /\ ShownFirst(queue[o])'
        BY DEF QueueInv
    <2>1. CASE o = p
        <3>1. \A i \in DOMAIN r : At[r[i].motor] = p BY <1>7 DEF OrderInv, QueueInv
        <3>2. AheadOf(r, flight) BY <1>7 DEF OrderInv, QueueInv, AheadOf
        <3>3. ShownFirst(r) BY <1>7 DEF OrderInv, QueueInv, ShownFirst
        <3> QED BY <1>4, <1>5, <2>1, <3>1, <3>2, <3>3 DEF Ordered, AheadOf, ShownFirst
    <2>2. CASE o # p
        BY <1>5, <2>2 DEF OrderInv, QueueInv, Ordered, AheadOf, ShownFirst
    <2> QED BY <2>1, <2>2
<1>10. BusInv' BY DEF OrderInv, BusInv
<1>11. NoneFresh'
    <2> SUFFICES ASSUME pc' \in {"flush", "send"} PROVE NoneFresh'
        BY DEF NoneFresh
    <2>0. NoneFresh /\ pc \in {"flush", "send"} BY DEF OrderInv
    <2>1. \A i \in DOMAIN rx_can' : rx_can'[i].age > 0 BY <1>2, <1>6, <2>0 DEF NoneFresh
    <2>2. \A o \in Proc : \A i \in DOMAIN queue'[o] : queue'[o][i].age > 0
        BY <1>5, <1>7, <2>0 DEF NoneFresh
    <2> QED BY <2>0, <2>1, <2>2 DEF NoneFresh
<1> QED BY <1>8, <1>9, <1>10, <1>11 DEF OrderInv

(* The answers to a cycle's commands are the first of age 0. *)
LEMMA SendOrder ==
    ASSUME TypeOK, OrderInv, SendCan
    PROVE  OrderInv'
<1>1. PICK lost \in SUBSET tx :
        flight' = flight \cup {[motor |-> m, age |-> 0] : m \in tx \ lost}
    BY DEF SendCan
<1>2. UNCHANGED <<rx_can, queue, shown>> /\ pc = "send" /\ pc' = "read"
    BY DEF SendCan
<1>3. NoneFresh /\ StoreInv /\ QueueInv /\ BusInv BY DEF OrderInv
<1>4. \A g \in flight' : g \in flight \/ (g.age = 0 /\ g.motor \in Motor)
    BY <1>1 DEF TypeOK
<1>5. \A i \in DOMAIN rx_can : \A g \in flight' : Precedes(rx_can[i], g)
    BY <1>2, <1>3, <1>4 DEF NoneFresh, StoreInv, AheadOf, Precedes, Follows
<1>6. \A p \in Proc : \A i \in DOMAIN queue[p] : \A g \in flight' : Precedes(queue[p][i], g)
    BY <1>2, <1>3, <1>4 DEF NoneFresh, QueueInv, AheadOf, Precedes, Follows
<1>7. \A g \in flight' : Follows(shown[g.motor], g.age)
    BY <1>2, <1>3, <1>4 DEF NoneFresh, BusInv, Follows
<1>8. StoreInv' BY <1>2, <1>3, <1>5 DEF StoreInv, Ordered, AheadOf, Ahead, ShownFirst
<1>9. QueueInv' BY <1>2, <1>3, <1>6 DEF QueueInv, Ordered, AheadOf, ShownFirst
<1>10. BusInv' BY <1>2, <1>7 DEF BusInv
<1>11. NoneFresh' BY <1>2 DEF NoneFresh
<1> QED BY <1>8, <1>9, <1>10, <1>11 DEF OrderInv

(* What is shown after a cycle is of the last frame of a motor: none of the *)
(* store comes after it, and what is still to come does.                    *)
LEMMA ReturnShows ==
    ASSUME TypeOK, OrderInv, Returns
    PROVE  /\ pc = "check" /\ pc' = "idle" /\ UNCHANGED <<rx_can, queue, flight>>
           /\ \A m \in Motor \ Reported : shown'[m] = shown[m]
           /\ \A m \in Reported :
                 /\ LastOf(m) \in DOMAIN rx_can /\ rx_can[LastOf(m)].motor = m
                 /\ m \in Motor /\ shown'[m] = rx_can[LastOf(m)].age
<1>1. /\ pc = "check" /\ pc' = "idle" /\ UNCHANGED <<rx_can, queue, flight>>
      /\ shown' = [m \in Motor |-> IF m \in Reported THEN rx_can[LastOf(m)].age ELSE shown[m]]
    BY DEF Returns, ReturnFull, ReturnComplete, ReturnTimeout, Return, netVars
<1>2. ASSUME NEW m \in Reported
      PROVE  /\ LastOf(m) \in DOMAIN rx_can /\ rx_can[LastOf(m)].motor = m /\ m \in Motor
    <2>1. LastOf(m) \in FramesOf(m) /\ LastOf(m) \in DOMAIN rx_can BY LastIsAFrame
    <2>2. rx_can[LastOf(m)].motor = m BY <2>1 DEF FramesOf
    <2>3. rx_can[LastOf(m)] \in Frame BY <2>1 DEF TypeOK
    <2> QED BY <2>1, <2>2, <2>3 DEF Frame
<1> QED BY <1>1, <1>2

LEMMA ReturnOrder ==
    ASSUME TypeOK, OrderInv, Returns
    PROVE  OrderInv'
<1>1. StoreInv /\ QueueInv /\ BusInv BY DEF OrderInv
<1>2. ASSUME NEW f \in Frame, Follows(shown[f.motor], f.age),
             \A i \in DOMAIN rx_can : Precedes(rx_can[i], f)
      PROVE  Follows(shown'[f.motor], f.age)
    <2>1. f.motor \in Motor BY DEF Frame
    <2>2. CASE f.motor \in Reported
        BY <1>2, <2>2, ReturnShows DEF Precedes
    <2>3. CASE f.motor \notin Reported
        BY <1>2, <2>1, <2>3, ReturnShows
    <2> QED BY <2>2, <2>3
<1>3. StoreInv'
    BY <1>1, ReturnShows DEF StoreInv, Ordered, AheadOf, Ahead
<1>4. QueueInv'
    <2>1. ASSUME NEW p \in Proc PROVE ShownFirst(queue[p])'
        <3> SUFFICES ASSUME NEW i \in DOMAIN queue[p]
                     PROVE  Follows(shown'[queue[p][i].motor], queue[p][i].age)
            BY ReturnShows DEF ShownFirst
        <3>1. queue[p][i] \in Frame BY DEF TypeOK
        <3>2. Follows(shown[queue[p][i].motor], queue[p][i].age)
            BY <1>1 DEF QueueInv, ShownFirst
        <3>3. \A k \in DOMAIN rx_can : Precedes(rx_can[k], queue[p][i])
            BY <1>1 DEF StoreInv, Ahead
        <3> QED BY <1>2, <3>1, <3>2, <3>3
    <2> QED BY <1>1, <2>1, ReturnShows DEF QueueInv, Ordered, AheadOf
<1>5. BusInv'
    <2> SUFFICES ASSUME NEW f \in flight PROVE Follows(shown'[f.motor], f.age)
        BY ReturnShows DEF BusInv, Follows
    <2>1. f \in Frame BY DEF TypeOK
    <2>2. \A k \in DOMAIN rx_can : Precedes(rx_can[k], f)
        BY <1>1 DEF StoreInv, AheadOf
    <2> QED BY <1>1, <1>2, <2>1, <2>2 DEF BusInv
<1>6. NoneFresh' BY ReturnShows DEF NoneFresh
<1> QED BY <1>3, <1>4, <1>5, <1>6 DEF OrderInv

(* A processor receives the oldest reply of a motor first. *)
LEMMA ReceiveOrder ==
    ASSUME TypeOK, OrderInv, Receive
    PROVE  OrderInv'
<1>1. PICK f \in flight :
        /\ \A g \in flight : g.motor = f.motor => g.age <= f.age
        /\ flight' = flight \ {f}
        /\ queue' = [queue EXCEPT ![At[f.motor]] = Append(@, f)]
    BY DEF Receive
<1>2. UNCHANGED <<pc, rx_can, shown>> BY DEF Receive
<1>3. StoreInv /\ QueueInv /\ BusInv /\ NoneFresh BY DEF OrderInv
<1> DEFINE p == At[f.motor]
           q == queue[p]
<1>4. f \in Frame /\ p \in Proc /\ q \in Seq(Frame) BY HatAssumption DEF TypeOK, Frame
<1>5. /\ queue'[p] = Append(q, f)
      /\ \A o \in Proc \ {p} : queue'[o] = queue[o]
    BY <1>1, <1>4 DEF TypeOK
<1>6. /\ DOMAIN Append(q, f) = 1..(Len(q) + 1) /\ DOMAIN q = 1..Len(q) /\ Len(q) \in Nat
      /\ \A i \in DOMAIN q : Append(q, f)[i] = q[i]
      /\ Append(q, f)[Len(q) + 1] = f
    BY <1>4
<1>7. \A i \in DOMAIN Append(q, f) : Append(q, f)[i] = f \/ \E j \in DOMAIN q : Append(q, f)[i] = q[j]
    BY <1>6
<1>8. \A g \in flight' : Precedes(f, g)
    <2> SUFFICES ASSUME NEW g \in flight', g.motor = f.motor PROVE g.age < f.age
        BY DEF Precedes, Follows
    <2>1. g \in Frame /\ g # f /\ g.age <= f.age BY <1>1 DEF TypeOK
    <2>2. g.age \in Int /\ f.age \in Int BY <1>4, <2>1 DEF Frame
    <2>3. g.age # f.age BY <1>4, <2>1 DEF Frame
    <2> QED BY <2>1, <2>2, <2>3
<1>9. StoreInv'
    <2>1. AheadOf(rx_can, flight)' BY <1>1, <1>2, <1>3 DEF StoreInv, AheadOf
    <2>2. ASSUME NEW o \in Proc PROVE Ahead(rx_can, queue[o])'
        <3>1. CASE o = p
            <4>0. rx_can' = rx_can /\ queue'[o] = Append(q, f) BY <1>2, <1>5, <3>1
            <4> SUFFICES ASSUME NEW i \in DOMAIN rx_can, NEW j \in DOMAIN Append(q, f)
                         PROVE  Precedes(rx_can[i], Append(q, f)[j])
                BY <4>0 DEF Ahead
            <4>1. Precedes(rx_can[i], f) BY <1>3 DEF StoreInv, AheadOf
            <4>2. \A k \in DOMAIN q : Precedes(rx_can[i], q[k])
                BY <1>3, <1>4 DEF StoreInv, Ahead
            <4>3. Append(q, f)[j] = f \/ \E k \in DOMAIN q : Append(q, f)[j] = q[k] BY <1>7
            <4> QED BY <4>1, <4>2, <4>3
        <3>2. CASE o # p BY <1>2, <1>3, <1>5, <3>2 DEF StoreInv, Ahead
        <3> QED BY <3>1, <3>2
    <2> QED BY <1>2, <1>3, <2>1, <2>2 DEF StoreInv, Ordered, ShownFirst
<1>10. QueueInv'
    <2> SUFFICES ASSUME NEW o \in Proc
                 PROVE  /\ \A i \in DOMAIN queue'[o] : At[queue'[o][i].motor] = o
                        /\ Ordered(queue[o])'
                        /\ AheadOf(queue[o], flight)'
                        /\ ShownFirst(queue[o])'
        BY SMTT(30) DEF QueueInv
    <2>1. CASE o = p
        <3> DEFINE a == Append(q, f)
        <3>1. \A i \in DOMAIN a : At[a[i].motor] = p
            BY <1>3, <1>4, <1>7 DEF QueueInv
        <3>2. Ordered(a)
            <4> SUFFICES ASSUME NEW i \in DOMAIN a, NEW j \in DOMAIN a, i < j
                         PROVE  Precedes(a[i], a[j])
                BY DEF Ordered
            <4>1. i \in DOMAIN q /\ a[i] = q[i] BY <1>6
            <4>2. CASE j \in DOMAIN q
                <5>1. a[j] = q[j] BY <1>6, <4>2
                <5> QED BY <1>3, <1>4, <4>1, <4>2, <5>1 DEF QueueInv, Ordered
            <4>3. CASE j = Len(q) + 1
                <5>1. a[j] = f BY <1>6, <4>3
                <5> QED BY <1>3, <1>4, <4>1, <5>1 DEF QueueInv, AheadOf
            <4> QED BY <1>6, <4>2, <4>3
        <3>3. AheadOf(a, flight')
            <4> HIDE DEF a
            <4>1. \A g \in flight' : g \in flight BY <1>1
            <4> QED BY <1>3, <1>4, <1>7, <1>8, <4>1 DEF QueueInv, AheadOf, a
        <3>4. \A i \in DOMAIN a : Follows(shown[a[i].motor], a[i].age)
            BY <1>3, <1>4, <1>7 DEF QueueInv, ShownFirst, BusInv
        <3> QED BY <1>2, <1>5, <2>1, <3>1, <3>2, <3>3, <3>4 DEF Ordered, AheadOf, ShownFirst
    <2>2. CASE o # p
        BY <1>1, <1>2, <1>3, <1>5, <2>2 DEF QueueInv, Ordered, AheadOf, ShownFirst
    <2> QED BY <2>1, <2>2
<1>11. BusInv' BY <1>1, <1>2, <1>3 DEF BusInv
<1>12. NoneFresh'
    <2> SUFFICES ASSUME pc \in {"flush", "send"} PROVE NoneFresh'
        BY <1>2 DEF NoneFresh
    <2>0. /\ f.age > 0
          /\ \A o \in Proc : \A i \in DOMAIN queue[o] : queue[o][i].age > 0
        BY <1>3, pc \in {"flush", "send"} DEF NoneFresh
    <2>1. \A o \in Proc : \A i \in DOMAIN queue'[o] : queue'[o][i].age > 0
        <3> SUFFICES ASSUME NEW o \in Proc, NEW i \in DOMAIN queue'[o]
                     PROVE  queue'[o][i].age > 0
            OBVIOUS
        <3>1. CASE o = p
            <4>1. queue'[o] = Append(q, f) BY <1>5, <3>1
            <4>2. Append(q, f)[i] = f \/ \E j \in DOMAIN q : Append(q, f)[i] = q[j]
                BY <1>7, <4>1
            <4> QED BY <1>4, <2>0, <4>1, <4>2
        <3>2. CASE o # p BY <1>5, <2>0, <3>2
        <3> QED BY <3>1, <3>2
    <2> QED BY <1>1, <1>2, <1>3, <2>1 DEF NoneFresh
<1> QED BY <1>9, <1>10, <1>11, <1>12 DEF OrderInv

(* The frames of a motor are in order wherever they are (pi3hat.cc:1523-    *)
(* 1582).                                                                   *)
THEOREM InOrder == Spec => []OrderInv
<1>1. Init => OrderInv
    <2> SUFFICES ASSUME Init PROVE OrderInv
        OBVIOUS
    <2>1. StoreInv BY DEF Init, StoreInv, Ordered, AheadOf, Ahead, ShownFirst
    <2>2. QueueInv BY DEF Init, QueueInv, Ordered, AheadOf, ShownFirst
    <2>3. BusInv
        <3> SUFFICES ASSUME NEW f \in flight PROVE Follows(shown[f.motor], f.age)
            BY DEF BusInv
        <3>1. f.motor \in Motor BY DEF Init
        <3> QED BY <3>1 DEF Init, Follows
    <2>4. NoneFresh BY DEF Init, NoneFresh
    <2> QED BY <2>1, <2>2, <2>3, <2>4 DEF OrderInv
<1>2. IInv /\ OrderInv /\ [Next]_vars => OrderInv'
    <2> SUFFICES ASSUME TypeOK, RoomRespected, OrderInv, [Next]_vars PROVE OrderInv'
        BY DEF IInv
    <2>1. CASE Begin BY <2>1, BeginOrder
    <2>2. CASE FlushReadCan
        BY <2>2, PassKeepsOrder DEF FlushReadCan, TypeOK
    <2>3. CASE SendCan BY <2>3, SendOrder
    <2>4. CASE ReadCan
        <3>1. pc' \notin {"flush", "send"} BY <2>4 DEF ReadCan, Advance
        <3> QED BY <2>4, <3>1, PassKeepsOrder DEF ReadCan, TypeOK
    <2>5. CASE ReadAgain
        BY <2>5
        DEF ReadAgain, netVars, OrderInv, StoreInv, QueueInv, BusInv, NoneFresh,
            Ordered, Ahead, AheadOf, ShownFirst
    <2>6. CASE Returns BY <2>6, ReturnOrder
    <2>7. CASE Receive BY <2>7, ReceiveOrder
    <2>8. CASE UNCHANGED vars
        BY <2>8
        DEF vars, netVars, OrderInv, StoreInv, QueueInv, BusInv, NoneFresh,
            Ordered, Ahead, AheadOf, ShownFirst
    <2> QED BY <2>1, <2>2, <2>3, <2>4, <2>5, <2>6, <2>7, <2>8 DEF Next
<1> QED BY <1>1, <1>2, Invariance, PTL DEF Spec

(* What is shown never steps back, whatever is lost or late and wherever    *)
(* stale replies were read (Telemetry.cpp:56-69).                           *)
THEOREM NeverBack == Spec => NoStepBack
<1> DEFINE Forward == Returns => \A m \in Reported : shown'[m] < shown[m] \/ shown[m] = MaxAge
<1>1. IInv /\ OrderInv => Forward
    <2> SUFFICES ASSUME TypeOK, OrderInv, Returns, NEW m \in Reported
                 PROVE  shown'[m] < shown[m] \/ shown[m] = MaxAge
        BY DEF IInv
    <2>1. StoreInv /\ pc # "idle" BY ReturnShows DEF OrderInv
    <2>2. Follows(shown[m], rx_can[LastOf(m)].age)
        BY <2>1, ReturnShows DEF StoreInv, ShownFirst
    <2> QED BY <2>2, ReturnShows DEF Follows
<1>2. IInv /\ OrderInv /\ [Next]_vars => [Forward]_vars
    BY <1>1
<1> QED BY <1>2, Invariance, InOrder, PTL DEF Spec, NoStepBack

(* What is shown is the newest of the frames that were read, stale ones     *)
(* among them (pi3hat.cc:1701-1736).                                        *)
THEOREM NewestShown == Spec => NewestReported
<1> DEFINE Newest == Returns => \A i \in DOMAIN rx_can : shown'[rx_can[i].motor] <= rx_can[i].age
<1>1. IInv /\ OrderInv => Newest
    <2> SUFFICES ASSUME TypeOK, OrderInv, Returns, NEW i \in DOMAIN rx_can
                 PROVE  shown'[rx_can[i].motor] <= rx_can[i].age
        BY DEF IInv
    <2> DEFINE m == rx_can[i].motor
    <2>1. m \in Reported /\ i \in FramesOf(m) BY DEF Reported, FramesOf
    <2>2. FramesOf(m) \subseteq 1..Len(rx_can) /\ Len(rx_can) \in Nat
        BY DEF FramesOf, TypeOK
    <2>3. \E k \in FramesOf(m) : \A j \in FramesOf(m) : k >= j
        BY <2>1, <2>2, LastExists
    <2>4. LastOf(m) >= i BY <2>1, <2>3, Zenon DEF LastOf
    <2>5. /\ LastOf(m) \in DOMAIN rx_can /\ rx_can[LastOf(m)].motor = m
          /\ shown'[m] = rx_can[LastOf(m)].age
        BY <2>1, ReturnShows
    <2>6. rx_can[i] \in Frame /\ rx_can[LastOf(m)] \in Frame BY <2>5 DEF TypeOK
    <2>7. rx_can[i].age \in 0..MaxAge /\ rx_can[LastOf(m)].age \in 0..MaxAge
        BY <2>6 DEF Frame
    <2>8. CASE LastOf(m) = i BY <2>5, <2>7, <2>8
    <2>9. CASE LastOf(m) # i
        <3>1. i \in Nat /\ LastOf(m) \in Nat BY <2>2, <2>5 DEF TypeOK
        <3>2. Precedes(rx_can[i], rx_can[LastOf(m)])
            BY <2>4, <2>5, <2>9, <3>1 DEF OrderInv, StoreInv, Ordered
        <3>3. Follows(rx_can[i].age, rx_can[LastOf(m)].age) BY <2>5, <3>2 DEF Precedes
        <3> QED BY <2>5, <2>7, <3>3, HatAssumption DEF Follows
    <2> QED BY <2>8, <2>9
<1>2. IInv /\ OrderInv /\ [Next]_vars => [Newest]_vars
    BY <1>1
<1> QED BY <1>2, Invariance, InOrder, PTL DEF Spec, NewestReported
=============================================================================
