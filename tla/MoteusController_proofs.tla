----------------------- MODULE MoteusController_proofs -----------------------
(***************************************************************************)
(* Proofs about the calls of one moteus::Controller, for any number of     *)
(* calls and of frames to a command, any packet numbers and retries, and   *)
(* whatever requests and replies are lost.                                 *)
(*                                                                         *)
(* The output of the board is at all times in four places, one after the   *)
(* other: with the client (got), in the packet or the frame that is coming *)
(* (Coming), ready on the board (queue), and still to be printed           *)
(* (working).  Every step moves the head of one of them to the end of the  *)
(* one before, or loses it, so that the whole stays in order (OrderInv);   *)
(* with flow control nothing is lost (FlowInv).  On a channel where every  *)
(* call so far succeeded, what is in the last three places is the rest of  *)
(* the output of the command under way and of no other (CommandInv).       *)
(***************************************************************************)
EXTENDS MoteusController, SequenceTheorems, FiniteSetTheorems, TLAPS

Pieces == [call : Nat, part : 1..3, end : {"text", "none", "OK"}]
Text == Seq(Pieces)
Packets == 0..(PacketModulus - 1)

Steps == {"idle", "write", "probe", "probed", "poll", "handle", "position", "moving"}
Results == [kind : Kinds, error : {0, ETIMEDOUT}, result : Text, flow : BOOLEAN, true : BOOLEAN]

TypeOK ==
    /\ call \in [number : Nat, kind : Kinds \cup {"none"}, step : Steps]
    /\ write \in Int /\ empty \in Nat /\ retries \in Nat /\ count \in 0..RepliesToPass
    /\ line \in Text /\ output \in Text
    /\ {probed, useFlow, heard} \subseteq BOOLEAN
    /\ {ack, packet} \subseteq Packets
    /\ ended \in Seq(Results)
    /\ {got, said, queue, working, pending} \subseteq Text
    /\ board \in {"flow", "plain", "deaf"}
    /\ motion \in [target : Nat, flag : Nat, complete : BOOLEAN, fault : BOOLEAN]

ControlInv ==
    /\ call.step = "idle" => call.number = Len(ended)
    /\ call.step # "idle" => call.number = Len(ended) + 1 /\ call.kind \in Kinds
    /\ call.step = "write" => call.kind \in {"ok", "single"}
    /\ call.step \in {"position", "moving"} <=> call.kind = "position" /\ call.step # "idle"
    /\ call.step = "probe" => ~probed
    /\ call.step \in {"probed", "poll", "handle"} => probed
    /\ call.step = "probed" => ~useFlow
    /\ ~probed => got = << >> /\ pending = << >> /\ ~useFlow
    /\ useFlow => board = "flow"

(* What a cycle brings: the packet that is pending, or the output that is   *)
(* next, and perhaps a stranger.                                            *)
FlowFrame(noise) ==
    /\ replies = {Frame("flow", packet, pending)} \cup noise
    /\ board = "flow" /\ (useFlow \/ call.step = "probed")
    /\ useFlow /\ ack = packet => pending = << >>

PlainFrame(noise) ==
    /\ \E data \in Text : replies = {Frame("plain", 0, data)} \cup noise
    /\ ~useFlow /\ pending = << >>
    /\ call.step = "probed" => board = "plain"

ReplyInv ==
    /\ call.step \in {"probed", "handle"} =>
        \E noise \in Noise : replies = noise \/ FlowFrame(noise) \/ PlainFrame(noise)
    /\ call.step \notin {"probed", "handle", "moving"} => replies = {}

----------------------------------------------------------------------------
(* The stream. *)

Arriving == call.step \in {"probed", "handle"} /\ FromTarget # {}

Coming ==
    IF Arriving THEN Only(FromTarget).data
    ELSE IF useFlow /\ ack = packet THEN << >> ELSE pending

Sorted(text) == \A j, k \in DOMAIN text : j < k => Before(text[j], text[k])
AllBefore(early, late) ==
    \A j \in DOMAIN early, k \in DOMAIN late : Before(early[j], late[k])

InOrder(first, second, third, fourth) ==
    /\ Sorted(first) /\ Sorted(second) /\ Sorted(third) /\ Sorted(fourth)
    /\ AllBefore(first, second) /\ AllBefore(first, third) /\ AllBefore(first, fourth)
    /\ AllBefore(second, third) /\ AllBefore(second, fourth) /\ AllBefore(third, fourth)

(* The last call that may have printed: a command does after its last chunk. *)
Printing == IF call.step = "write" THEN call.number - 1 ELSE call.number
UpTo(text, number) == \A k \in DOMAIN text : text[k].call <= number

OrderInv ==
    /\ InOrder(got, Coming, queue, working)
    /\ \A text \in {got, Coming, queue, working} : UpTo(text, Printing)

(* Flow control is in use, or may come to be. *)
Flowing == \/ useFlow
           \/ ~probed
           \/ call.step = "probed" /\ board = "flow"

FlowInv ==
    /\ Flowing => said = got \o (Coming \o queue)
    /\ useFlow => ack = packet \/ pending # << >>

----------------------------------------------------------------------------
(* The command under way. *)

Good == \A k \in DOMAIN ended : ended[k].error = 0

Rest == (Coming \o queue) \o working

(* How far the client is with a command, by what is left of its output; the *)
(* board may have printed none, if it did not hear the whole command.       *)
Progress(number, kind, rest, rline, routput) ==
    LET text == OutputOf(number, kind)
    IN \/ rest = << >> /\ rline = << >> /\ routput = << >>
       \/ rest = text /\ rline = << >> /\ routput = << >>
       \/ /\ kind = "ok"
          /\ routput = <<text[1]>>
          /\ \/ rest = <<text[2], text[3]>> /\ rline = << >>
             \/ rest = <<text[3]>> /\ rline = <<text[2]>>
       \/ kind = "single" /\ rest = <<text[2]>> /\ rline = <<text[1]>> /\ routput = << >>

Commanding == call.step \in {"probe", "probed", "poll", "handle"} /\ call.kind \in {"ok", "single"}

CommandInv ==
    Good /\ Flowing =>
        /\ call.step = "write" => line = << >> /\ output = << >>
        /\ IF Commanding THEN Progress(call.number, call.kind, Rest, line, output)
           ELSE Rest = << >>

----------------------------------------------------------------------------
(* The move under way. *)

Reached == motion.flag = call.number /\ motion.complete

MoveInv ==
    /\ call.step = "moving" => replies = {} \/ \E complete, fault \in BOOLEAN :
            replies = {[source |-> "target", complete |-> complete, fault |-> fault]}
    /\ call.step \in {"position", "moving"} /\ count < RepliesToPass =>
        motion.target = call.number
    /\ call.step = "moving" /\ replies # {} => motion.target = call.number
    /\ call.step = "moving" =>
        \A frame \in replies :
            /\ frame.fault => motion.fault
            /\ frame.complete /\ count < RepliesToPass => motion.fault \/ Reached

----------------------------------------------------------------------------
IInv == /\ TypeOK /\ ControlInv /\ ReplyInv
        /\ OrderInv /\ FlowInv /\ CommandInv /\ OwnOutput
        /\ MoveInv /\ MoveDone

----------------------------------------------------------------------------
(* The largest and the smallest of a set of positions. *)

(* Max is the element that no other exceeds. *)
LEMMA MaxIs ==
    ASSUME NEW S \in SUBSET Int, NEW m \in S, \A y \in S : m >= y
    PROVE  Max(S) = m
<1>1. Max(S) \in S /\ \A y \in S : Max(S) >= y BY DEF Max
<1>2. Max(S) >= m /\ m >= Max(S) BY <1>1
<1>3. Max(S) \in Int /\ m \in Int BY <1>1
<1> QED BY <1>2, <1>3

(* Min is the element that exceeds no other. *)
LEMMA MinIs ==
    ASSUME NEW S \in SUBSET Int, NEW m \in S, \A y \in S : m =< y
    PROVE  Min(S) = m
<1>1. Min(S) \in S /\ \A y \in S : Min(S) =< y BY DEF Min
<1>2. Min(S) =< m /\ m =< Min(S) BY <1>1
<1>3. Min(S) \in Int /\ m \in Int BY <1>1
<1> QED BY <1>2, <1>3

(* Every nonempty set of naturals has a smallest element. *)
LEMMA Smallest ==
    ASSUME NEW S \in SUBSET Nat, S # {}
    PROVE  \E x \in S : \A y \in S : x =< y
<1>1. PICK x \in S : \A y \in S : ~(<<y, x>> \in OpToRel(<, Nat))
    BY NatLessThanWellFounded, WFMin
<1>2. \A y \in S : ~(y < x) BY <1>1 DEF OpToRel
<1> QED BY <1>2

(* The smallest of a set of positions is one of them. *)
LEMMA MinIn ==
    ASSUME NEW S \in SUBSET Nat, S # {}
    PROVE  Min(S) \in S
BY Smallest DEF Min

(* So is the largest of a set that has a bound. *)
LEMMA MaxIn ==
    ASSUME NEW n \in Nat, NEW S \in SUBSET (0..n), S # {}
    PROVE  Max(S) \in S
<1> DEFINE T == {n - x : x \in S}
<1>1. \A x \in S : n - x \in Nat OBVIOUS
<1>2. PICK t \in T : \A y \in T : t =< y
    <2>1. T \in SUBSET Nat BY <1>1
    <2>2. T # {} OBVIOUS
    <2> HIDE DEF T
    <2> QED BY <2>1, <2>2, Smallest
<1>3. PICK x \in S : t = n - x OBVIOUS
<1>4. \A y \in S : n - x =< n - y BY <1>2, <1>3
<1>5. \A y \in S : x >= y BY <1>4
<1> QED BY <1>5 DEF Max

----------------------------------------------------------------------------
(* Sequences of pieces. *)

(* The output of a command is text, of that command. *)
LEMMA OutputText ==
    ASSUME NEW c \in Nat, NEW kind
    PROVE  /\ OutputOf(c, kind) \in Text
           /\ Sorted(OutputOf(c, kind))
           /\ \A k \in DOMAIN OutputOf(c, kind) : OutputOf(c, kind)[k].call = c
<1>1. Piece(c, 1, "text") \in Pieces /\ Piece(c, 2, "none") \in Pieces
      /\ Piece(c, 3, "OK") \in Pieces /\ Piece(c, 1, "none") \in Pieces
      /\ Piece(c, 2, "text") \in Pieces
    BY DEF Piece, Pieces
<1>2. CASE kind = "ok" BY <1>1, <1>2 DEF OutputOf, Text, Sorted, Before, Piece
<1>3. CASE kind # "ok" BY <1>1, <1>3 DEF OutputOf, Text, Sorted, Before, Piece
<1> QED BY <1>2, <1>3

(* A packet takes the head of the queue, and leaves the tail. *)
LEMMA RoomAndLater ==
    ASSUME NEW q \in Text
    PROVE  /\ Room(q) \in Text /\ Later(q) \in Text
           /\ Room(q) \o Later(q) = q
           /\ Len(Room(q)) <= 2
           /\ Room(q) = << >> => q = << >>
<1>1. Len(q) \in Nat /\ Fit(q) \in 0..Len(q) /\ Fit(q) <= 2 BY DEF Text, Fit
<1>2. \A k \in 1..Len(q) : q[k] \in Pieces BY DEF Text
<1>3. Room(q) \in Text /\ Len(Room(q)) = Fit(q)
    BY <1>1, <1>2, SubSeqProperties DEF Room, Text
<1>4. Later(q) \in Text BY <1>1, <1>2, SubSeqProperties DEF Later, Text
<1>5. Room(q) \o Later(q) = SubSeq(q, 1, Len(q))
    <2>1. 1 \in 1..(Len(q) + 1) /\ Fit(q) \in (1 - 1)..Len(q) /\ Len(q) \in Fit(q)..Len(q)
        BY <1>1
    <2> QED BY <2>1, ConcatAdjacentSubSeq DEF Room, Later, Text
<1>6. SubSeq(q, 1, Len(q)) = q BY SubSeqFull DEF Text
<1>7. Room(q) = << >> => q = << >>
    <2> SUFFICES ASSUME Room(q) = << >> PROVE q = << >>
        OBVIOUS
    <2>1. Fit(q) = 0 BY <1>3
    <2>2. Len(q) = 0 BY <1>1, <2>1 DEF Fit
    <2> QED BY <2>2, EmptySeq DEF Text
<1> QED BY <1>1, <1>3, <1>4, <1>5, <1>6, <1>7

(* What holds of the concatenation, and what of its parts. *)
LEMMA ConcatText ==
    ASSUME NEW s \in Text, NEW t \in Text
    PROVE  /\ s \o t \in Text /\ Len(s \o t) = Len(s) + Len(t)
           /\ \A k \in DOMAIN s : k \in DOMAIN (s \o t) /\ (s \o t)[k] = s[k]
           /\ \A k \in DOMAIN t :
                Len(s) + k \in DOMAIN (s \o t) /\ (s \o t)[Len(s) + k] = t[k]
           /\ \A k \in DOMAIN (s \o t) :
                \/ k \in DOMAIN s
                \/ k - Len(s) \in DOMAIN t /\ k = Len(s) + (k - Len(s))
BY ConcatProperties DEF Text

(* Concatenation is associative on text. *)
LEMMA ConcatAssoc ==
    ASSUME NEW s \in Text, NEW t \in Text, NEW u \in Text
    PROVE  (s \o t) \o u = s \o (t \o u)
BY ConcatAssociative, SMTT(30) DEF Text

(* Every piece of a part is a piece of the whole. *)
LEMMA PartsOfConcat ==
    ASSUME NEW s \in Text, NEW t \in Text
    PROVE  /\ \A k \in DOMAIN s : \E i \in DOMAIN (s \o t) : (s \o t)[i] = s[k]
           /\ \A k \in DOMAIN t : \E i \in DOMAIN (s \o t) : (s \o t)[i] = t[k]
<1>1. ASSUME NEW k \in DOMAIN s PROVE \E i \in DOMAIN (s \o t) : (s \o t)[i] = s[k]
    BY ConcatText
<1>2. ASSUME NEW k \in DOMAIN t PROVE \E i \in DOMAIN (s \o t) : (s \o t)[i] = t[k]
    <2>1. Len(s) + k \in DOMAIN (s \o t) /\ (s \o t)[Len(s) + k] = t[k] BY ConcatText
    <2> QED BY <2>1
<1> QED BY <1>1, <1>2

(* Text is in order exactly when its parts are and one is before the other. *)
LEMMA SortedConcat ==
    ASSUME NEW s \in Text, NEW t \in Text
    PROVE  Sorted(s \o t) <=> Sorted(s) /\ Sorted(t) /\ AllBefore(s, t)
<1>0. Len(s) \in Nat /\ DOMAIN s = 1..Len(s) /\ DOMAIN t = 1..Len(t) BY DEF Text
<1>1. ASSUME Sorted(s \o t) PROVE Sorted(s) BY <1>1, <1>0, ConcatText DEF Sorted
<1>2. ASSUME Sorted(s \o t) PROVE Sorted(t)
    <2> SUFFICES ASSUME NEW j \in DOMAIN t, NEW k \in DOMAIN t, j < k
                 PROVE  Before(t[j], t[k])
        BY DEF Sorted
    <2>1. Len(s) + j < Len(s) + k BY <1>0
    <2>2. /\ Len(s) + j \in DOMAIN (s \o t) /\ Len(s) + k \in DOMAIN (s \o t)
          /\ (s \o t)[Len(s) + j] = t[j] /\ (s \o t)[Len(s) + k] = t[k]
        BY ConcatText
    <2>3. Before((s \o t)[Len(s) + j], (s \o t)[Len(s) + k])
        BY <1>2, <2>1, <2>2 DEF Sorted
    <2> QED BY <2>2, <2>3
<1>3. ASSUME Sorted(s \o t) PROVE AllBefore(s, t)
    <2> SUFFICES ASSUME NEW j \in DOMAIN s, NEW k \in DOMAIN t
                 PROVE  Before(s[j], t[k])
        BY DEF AllBefore
    <2>1. j < Len(s) + k BY <1>0
    <2>2. /\ j \in DOMAIN (s \o t) /\ Len(s) + k \in DOMAIN (s \o t)
          /\ (s \o t)[j] = s[j] /\ (s \o t)[Len(s) + k] = t[k]
        BY ConcatText
    <2>3. Before((s \o t)[j], (s \o t)[Len(s) + k])
        BY <1>3, <2>1, <2>2 DEF Sorted
    <2> QED BY <2>2, <2>3
<1>4. ASSUME Sorted(s), Sorted(t), AllBefore(s, t) PROVE Sorted(s \o t)
    <2> SUFFICES ASSUME NEW j \in DOMAIN (s \o t), NEW k \in DOMAIN (s \o t), j < k
                 PROVE  Before((s \o t)[j], (s \o t)[k])
        BY DEF Sorted
    <2>0. j \in Int /\ k \in Int BY ConcatText DEF Text
    <2>1. CASE k \in DOMAIN s
        <3>1. j \in DOMAIN s BY <1>0, <2>0, <2>1, ConcatText
        <3> QED BY <1>4, <2>1, <3>1, ConcatText DEF Sorted
    <2>2. CASE j \in DOMAIN s /\ k - Len(s) \in DOMAIN t
        BY <1>0, <1>4, <2>0, <2>2, ConcatText DEF AllBefore
    <2>3. CASE j - Len(s) \in DOMAIN t /\ k - Len(s) \in DOMAIN t
        <3>1. j - Len(s) < k - Len(s) BY <1>0, <2>0
        <3>2. (s \o t)[j] = t[j - Len(s)] /\ (s \o t)[k] = t[k - Len(s)]
            BY <1>0, <2>0, <2>3, ConcatText
        <3> QED BY <1>4, <2>3, <3>1, <3>2 DEF Sorted
    <2> QED BY <2>1, <2>2, <2>3, ConcatText
<1> QED BY <1>1, <1>2, <1>3, <1>4

(* Before or after a whole is before or after both its parts. *)
LEMMA BeforeConcat ==
    ASSUME NEW s \in Text, NEW t \in Text, NEW u \in Text
    PROVE  /\ AllBefore(s \o t, u) <=> AllBefore(s, u) /\ AllBefore(t, u)
           /\ AllBefore(u, s \o t) <=> AllBefore(u, s) /\ AllBefore(u, t)
<1>1. ASSUME AllBefore(s \o t, u) PROVE AllBefore(s, u) /\ AllBefore(t, u)
    <2>1. ASSUME NEW k \in DOMAIN s, NEW l \in DOMAIN u PROVE Before(s[k], u[l])
        <3>1. PICK i \in DOMAIN (s \o t) : (s \o t)[i] = s[k] BY PartsOfConcat
        <3> QED BY <1>1, <3>1 DEF AllBefore
    <2>2. ASSUME NEW k \in DOMAIN t, NEW l \in DOMAIN u PROVE Before(t[k], u[l])
        <3>1. PICK i \in DOMAIN (s \o t) : (s \o t)[i] = t[k] BY PartsOfConcat
        <3> QED BY <1>1, <3>1 DEF AllBefore
    <2> QED BY <2>1, <2>2 DEF AllBefore
<1>2. ASSUME AllBefore(u, s \o t) PROVE AllBefore(u, s) /\ AllBefore(u, t)
    <2>1. ASSUME NEW l \in DOMAIN u, NEW k \in DOMAIN s PROVE Before(u[l], s[k])
        <3>1. PICK i \in DOMAIN (s \o t) : (s \o t)[i] = s[k] BY PartsOfConcat
        <3> QED BY <1>2, <3>1 DEF AllBefore
    <2>2. ASSUME NEW l \in DOMAIN u, NEW k \in DOMAIN t PROVE Before(u[l], t[k])
        <3>1. PICK i \in DOMAIN (s \o t) : (s \o t)[i] = t[k] BY PartsOfConcat
        <3> QED BY <1>2, <3>1 DEF AllBefore
    <2> QED BY <2>1, <2>2 DEF AllBefore
<1>3. \A k \in DOMAIN (s \o t) :
        \/ k \in DOMAIN s /\ (s \o t)[k] = s[k]
        \/ k - Len(s) \in DOMAIN t /\ (s \o t)[k] = t[k - Len(s)]
    BY ConcatText
<1>4. ASSUME AllBefore(s, u), AllBefore(t, u) PROVE AllBefore(s \o t, u)
    BY <1>3, <1>4 DEF AllBefore
<1>5. ASSUME AllBefore(u, s), AllBefore(u, t) PROVE AllBefore(u, s \o t)
    BY <1>3, <1>5 DEF AllBefore
<1> QED BY <1>1, <1>2, <1>4, <1>5

(* A bound on the calls of a text bounds its parts, and those of the parts  *)
(* the text.                                                                *)
LEMMA UpToConcat ==
    ASSUME NEW s \in Text, NEW t \in Text, NEW number
    PROVE  UpTo(s \o t, number) <=> UpTo(s, number) /\ UpTo(t, number)
<1>1. ASSUME UpTo(s \o t, number) PROVE UpTo(s, number) /\ UpTo(t, number)
    BY <1>1, PartsOfConcat DEF UpTo
<1>2. \A k \in DOMAIN (s \o t) :
        \/ k \in DOMAIN s /\ (s \o t)[k] = s[k]
        \/ k - Len(s) \in DOMAIN t /\ (s \o t)[k] = t[k - Len(s)]
    BY ConcatText
<1>3. ASSUME UpTo(s, number), UpTo(t, number) PROVE UpTo(s \o t, number)
    BY <1>2, <1>3 DEF UpTo
<1> QED BY <1>1, <1>3

(* A bound may be raised. *)
LEMMA UpToMore ==
    ASSUME NEW text \in Text, NEW early \in Int, NEW late \in Int, early <= late,
           UpTo(text, early)
    PROVE  UpTo(text, late)
<1>1. \A k \in DOMAIN text : text[k] \in Pieces BY DEF Text
<1>2. \A k \in DOMAIN text : text[k].call \in Nat BY <1>1 DEF Pieces
<1> QED BY <1>2 DEF UpTo

----------------------------------------------------------------------------
(* The four places. *)

(* No text at all is in order with any. *)
LEMMA NothingInOrder ==
    ASSUME NEW t
    PROVE  Sorted(<< >>) /\ AllBefore(<< >>, t) /\ AllBefore(t, << >>)
BY DEF Sorted, AllBefore

(* What arrives goes to the client, or is lost. *)
LEMMA TakeSecond ==
    ASSUME NEW a \in Text, NEW b \in Text, NEW c \in Text, NEW d \in Text, InOrder(a, b, c, d)
    PROVE  InOrder(a \o b, << >>, c, d) /\ InOrder(a, << >>, c, d)
BY SortedConcat, BeforeConcat, NothingInOrder DEF InOrder

(* The head of what is ready is sent, or is lost. *)
LEMMA SplitThird ==
    ASSUME NEW a \in Text, NEW c \in Text, NEW d \in Text, NEW e \in Text, NEW f \in Text,
           InOrder(a, << >>, c, d), c = e \o f
    PROVE  InOrder(a, e, f, d) /\ InOrder(a, << >>, f, d)
<1>1. Sorted(e) /\ Sorted(f) /\ AllBefore(e, f) BY SortedConcat DEF InOrder
<1>2. AllBefore(a, e) /\ AllBefore(a, f) BY BeforeConcat DEF InOrder
<1>3. AllBefore(e, d) /\ AllBefore(f, d) BY BeforeConcat DEF InOrder
<1> QED BY <1>1, <1>2, <1>3, NothingInOrder DEF InOrder

(* The head of what is to be printed is printed. *)
LEMMA ShiftFourth ==
    ASSUME NEW a \in Text, NEW b \in Text, NEW c \in Text, NEW d \in Text, NEW e \in Text,
           InOrder(a, b, c, e \o d)
    PROVE  InOrder(a, b, c \o e, d)
<1>1. Sorted(e) /\ Sorted(d) /\ AllBefore(e, d) BY SortedConcat DEF InOrder
<1>2. AllBefore(a, e) /\ AllBefore(a, d) BY BeforeConcat DEF InOrder
<1>3. AllBefore(b, e) /\ AllBefore(b, d) BY BeforeConcat DEF InOrder
<1>4. AllBefore(c, e) /\ AllBefore(c, d) BY BeforeConcat DEF InOrder
<1>5. Sorted(c \o e) BY <1>1, <1>4, SortedConcat DEF InOrder
<1>6. AllBefore(a, c \o e) /\ AllBefore(b, c \o e) /\ AllBefore(c \o e, d)
    BY <1>1, <1>2, <1>3, <1>4, BeforeConcat DEF InOrder
<1> QED BY <1>1, <1>2, <1>3, <1>4, <1>5, <1>6 DEF InOrder

(* A command prints after all that was printed before. *)
LEMMA ExtendFourth ==
    ASSUME NEW a \in Text, NEW b \in Text, NEW c \in Text, NEW d \in Text, NEW e \in Text,
           InOrder(a, b, c, d), Sorted(e),
           AllBefore(a, e), AllBefore(b, e), AllBefore(c, e), AllBefore(d, e)
    PROVE  InOrder(a, b, c, d \o e)
<1>1. Sorted(d \o e) BY SortedConcat DEF InOrder
<1>2. AllBefore(a, d \o e) /\ AllBefore(b, d \o e) /\ AllBefore(c, d \o e)
    BY BeforeConcat DEF InOrder
<1> QED BY <1>1, <1>2 DEF InOrder

(* Earlier calls, earlier pieces. *)
LEMMA EarlierCalls ==
    ASSUME NEW s \in Text, NEW t \in Text, NEW n \in Nat,
           \A k \in DOMAIN s : s[k].call < n, \A k \in DOMAIN t : t[k].call = n
    PROVE  AllBefore(s, t)
BY DEF AllBefore, Before

(* A nonempty text is its head and its tail. *)
LEMMA HeadAndTail ==
    ASSUME NEW s \in Text, s # << >>
    PROVE  /\ <<Head(s)>> \in Text /\ Tail(s) \in Text /\ Head(s) \in Pieces
           /\ s = <<Head(s)>> \o Tail(s)
<1>1. Head(s) \in Pieces /\ Tail(s) \in Text BY HeadTailProperties DEF Text
<1>2. Len(s) \in Nat \ {0} BY EmptySeq DEF Text
<1>3. SubSeq(s, 1, Len(s)) = << s[1] >> \o SubSeq(s, 1 + 1, Len(s))
    <2>1. 1 \in 1..Len(s) /\ Len(s) \in 1..Len(s) BY <1>2
    <2> QED BY <2>1, SubSeqRecursiveFirst DEF Text
<1>4. Tail(s) = SubSeq(s, 2, Len(s)) BY TailIsSubSeq DEF Text
<1>5. Head(s) = s[1] OBVIOUS
<1>6. SubSeq(s, 1, Len(s)) = s BY SubSeqFull DEF Text
<1>7. <<Head(s)>> \in Text BY <1>1 DEF Text
<1> QED BY <1>1, <1>3, <1>4, <1>5, <1>6, <1>7

----------------------------------------------------------------------------
(* The frames of a cycle. *)

BaseInv == TypeOK /\ ControlInv /\ ReplyInv

(* The only frame of a set of one. *)
LEMMA OnlyOne ==
    ASSUME NEW frame PROVE Only({frame}) = frame
BY DEF Only

(* Of what a cycle brought, the target's frame alone counts, if there is one. *)
LEMMA OneFrame ==
    ASSUME NEW frame, frame.source = "target", NEW noise \in Noise
    PROVE  /\ {reply \in {frame} \cup noise : IsFromTarget(reply)} = {frame}
           /\ {reply \in noise : IsFromTarget(reply)} = {}
BY DEF Noise, Stranger, IsFromTarget

FlowArrived ==
    /\ FromTarget = {Frame("flow", packet, pending)}
    /\ \A protocol : Parsed(protocol) = IF protocol = "flow" THEN FromTarget ELSE {}
    /\ board = "flow" /\ (useFlow \/ call.step = "probed")
    /\ useFlow /\ ack = packet => pending = << >>
    /\ Data(FromTarget) = pending /\ Coming = pending

PlainArrived(data) ==
    /\ FromTarget = {Frame("plain", 0, data)}
    /\ \A protocol : Parsed(protocol) = IF protocol = "plain" THEN FromTarget ELSE {}
    /\ ~useFlow /\ pending = << >>
    /\ call.step = "probed" => board = "plain"
    /\ Data(FromTarget) = data /\ Coming = data

NothingArrived ==
    /\ FromTarget = {} /\ \A protocol : Parsed(protocol) = {}
    /\ Data(FromTarget) = << >>
    /\ Coming = IF useFlow /\ ack = packet THEN << >> ELSE pending

(* The cases of a cycle that is over. *)
LEMMA Arrival ==
    ASSUME ReplyInv, call.step \in {"probed", "handle"}
    PROVE  FlowArrived \/ NothingArrived \/ \E data \in Text : PlainArrived(data)
<1>1. PICK noise \in Noise : replies = noise \/ FlowFrame(noise) \/ PlainFrame(noise)
    BY DEF ReplyInv
<1>2. CASE replies = noise
    <2>1. FromTarget = {}
        <3>1. Frame("plain", 0, << >>).source = "target" BY DEF Frame
        <3> QED BY <1>2, <3>1, OneFrame DEF FromTarget
    <2>2. \A protocol : Parsed(protocol) = {} BY <2>1 DEF Parsed
    <2> QED BY <2>1, <2>2 DEF NothingArrived, Data, Coming, Arriving
<1>3. CASE FlowFrame(noise)
    <2> DEFINE frame == Frame("flow", packet, pending)
    <2>1. /\ frame.source = "target" /\ frame.protocol = "flow"
          /\ frame.data = pending /\ frame.number = packet
        BY DEF Frame
    <2>2. replies = {frame} \cup noise BY <1>3 DEF FlowFrame
    <2> HIDE DEF frame
    <2>3. FromTarget = {frame} BY <2>1, <2>2, OneFrame DEF FromTarget
    <2>4. \A protocol : Parsed(protocol) = IF protocol = "flow" THEN FromTarget ELSE {}
        BY <2>1, <2>3 DEF Parsed
    <2>5. Data(FromTarget) = pending /\ Coming = pending
        BY <2>1, <2>3, OnlyOne DEF Data, Coming, Arriving
    <2> QED BY <1>3, <2>3, <2>4, <2>5 DEF FlowArrived, FlowFrame, frame
<1>4. CASE PlainFrame(noise)
    <2>1. PICK data \in Text : replies = {Frame("plain", 0, data)} \cup noise
        BY <1>4 DEF PlainFrame
    <2> DEFINE frame == Frame("plain", 0, data)
    <2>2. frame.source = "target" /\ frame.protocol = "plain" /\ frame.data = data
        BY DEF Frame
    <2>3. replies = {frame} \cup noise BY <2>1
    <2> HIDE DEF frame
    <2>4. FromTarget = {frame} BY <2>2, <2>3, OneFrame DEF FromTarget
    <2>5. \A protocol : Parsed(protocol) = IF protocol = "plain" THEN FromTarget ELSE {}
        BY <2>2, <2>4 DEF Parsed
    <2>6. Data(FromTarget) = data /\ Coming = data
        BY <2>2, <2>4, OnlyOne DEF Data, Coming, Arriving
    <2>7. PlainArrived(data) BY <1>4, <2>4, <2>5, <2>6 DEF PlainArrived, PlainFrame, frame
    <2> QED BY <2>7
<1> QED BY <1>1, <1>2, <1>3, <1>4

(* What is coming is text. *)
LEMMA ComingText ==
    ASSUME TypeOK, ReplyInv
    PROVE  Coming \in Text
<1>1. << >> \in Text /\ pending \in Text BY EmptySeq DEF TypeOK, Text
<1>2. CASE call.step \in {"probed", "handle"}
    <2>1. CASE FlowArrived BY <1>1, <2>1 DEF FlowArrived
    <2>2. CASE NothingArrived BY <1>1, <2>2 DEF NothingArrived
    <2>3. CASE \E data \in Text : PlainArrived(data) BY <2>3 DEF PlainArrived
    <2> QED BY <1>2, <2>1, <2>2, <2>3, Arrival
<1>3. CASE ~(call.step \in {"probed", "handle"})
    BY <1>1, <1>3 DEF Coming, Arriving
<1> QED BY <1>2, <1>3

(* Between two cycles nothing arrives. *)
LEMMA AtRest ==
    ASSUME call.step \notin {"probed", "handle"}
    PROVE  Coming = IF useFlow /\ ack = packet THEN << >> ELSE pending
BY DEF Coming, Arriving

(* The data taken off a cycle: what was coming, or none. *)
Handled(frames, data) ==
    /\ data \in Text
    /\ \/ data = Coming
       \/ data = << >> /\ frames = {} /\ NothingArrived

(* What is read off the frames of a cycle is what was coming, or nothing,   *)
(* when no frame came; and it is then still coming.                         *)
LEMMA ReadOff ==
    ASSUME BaseInv, call.step \in {"probed", "handle"}
    PROVE  /\ call.step = "probed" => Handled(FromTarget, Data(FromTarget))
           /\ call.step = "handle" =>
                /\ Parsed(Polling) = FromTarget
                /\ Handled(FromTarget, Data(FromTarget))
<1>1. Handled(FromTarget, Data(FromTarget))
    <2>1. << >> \in Text BY EmptySeq DEF Text
    <2>2. CASE FlowArrived BY <2>2 DEF FlowArrived, Handled, BaseInv, TypeOK
    <2>3. CASE NothingArrived BY <2>1, <2>3 DEF NothingArrived, Handled
    <2>4. CASE \E data \in Text : PlainArrived(data) BY <2>4 DEF PlainArrived, Handled
    <2> QED BY <2>2, <2>3, <2>4, Arrival DEF BaseInv
<1>2. ASSUME call.step = "handle" PROVE Parsed(Polling) = FromTarget
    <2>1. CASE FlowArrived BY <1>2, <2>1 DEF FlowArrived, Polling
    <2>2. CASE NothingArrived BY <2>2 DEF NothingArrived
    <2>3. CASE \E data \in Text : PlainArrived(data) BY <2>3 DEF PlainArrived, Polling
    <2> QED BY <2>1, <2>2, <2>3, Arrival DEF BaseInv
<1> QED BY <1>1, <1>2

----------------------------------------------------------------------------
(* A cycle. *)

(* After a cycle that brought a frame, its data is what is coming. *)
LEMMA ComingWithFrame ==
    ASSUME NEW frame, frame.source = "target", NEW noise \in Noise,
           replies' = {frame} \cup noise, call'.step \in {"probed", "handle"}
    PROVE  Coming' = frame.data
<1>1. FromTarget' = {frame} BY OneFrame DEF FromTarget
<1> QED BY <1>1, OnlyOne DEF Coming, Arriving

(* After one that brought none, the packet not acknowledged is. *)
LEMMA ComingWithout ==
    ASSUME replies' \in Noise
    PROVE  Coming' = IF useFlow' /\ ack' = packet' THEN << >> ELSE pending'
<1>1. FromTarget' = {}
    <2>1. Frame("plain", 0, << >>).source = "target" BY DEF Frame
    <2> QED BY <2>1, OneFrame DEF FromTarget
<1> QED BY <1>1 DEF Coming, Arriving

(* What a cycle does to the stream: nothing, or the next packet is coming,  *)
(* or, without flow control, what was coming is lost.                       *)
Moved ==
    \/ Coming' = Coming /\ queue' = queue
    \/ Coming = << >> /\ Coming' = Room(queue) /\ queue' = Later(queue)
    \/ ~Flowing' /\ Coming' = << >> /\ queue' \in {queue, Later(queue)}

Cycling(protocol, number) ==
    /\ Exchange(protocol, number)
    /\ UNCHANGED <<useFlow, ack, board>>
    /\ probed'
    /\ \/ call.step = "probe" /\ protocol = "flow" /\ call'.step = "probed"
       \/ call.step = "poll" /\ protocol = Polling /\ number = ack /\ call'.step = "handle"

CycleResult ==
    /\ Moved /\ ReplyInv'
    /\ queue' \in Text /\ pending' \in Text /\ packet' \in Packets
    /\ useFlow => ack = packet' \/ pending' # << >>

(* The number of a new packet is another. *)
LEMMA NewNumber ==
    ASSUME TypeOK
    PROVE  /\ NextNumber \in Packets
           /\ queue # << >> => NextNumber # packet
<1>1. PacketModulus \in Nat /\ PacketModulus >= 2 BY MoteusControllerAssumption
<1>2. packet \in 0..(PacketModulus - 1) BY DEF TypeOK, Packets
<1>3. packet + 1 < PacketModulus => (packet + 1) % PacketModulus = packet + 1 BY <1>1, <1>2
<1>4. packet + 1 = PacketModulus => (packet + 1) % PacketModulus = 0 BY <1>1, <1>2
<1>5. packet + 1 < PacketModulus \/ packet + 1 = PacketModulus BY <1>1, <1>2
<1> QED BY <1>1, <1>2, <1>3, <1>4, <1>5 DEF NextNumber, Packets

(* A request the board does not hear, or does not answer. *)
LEMMA CycleUnheard ==
    ASSUME BaseInv, FlowInv, NEW protocol, NEW number, Cycling(protocol, number),
           replies' \in Noise, UNCHANGED <<queue, pending, packet>>
    PROVE  CycleResult
<1>1. Coming' = Coming BY ComingWithout, AtRest DEF Cycling
<1>2. ReplyInv' BY DEF ReplyInv, Cycling
<1> QED BY <1>1, <1>2 DEF CycleResult, Moved, BaseInv, TypeOK, FlowInv, Cycling

(* A request the board answers in the plain protocol. *)
LEMMA CyclePlain ==
    ASSUME BaseInv, FlowInv, NEW protocol, NEW number, Cycling(protocol, number),
           Speaks(protocol) = "plain", BoardActs(protocol, number),
           \/ replies' \in Noise
           \/ \E noise \in Noise : replies' = Reply(protocol, number) \cup noise
    PROVE  CycleResult
<1>1. /\ queue' = IF pending = << >> THEN Later(queue) ELSE queue
      /\ pending' = << >> /\ packet' = packet
    BY DEF BoardActs
<1>2. ~useFlow /\ ~useFlow' /\ Coming = pending
    BY AtRest DEF BaseInv, ControlInv, Cycling, Speaks, Polling
<1>3. ~Flowing' /\ (call'.step = "probed" => board' = "plain")
    BY <1>2 DEF Flowing, Cycling, Speaks, Polling
<1>4. /\ queue' \in Text /\ pending' \in Text /\ packet' \in Packets
      /\ Room(queue) \in Text /\ Later(queue) \in Text /\ pending \in Text
    BY <1>1, RoomAndLater, EmptySeq DEF BaseInv, TypeOK, Text
<1>5. CASE replies' \in Noise
    <2>1. Coming' = << >> BY <1>1, <1>5, ComingWithout
    <2>2. Moved BY <1>1, <1>3, <2>1 DEF Moved
    <2>3. ReplyInv' BY <1>5 DEF ReplyInv, Cycling
    <2> QED BY <1>2, <1>4, <2>2, <2>3 DEF CycleResult
<1>6. CASE \E noise \in Noise : replies' = Reply(protocol, number) \cup noise
    <2> DEFINE data == IF pending = << >> THEN Room(queue) ELSE pending
               frame == Frame("plain", 0, data)
    <2>1. Reply(protocol, number) = {frame}
        <3>1. Speaks(protocol) # "deaf" OBVIOUS
        <3> QED BY <3>1, Zenon DEF Reply
    <2>2. PICK noise \in Noise : replies' = {frame} \cup noise BY <1>6, <2>1
    <2>3. frame.source = "target" /\ frame.data = data BY DEF Frame
    <2>4. Coming' = data BY <2>2, <2>3, ComingWithFrame DEF Cycling
    <2>5. Moved BY <1>1, <1>2, <2>4 DEF Moved
    <2>6. data \in Text BY <1>4
    <2>7. PlainFrame(noise)'
        <3>1. \E d \in Text : replies' = {Frame("plain", 0, d)} \cup noise BY <2>2, <2>6
        <3> QED BY <1>1, <1>2, <1>3, <3>1 DEF PlainFrame
    <2>8. ReplyInv'
        <3>1. \E n \in Noise : replies' = n \/ FlowFrame(n)' \/ PlainFrame(n)'
            BY <2>7
        <3> QED BY <3>1 DEF ReplyInv, Cycling
    <2> QED BY <1>2, <1>4, <2>5, <2>8 DEF CycleResult
<1> QED BY <1>5, <1>6

(* A request the board answers with flow control: the packet again, or the  *)
(* next.                                                                    *)
LEMMA CycleFlow ==
    ASSUME BaseInv, FlowInv, NEW protocol, NEW number, Cycling(protocol, number),
           Speaks(protocol) = "flow", BoardActs(protocol, number),
           \/ replies' \in Noise
           \/ \E noise \in Noise : replies' = Reply(protocol, number) \cup noise
    PROVE  CycleResult
<1>1. protocol = "flow" /\ board = "flow" BY DEF Speaks
<1>2. call'.step = "probed" \/ useFlow BY <1>1 DEF Cycling, Polling
<1>3. queue \in Text /\ pending \in Text /\ packet \in Packets BY DEF BaseInv, TypeOK
<1>4. CASE Repeats(number)
    <2>1. UNCHANGED <<queue, pending, packet>> BY <1>4, <1>1 DEF BoardActs, Speaks
    <2>2. useFlow /\ ack = number /\ ack # packet
        BY <1>2, <1>4 DEF Repeats, BaseInv, ControlInv, Cycling
    <2>3. CASE replies' \in Noise BY <2>1, <2>3, CycleUnheard
    <2>4. CASE \E noise \in Noise : replies' = Reply(protocol, number) \cup noise
        <3> DEFINE frame == Frame("flow", packet, pending)
        <3>1. Reply(protocol, number) = {frame} BY <1>1, <1>4 DEF Reply, Speaks
        <3>2. PICK noise \in Noise : replies' = {frame} \cup noise BY <2>4, <3>1
        <3>3. frame.source = "target" /\ frame.data = pending BY DEF Frame
        <3>4. Coming' = pending BY <3>2, <3>3, ComingWithFrame DEF Cycling
        <3>5. Coming = pending BY <2>2, AtRest DEF Cycling
        <3>6. FlowFrame(noise)' BY <1>1, <2>1, <2>2, <3>2 DEF FlowFrame, Cycling
        <3>7. ReplyInv'
            <4>1. \E n \in Noise : replies' = n \/ FlowFrame(n)' \/ PlainFrame(n)'
                BY <3>6
            <4> QED BY <4>1 DEF ReplyInv, Cycling
        <3> QED BY <1>3, <2>1, <2>2, <3>4, <3>5, <3>7 DEF CycleResult, Moved, FlowInv
    <2> QED BY <2>3, <2>4
<1>5. CASE ~Repeats(number)
    <2>1. pending' = Room(queue) /\ queue' = Later(queue) /\ packet' = NextNumber
        BY <1>5, <1>1 DEF BoardActs, Speaks
    <2>2. Room(queue) \in Text /\ Later(queue) \in Text
          /\ (Room(queue) = << >> => queue = << >>) /\ (queue = << >> => Room(queue) = << >>)
        <3>1. queue = << >> => Room(queue) = << >>
            <4>1. queue = << >> => Fit(queue) = 0 BY DEF Fit
            <4> QED BY <4>1, SubSeqEmpty DEF Room
        <3> QED BY <1>3, <3>1, RoomAndLater
    <2>3. packet' \in Packets /\ (queue # << >> => packet' # packet)
          /\ (queue = << >> => packet' = packet)
        BY <2>1, NewNumber DEF BaseInv, NextNumber
    <2>4. Coming = << >>
        <3>1. CASE call.step = "probe" BY <3>1, AtRest DEF BaseInv, ControlInv
        <3>2. CASE call.step # "probe"
            BY <1>2, <1>5, <3>2, AtRest DEF Repeats, Cycling, FlowInv
        <3> QED BY <3>1, <3>2
    <2>5. useFlow => ack = packet
        BY <1>5 DEF Repeats, Cycling, FlowInv, BaseInv, ControlInv
    <2>6. useFlow' = useFlow /\ ack' = ack BY DEF Cycling
    <2>7. CASE replies' \in Noise
        <3>1. Coming' = IF useFlow /\ ack = packet' THEN << >> ELSE Room(queue)
            BY <2>1, <2>6, <2>7, ComingWithout
        <3>2. Coming' = Room(queue) BY <2>2, <2>3, <2>5, <3>1
        <3>3. ReplyInv' BY <2>7 DEF ReplyInv, Cycling
        <3> QED BY <2>1, <2>2, <2>3, <2>4, <2>5, <3>2, <3>3 DEF CycleResult, Moved
    <2>8. CASE \E noise \in Noise : replies' = Reply(protocol, number) \cup noise
        <3> DEFINE frame == Frame("flow", NextNumber, Room(queue))
        <3>1. Reply(protocol, number) = {frame} BY <1>1, <1>5 DEF Reply, Speaks
        <3>2. PICK noise \in Noise : replies' = {frame} \cup noise BY <2>8, <3>1
        <3>3. frame.source = "target" /\ frame.data = Room(queue) BY DEF Frame
        <3>4. Coming' = Room(queue) BY <3>2, <3>3, ComingWithFrame DEF Cycling
        <3>5. FlowFrame(noise)'
            BY <1>1, <1>2, <2>1, <2>2, <2>3, <2>5, <2>6, <3>2 DEF FlowFrame, Cycling
        <3>6. ReplyInv'
            <4>1. \E n \in Noise : replies' = n \/ FlowFrame(n)' \/ PlainFrame(n)'
                BY <3>5
            <4> QED BY <4>1 DEF ReplyInv, Cycling
        <3> QED BY <2>1, <2>2, <2>3, <2>4, <2>5, <3>4, <3>6 DEF CycleResult, Moved
    <2> QED BY <2>7, <2>8
<1> QED BY <1>4, <1>5

(* Every cycle has one of the outcomes of CycleResult. *)
LEMMA Cycle ==
    ASSUME BaseInv, FlowInv, NEW protocol, NEW number, Cycling(protocol, number)
    PROVE  CycleResult
<1>1. \/ replies' \in Noise /\ UNCHANGED <<queue, pending, packet>>
      \/ /\ BoardActs(protocol, number)
         /\ \/ replies' \in Noise
            \/ \E noise \in Noise : replies' = Reply(protocol, number) \cup noise
    BY DEF Cycling, Exchange, RequestLost, ReplyLost, Delivered
<1>2. CASE Speaks(protocol) = "deaf" /\ BoardActs(protocol, number)
    <2>1. UNCHANGED <<queue, pending, packet>>
        <3>1. BoardActs(protocol, number) <=> UNCHANGED <<queue, pending, packet>>
            BY <1>2, Zenon DEF BoardActs
        <3> QED BY <1>2, <3>1
    <2>2. Reply(protocol, number) = {} BY <1>2, Zenon DEF Reply
    <2>3. replies' \in Noise BY <1>1, <2>2 DEF Noise
    <2> QED BY <2>1, <2>3, CycleUnheard
<1>3. Speaks(protocol) \in {"flow", "plain", "deaf"} BY DEF Speaks, BaseInv, TypeOK
<1> QED BY <1>1, <1>2, <1>3, CycleUnheard, CyclePlain, CycleFlow

----------------------------------------------------------------------------
(* A handler. *)

(* A change of step changes nothing else of a call. *)
LEMMA StepChange ==
    ASSUME TypeOK, NEW step \in Steps, call' = [call EXCEPT !.step = step]
    PROVE  /\ call' \in [number : Nat, kind : Kinds \cup {"none"}, step : Steps]
           /\ call'.number = call.number /\ call'.kind = call.kind /\ call'.step = step
BY DEF TypeOK

(* The data is what was coming, or nothing, when that is still coming. *)
Taken(data) ==
    /\ data \in Text /\ got' = got \o data
    /\ \/ data = Coming /\ Coming' = << >>
       \/ data = << >> /\ Coming' = Coming

FlowResult ==
    /\ UNCHANGED <<said, queue, working, pending, packet, board, probed>>
    /\ replies' = {} /\ probed
    /\ useFlow' \in BOOLEAN /\ ack' \in Packets
    /\ useFlow' => board = "flow" /\ Flowing /\ (ack' = packet \/ pending # << >>)

Returns == /\ call' \in [number : Nat, kind : Kinds \cup {"none"}, step : {"idle", "poll"}]
           /\ call'.number = call.number /\ call'.kind = call.kind

(* A handler leaves the call to poll again, or over. *)
LEMMA Returned ==
    ASSUME TypeOK, NEW step \in {"idle", "poll"}, call' = [call EXCEPT !.step = step]
    PROVE  Returns
BY DEF TypeOK, Returns

(* So does the end of a read, *)
LEMMA ReadEndsReturns ==
    ASSUME TypeOK, NEW error, NEW data, ReadEnds(error, data)
    PROVE  Returns
BY Returned DEF ReadEnds, Finish, StepTo

(* and so does ProcessReplies. *)
LEMMA ProcessReturns ==
    ASSUME TypeOK, NEW text, ProcessReplies(text)
    PROVE  Returns
BY Returned DEF ProcessReplies, Finish, StepTo

(* The frame that came is acknowledged. *)
LEMMA AcknowledgesOne ==
    ASSUME NEW frames, NEW protocol, NEW number, NEW data,
           frames = {Frame(protocol, number, data)}, Acknowledge(frames)
    PROVE  frames # {} /\ ack' = number
<1> DEFINE frame == Frame(protocol, number, data)
<1>1. frame.number = number BY DEF Frame
<1>2. frames = {frame} OBVIOUS
<1> HIDE DEF frame
<1>3. Only(frames) = frame /\ frames # {} BY <1>2, OnlyOne
<1> QED BY <1>1, <1>3 DEF Acknowledge

(* The answer to the probe. *)
LEMMA ProbeHandled ==
    ASSUME BaseInv, HandleProbe
    PROVE  Taken(Data(FromTarget)) /\ FlowResult /\ Returns
<1>1. /\ call.step = "probed" /\ probed /\ ~useFlow
      /\ replies' = {} /\ UNCHANGED <<said, queue, working, pending, packet, board, probed>>
      /\ useFlow' = (Parsed("flow") # {}) /\ Acknowledge(Parsed("flow"))
      /\ got' = got \o Data(FromTarget)
    BY DEF HandleProbe, BaseInv, ControlInv, channel
<1>2. Returns
    BY ReadEndsReturns, ProcessReturns DEF HandleProbe, BaseInv
<1>3. Data(FromTarget) \in Text BY <1>1, ReadOff DEF Handled
<1>4. Coming' = IF useFlow' /\ ack' = packet THEN << >> ELSE pending
    BY <1>1, ComingWithout DEF Noise
<1>5. ack \in Packets /\ packet \in Packets BY DEF BaseInv, TypeOK
<1>6. CASE FlowArrived
    <2>0. Parsed("flow") = {Frame("flow", packet, pending)} BY <1>6 DEF FlowArrived
    <2>1. useFlow' /\ ack' = packet BY <1>1, <2>0, AcknowledgesOne
    <2>2. Flowing /\ board = "flow" BY <1>1, <1>6 DEF FlowArrived, Flowing
    <2>3. Data(FromTarget) = Coming /\ Coming' = << >>
        BY <1>4, <1>6, <2>1 DEF FlowArrived
    <2> QED BY <1>1, <1>2, <1>3, <1>5, <2>1, <2>2, <2>3 DEF Taken, FlowResult
<1>7. CASE NothingArrived
    <2>1. useFlow' = FALSE /\ ack' = ack BY <1>1, <1>7 DEF NothingArrived, Acknowledge
    <2>2. Data(FromTarget) = << >> /\ Coming' = Coming
        BY <1>1, <1>4, <1>7, <2>1 DEF NothingArrived
    <2> QED BY <1>1, <1>2, <1>3, <1>5, <2>1, <2>2 DEF Taken, FlowResult
<1>8. CASE \E data \in Text : PlainArrived(data)
    <2>1. PICK data \in Text : PlainArrived(data) BY <1>8
    <2>2. Parsed("flow") = {} BY <2>1 DEF PlainArrived
    <2>3. useFlow' = FALSE /\ ack' = ack BY <1>1, <2>2 DEF Acknowledge
    <2>4. Data(FromTarget) = Coming /\ Coming' = << >>
        BY <1>4, <2>1, <2>3 DEF PlainArrived
    <2> QED BY <1>1, <1>2, <1>3, <1>5, <2>3, <2>4 DEF Taken, FlowResult
<1> QED BY <1>1, <1>6, <1>7, <1>8, Arrival DEF BaseInv

(* The answer to a poll. *)
LEMMA PollHandled ==
    ASSUME BaseInv, FlowInv, HandleCommand \/ HandleRead
    PROVE  Taken(Data(FromTarget)) /\ FlowResult /\ Returns /\ useFlow' = useFlow
<1>1. /\ call.step = "handle" /\ probed /\ useFlow' = useFlow
      /\ replies' = {} /\ UNCHANGED <<said, queue, working, pending, packet, board, probed>>
      /\ IF useFlow THEN Acknowledge(FromTarget) ELSE ack' = ack
      /\ got' = got \o Data(FromTarget)
    BY ReadOff DEF HandleCommand, HandleRead, BaseInv, ControlInv, channel
<1>2. Returns
    <2>1. CASE HandleCommand BY <2>1, ProcessReturns DEF HandleCommand, BaseInv
    <2>2. CASE HandleRead
        BY <2>2, ReadEndsReturns, Returned DEF HandleRead, BaseInv, StepTo
    <2> QED BY <2>1, <2>2
<1>3. Data(FromTarget) \in Text BY <1>1, ReadOff DEF Handled
<1>4. Coming' = IF useFlow /\ ack' = packet THEN << >> ELSE pending
    BY <1>1, ComingWithout DEF Noise
<1>5. /\ ack \in Packets /\ packet \in Packets /\ useFlow \in BOOLEAN
      /\ useFlow => board = "flow" /\ Flowing /\ (ack = packet \/ pending # << >>)
    BY DEF BaseInv, TypeOK, ControlInv, FlowInv, Flowing
<1>6. CASE FlowArrived
    <2>0. useFlow /\ FromTarget = {Frame("flow", packet, pending)}
        BY <1>1, <1>6 DEF FlowArrived
    <2>1. useFlow /\ ack' = packet BY <1>1, <2>0, AcknowledgesOne
    <2>2. Data(FromTarget) = Coming /\ Coming' = << >>
        BY <1>4, <1>6, <2>1 DEF FlowArrived
    <2> QED BY <1>1, <1>2, <1>3, <1>5, <2>1, <2>2 DEF Taken, FlowResult
<1>7. CASE NothingArrived
    <2>1. ack' = ack BY <1>1, <1>7 DEF NothingArrived, Acknowledge
    <2>2. Data(FromTarget) = << >> /\ Coming' = Coming
        BY <1>1, <1>4, <1>7, <2>1 DEF NothingArrived
    <2> QED BY <1>1, <1>2, <1>3, <1>5, <2>1, <2>2 DEF Taken, FlowResult
<1>8. CASE \E data \in Text : PlainArrived(data)
    <2>1. PICK data \in Text : PlainArrived(data) BY <1>8
    <2>2. ~useFlow /\ ack' = ack BY <1>1, <2>1 DEF PlainArrived
    <2>3. Data(FromTarget) = Coming /\ Coming' = << >>
        BY <1>4, <2>1, <2>2 DEF PlainArrived
    <2> QED BY <1>1, <1>2, <1>3, <1>5, <2>2, <2>3 DEF Taken, FlowResult
<1> QED BY <1>1, <1>6, <1>7, <1>8, Arrival DEF BaseInv

----------------------------------------------------------------------------
(* Types. *)

(* A slice of a text is text. *)
LEMMA SubText ==
    ASSUME NEW text \in Text, NEW m \in Nat \ {0}, NEW n \in 0..Len(text)
    PROVE  SubSeq(text, m, n) \in Text
<1>1. \A i \in m..n : text[i] \in Pieces BY DEF Text
<1>2. n \in Int /\ m \in Int BY DEF Text
<1> QED BY <1>1, <1>2, SubSeqProperties DEF Text

(* The ends and starts of lines are positions of the text. *)
LEMMA Positions ==
    ASSUME NEW text \in Text
    PROVE  /\ Len(text) \in Nat
           /\ Ends(text) \subseteq 1..Len(text)
           /\ Max({0} \cup Ends(text)) \in 0..Len(text)
           /\ \A k \in 1..Len(text) : LineStart(text, k) \in 1..k
<1>1. Len(text) \in Nat /\ Ends(text) \subseteq 1..Len(text) BY DEF Text, Ends
<1>2. Max({0} \cup Ends(text)) \in 0..Len(text)
    <2>1. ({0} \cup Ends(text)) \in SUBSET (0..Len(text)) BY <1>1
    <2>2. Max({0} \cup Ends(text)) \in ({0} \cup Ends(text)) BY <1>1, <2>1, MaxIn
    <2> QED BY <2>1, <2>2
<1>3. ASSUME NEW k \in 1..Len(text) PROVE LineStart(text, k) \in 1..k
    <2> DEFINE S == {0} \cup {j \in Ends(text) : j < k}
    <2>1. S \in SUBSET (0..(k - 1)) BY <1>1
    <2>2. k - 1 \in Nat BY <1>1
    <2>3. Max(S) \in S BY <2>1, <2>2, MaxIn
    <2>4. Max(S) \in 0..(k - 1) BY <2>1, <2>3
    <2> HIDE DEF S
    <2>5. 1 + Max(S) \in 1..k BY <2>4, <2>2, <1>1
    <2> QED BY <2>5 DEF S, LineStart
<1> QED BY <1>1, <1>2, <1>3

(* A call that returns is recorded as a result. *)
LEMMA FinishType ==
    ASSUME TypeOK, call.kind \in Kinds, useFlow' \in BOOLEAN,
           NEW error \in {0, ETIMEDOUT}, NEW result \in Text, NEW true \in BOOLEAN,
           Finish(error, result, true)
    PROVE  ended' \in Seq(Results)
<1>1. [kind |-> call.kind, error |-> error, result |-> result,
       flow |-> useFlow', true |-> true] \in Results
    BY DEF Results
<1> QED BY <1>1, AppendProperties DEF Finish, TypeOK

(* An element appended is the last, and the others stay. *)
LEMMA AppendOne ==
    ASSUME NEW T, NEW s \in Seq(T), NEW e
    PROVE  /\ Len(Append(s, e)) = Len(s) + 1
           /\ \A k \in DOMAIN s : Append(s, e)[k] = s[k]
           /\ DOMAIN Append(s, e) = DOMAIN s \cup {Len(s) + 1}
           /\ Append(s, e)[Len(s) + 1] = e
<1> DEFINE S == T \cup {e}
<1>1. s \in Seq(S) /\ e \in S BY SeqMonotonic
<1> HIDE DEF S
<1>2. DOMAIN s = 1..Len(s) /\ Len(s) \in Nat BY <1>1, LenProperties
<1>3. Append(s, e) \in Seq(S) /\ Len(Append(s, e)) = Len(s) + 1 BY <1>1, AppendProperties
<1>4. \A k \in 1..Len(s) : Append(s, e)[k] = s[k] BY <1>1, AppendProperties
<1>5. Append(s, e)[Len(s) + 1] = e BY <1>1, AppendProperties
<1>6. DOMAIN Append(s, e) = 1..(Len(s) + 1) BY <1>3, LenProperties
<1>7. 1..(Len(s) + 1) = 1..Len(s) \cup {Len(s) + 1} BY <1>2
<1> QED BY <1>2, <1>3, <1>4, <1>5, <1>6, <1>7

(* A call that returns is the last of those that did, and the others stay. *)
LEMMA FinishLength ==
    ASSUME TypeOK, NEW error, NEW result, NEW true, Finish(error, result, true)
    PROVE  /\ Len(ended') = Len(ended) + 1 /\ call'.step = "idle"
           /\ \A k \in DOMAIN ended : ended'[k] = ended[k]
           /\ DOMAIN ended' = DOMAIN ended \cup {Len(ended) + 1}
           /\ ended'[Len(ended) + 1] =
                [kind |-> call.kind, error |-> error, result |-> result,
                 flow |-> useFlow', true |-> true]
<1> DEFINE entry == [kind |-> call.kind, error |-> error, result |-> result,
                     flow |-> useFlow', true |-> true]
<1>1. ended' = Append(ended, entry) /\ ended \in Seq(Results) BY DEF Finish, TypeOK
<1>2. call'.step = "idle" BY DEF Finish, TypeOK
<1> HIDE DEF entry
<1>3. /\ Len(ended') = Len(ended) + 1
      /\ \A k \in DOMAIN ended : ended'[k] = ended[k]
      /\ DOMAIN ended' = DOMAIN ended \cup {Len(ended) + 1}
      /\ ended'[Len(ended) + 1] = entry
    <2> DEFINE longer == Append(ended, entry)
    <2>1. /\ Len(longer) = Len(ended) + 1
          /\ \A k \in DOMAIN ended : longer[k] = ended[k]
          /\ DOMAIN longer = DOMAIN ended \cup {Len(ended) + 1}
          /\ longer[Len(ended) + 1] = entry
        BY <1>1, AppendOne
    <2>2. ended' = longer BY <1>1
    <2> HIDE DEF longer
    <2> QED BY <2>1, <2>2
<1> QED BY <1>2, <1>3 DEF entry

(* ProcessReplies keeps the types. *)
LEMMA ProcessType ==
    ASSUME TypeOK, call.kind \in Kinds, useFlow' \in BOOLEAN,
           NEW text \in Text, ProcessReplies(text)
    PROVE  line' \in Text /\ output' \in Text /\ ended' \in Seq(Results)
<1> DEFINE done == IF call.kind = "single" THEN Ends(text) ELSE OKLines(text)
           last == Max({0} \cup Ends(text))
<1>1. done \subseteq 1..Len(text) BY Positions DEF OKLines
<1>2. CASE done # {}
    <2>1. Min(done) \in 1..Len(text) BY <1>1, <1>2, Positions, MinIn
    <2>2. LineStart(text, Min(done)) \in 1..Min(done) BY <2>1, Positions
    <2>3. LineAt(text, Min(done)) \in Text
        BY <2>1, <2>2, Positions, SubText DEF LineAt
    <2>4. SubSeq(text, 1, LineStart(text, Min(done)) - 1) \in Text
        <3>1. LineStart(text, Min(done)) - 1 \in 0..Len(text) BY <2>1, <2>2, Positions
        <3> QED BY <3>1, SubText
    <2>5. output \o SubSeq(text, 1, LineStart(text, Min(done)) - 1) \in Text
        BY <2>4, ConcatText DEF TypeOK
    <2> DEFINE result == IF call.kind = "single" THEN LineAt(text, Min(done))
                         ELSE output \o SubSeq(text, 1, LineStart(text, Min(done)) - 1)
    <2>6. result \in Text BY <2>3, <2>5
    <2>7. Finish(0, result, TRUE) /\ line' = text /\ output' = output
        BY <1>2 DEF ProcessReplies
    <2> HIDE DEF result
    <2>8. ended' \in Seq(Results) BY <2>6, <2>7, FinishType
    <2> QED BY <2>7, <2>8 DEF TypeOK
<1>3. CASE done = {}
    <2>1. /\ output' = output \o SubSeq(text, 1, last)
          /\ line' = SubSeq(text, last + 1, Len(text))
          /\ ended' = ended
        BY <1>3 DEF ProcessReplies, StepTo
    <2>2. last \in 0..Len(text) /\ Len(text) \in Nat BY Positions
    <2> HIDE DEF last
    <2>3. SubSeq(text, 1, last) \in Text BY <2>2, SubText
    <2>4. SubSeq(text, last + 1, Len(text)) \in Text
        <3>1. last + 1 \in Nat \ {0} /\ Len(text) \in 0..Len(text) BY <2>2
        <3> QED BY <3>1, SubText
    <2> QED BY <2>1, <2>3, <2>4, ConcatText DEF TypeOK
<1> QED BY <1>2, <1>3

(* So does the end of a read. *)
LEMMA ReadEndsType ==
    ASSUME TypeOK, call.kind \in Kinds, useFlow' \in BOOLEAN,
           NEW error \in {0, ETIMEDOUT}, NEW data \in Text, ReadEnds(error, data)
    PROVE  empty' \in Nat /\ retries' \in Nat /\ ended' \in Seq(Results)
<1>1. CASE Finish(error, data, TRUE) /\ UNCHANGED <<retries, empty>>
    <2>1. ended' \in Seq(Results) BY <1>1, FinishType
    <2> QED BY <1>1, <2>1 DEF TypeOK
<1>2. CASE /\ StepTo("poll") /\ retries' = MaxRetries
           /\ empty' = IF data # << >> THEN 0 ELSE empty + 1
    BY <1>2, MoteusControllerAssumption DEF StepTo, TypeOK
<1> QED BY <1>1, <1>2 DEF ReadEnds

Handling == HandleProbe \/ HandleCommand \/ HandleRead
Exchanging == ProbeFlowControl \/ PollLost \/ PollAnswered

(* A step of the client that exchanges a cycle. *)
LEMMA ExchangingCycle ==
    ASSUME BaseInv, FlowInv, Exchanging
    PROVE  /\ CycleResult
           /\ call' = [call EXCEPT !.step = IF call.step = "probe" THEN "probed" ELSE "handle"]
           /\ call.step \in {"probe", "poll"} /\ probed'
           /\ call.step = "poll" => probed
           /\ UNCHANGED <<write, empty, line, output, retries, count, useFlow, ack, ended,
                          got, said, board, heard, working, motion>>
<1>1. CASE ProbeFlowControl
    <2>1. /\ call.step = "probe" /\ call' = [call EXCEPT !.step = "probed"]
          /\ Exchange("flow", 0) /\ probed'
          /\ UNCHANGED <<write, empty, line, output, retries, count, useFlow, ack, ended,
                         got, said, board, heard, working, motion>>
        BY <1>1 DEF ProbeFlowControl, StepTo
    <2>2. call'.step = "probed" BY <2>1, StepChange DEF BaseInv, Steps
    <2>3. CycleResult
        <3>1. Cycling("flow", 0) BY <2>1, <2>2 DEF Cycling
        <3> QED BY <3>1, Cycle
    <2> QED BY <2>1, <2>3
<1>2. CASE PollLost \/ PollAnswered
    <2>1. /\ call.step = "poll" /\ call' = [call EXCEPT !.step = "handle"]
          /\ Exchange(Polling, ack) /\ probed /\ probed'
          /\ UNCHANGED <<write, empty, line, output, retries, count, useFlow, ack, ended,
                         got, said, board, heard, working, motion>>
        <3>1. Poll(RequestLost \/ ReplyLost(Polling, ack)) \/ Poll(Delivered(Polling, ack))
            BY <1>2 DEF PollLost, PollAnswered
        <3> QED BY <3>1 DEF Poll, StepTo, Exchange, flow, BaseInv, ControlInv, TypeOK
    <2>2. call'.step = "handle" BY <2>1, StepChange DEF BaseInv, Steps
    <2>3. CycleResult
        <3>1. Cycling(Polling, ack) BY <2>1, <2>2 DEF Cycling
        <3> QED BY <3>1, Cycle
    <2> QED BY <2>1, <2>3
<1> QED BY <1>1, <1>2 DEF Exchanging

(* A step of the client that handles what a cycle brought. *)
LEMMA HandlingResult ==
    ASSUME BaseInv, FlowInv, Handling
    PROVE  /\ Taken(Data(FromTarget)) /\ FlowResult /\ Returns
           /\ call.step \in {"probed", "handle"}
           /\ call.step # "probed" => useFlow' = useFlow
           /\ UNCHANGED <<write, count, heard, motion>>
<1>1. CASE HandleProbe BY <1>1, ProbeHandled DEF HandleProbe, channel
<1>2. CASE HandleCommand BY <1>2, PollHandled DEF HandleCommand, channel
<1>3. CASE HandleRead BY <1>3, PollHandled DEF HandleRead, channel
<1> QED BY <1>1, <1>2, <1>3 DEF Handling

(* The rest of what a handler changes. *)
LEMMA HandlingType ==
    ASSUME BaseInv, FlowInv, Handling
    PROVE  /\ line' \in Text /\ output' \in Text /\ ended' \in Seq(Results)
           /\ empty' \in Nat /\ retries' \in Nat
<1>0. /\ Data(FromTarget) \in Text /\ useFlow' \in BOOLEAN /\ call.kind \in Kinds
      /\ line \in Text /\ line \o Data(FromTarget) \in Text
    BY HandlingResult, ConcatText DEF Taken, FlowResult, BaseInv, TypeOK, ControlInv
<1>1. CASE HandleProbe
    <2>1. CASE call.kind \in {"read", "flush"}
        <3> DEFINE error == IF Data(FromTarget) = << >> THEN ETIMEDOUT ELSE 0
        <3>1. ReadEnds(error, Data(FromTarget)) /\ UNCHANGED <<line, output>>
            BY <1>1, <2>1 DEF HandleProbe
        <3>2. error \in {0, ETIMEDOUT} OBVIOUS
        <3> HIDE DEF error
        <3> QED BY <1>0, <3>1, <3>2, ReadEndsType DEF BaseInv, TypeOK
    <2>2. CASE ~(call.kind \in {"read", "flush"})
        <3>1. ProcessReplies(line \o Data(FromTarget)) /\ UNCHANGED <<retries, empty>>
            BY <1>1, <2>2 DEF HandleProbe
        <3>2. line' \in Text /\ output' \in Text /\ ended' \in Seq(Results)
            BY <1>0, <3>1, ProcessType DEF BaseInv
        <3> QED BY <3>1, <3>2 DEF BaseInv, TypeOK
    <2> QED BY <2>1, <2>2
<1>2. CASE HandleCommand
    <2>1. /\ ProcessReplies(line \o Data(FromTarget)) /\ retries' = retries
          /\ empty' = CountEmpty(FromTarget, Data(FromTarget))
        BY <1>2, ReadOff DEF HandleCommand
    <2>2. line' \in Text /\ output' \in Text /\ ended' \in Seq(Results)
        BY <1>0, <2>1, ProcessType DEF BaseInv
    <2> QED BY <2>1, <2>2 DEF CountEmpty, BaseInv, TypeOK
<1>3. CASE HandleRead
    <2>1. /\ UNCHANGED <<line, output>>
          /\ \/ ReadEnds(0, Data(FromTarget))
             \/ /\ StepTo("poll") /\ retries' = retries - 1 /\ retries > 0 /\ UNCHANGED empty
             \/ ReadEnds(ETIMEDOUT, << >>)
        BY <1>3, ReadOff DEF HandleRead
    <2>2. << >> \in Text BY EmptySeq DEF Text
    <2>3. CASE ReadEnds(0, Data(FromTarget))
        BY <1>0, <2>1, <2>3, ReadEndsType DEF BaseInv, TypeOK
    <2>4. CASE StepTo("poll") /\ retries' = retries - 1 /\ retries > 0 /\ UNCHANGED empty
        BY <2>1, <2>4 DEF StepTo, BaseInv, TypeOK
    <2>5. CASE ReadEnds(ETIMEDOUT, << >>)
        BY <1>0, <2>1, <2>2, <2>5, ReadEndsType DEF BaseInv, TypeOK
    <2> QED BY <2>1, <2>3, <2>4, <2>5
<1> QED BY <1>1, <1>2, <1>3 DEF Handling

----------------------------------------------------------------------------
(* The steps. *)

Positioning == PositionLost \/ PositionAnswered

(* The steps, grouped as the proofs treat them. *)
LEMMA StepCases ==
    ASSUME [Next]_vars
    PROVE  \/ \E kind \in Kinds : Call(kind)
           \/ DoWrite \/ Exchanging \/ Handling \/ GiveUp
           \/ Positioning \/ HandlePosition
           \/ Emit \/ Control \/ UNCHANGED vars
BY DEF Next, Turn, Over, Exchanging, Handling, Positioning

(* The first state has the types, the control and the replies right. *)
LEMMA InitBase == ASSUME Init PROVE BaseInv
<1>1. << >> \in Text /\ << >> \in Seq(Results) BY EmptySeq DEF Text
<1>2. packet \in Packets /\ ack \in Packets
    BY MoteusControllerAssumption DEF Init, Packets
<1>3. TypeOK
    <2>1. call \in [number : Nat, kind : Kinds \cup {"none"}, step : Steps]
        BY DEF Init, Idle, Steps
    <2>2. board \in {"flow", "plain", "deaf"} BY MoteusControllerAssumption DEF Init
    <2>3. motion \in [target : Nat, flag : Nat, complete : BOOLEAN, fault : BOOLEAN]
        BY DEF Init
    <2>4. write \in Int /\ empty \in Nat /\ retries \in Nat /\ count \in 0..RepliesToPass
        BY DEF Init, RepliesToPass
    <2>5. {probed, useFlow, heard} \subseteq BOOLEAN BY DEF Init
    <2>6. /\ line \in Text /\ output \in Text /\ ended \in Seq(Results)
          /\ {got, said, queue, working, pending} \subseteq Text
        BY <1>1 DEF Init
    <2> QED BY <1>2, <2>1, <2>2, <2>3, <2>4, <2>5, <2>6 DEF TypeOK
<1>4. ControlInv BY EmptySeq DEF Init, ControlInv, Idle, Kinds
<1>5. ReplyInv BY DEF Init, ReplyInv, Idle
<1> QED BY <1>3, <1>4, <1>5 DEF BaseInv

(* So has the one after a call begins, *)
LEMMA CallBase ==
    ASSUME BaseInv, NEW kind \in Kinds, Call(kind) PROVE BaseInv'
<1>1. /\ call.step = "idle" /\ ended' = ended
      /\ call' = [number |-> Len(ended) + 1, kind |-> kind,
                  step |-> CASE kind \in {"ok", "single"} -> "write"
                             [] kind = "position" -> "position"
                             [] OTHER -> IF probed THEN "poll" ELSE "probe"]
      /\ UNCHANGED <<probed, useFlow, ack, replies, got, said, board, heard, queue, working,
                     pending, packet, motion>>
    BY DEF Call, flow, channel
<1>2. /\ call'.number = Len(ended) + 1 /\ call'.kind = kind
      /\ kind \in {"ok", "single"} => call'.step = "write"
      /\ kind = "position" => call'.step = "position"
      /\ kind \in {"read", "flush"} /\ probed => call'.step = "poll"
      /\ kind \in {"read", "flush"} /\ ~probed => call'.step = "probe"
      /\ call' \in [number : Nat, kind : Kinds \cup {"none"}, step : Steps]
    <2>1. Len(ended) \in Nat BY DEF BaseInv, TypeOK
    <2> QED BY <1>1, <2>1 DEF Kinds, Steps
<1>3. TypeOK'
    <2>1. /\ write' = Chunks /\ empty' = 0 /\ line' = << >> /\ output' = << >>
          /\ retries' = MaxRetries /\ count' = RepliesToPass
        BY DEF Call
    <2> QED BY <1>1, <1>2, <2>1, EmptySeq, MoteusControllerAssumption
            DEF BaseInv, TypeOK, Text, RepliesToPass
<1>4. ControlInv' BY <1>1, <1>2 DEF BaseInv, ControlInv, TypeOK, Kinds
<1>5. ReplyInv' BY <1>1, <1>2 DEF BaseInv, ReplyInv, Kinds
<1> QED BY <1>3, <1>4, <1>5 DEF BaseInv

(* a chunk is written, *)
LEMMA WriteBase ==
    ASSUME BaseInv, DoWrite PROVE BaseInv'
<1>1. /\ call.step = "write"
      /\ call' = [call EXCEPT !.step = IF write > 1 THEN "write"
                                       ELSE IF probed THEN "poll" ELSE "probe"]
      /\ write' = write - 1 /\ ended' = ended
      /\ UNCHANGED <<empty, line, output, retries, count, probed, useFlow, ack, replies, got,
                     said, board, queue, pending, packet, motion>>
    BY DEF DoWrite, StepTo, flow
<1>2. /\ call'.number = call.number /\ call'.kind = call.kind
      /\ call'.step = IF write > 1 THEN "write" ELSE IF probed THEN "poll" ELSE "probe"
      /\ call' \in [number : Nat, kind : Kinds \cup {"none"}, step : Steps]
    BY <1>1 DEF BaseInv, TypeOK, Steps
<1>3. heard' \in BOOLEAN /\ working' \in Text
    <2>1. call.number \in Nat BY DEF BaseInv, TypeOK
    <2>2. OutputOf(call.number, call.kind) \in Text BY <2>1, OutputText
    <2>3. working \o OutputOf(call.number, call.kind) \in Text
        BY <2>2, ConcatText DEF BaseInv, TypeOK
    <2> QED BY <2>3 DEF DoWrite, BaseInv, TypeOK
<1>4. TypeOK' BY <1>1, <1>2, <1>3 DEF BaseInv, TypeOK
<1>5. ControlInv' BY <1>1, <1>2 DEF BaseInv, ControlInv, TypeOK
<1>6. ReplyInv' BY <1>1, <1>2 DEF BaseInv, ReplyInv
<1> QED BY <1>4, <1>5, <1>6 DEF BaseInv

(* a cycle is exchanged, *)
LEMMA ExchangeBase ==
    ASSUME BaseInv, FlowInv, Exchanging PROVE BaseInv'
<1>1. /\ CycleResult
      /\ call' = [call EXCEPT !.step = IF call.step = "probe" THEN "probed" ELSE "handle"]
      /\ call.step \in {"probe", "poll"} /\ probed'
      /\ call.step = "poll" => probed
      /\ UNCHANGED <<write, empty, line, output, retries, count, useFlow, ack, ended,
                     got, said, board, heard, working, motion>>
    BY ExchangingCycle
<1>2. /\ call'.number = call.number /\ call'.kind = call.kind
      /\ call'.step = IF call.step = "probe" THEN "probed" ELSE "handle"
      /\ call' \in [number : Nat, kind : Kinds \cup {"none"}, step : Steps]
    BY <1>1 DEF BaseInv, TypeOK, Steps
<1>3. probed' \in BOOLEAN BY DEF Exchanging, ProbeFlowControl, PollLost, PollAnswered, Poll,
                                  flow, BaseInv, TypeOK
<1>4. TypeOK' BY <1>1, <1>2, <1>3 DEF BaseInv, TypeOK, CycleResult
<1>5. ControlInv' BY <1>1, <1>2 DEF BaseInv, ControlInv, TypeOK
<1> QED BY <1>1, <1>4, <1>5 DEF BaseInv, CycleResult

(* A call returns exactly as it is recorded. *)
LEMMA HandlingEnds ==
    ASSUME BaseInv, FlowInv, Handling
    PROVE  IF call'.step = "idle" THEN Len(ended') = Len(ended) + 1 ELSE ended' = ended
<1>1. ASSUME NEW error, NEW result, NEW true, Finish(error, result, true)
      PROVE  call'.step = "idle" /\ Len(ended') = Len(ended) + 1
    BY <1>1, FinishLength DEF BaseInv
<1>2. ASSUME StepTo("poll") PROVE call'.step = "poll" /\ ended' = ended
    BY <1>2 DEF StepTo, BaseInv, TypeOK
<1>3. ASSUME NEW text, ProcessReplies(text)
      PROVE  IF call'.step = "idle" THEN Len(ended') = Len(ended) + 1 ELSE ended' = ended
    BY <1>1, <1>2, <1>3 DEF ProcessReplies
<1>4. ASSUME NEW error, NEW data, ReadEnds(error, data)
      PROVE  IF call'.step = "idle" THEN Len(ended') = Len(ended) + 1 ELSE ended' = ended
    BY <1>1, <1>2, <1>4 DEF ReadEnds
<1> QED BY <1>2, <1>3, <1>4 DEF Handling, HandleProbe, HandleCommand, HandleRead

(* a reply is handled, *)
LEMMA HandleBase ==
    ASSUME BaseInv, FlowInv, Handling PROVE BaseInv'
<1>1. /\ FlowResult /\ Returns /\ call.step \in {"probed", "handle"}
      /\ UNCHANGED <<write, count, heard, motion>>
      /\ got' \in Text
    <2>1. Data(FromTarget) \in Text /\ got' = got \o Data(FromTarget) /\ got \in Text
        BY HandlingResult DEF Taken, BaseInv, TypeOK
    <2>2. got' \in Text BY <2>1, ConcatText
    <2> QED BY <2>2, HandlingResult
<1>2. TypeOK'
    BY <1>1, HandlingType DEF BaseInv, TypeOK, FlowResult, Returns, Steps
<1>3. ControlInv'
    <2>1. call'.step \in {"idle", "poll"} BY <1>1 DEF Returns
    <2> QED BY <1>1, <2>1, HandlingEnds DEF BaseInv, ControlInv, FlowResult, Returns
<1>4. ReplyInv' BY <1>1 DEF ReplyInv, FlowResult, Returns
<1> QED BY <1>2, <1>3, <1>4 DEF BaseInv

(* a command is given up, *)
LEMMA GiveUpBase ==
    ASSUME BaseInv, GiveUp PROVE BaseInv'
<1>1. /\ call.step = "poll" /\ Finish(ETIMEDOUT, << >>, TRUE)
      /\ call' = [call EXCEPT !.step = "idle"]
      /\ UNCHANGED <<write, empty, line, output, retries, count, probed, useFlow, ack, replies,
                     got, said, board, heard, queue, working, pending, packet, motion>>
    BY DEF GiveUp, Finish, flow, channel
<1>2. /\ call'.number = call.number /\ call'.kind = call.kind /\ call'.step = "idle"
      /\ call' \in [number : Nat, kind : Kinds \cup {"none"}, step : Steps]
    BY <1>1 DEF BaseInv, TypeOK, Steps
<1>3. ended' \in Seq(Results) /\ Len(ended') = Len(ended) + 1
    <2>1. call.kind \in Kinds /\ useFlow' \in BOOLEAN /\ << >> \in Text
        BY <1>1, EmptySeq DEF BaseInv, ControlInv, TypeOK, Text
    <2>2. ended' \in Seq(Results) BY <1>1, <2>1, FinishType DEF BaseInv
    <2>3. Len(ended') = Len(ended) + 1 BY <1>1, FinishLength DEF BaseInv
    <2> QED BY <2>2, <2>3
<1>4. TypeOK' BY <1>1, <1>2, <1>3 DEF BaseInv, TypeOK
<1>5. ControlInv' BY <1>1, <1>2, <1>3 DEF BaseInv, ControlInv
<1>6. ReplyInv' BY <1>1, <1>2 DEF BaseInv, ReplyInv
<1> QED BY <1>4, <1>5, <1>6 DEF BaseInv

(* a move is sent, *)
LEMMA PositionBase ==
    ASSUME BaseInv, Positioning PROVE BaseInv'
<1>1. PICK answered \in BOOLEAN : SendPosition(answered)
    BY DEF Positioning, PositionLost, PositionAnswered
<1>2. /\ call.step = "position" /\ call' = [call EXCEPT !.step = "moving"]
      /\ motion' = [motion EXCEPT !.target = call.number] \/ motion' = motion
      /\ UNCHANGED <<write, empty, line, output, retries, count, probed, useFlow, ack, ended,
                     got, said, board, heard, queue, working, pending, packet>>
    BY <1>1 DEF SendPosition, StepTo, flow, channel
<1>3. /\ call'.number = call.number /\ call'.kind = call.kind /\ call'.step = "moving"
      /\ call' \in [number : Nat, kind : Kinds \cup {"none"}, step : Steps]
    BY <1>2 DEF BaseInv, TypeOK, Steps
<1>4. motion' \in [target : Nat, flag : Nat, complete : BOOLEAN, fault : BOOLEAN]
    BY <1>2 DEF BaseInv, TypeOK
<1>5. TypeOK' BY <1>2, <1>3, <1>4 DEF BaseInv, TypeOK
<1>6. ControlInv' BY <1>2, <1>3 DEF BaseInv, ControlInv
<1>7. ReplyInv' BY <1>3 DEF ReplyInv
<1> QED BY <1>5, <1>6, <1>7 DEF BaseInv

(* its answer is handled, *)
LEMMA MovingBase ==
    ASSUME BaseInv, HandlePosition PROVE BaseInv'
<1> DEFINE left == IF FromTarget = {} \/ count = 0 THEN count ELSE count - 1
<1>1. /\ call.step = "moving" /\ count' = left /\ replies' = {}
      /\ UNCHANGED <<write, empty, line, output, retries, probed, useFlow, ack,
                     got, said, board, heard, queue, working, pending, packet, motion>>
      /\ \/ Finish(0, << >>, motion.fault \/ (motion.flag = call.number /\ motion.complete))
         \/ StepTo("position")
    BY DEF HandlePosition, flow, channel
<1>2. count' \in 0..RepliesToPass BY <1>1 DEF BaseInv, TypeOK, RepliesToPass
<1>3. /\ call'.number = call.number /\ call'.kind = call.kind
      /\ call'.step \in {"idle", "position"}
      /\ call' \in [number : Nat, kind : Kinds \cup {"none"}, step : Steps]
    BY <1>1 DEF BaseInv, TypeOK, Steps, Finish, StepTo
<1>4. /\ ended' \in Seq(Results)
      /\ Len(ended') = IF call'.step = "idle" THEN Len(ended) + 1 ELSE Len(ended)
    <2>0. call.kind \in Kinds /\ useFlow' \in BOOLEAN /\ << >> \in Text
        BY <1>1, EmptySeq DEF BaseInv, ControlInv, TypeOK, Text
    <2>1. ASSUME NEW true \in BOOLEAN, Finish(0, << >>, true)
          PROVE  /\ ended' \in Seq(Results) /\ Len(ended') = Len(ended) + 1
                 /\ call'.step = "idle"
        <3>1. ended' \in Seq(Results) BY <2>0, <2>1, FinishType DEF BaseInv
        <3> QED BY <2>1, <3>1, FinishLength DEF BaseInv
    <2>2. motion.fault \/ (motion.flag = call.number /\ motion.complete) \in BOOLEAN
        BY DEF BaseInv, TypeOK
    <2>3. ASSUME StepTo("position") PROVE call'.step = "position" /\ ended' = ended
        BY <2>3 DEF StepTo, BaseInv, TypeOK
    <2> QED BY <1>1, <2>1, <2>2, <2>3 DEF BaseInv, TypeOK
<1>5. TypeOK' BY <1>1, <1>2, <1>3, <1>4 DEF BaseInv, TypeOK
<1>6. ControlInv' BY <1>1, <1>3, <1>4 DEF BaseInv, ControlInv
<1>7. ReplyInv' BY <1>1, <1>3 DEF ReplyInv
<1> QED BY <1>5, <1>6, <1>7 DEF BaseInv

(* a piece is printed, *)
LEMMA EmitBase ==
    ASSUME BaseInv, Emit PROVE BaseInv'
<1>1. /\ queue' = Append(queue, Head(working)) /\ said' = Append(said, Head(working))
      /\ working' = Tail(working) /\ working # << >>
      /\ UNCHANGED <<call, write, empty, line, output, retries, count, probed, useFlow, ack,
                     replies, ended, got, board, heard, pending, packet, motion>>
    BY DEF Emit, client, flow
<1>2. queue' \in Text /\ said' \in Text /\ working' \in Text
    <2>1. working \in Text /\ queue \in Text /\ said \in Text BY DEF BaseInv, TypeOK
    <2>2. Head(working) \in Pieces /\ Tail(working) \in Text BY <1>1, <2>1, HeadAndTail
    <2> QED BY <1>1, <2>1, <2>2, AppendProperties DEF Text
<1>3. TypeOK' BY <1>1, <1>2 DEF BaseInv, TypeOK
<1>4. ControlInv' BY <1>1 DEF BaseInv, ControlInv
<1>5. ReplyInv' BY <1>1 DEF BaseInv, ReplyInv, FlowFrame, PlainFrame
<1> QED BY <1>3, <1>4, <1>5 DEF BaseInv

(* or the control loop turns. *)
LEMMA ControlBase ==
    ASSUME BaseInv, Control \/ UNCHANGED vars PROVE BaseInv'
<1>1. UNCHANGED <<call, write, empty, line, output, retries, count, probed, useFlow, ack,
                  replies, ended, got, said, board, heard, queue, working, pending, packet>>
    BY DEF Control, vars, client, flow, channel
<1>2. motion' \in [target : Nat, flag : Nat, complete : BOOLEAN, fault : BOOLEAN]
    BY DEF Control, vars, BaseInv, TypeOK
<1>3. TypeOK' BY <1>1, <1>2 DEF BaseInv, TypeOK
<1>4. ControlInv' BY <1>1 DEF BaseInv, ControlInv
<1>5. ReplyInv' BY <1>1 DEF BaseInv, ReplyInv, FlowFrame, PlainFrame
<1> QED BY <1>3, <1>4, <1>5 DEF BaseInv

(* BaseInv is kept by every step. *)
LEMMA BaseStep ==
    ASSUME BaseInv, FlowInv, [Next]_vars PROVE BaseInv'
BY StepCases, CallBase, WriteBase, ExchangeBase, HandleBase, GiveUpBase, PositionBase,
   MovingBase, EmitBase, ControlBase

----------------------------------------------------------------------------
(* The stream stays in order. *)

StreamInv == OrderInv /\ FlowInv

(* The next step may only raise the bound. *)
LEMMA PrintingGrows ==
    ASSUME BaseInv, [Next]_vars
    PROVE  Printing \in Int /\ Printing' \in Int /\ Printing <= Printing'
<1>0. call.number \in Nat /\ Len(ended) \in Nat BY DEF BaseInv, TypeOK
<1>1. CASE \E kind \in Kinds : Call(kind)
    BY <1>0, <1>1 DEF Call, Printing, BaseInv, ControlInv
<1>2. ASSUME NEW step, call' = [call EXCEPT !.step = step], step # "write" \/ call.step = "write"
      PROVE  Printing \in Int /\ Printing' \in Int /\ Printing <= Printing'
    <2>1. call'.number = call.number /\ call'.step = step BY <1>2 DEF BaseInv, TypeOK
    <2> QED BY <1>0, <1>2, <2>1 DEF Printing
<1>3. CASE DoWrite BY <1>2, <1>3 DEF DoWrite, StepTo
<1>4. CASE Exchanging
    BY <1>2, <1>4 DEF Exchanging, ProbeFlowControl, PollLost, PollAnswered, Poll, StepTo
<1>5. ASSUME NEW text, ProcessReplies(text)
      PROVE  Printing \in Int /\ Printing' \in Int /\ Printing <= Printing'
    BY <1>2, <1>5 DEF ProcessReplies, Finish, StepTo
<1>6. ASSUME NEW error, NEW data, ReadEnds(error, data)
      PROVE  Printing \in Int /\ Printing' \in Int /\ Printing <= Printing'
    BY <1>2, <1>6 DEF ReadEnds, Finish, StepTo
<1>7. CASE Handling
    BY <1>2, <1>5, <1>6, <1>7 DEF Handling, HandleProbe, HandleCommand, HandleRead, StepTo
<1>8. CASE GiveUp BY <1>2, <1>8 DEF GiveUp, Finish
<1>9. CASE Positioning
    BY <1>2, <1>9 DEF Positioning, PositionLost, PositionAnswered, SendPosition, StepTo
<1>10. CASE HandlePosition BY <1>2, <1>10 DEF HandlePosition, Finish, StepTo
<1>11. CASE Emit \/ Control \/ UNCHANGED vars
    BY <1>0, <1>11 DEF Emit, Control, vars, client, Printing
<1> QED BY <1>1, <1>3, <1>4, <1>7, <1>8, <1>9, <1>10, <1>11, StepCases

(* A step that leaves the stream alone. *)
LEMMA StreamSame ==
    ASSUME BaseInv, StreamInv, [Next]_vars,
           UNCHANGED <<got, said, queue, working, pending, packet, useFlow, ack, probed, board>>,
           call.step \notin {"probed", "handle"}, call'.step \notin {"probed", "handle"}
    PROVE  StreamInv'
<1>1. Coming' = Coming BY DEF Coming, Arriving
<1>2. Coming \in Text /\ got \in Text /\ queue \in Text /\ working \in Text
    BY ComingText DEF BaseInv, TypeOK
<1>3. OrderInv'
    <2>1. \A text \in {got, Coming, queue, working} : UpTo(text, Printing')
        BY <1>2, PrintingGrows, UpToMore DEF StreamInv, OrderInv
    <2> QED BY <1>1, <2>1 DEF StreamInv, OrderInv
<1>4. FlowInv' BY <1>1 DEF StreamInv, FlowInv, Flowing
<1> QED BY <1>3, <1>4 DEF StreamInv

(* A cycle: the stream moves on. *)
LEMMA StreamExchange ==
    ASSUME BaseInv, StreamInv, Exchanging PROVE StreamInv'
<1>1. /\ Moved /\ queue' \in Text
      /\ useFlow => ack = packet' \/ pending' # << >>
      /\ UNCHANGED <<useFlow, ack, got, said, working, board>>
      /\ call.step \in {"probe", "poll"} /\ probed' /\ (call.step = "poll" => probed)
      /\ call' = [call EXCEPT !.step = IF call.step = "probe" THEN "probed" ELSE "handle"]
    BY ExchangingCycle DEF CycleResult, StreamInv
<1>2. /\ Coming \in Text /\ got \in Text /\ queue \in Text /\ working \in Text
      /\ << >> \in Text /\ Room(queue) \in Text /\ Later(queue) \in Text
      /\ queue = Room(queue) \o Later(queue)
    BY ComingText, RoomAndLater, EmptySeq DEF BaseInv, TypeOK, Text
<1>3. InOrder(got, Coming, queue, working) BY DEF StreamInv, OrderInv
<1>4. InOrder(got, << >>, queue, working) BY <1>2, <1>3, TakeSecond
<1>5. /\ InOrder(got, Room(queue), Later(queue), working)
      /\ InOrder(got, << >>, Later(queue), working)
    BY <1>2, <1>4, SplitThird
<1>6. InOrder(got, Coming', queue', working) BY <1>1, <1>3, <1>4, <1>5 DEF Moved
<1>7. \A text \in {got, Coming', queue', working} : UpTo(text, Printing)
    <2>1. UpTo(queue, Printing) /\ UpTo(Coming, Printing) /\ UpTo(got, Printing)
          /\ UpTo(working, Printing)
        BY DEF StreamInv, OrderInv
    <2>2. UpTo(Room(queue), Printing) /\ UpTo(Later(queue), Printing)
        BY ONLY ZenonT(60), <1>2, <2>1, UpToConcat
    <2>3. UpTo(<< >>, Printing) BY DEF UpTo
    <2> QED BY <1>1, <2>1, <2>2, <2>3 DEF Moved
<1>8. OrderInv'
    <2>1. Printing' = Printing
        BY <1>1 DEF Printing, BaseInv, TypeOK
    <2> QED BY <1>1, <1>6, <1>7, <2>1 DEF OrderInv
<1>9. FlowInv'
    <2>1. Flowing' => Flowing
        BY <1>1 DEF Flowing, BaseInv, ControlInv, TypeOK
    <2>2. ASSUME Flowing' PROVE said = got \o (Coming' \o queue')
        <3>1. said = got \o (Coming \o queue) BY <2>1, <2>2 DEF StreamInv, FlowInv
        <3>2. << >> \o queue = queue BY <1>2, ConcatEmptySeq DEF Text
        <3>3. Coming' \o queue' = Coming \o queue BY <1>1, <1>2, <2>2, <3>2 DEF Moved
        <3> QED BY <3>1, <3>3
    <2> QED BY <1>1, <2>2 DEF FlowInv
<1> QED BY <1>8, <1>9 DEF StreamInv

(* A handler: what was coming is the client's, or is still coming. *)
LEMMA StreamHandle ==
    ASSUME BaseInv, StreamInv, Handling PROVE StreamInv'
<1> DEFINE data == Data(FromTarget)
<1>1. /\ Taken(data) /\ FlowResult /\ Returns
      /\ call.step \in {"probed", "handle"}
    BY HandlingResult DEF StreamInv
<1>2. /\ data \in Text /\ got' = got \o data
      /\ (data = Coming /\ Coming' = << >>) \/ (data = << >> /\ Coming' = Coming)
    BY <1>1 DEF Taken
<1> HIDE DEF data
<1>3. Coming \in Text /\ got \in Text /\ queue \in Text /\ working \in Text /\ << >> \in Text
    BY ComingText, EmptySeq DEF BaseInv, TypeOK, Text
<1>4. InOrder(got', Coming', queue, working)
    <2>1. InOrder(got, Coming, queue, working) BY DEF StreamInv, OrderInv
    <2>2. InOrder(got \o Coming, << >>, queue, working) BY <1>3, <2>1, TakeSecond
    <2>3. got \o << >> = got BY <1>3, ConcatEmptySeq DEF Text
    <2> QED BY <1>2, <2>1, <2>2, <2>3
<1>5. \A text \in {got', Coming', queue, working} : UpTo(text, Printing)
    <2>1. UpTo(queue, Printing) /\ UpTo(Coming, Printing) /\ UpTo(got, Printing)
          /\ UpTo(working, Printing) /\ UpTo(<< >>, Printing)
        BY DEF StreamInv, OrderInv, UpTo
    <2>2. UpTo(data, Printing) BY <1>2, <2>1
    <2>3. UpTo(got', Printing) BY <1>2, <1>3, <2>1, <2>2, UpToConcat
    <2> QED BY <1>2, <2>1, <2>3
<1>6. OrderInv'
    <2>1. Printing' = Printing BY <1>1 DEF Printing, Returns
    <2> QED BY <1>1, <1>4, <1>5, <2>1 DEF OrderInv, FlowResult
<1>7. FlowInv'
    <2>1. Flowing' => useFlow' BY <1>1 DEF Flowing, FlowResult, Returns
    <2>2. ASSUME useFlow' PROVE said = got' \o (Coming' \o queue)
        <3>1. said = got \o (Coming \o queue)
            BY <1>1, <2>2 DEF FlowResult, StreamInv, FlowInv
        <3>2. << >> \o queue = queue /\ got \o << >> = got
            BY <1>3, ConcatEmptySeq DEF Text
        <3>3. (got \o Coming) \o queue = got \o (Coming \o queue)
            BY <1>3, ConcatAssociative, SMTT(30) DEF Text
        <3> QED BY <1>2, <3>1, <3>2, <3>3
    <2> QED BY <1>1, <2>1, <2>2 DEF FlowInv, FlowResult
<1> QED BY <1>6, <1>7 DEF StreamInv

(* A command's output is added behind all that was printed before. *)
LEMMA StreamWrite ==
    ASSUME BaseInv, StreamInv, DoWrite PROVE StreamInv'
<1> DEFINE text == OutputOf(call.number, call.kind)
<1>1. /\ call.step = "write"
      /\ call' = [call EXCEPT !.step = IF write > 1 THEN "write"
                                       ELSE IF probed THEN "poll" ELSE "probe"]
      /\ working' = working \/ (working' = working \o text /\ ~(write > 1))
      /\ UNCHANGED <<probed, useFlow, ack, replies, got, said, board, queue, pending, packet>>
    BY DEF DoWrite, StepTo, flow
<1>2. /\ call'.number = call.number
      /\ call'.step = IF write > 1 THEN "write" ELSE IF probed THEN "poll" ELSE "probe"
    BY <1>1 DEF BaseInv, TypeOK
<1>3. /\ Coming \in Text /\ got \in Text /\ queue \in Text /\ working \in Text
      /\ call.number \in Nat
    BY ComingText DEF BaseInv, TypeOK
<1>4. /\ text \in Text /\ Sorted(text) /\ \A k \in DOMAIN text : text[k].call = call.number
    BY <1>3, OutputText
<1> HIDE DEF text
<1>5. Coming' = Coming BY <1>1, <1>2 DEF Coming, Arriving
<1>6. /\ Printing = call.number - 1
      /\ Printing' = IF write > 1 THEN call.number - 1 ELSE call.number
    BY <1>1, <1>2 DEF Printing
<1>7. \A s \in {got, Coming, queue, working} : UpTo(s, call.number - 1)
    BY <1>6 DEF StreamInv, OrderInv
<1>8. \A s \in {got, Coming, queue, working} : UpTo(s, call.number)
    BY <1>3, <1>7, UpToMore
<1>9. InOrder(got, Coming, queue, working) BY DEF StreamInv, OrderInv
<1>10. FlowInv' BY <1>1, <1>2, <1>5 DEF StreamInv, FlowInv, Flowing
<1>11. CASE working' = working
    BY <1>1, <1>5, <1>6, <1>7, <1>8, <1>9, <1>10, <1>11 DEF StreamInv, OrderInv
<1>12. CASE working' = working \o text /\ ~(write > 1)
    <2>1. UpTo(text, call.number) BY <1>3, <1>4 DEF UpTo
    <2>2. UpTo(working', call.number) BY <1>3, <1>4, <1>8, <1>12, <2>1, UpToConcat
    <2>3. ASSUME NEW s \in {got, Coming, queue, working} PROVE AllBefore(s, text)
        <3>1. s \in Text BY <1>3
        <3>2. \A k \in DOMAIN s : s[k] \in Pieces BY <3>1 DEF Text
        <3>3. \A k \in DOMAIN s : s[k].call \in Nat BY <3>2 DEF Pieces
        <3>4. \A k \in DOMAIN s : s[k].call < call.number
            BY <1>3, <1>7, <3>3 DEF UpTo
        <3> QED BY <1>3, <1>4, <3>1, <3>4, EarlierCalls
    <2>4. InOrder(got, Coming, queue, working')
        BY <1>3, <1>4, <1>9, <1>12, <2>3, ExtendFourth
    <2> QED BY <1>1, <1>5, <1>6, <1>8, <1>10, <1>12, <2>2, <2>4 DEF StreamInv, OrderInv
<1> QED BY <1>1, <1>11, <1>12

(* The next piece is printed. *)
LEMMA StreamEmit ==
    ASSUME BaseInv, StreamInv, Emit PROVE StreamInv'
<1>1. /\ queue' = Append(queue, Head(working)) /\ said' = Append(said, Head(working))
      /\ working' = Tail(working) /\ working # << >>
      /\ UNCHANGED <<call, probed, useFlow, ack, replies, got, board, pending, packet>>
    BY DEF Emit, client, flow
<1>2. Coming' = Coming /\ Printing' = Printing
    BY <1>1 DEF Coming, Arriving, FromTarget, Printing
<1>3. /\ Coming \in Text /\ got \in Text /\ queue \in Text /\ working \in Text /\ said \in Text
    BY ComingText DEF BaseInv, TypeOK
<1> DEFINE piece == <<Head(working)>>
<1>4. /\ piece \in Text /\ Tail(working) \in Text /\ working = piece \o Tail(working)
      /\ Head(working) \in Pieces
    BY <1>1, <1>3, HeadAndTail
<1>5. queue' = queue \o piece /\ said' = said \o piece
    BY <1>1, <1>3, <1>4, AppendIsConcat DEF Text
<1> HIDE DEF piece
<1>6. InOrder(got, Coming, queue', working')
    <2>1. InOrder(got, Coming, queue, piece \o Tail(working))
        BY <1>4 DEF StreamInv, OrderInv
    <2> QED BY <1>1, <1>3, <1>4, <1>5, <2>1, ShiftFourth, ZenonT(60)
<1>7. \A text \in {got, Coming, queue', working'} : UpTo(text, Printing)
    <2>1. UpTo(queue, Printing) /\ UpTo(Coming, Printing) /\ UpTo(got, Printing)
          /\ UpTo(working, Printing)
        BY DEF StreamInv, OrderInv
    <2>2. UpTo(piece, Printing) /\ UpTo(Tail(working), Printing)
        BY ONLY ZenonT(60), <1>3, <1>4, <2>1, UpToConcat
    <2>3. UpTo(queue \o piece, Printing)
        BY ONLY ZenonT(60), <1>3, <1>4, <2>1, <2>2, UpToConcat
    <2>4. UpTo(queue', Printing) BY <1>5, <2>3
    <2> QED BY <1>1, <2>1, <2>2, <2>4
<1>8. OrderInv' BY <1>1, <1>2, <1>6, <1>7 DEF OrderInv
<1>9. FlowInv'
    <2>1. ASSUME Flowing' PROVE said' = got \o (Coming \o queue')
        <3>1. Flowing BY <1>1, <2>1 DEF Flowing
        <3>2. said = got \o (Coming \o queue) BY <3>1 DEF StreamInv, FlowInv
        <3>3. (Coming \o queue) \o piece = Coming \o (queue \o piece)
            <4>1. Coming \in Text /\ queue \in Text /\ piece \in Text BY <1>3, <1>4
            <4> QED BY ONLY ZenonT(60), <4>1, ConcatAssoc
        <3>4. Coming \o queue \in Text BY <1>3, ConcatText
        <3>5. (got \o (Coming \o queue)) \o piece = got \o ((Coming \o queue) \o piece)
            <4> DEFINE ready == Coming \o queue
            <4>1. ready \in Text /\ got \in Text /\ piece \in Text BY <1>3, <1>4, <3>4
            <4> HIDE DEF ready
            <4>2. (got \o ready) \o piece = got \o (ready \o piece)
                BY <4>1, ConcatAssoc
            <4> QED BY <4>2 DEF ready
        <3> QED BY <1>5, <3>2, <3>3, <3>5
    <2> QED BY <1>1, <1>2, <2>1 DEF StreamInv, FlowInv
<1> QED BY <1>8, <1>9 DEF StreamInv

(* The other steps. *)
LEMMA StreamOther ==
    ASSUME BaseInv, StreamInv, [Next]_vars,
           \/ \E kind \in Kinds : Call(kind)
           \/ GiveUp \/ Positioning \/ HandlePosition \/ Control \/ UNCHANGED vars
    PROVE  StreamInv'
<1>1. CASE \E kind \in Kinds : Call(kind)
    <2>1. /\ UNCHANGED <<got, said, queue, working, pending, packet, useFlow, ack, probed, board>>
          /\ call.step = "idle"
          /\ call'.step \in {"write", "position", "poll", "probe"}
        BY <1>1 DEF Call, flow, channel
    <2> QED BY <2>1, StreamSame
<1>2. CASE GiveUp
    <2>1. /\ UNCHANGED <<got, said, queue, working, pending, packet, useFlow, ack, probed, board>>
          /\ call.step = "poll" /\ call'.step = "idle"
        BY <1>2 DEF GiveUp, Finish, flow, channel, BaseInv, TypeOK
    <2> QED BY <2>1, StreamSame
<1>3. CASE Positioning
    <2>1. /\ UNCHANGED <<got, said, queue, working, pending, packet, useFlow, ack, probed, board>>
          /\ call.step = "position" /\ call'.step = "moving"
        BY <1>3 DEF Positioning, PositionLost, PositionAnswered, SendPosition, StepTo, flow,
                    channel, BaseInv, TypeOK
    <2> QED BY <2>1, StreamSame
<1>4. CASE HandlePosition
    <2>1. /\ UNCHANGED <<got, said, queue, working, pending, packet, useFlow, ack, probed, board>>
          /\ call.step = "moving" /\ call'.step \in {"idle", "position"}
        BY <1>4 DEF HandlePosition, StepTo, Finish, flow, channel, BaseInv, TypeOK
    <2> QED BY <2>1, StreamSame
<1>5. CASE Control \/ UNCHANGED vars
    <2>1. UNCHANGED <<call, got, said, queue, working, pending, packet, useFlow, ack, probed,
                      board, replies>>
        BY <1>5 DEF Control, vars, client, flow, channel
    <2> QED BY <2>1 DEF StreamInv, OrderInv, FlowInv, Flowing, Coming, Arriving, FromTarget,
                        Printing
<1> QED BY <1>1, <1>2, <1>3, <1>4, <1>5

(* The stream stays in order in every step. *)
LEMMA StreamStep ==
    ASSUME BaseInv, StreamInv, [Next]_vars PROVE StreamInv'
BY StepCases, StreamOther, StreamWrite, StreamExchange, StreamHandle, StreamEmit

(* In the first state there is no output. *)
LEMMA InitStream == ASSUME Init PROVE StreamInv
<1>1. Coming = << >> BY DEF Init, Idle, Coming, Arriving
<1>2. OrderInv
    BY <1>1 DEF Init, OrderInv, InOrder, Sorted, AllBefore, UpTo
<1>3. FlowInv BY <1>1 DEF Init, FlowInv
<1> QED BY <1>2, <1>3 DEF StreamInv

----------------------------------------------------------------------------
(* The output of a command. *)

(* What OwnOutput expects of a command. *)
Own(number, kind) ==
    IF kind = "ok" THEN <<OutputOf(number, "ok")[1]>> ELSE OutputOf(number, "single")

(* Nothing is taken off nothing. *)
LEMMA Heads0 ==
    ASSUME NEW s \in Text, NEW t \in Text, s \o t = << >>
    PROVE  s = << >> /\ t = << >>
BY ConcatEqualIffEmpty DEF Text

(* The pieces of the parts are those of the whole, by position. *)
LEMMA SplitLengths ==
    ASSUME NEW s \in Text, NEW t \in Text, NEW whole, s \o t = whole
    PROVE  /\ Len(s) \in Nat /\ Len(t) \in Nat /\ Len(whole) = Len(s) + Len(t)
           /\ \A k \in 1..Len(s) : s[k] = whole[k]
           /\ \A k \in 1..Len(t) : t[k] = whole[Len(s) + k]
<1>1. Len(s) \in Nat /\ Len(t) \in Nat /\ Len(s \o t) = Len(s) + Len(t)
    BY ConcatText DEF Text
<1>2. DOMAIN s = 1..Len(s) /\ DOMAIN t = 1..Len(t) BY DEF Text
<1>3. /\ \A k \in DOMAIN s : (s \o t)[k] = s[k]
      /\ \A k \in DOMAIN t : (s \o t)[Len(s) + k] = t[k]
    BY ConcatText
<1>4. /\ \A k \in 1..Len(s) : s[k] = whole[k]
      /\ \A k \in 1..Len(t) : t[k] = whole[Len(s) + k]
    BY <1>2, <1>3
<1> QED BY <1>1, <1>4

(* The ways to write a small length as a sum. *)
LEMMA Sums ==
    ASSUME NEW m \in Nat, NEW n \in Nat
    PROVE  /\ m + n = 1 => (m = 0 /\ n = 1) \/ (m = 1 /\ n = 0)
           /\ m + n = 2 => (m = 0 /\ n = 2) \/ (m = 1 /\ n = 1) \/ (m = 2 /\ n = 0)
           /\ m + n = 3 => \/ (m = 0 /\ n = 3) \/ (m = 1 /\ n = 2)
                          \/ (m = 2 /\ n = 1) \/ (m = 3 /\ n = 0)
OBVIOUS

(* A short sequence is the tuple of its elements. *)
LEMMA ShortSeq ==
    ASSUME NEW S, NEW s \in Seq(S)
    PROVE  /\ Len(s) = 0 => s = << >>
           /\ Len(s) = 1 => s = <<s[1]>>
           /\ Len(s) = 2 => s = <<s[1], s[2]>>
           /\ Len(s) = 3 => s = <<s[1], s[2], s[3]>>
<1>1. \A k \in 1..Len(s) : s[k] \in S OBVIOUS
<1>2. ASSUME Len(s) = 0 PROVE s = << >> BY <1>2, EmptySeq
<1>3. ASSUME Len(s) = 1 PROVE s = <<s[1]>> BY <1>1, <1>3, SeqEqual
<1>4. ASSUME Len(s) = 2 PROVE s = <<s[1], s[2]>> BY <1>1, <1>4, SeqEqual
<1>5. ASSUME Len(s) = 3 PROVE s = <<s[1], s[2], s[3]>> BY <1>1, <1>5, SeqEqual
<1> QED BY <1>2, <1>3, <1>4, <1>5

(* The ways to take a head off a text of one piece, *)
LEMMA Heads1 ==
    ASSUME NEW s \in Text, NEW t \in Text, NEW a,
           s \o t = <<a>>
    PROVE  \/ s = << >> /\ t = <<a>>
           \/ s = <<a>> /\ t = << >>
<1> DEFINE whole == <<a>>
<1>0. Len(whole) = 1 /\ whole[1] = a OBVIOUS
<1>00. s \o t = whole OBVIOUS
<1> HIDE DEF whole
<1>1. /\ Len(whole) = Len(s) + Len(t) /\ Len(s) \in Nat /\ Len(t) \in Nat
      /\ \A k \in 1..Len(s) : s[k] = whole[k]
      /\ \A k \in 1..Len(t) : t[k] = whole[Len(s) + k]
    BY <1>00, SplitLengths
<1>2. CASE Len(s) = 0 /\ Len(t) = 1
    <2>1. t[1] = a BY <1>0, <1>1, <1>2
    <2>2. s = << >> BY <1>2, <2>1, ShortSeq DEF Text
    <2>3. t = <<a>> BY <1>2, <2>1, ShortSeq DEF Text
    <2> QED BY <2>2, <2>3
<1>3. CASE Len(s) = 1 /\ Len(t) = 0
    <2>1. s[1] = a BY <1>0, <1>1, <1>3
    <2>2. s = <<a>> BY <1>3, <2>1, ShortSeq DEF Text
    <2>3. t = << >> BY <1>3, <2>1, ShortSeq DEF Text
    <2> QED BY <2>2, <2>3
<1>4. (Len(s) = 0 /\ Len(t) = 1) \/ (Len(s) = 1 /\ Len(t) = 0)
    <2>1. Len(s) + Len(t) = 1 /\ Len(s) \in Nat /\ Len(t) \in Nat BY <1>0, <1>1
    <2> QED BY <2>1, Sums
<1> QED BY <1>4, <1>2, <1>3

(* of two, *)
LEMMA Heads2 ==
    ASSUME NEW s \in Text, NEW t \in Text, NEW a, NEW b,
           s \o t = <<a, b>>
    PROVE  \/ s = << >> /\ t = <<a, b>>
           \/ s = <<a>> /\ t = <<b>>
           \/ s = <<a, b>> /\ t = << >>
<1> DEFINE whole == <<a, b>>
<1>0. Len(whole) = 2 /\ whole[1] = a /\ whole[2] = b OBVIOUS
<1>00. s \o t = whole OBVIOUS
<1> HIDE DEF whole
<1>1. /\ Len(whole) = Len(s) + Len(t) /\ Len(s) \in Nat /\ Len(t) \in Nat
      /\ \A k \in 1..Len(s) : s[k] = whole[k]
      /\ \A k \in 1..Len(t) : t[k] = whole[Len(s) + k]
    BY <1>00, SplitLengths
<1>2. CASE Len(s) = 0 /\ Len(t) = 2
    <2>1. t[1] = a /\ t[2] = b BY <1>0, <1>1, <1>2
    <2>2. s = << >> BY <1>2, <2>1, ShortSeq DEF Text
    <2>3. t = <<a, b>> BY <1>2, <2>1, ShortSeq DEF Text
    <2> QED BY <2>2, <2>3
<1>3. CASE Len(s) = 1 /\ Len(t) = 1
    <2>1. s[1] = a /\ t[1] = b BY <1>0, <1>1, <1>3
    <2>2. s = <<a>> BY <1>3, <2>1, ShortSeq DEF Text
    <2>3. t = <<b>> BY <1>3, <2>1, ShortSeq DEF Text
    <2> QED BY <2>2, <2>3
<1>4. CASE Len(s) = 2 /\ Len(t) = 0
    <2>1. s[1] = a /\ s[2] = b BY <1>0, <1>1, <1>4
    <2>2. s = <<a, b>> BY <1>4, <2>1, ShortSeq DEF Text
    <2>3. t = << >> BY <1>4, <2>1, ShortSeq DEF Text
    <2> QED BY <2>2, <2>3
<1>5. (Len(s) = 0 /\ Len(t) = 2) \/ (Len(s) = 1 /\ Len(t) = 1) \/ (Len(s) = 2 /\ Len(t) = 0)
    <2>1. Len(s) + Len(t) = 2 /\ Len(s) \in Nat /\ Len(t) \in Nat BY <1>0, <1>1
    <2> QED BY <2>1, Sums
<1> QED BY <1>5, <1>2, <1>3, <1>4

(* and of three. *)
LEMMA Heads3 ==
    ASSUME NEW s \in Text, NEW t \in Text, NEW a, NEW b, NEW c,
           s \o t = <<a, b, c>>
    PROVE  \/ s = << >> /\ t = <<a, b, c>>
           \/ s = <<a>> /\ t = <<b, c>>
           \/ s = <<a, b>> /\ t = <<c>>
           \/ s = <<a, b, c>> /\ t = << >>
<1> DEFINE whole == <<a, b, c>>
<1>0. Len(whole) = 3 /\ whole[1] = a /\ whole[2] = b /\ whole[3] = c OBVIOUS
<1>00. s \o t = whole OBVIOUS
<1> HIDE DEF whole
<1>1. /\ Len(whole) = Len(s) + Len(t) /\ Len(s) \in Nat /\ Len(t) \in Nat
      /\ \A k \in 1..Len(s) : s[k] = whole[k]
      /\ \A k \in 1..Len(t) : t[k] = whole[Len(s) + k]
    BY <1>00, SplitLengths
<1>2. CASE Len(s) = 0 /\ Len(t) = 3
    <2>1. t[1] = a /\ t[2] = b /\ t[3] = c BY <1>0, <1>1, <1>2
    <2>2. s = << >> BY <1>2, <2>1, ShortSeq DEF Text
    <2>3. t = <<a, b, c>> BY <1>2, <2>1, ShortSeq DEF Text
    <2> QED BY <2>2, <2>3
<1>3. CASE Len(s) = 1 /\ Len(t) = 2
    <2>1. s[1] = a /\ t[1] = b /\ t[2] = c BY <1>0, <1>1, <1>3
    <2>2. s = <<a>> BY <1>3, <2>1, ShortSeq DEF Text
    <2>3. t = <<b, c>> BY <1>3, <2>1, ShortSeq DEF Text
    <2> QED BY <2>2, <2>3
<1>4. CASE Len(s) = 2 /\ Len(t) = 1
    <2>1. s[1] = a /\ s[2] = b /\ t[1] = c BY <1>0, <1>1, <1>4
    <2>2. s = <<a, b>> BY <1>4, <2>1, ShortSeq DEF Text
    <2>3. t = <<c>> BY <1>4, <2>1, ShortSeq DEF Text
    <2> QED BY <2>2, <2>3
<1>5. CASE Len(s) = 3 /\ Len(t) = 0
    <2>1. s[1] = a /\ s[2] = b /\ s[3] = c BY <1>0, <1>1, <1>5
    <2>2. s = <<a, b, c>> BY <1>5, <2>1, ShortSeq DEF Text
    <2>3. t = << >> BY <1>5, <2>1, ShortSeq DEF Text
    <2> QED BY <2>2, <2>3
<1>6. (Len(s) = 0 /\ Len(t) = 3) \/ (Len(s) = 1 /\ Len(t) = 2) \/ (Len(s) = 2 /\ Len(t) = 1) \/ (Len(s) = 3 /\ Len(t) = 0)
    <2>1. Len(s) + Len(t) = 3 /\ Len(s) \in Nat /\ Len(t) \in Nat BY <1>0, <1>1
    <2> QED BY <2>1, Sums
<1> QED BY <1>6, <1>2, <1>3, <1>4, <1>5

(* The end of a line in a short text. *)
LEMMA LineStarts ==
    ASSUME NEW text, NEW k, NEW m \in Nat, Ends(text) \subseteq Nat,
           m \in {0} \cup {j \in Ends(text) : j < k},
           \A j \in Ends(text) : j < k => j =< m
    PROVE  LineStart(text, k) = 1 + m
<1> DEFINE S == {0} \cup {j \in Ends(text) : j < k}
<1>1. S \in SUBSET Int /\ m \in S /\ \A y \in S : m >= y OBVIOUS
<1> HIDE DEF S
<1>2. Max(S) = m BY <1>1, MaxIs
<1> QED BY <1>2 DEF LineStart, S

(* A text without the end of a line is kept. *)
LEMMA KeepsLine ==
    ASSUME TypeOK, NEW text \in Text, Ends(text) = {}, ProcessReplies(text)
    PROVE  StepTo("poll") /\ output' = output /\ line' = text
<1>1. OKLines(text) = {} BY DEF OKLines
<1>2. Max({0} \cup Ends(text)) = 0
    <2>1. {0} \cup Ends(text) = {0} OBVIOUS
    <2>2. Max({0}) = 0 BY MaxIs
    <2> QED BY <2>1, <2>2
<1>3. /\ StepTo("poll") /\ output' = output \o SubSeq(text, 1, 0)
      /\ line' = SubSeq(text, 0 + 1, Len(text))
    BY <1>1, <1>2 DEF ProcessReplies
<1>4. SubSeq(text, 1, 0) = << >> BY SubSeqEmpty
<1>5. SubSeq(text, 1, Len(text)) = text BY SubSeqFull DEF Text
<1>6. output \o << >> = output BY ConcatEmptySeq DEF TypeOK, Text
<1>7. output' = output BY <1>3, <1>4, <1>6
<1>8. line' = text BY <1>3, <1>5
<1> QED BY <1>3, <1>7, <1>8

(* A first line that is not OK goes to the output. *)
LEMMA PassesLine ==
    ASSUME TypeOK, call.kind = "ok", NEW a \in Pieces, NEW text \in Text,
           Len(text) >= 1, text[1] = a, Ends(text) = {1}, ProcessReplies(text)
    PROVE  StepTo("poll") /\ output' = output \o <<a>> /\ line' = SubSeq(text, 2, Len(text))
<1>1. LineStart(text, 1) = 1 + 0 BY LineStarts
<1>2. SubSeq(text, 1, 1) = <<a>>
    <2>1. Len(text) \in Nat /\ 1 \in 1..Len(text) BY DEF Text
    <2>2. SubSeq(text, 1, 1) = <<text[1]>> \o SubSeq(text, 1 + 1, 1)
        BY <2>1, SubSeqRecursiveFirst DEF Text
    <2>3. SubSeq(text, 1 + 1, 1) = << >> BY SubSeqEmpty
    <2>4. <<a>> \o << >> = <<a>>
        <3>1. <<a>> \in Seq(Pieces) OBVIOUS
        <3> QED BY <3>1, ConcatEmptySeq
    <2> QED BY <2>2, <2>3, <2>4
<1>3. ~IsOK(LineAt(text, 1))
    <2>1. 1 + 0 = 1 OBVIOUS
    <2>2. LineAt(text, 1) = <<a>> BY <1>1, <1>2, <2>1 DEF LineAt
    <2>3. Len(<<a>>) # 2 OBVIOUS
    <2> QED BY <2>2, <2>3 DEF IsOK
<1>4. OKLines(text) = {} BY <1>3 DEF OKLines
<1>5. Max({0} \cup Ends(text)) = 1
    <2>1. Max({0, 1}) = 1
        <3>1. {0, 1} \in SUBSET Int /\ 1 \in {0, 1} /\ \A y \in {0, 1} : 1 >= y OBVIOUS
        <3> QED BY <3>1, MaxIs
    <2>2. {0} \cup Ends(text) = {0, 1} OBVIOUS
    <2> QED BY <2>1, <2>2
<1>6. /\ StepTo("poll") /\ output' = output \o SubSeq(text, 1, 1)
      /\ line' = SubSeq(text, 1 + 1, Len(text))
    BY <1>4, <1>5 DEF ProcessReplies
<1> QED BY <1>2, <1>6

(* OK ends the command; what came before its line is output. *)
LEMMA EndsOk ==
    ASSUME TypeOK, call.kind = "ok", NEW text, NEW k \in Nat, NEW start \in Nat,
           LineStart(text, k) = start, OKLines(text) = {k}, ProcessReplies(text)
    PROVE  Finish(0, output \o SubSeq(text, 1, start - 1), TRUE)
<1>1. Min({k}) = k BY MinIs
<1> QED BY <1>1 DEF ProcessReplies

(* The first line ends a query. *)
LEMMA EndsSingle ==
    ASSUME TypeOK, call.kind = "single", NEW text, NEW k \in Nat,
           Ends(text) = {k}, ProcessReplies(text)
    PROVE  Finish(0, LineAt(text, k), TRUE)
<1>1. Min({k}) = k BY MinIs
<1> QED BY <1>1 DEF ProcessReplies

(* Concatenations and slices of short texts. *)
LEMMA PairUp ==
    ASSUME NEW a, NEW b, NEW c
    PROVE  /\ <<a>> \o <<b>> = <<a, b>> /\ <<a>> \o <<b, c>> = <<a, b, c>>
           /\ SubSeq(<<a>>, 1, 1) = <<a>> /\ SubSeq(<<a>>, 2, 1) = << >>
           /\ SubSeq(<<a, b>>, 2, 2) = <<b>> /\ SubSeq(<<a, b>>, 1, 2) = <<a, b>>
<1> DEFINE S == {a, b, c}
<1>0. a \in S /\ b \in S /\ c \in S OBVIOUS
<1> HIDE DEF S
<1>1. <<a>> \o <<b>> = <<a, b>>
    <2> DEFINE s == <<a>> t == <<b>>
    <2>1. s \in Seq(S) /\ t \in Seq(S) /\ Len(s) = 1 /\ Len(t) = 1 BY <1>0
    <2>2. s[1] = a /\ t[1] = b OBVIOUS
    <2> HIDE DEF s, t
    <2>3. /\ s \o t \in Seq(S) /\ Len(s \o t) = 2
          /\ (s \o t)[1] = a /\ (s \o t)[2] = b
        BY <2>1, <2>2, ConcatProperties
    <2>4. s \o t = <<a, b>> BY <2>3, ShortSeq
    <2> QED BY <2>4 DEF s, t
<1>2. <<a>> \o <<b, c>> = <<a, b, c>>
    <2> DEFINE s == <<a>> t == <<b, c>>
    <2>1. s \in Seq(S) /\ t \in Seq(S) /\ Len(s) = 1 /\ Len(t) = 2 BY <1>0
    <2>2. s[1] = a /\ t[1] = b /\ t[2] = c OBVIOUS
    <2> HIDE DEF s, t
    <2>3. /\ s \o t \in Seq(S) /\ Len(s \o t) = 3
          /\ (s \o t)[1] = a /\ (s \o t)[2] = b /\ (s \o t)[3] = c
        BY <2>1, <2>2, ConcatProperties
    <2>4. s \o t = <<a, b, c>> BY <2>3, ShortSeq
    <2> QED BY <2>4 DEF s, t
<1>3. SubSeq(<<a>>, 1, 1) = <<a>>
    <2> DEFINE s == <<a>>
    <2>1. s[1] = a OBVIOUS
    <2> HIDE DEF s
    <2>2. \A k \in 1..1 : s[k] \in S BY <1>0, <2>1
    <2>3. /\ SubSeq(s, 1, 1) \in Seq(S) /\ Len(SubSeq(s, 1, 1)) = 1
          /\ SubSeq(s, 1, 1)[1] = a
        BY <2>1, <2>2, SubSeqProperties
    <2>4. SubSeq(s, 1, 1) = <<a>> BY <2>3, ShortSeq
    <2> QED BY <2>4 DEF s
<1>4. SubSeq(<<a>>, 2, 1) = << >> BY SubSeqEmpty
<1>5. SubSeq(<<a, b>>, 2, 2) = <<b>>
    <2> DEFINE s == <<a, b>>
    <2>1. s[1] = a /\ s[2] = b OBVIOUS
    <2> HIDE DEF s
    <2>2. \A k \in 2..2 : s[k] \in S BY <1>0, <2>1
    <2>3. /\ SubSeq(s, 2, 2) \in Seq(S) /\ Len(SubSeq(s, 2, 2)) = 1
          /\ SubSeq(s, 2, 2)[1] = b
        BY <2>1, <2>2, SubSeqProperties
    <2>4. SubSeq(s, 2, 2) = <<b>> BY <2>3, ShortSeq
    <2> QED BY <2>4 DEF s
<1>6. SubSeq(<<a, b>>, 1, 2) = <<a, b>>
    <2> DEFINE s == <<a, b>>
    <2>1. s[1] = a /\ s[2] = b OBVIOUS
    <2> HIDE DEF s
    <2>2. \A k \in 1..2 : s[k] \in S BY <1>0, <2>1
    <2>3. /\ SubSeq(s, 1, 2) \in Seq(S) /\ Len(SubSeq(s, 1, 2)) = 2
          /\ SubSeq(s, 1, 2)[1] = a /\ SubSeq(s, 1, 2)[2] = b
        BY <2>1, <2>2, SubSeqProperties
    <2>4. SubSeq(s, 1, 2) = <<a, b>> BY <2>3, ShortSeq
    <2> QED BY <2>4 DEF s
<1> QED BY <1>1, <1>2, <1>3, <1>4, <1>5, <1>6

(* The second and third piece. *)
LEMMA Slice23 == ASSUME NEW a, NEW b, NEW c PROVE SubSeq(<<a, b, c>>, 2, 3) = <<b, c>>
<1> DEFINE S == {a, b, c}
<1>0. a \in S /\ b \in S /\ c \in S OBVIOUS
<1> HIDE DEF S
<1> DEFINE s == <<a, b, c>>
<1>1. s[1] = a /\ s[2] = b /\ s[3] = c OBVIOUS
<1> HIDE DEF s
<1>2. \A k \in 2..3 : s[k] \in S BY <1>0, <1>1
<1>3. /\ SubSeq(s, 2, 3) \in Seq(S) /\ Len(SubSeq(s, 2, 3)) = 2
      /\ SubSeq(s, 2, 3)[1] = b /\ SubSeq(s, 2, 3)[2] = c
    BY <1>1, <1>2, SubSeqProperties
<1>4. SubSeq(s, 2, 3) = <<b, c>> BY <1>3, ShortSeq
<1> QED BY <1>4 DEF s

(* The first piece. *)
LEMMA Slice11 == ASSUME NEW a, NEW b, NEW c PROVE SubSeq(<<a, b, c>>, 1, 1) = <<a>>
<1> DEFINE S == {a, b, c}
<1>0. a \in S /\ b \in S /\ c \in S OBVIOUS
<1> HIDE DEF S
<1> DEFINE s == <<a, b, c>>
<1>1. s[1] = a /\ s[2] = b /\ s[3] = c OBVIOUS
<1> HIDE DEF s
<1>2. \A k \in 1..1 : s[k] \in S BY <1>0, <1>1
<1>3. /\ SubSeq(s, 1, 1) \in Seq(S) /\ Len(SubSeq(s, 1, 1)) = 1
      /\ SubSeq(s, 1, 1)[1] = a
    BY <1>1, <1>2, SubSeqProperties
<1>4. SubSeq(s, 1, 1) = <<a>> BY <1>3, ShortSeq
<1> QED BY <1>4 DEF s

(* What the client makes of each part of an output it may have before it. *)
LEMMA OkTexts ==
    ASSUME TypeOK, call.kind = "ok", NEW a \in Pieces, NEW b \in Pieces, NEW c \in Pieces,
           a.end = "text", b = Piece(call.number, 2, "none"), c = Piece(call.number, 3, "OK")
    PROVE  /\ ProcessReplies(<< >>) => StepTo("poll") /\ output' = output /\ line' = << >>
           /\ ProcessReplies(<<b>>) => StepTo("poll") /\ output' = output /\ line' = <<b>>
           /\ ProcessReplies(<<a>>) =>
                StepTo("poll") /\ output' = output \o <<a>> /\ line' = << >>
           /\ ProcessReplies(<<a, b>>) =>
                StepTo("poll") /\ output' = output \o <<a>> /\ line' = <<b>>
           /\ ProcessReplies(<<b, c>>) => Finish(0, output \o << >>, TRUE)
           /\ ProcessReplies(<<a, b, c>>) => Finish(0, output \o <<a>>, TRUE)
<1>1. a.end # "none" /\ b.end = "none" /\ c.end # "none" BY DEF Piece
<1>2. << >> \in Text /\ <<a>> \in Text /\ <<b>> \in Text /\ <<a, b>> \in Text BY DEF Text
<1>3. ProcessReplies(<< >>) => StepTo("poll") /\ output' = output /\ line' = << >>
    <2>1. Ends(<< >>) = {} BY DEF Ends
    <2> QED BY <1>2, <2>1, KeepsLine
<1>4. ProcessReplies(<<b>>) => StepTo("poll") /\ output' = output /\ line' = <<b>>
    <2>1. Ends(<<b>>) = {} BY <1>1 DEF Ends
    <2> QED BY <1>2, <2>1, KeepsLine
<1>5. ProcessReplies(<<a>>) => StepTo("poll") /\ output' = output \o <<a>> /\ line' = << >>
    <2> DEFINE text == <<a>>
    <2>1. Ends(text) = {1} BY <1>1 DEF Ends
    <2>2. Len(text) = 1 /\ Len(text) >= 1 /\ text[1] = a /\ text \in Text BY <1>2
    <2>3. SubSeq(<<a>>, 2, 1) = << >> BY PairUp
    <2> HIDE DEF text
    <2>4. ProcessReplies(text) =>
            StepTo("poll") /\ output' = output \o <<a>> /\ line' = SubSeq(text, 2, Len(text))
        BY <2>1, <2>2, PassesLine
    <2>5. SubSeq(text, 2, Len(text)) = << >> BY <2>2, <2>3 DEF text
    <2> QED BY <2>4, <2>5 DEF text
<1>6. ProcessReplies(<<a, b>>) => StepTo("poll") /\ output' = output \o <<a>> /\ line' = <<b>>
    <2> DEFINE text == <<a, b>>
    <2>1. Ends(text) = {1} BY <1>1 DEF Ends
    <2>2. Len(text) = 2 /\ Len(text) >= 1 /\ text[1] = a /\ text \in Text BY <1>2
    <2>3. SubSeq(<<a, b>>, 2, 2) = <<b>> BY PairUp
    <2> HIDE DEF text
    <2>4. ProcessReplies(text) =>
            StepTo("poll") /\ output' = output \o <<a>> /\ line' = SubSeq(text, 2, Len(text))
        BY <2>1, <2>2, PassesLine
    <2>5. SubSeq(text, 2, Len(text)) = <<b>> BY <2>2, <2>3 DEF text
    <2> QED BY <2>4, <2>5 DEF text
<1>7. ASSUME NEW pair, pair = <<b, c>> PROVE IsOK(pair)
    <2>1. Len(pair) = 2 /\ pair[1] = b /\ pair[2] = c BY <1>7
    <2>2. c.end = "OK" /\ c.call = call.number BY DEF Piece
    <2> QED BY <2>1, <2>2 DEF IsOK
<1>8. ASSUME ProcessReplies(<<b, c>>) PROVE Finish(0, output \o << >>, TRUE)
    <2> DEFINE text == <<b, c>>
    <2>1. Ends(text) = {2} BY <1>1 DEF Ends
    <2>2. LineStart(text, 2) = 1 + 0 BY <2>1, LineStarts
    <2>3. 1 + 0 = 1 /\ 1 - 1 = 0 OBVIOUS
    <2>4. LineAt(text, 2) = <<b, c>>
        <3>1. SubSeq(<<b, c>>, 1, 2) = <<b, c>> BY PairUp
        <3>2. LineStart(text, 2) = 1 BY <2>2, <2>3
        <3> QED BY <3>1, <3>2 DEF LineAt
    <2>5. OKLines(text) = {2} BY <1>7, <2>1, <2>4 DEF OKLines
    <2> HIDE DEF text
    <2>6. Finish(0, output \o SubSeq(text, 1, 1 - 1), TRUE)
        BY <1>8, <2>2, <2>3, <2>5, EndsOk DEF text
    <2>7. SubSeq(text, 1, 1 - 1) = << >> BY <2>3, SubSeqEmpty
    <2> QED BY <2>6, <2>7
<1>9. ASSUME ProcessReplies(<<a, b, c>>) PROVE Finish(0, output \o <<a>>, TRUE)
    <2> DEFINE text == <<a, b, c>>
    <2>1. Ends(text) = {1, 3} BY <1>1 DEF Ends
    <2>2. LineStart(text, 3) = 1 + 1 BY <2>1, LineStarts
    <2>3. LineStart(text, 1) = 1 + 0 BY <2>1, LineStarts
    <2>4. 1 + 1 = 2 /\ 1 + 0 = 1 /\ 2 - 1 = 1 OBVIOUS
    <2>5. LineAt(text, 3) = <<b, c>>
        <3>1. SubSeq(<<a, b, c>>, 2, 3) = <<b, c>> BY Slice23
        <3>2. LineStart(text, 3) = 2 BY <2>2, <2>4
        <3> QED BY <3>1, <3>2 DEF LineAt
    <2>6. LineAt(text, 1) = <<a>>
        <3>1. SubSeq(<<a, b, c>>, 1, 1) = <<a>> BY Slice11
        <3>2. LineStart(text, 1) = 1 BY <2>3, <2>4
        <3> QED BY <3>1, <3>2 DEF LineAt
    <2>7. ~IsOK(<<a>>)
        <3>1. Len(<<a>>) # 2 OBVIOUS
        <3> QED BY <3>1 DEF IsOK
    <2>8. OKLines(text) = {3}
        <3>1. IsOK(LineAt(text, 3)) BY <1>7, <2>5
        <3>2. ~IsOK(LineAt(text, 1)) BY <2>6, <2>7
        <3> QED BY <2>1, <3>1, <3>2 DEF OKLines
    <2>9. SubSeq(<<a, b, c>>, 1, 1) = <<a>> BY Slice11
    <2> HIDE DEF text
    <2>10. Finish(0, output \o SubSeq(text, 1, 2 - 1), TRUE)
        BY <1>9, <2>2, <2>4, <2>8, EndsOk DEF text
    <2> QED BY <2>4, <2>9, <2>10 DEF text
<1> QED BY <1>3, <1>4, <1>5, <1>6, <1>8, <1>9

(* The same of a query. *)
LEMMA SingleTexts ==
    ASSUME TypeOK, call.kind = "single", NEW a \in Pieces, NEW b \in Pieces,
           a.end = "none", b.end = "text"
    PROVE  /\ ProcessReplies(<< >>) => StepTo("poll") /\ output' = output /\ line' = << >>
           /\ ProcessReplies(<<a>>) => StepTo("poll") /\ output' = output /\ line' = <<a>>
           /\ ProcessReplies(<<a, b>>) => Finish(0, <<a, b>>, TRUE)
<1>1. << >> \in Text /\ <<a>> \in Text BY DEF Text
<1>2. ProcessReplies(<< >>) => StepTo("poll") /\ output' = output /\ line' = << >>
    <2>1. Ends(<< >>) = {} BY DEF Ends
    <2> QED BY <1>1, <2>1, KeepsLine
<1>3. ProcessReplies(<<a>>) => StepTo("poll") /\ output' = output /\ line' = <<a>>
    <2>1. Ends(<<a>>) = {} BY DEF Ends
    <2> QED BY <1>1, <2>1, KeepsLine
<1>4. ASSUME ProcessReplies(<<a, b>>) PROVE Finish(0, <<a, b>>, TRUE)
    <2> DEFINE text == <<a, b>>
    <2>1. Ends(text) = {2} BY DEF Ends
    <2>2. LineStart(text, 2) = 1 + 0 BY <2>1, LineStarts
    <2>3. 1 + 0 = 1 OBVIOUS
    <2>4. LineAt(text, 2) = <<a, b>>
        <3>1. SubSeq(<<a, b>>, 1, 2) = <<a, b>> BY PairUp
        <3>2. LineStart(text, 2) = 1 BY <2>2, <2>3
        <3> QED BY <3>1, <3>2 DEF LineAt
    <2> HIDE DEF text
    <2>5. Finish(0, LineAt(text, 2), TRUE) BY <1>4, <2>1, EndsSingle DEF text
    <2> QED BY <2>4, <2>5
<1> QED BY <1>2, <1>3, <1>4

(* A reply takes the client on in the command's output, or ends the command *)
(* with the whole of it.                                                    *)
LEMMA OkProgress ==
    ASSUME TypeOK, call.kind = "ok", NEW data \in Text, NEW rest \in Text,
           Progress(call.number, "ok", data \o rest, line, output),
           ProcessReplies(line \o data)
    PROVE  \/ StepTo("poll") /\ Progress(call.number, "ok", rest, line', output')
           \/ rest = << >> /\ Finish(0, Own(call.number, "ok"), TRUE)
<1> DEFINE a == Piece(call.number, 1, "text")
           b == Piece(call.number, 2, "none")
           c == Piece(call.number, 3, "OK")
<1>1. /\ a \in Pieces /\ b \in Pieces /\ c \in Pieces
      /\ a.end = "text" /\ b = Piece(call.number, 2, "none") /\ c = Piece(call.number, 3, "OK")
    BY DEF Piece, Pieces, TypeOK
<1>2. OutputOf(call.number, "ok") = <<a, b, c>> BY DEF OutputOf
<1> HIDE DEF a, b, c
<1>3. Own(call.number, "ok") = <<a>> BY <1>2 DEF Own
<1>4. ASSUME NEW r, NEW l, NEW o
      PROVE  Progress(call.number, "ok", r, l, o) <=>
                \/ r = << >> /\ l = << >> /\ o = << >>
                \/ r = <<a, b, c>> /\ l = << >> /\ o = << >>
                \/ r = <<b, c>> /\ l = << >> /\ o = <<a>>
                \/ r = <<c>> /\ l = <<b>> /\ o = <<a>>
    BY <1>2 DEF Progress
<1>5. /\ << >> \o data = data
      /\ << >> \o <<a>> = <<a>> /\ <<a>> \o << >> = <<a>> /\ <<b>> \o << >> = <<b>>
    <2>1. data \in Seq(Pieces) /\ <<a>> \in Seq(Pieces) /\ <<b>> \in Seq(Pieces)
        BY <1>1 DEF Text
    <2> QED BY <2>1, ConcatEmptySeq
<1>6. <<b>> \o <<c>> = <<b, c>> BY PairUp
<1>7. CASE data \o rest = << >> /\ line = << >> /\ output = << >>
    <2>1. data = << >> /\ rest = << >> BY <1>7, Heads0
    <2>2. StepTo("poll") /\ output' = << >> /\ line' = << >>
        BY <1>1, <1>5, <1>7, <2>1, OkTexts
    <2> QED BY <1>4, <2>1, <2>2
<1>8. CASE data \o rest = <<a, b, c>> /\ line = << >> /\ output = << >>
    <2>0. line \o data = data BY <1>5, <1>8
    <2>1. CASE data = << >> /\ rest = <<a, b, c>>
        <3>1. StepTo("poll") /\ output' = << >> /\ line' = << >>
            BY <1>1, <1>8, <2>0, <2>1, OkTexts
        <3> QED BY <1>4, <2>1, <3>1
    <2>2. CASE data = <<a>> /\ rest = <<b, c>>
        <3>1. StepTo("poll") /\ output' = <<a>> /\ line' = << >>
            BY <1>1, <1>5, <1>8, <2>0, <2>2, OkTexts
        <3> QED BY <1>4, <2>2, <3>1
    <2>3. CASE data = <<a, b>> /\ rest = <<c>>
        <3>1. StepTo("poll") /\ output' = <<a>> /\ line' = <<b>>
            BY <1>1, <1>5, <1>8, <2>0, <2>3, OkTexts
        <3> QED BY <1>4, <2>3, <3>1
    <2>4. CASE data = <<a, b, c>> /\ rest = << >>
        <3>1. Finish(0, << >> \o <<a>>, TRUE) BY <1>1, <1>8, <2>0, <2>4, OkTexts
        <3> QED BY <1>3, <1>5, <2>4, <3>1
    <2>5. \/ data = << >> /\ rest = <<a, b, c>>
          \/ data = <<a>> /\ rest = <<b, c>>
          \/ data = <<a, b>> /\ rest = <<c>>
          \/ data = <<a, b, c>> /\ rest = << >>
        BY <1>8, Heads3
    <2> QED BY <2>1, <2>2, <2>3, <2>4, <2>5
<1>9. CASE data \o rest = <<b, c>> /\ line = << >> /\ output = <<a>>
    <2>0. line \o data = data BY <1>5, <1>9
    <2>1. CASE data = << >> /\ rest = <<b, c>>
        <3>1. StepTo("poll") /\ output' = <<a>> /\ line' = << >>
            BY <1>1, <1>9, <2>0, <2>1, OkTexts
        <3> QED BY <1>4, <2>1, <3>1
    <2>2. CASE data = <<b>> /\ rest = <<c>>
        <3>1. StepTo("poll") /\ output' = <<a>> /\ line' = <<b>>
            BY <1>1, <1>9, <2>0, <2>2, OkTexts
        <3> QED BY <1>4, <2>2, <3>1
    <2>3. CASE data = <<b, c>> /\ rest = << >>
        <3>1. Finish(0, <<a>> \o << >>, TRUE) BY <1>1, <1>9, <2>0, <2>3, OkTexts, ZenonT(60)
        <3> QED BY <1>3, <1>5, <2>3, <3>1
    <2>4. \/ data = << >> /\ rest = <<b, c>>
          \/ data = <<b>> /\ rest = <<c>>
          \/ data = <<b, c>> /\ rest = << >>
        BY <1>9, Heads2
    <2> QED BY <2>1, <2>2, <2>3, <2>4
<1>10. CASE data \o rest = <<c>> /\ line = <<b>> /\ output = <<a>>
    <2>1. CASE data = << >> /\ rest = <<c>>
        <3>0. line \o data = <<b>> BY <1>5, <1>10, <2>1
        <3>1. StepTo("poll") /\ output' = <<a>> /\ line' = <<b>>
            BY <1>1, <1>10, <3>0, OkTexts
        <3> QED BY <1>4, <2>1, <3>1
    <2>2. CASE data = <<c>> /\ rest = << >>
        <3>0. line \o data = <<b, c>> BY <1>6, <1>10, <2>2
        <3>1. Finish(0, <<a>> \o << >>, TRUE) BY <1>1, <1>10, <3>0, OkTexts
        <3> QED BY <1>3, <1>5, <2>2, <3>1
    <2>3. \/ data = << >> /\ rest = <<c>>
          \/ data = <<c>> /\ rest = << >>
        BY <1>10, Heads1
    <2> QED BY <2>1, <2>2, <2>3
<1>11. \/ data \o rest = << >> /\ line = << >> /\ output = << >>
       \/ data \o rest = <<a, b, c>> /\ line = << >> /\ output = << >>
       \/ data \o rest = <<b, c>> /\ line = << >> /\ output = <<a>>
       \/ data \o rest = <<c>> /\ line = <<b>> /\ output = <<a>>
    BY <1>4, ZenonT(60)
<1> QED BY ONLY <1>7, <1>8, <1>9, <1>10, <1>11, ZenonT(60)

(* The same of a query. *)
LEMMA SingleProgress ==
    ASSUME TypeOK, call.kind = "single", NEW data \in Text, NEW rest \in Text,
           Progress(call.number, "single", data \o rest, line, output),
           ProcessReplies(line \o data)
    PROVE  \/ StepTo("poll") /\ Progress(call.number, "single", rest, line', output')
           \/ rest = << >> /\ Finish(0, Own(call.number, "single"), TRUE)
<1> DEFINE a == Piece(call.number, 1, "none")
           b == Piece(call.number, 2, "text")
<1>1. /\ a \in Pieces /\ b \in Pieces /\ a.end = "none" /\ b.end = "text"
    BY DEF Piece, Pieces, TypeOK
<1>2. OutputOf(call.number, "single") = <<a, b>> BY DEF OutputOf
<1> HIDE DEF a, b
<1>3. Own(call.number, "single") = <<a, b>> BY <1>2 DEF Own
<1>4. ASSUME NEW r, NEW l, NEW o
      PROVE  Progress(call.number, "single", r, l, o) <=>
                \/ r = << >> /\ l = << >> /\ o = << >>
                \/ r = <<a, b>> /\ l = << >> /\ o = << >>
                \/ r = <<b>> /\ l = <<a>> /\ o = << >>
    BY <1>2 DEF Progress
<1>5. << >> \o data = data /\ <<a>> \o << >> = <<a>>
    <2>1. data \in Seq(Pieces) /\ <<a>> \in Seq(Pieces) BY <1>1 DEF Text
    <2> QED BY <2>1, ConcatEmptySeq
<1>6. <<a>> \o <<b>> = <<a, b>> BY PairUp
<1>7. CASE data \o rest = << >> /\ line = << >> /\ output = << >>
    <2>1. data = << >> /\ rest = << >> BY <1>7, Heads0
    <2>2. StepTo("poll") /\ output' = << >> /\ line' = << >>
        BY <1>1, <1>5, <1>7, <2>1, SingleTexts
    <2> QED BY <1>4, <2>1, <2>2
<1>8. CASE data \o rest = <<a, b>> /\ line = << >> /\ output = << >>
    <2>0. line \o data = data BY <1>5, <1>8
    <2>1. CASE data = << >> /\ rest = <<a, b>>
        <3>1. StepTo("poll") /\ output' = << >> /\ line' = << >>
            BY <1>1, <1>8, <2>0, <2>1, SingleTexts
        <3> QED BY <1>4, <2>1, <3>1
    <2>2. CASE data = <<a>> /\ rest = <<b>>
        <3>1. StepTo("poll") /\ output' = << >> /\ line' = <<a>>
            BY <1>1, <1>8, <2>0, <2>2, SingleTexts
        <3> QED BY <1>4, <2>2, <3>1
    <2>3. CASE data = <<a, b>> /\ rest = << >>
        <3>1. Finish(0, <<a, b>>, TRUE) BY <1>1, <1>8, <2>0, <2>3, SingleTexts
        <3> QED BY <1>3, <2>3, <3>1
    <2>4. \/ data = << >> /\ rest = <<a, b>>
          \/ data = <<a>> /\ rest = <<b>>
          \/ data = <<a, b>> /\ rest = << >>
        BY <1>8, Heads2
    <2> QED BY <2>1, <2>2, <2>3, <2>4
<1>9. CASE data \o rest = <<b>> /\ line = <<a>> /\ output = << >>
    <2>1. CASE data = << >> /\ rest = <<b>>
        <3>0. line \o data = <<a>> BY <1>5, <1>9, <2>1
        <3>1. StepTo("poll") /\ output' = << >> /\ line' = <<a>>
            BY <1>1, <1>9, <3>0, SingleTexts
        <3> QED BY <1>4, <2>1, <3>1
    <2>2. CASE data = <<b>> /\ rest = << >>
        <3>0. line \o data = <<a, b>> BY <1>6, <1>9, <2>2
        <3>1. Finish(0, <<a, b>>, TRUE) BY <1>1, <1>9, <3>0, SingleTexts
        <3> QED BY <1>3, <2>2, <3>1
    <2>3. \/ data = << >> /\ rest = <<b>>
          \/ data = <<b>> /\ rest = << >>
        BY <1>9, Heads1
    <2> QED BY <2>1, <2>2, <2>3
<1>10. \/ data \o rest = << >> /\ line = << >> /\ output = << >>
       \/ data \o rest = <<a, b>> /\ line = << >> /\ output = << >>
       \/ data \o rest = <<b>> /\ line = <<a>> /\ output = << >>
    BY <1>4, ZenonT(60)
<1> QED BY ONLY <1>7, <1>8, <1>9, <1>10, ZenonT(60)

----------------------------------------------------------------------------
(* The command under way. *)

(* A call that returns spoils nothing that the calls before it returned, and *)
(* keeps the promise if its own result does.                                 *)
LEMMA EndedWell ==
    ASSUME TypeOK, OwnOutput, call.number = Len(ended) + 1,
           NEW error, NEW result, NEW true, Finish(error, result, true),
           Good /\ call.kind \in {"ok", "single"} /\ error = 0 /\ useFlow' =>
                result = Own(call.number, call.kind)
    PROVE  OwnOutput' /\ (Good' => Good /\ error = 0)
<1> DEFINE n == Len(ended) + 1
<1>1. /\ \A k \in DOMAIN ended : ended'[k] = ended[k]
      /\ DOMAIN ended' = DOMAIN ended \cup {n}
      /\ ended'[n] = [kind |-> call.kind, error |-> error, result |-> result,
                      flow |-> useFlow', true |-> true]
    BY FinishLength, ZenonT(60)
<1>2. DOMAIN ended = 1..(n - 1) /\ n \in Nat
    <2>1. Len(ended) \in Nat /\ DOMAIN ended = 1..Len(ended) BY DEF TypeOK
    <2> QED BY <2>1
<1>3. /\ ended'[n].kind = call.kind /\ ended'[n].error = error
      /\ ended'[n].result = result /\ ended'[n].flow = useFlow'
    <2> DEFINE entry == [kind |-> call.kind, error |-> error, result |-> result,
                         flow |-> useFlow', true |-> true]
    <2>1. /\ entry.kind = call.kind /\ entry.error = error
          /\ entry.result = result /\ entry.flow = useFlow'
        OBVIOUS
    <2>2. ended'[n] = entry BY <1>1
    <2> HIDE DEF entry, n
    <2> QED BY <2>1, <2>2
<1> HIDE DEF n
<1>4. Good' => Good /\ error = 0
    <2> SUFFICES ASSUME Good' PROVE Good /\ error = 0
        OBVIOUS
    <2>1. error = 0 BY <1>1, <1>3 DEF Good
    <2>2. Good BY <1>1 DEF Good
    <2> QED BY <2>1, <2>2
<1>5. ASSUME NEW k \in DOMAIN ended',
             ended'[k].kind \in {"ok", "single"}, ended'[k].error = 0, ended'[k].flow,
             \A j \in 1..(k - 1) : ended'[j].error = 0
      PROVE  ended'[k].result = Own(k, ended'[k].kind)
    <2>1. CASE k \in DOMAIN ended
        <3>1. \A j \in 1..(k - 1) : j \in DOMAIN ended BY <1>2, <2>1
        <3>2. /\ ended[k].kind \in {"ok", "single"} /\ ended[k].error = 0 /\ ended[k].flow
              /\ \A j \in 1..(k - 1) : ended[j].error = 0
            BY <1>1, <1>5, <2>1, <3>1
        <3>3. ended[k].result = Own(k, ended[k].kind)
            BY <2>1, <3>2 DEF OwnOutput, Own
        <3> QED BY <1>1, <2>1, <3>3
    <2>2. CASE k = n
        <3>1. Good BY <1>1, <1>2, <1>5, <2>2 DEF Good
        <3>2. result = Own(call.number, call.kind) BY <1>3, <1>5, <2>2, <3>1
        <3>3. call.number = n BY DEF n
        <3> QED BY <1>3, <2>2, <3>2, <3>3
    <2> QED BY <1>1, <2>1, <2>2
<1>6. OwnOutput' BY <1>5 DEF OwnOutput, Own
<1> QED BY <1>4, <1>6

(* No call returned. *)
LEMMA NotEnded ==
    ASSUME OwnOutput, ended' = ended
    PROVE  OwnOutput' /\ (Good' <=> Good)
BY DEF OwnOutput, Good

(* What is left of the output is text. *)
LEMMA RestText ==
    ASSUME BaseInv
    PROVE  /\ Coming \in Text /\ queue \in Text /\ working \in Text
           /\ Coming \o queue \in Text /\ Rest \in Text
<1>1. Coming \in Text /\ queue \in Text /\ working \in Text
    BY ComingText DEF BaseInv, TypeOK
<1>2. Coming \o queue \in Text BY <1>1, ConcatText
<1> DEFINE ready == Coming \o queue
<1>3. ready \in Text BY <1>2
<1> HIDE DEF ready
<1>4. ready \o working \in Text BY <1>1, <1>3, ConcatText
<1> QED BY <1>1, <1>2, <1>4 DEF Rest, ready

(* A cycle loses nothing with flow control. *)
LEMMA RestExchange ==
    ASSUME BaseInv, StreamInv, Exchanging, Flowing'
    PROVE  Rest' = Rest /\ Flowing
<1>1. /\ Moved /\ working' = working
      /\ UNCHANGED <<useFlow, ack, board>>
      /\ call.step \in {"probe", "poll"} /\ probed' /\ (call.step = "poll" => probed)
      /\ call' = [call EXCEPT !.step = IF call.step = "probe" THEN "probed" ELSE "handle"]
    BY ExchangingCycle DEF CycleResult, StreamInv
<1>2. queue \in Text /\ Room(queue) \o Later(queue) = queue
    BY RoomAndLater DEF BaseInv, TypeOK
<1>3. << >> \o queue = queue BY <1>2, ConcatEmptySeq DEF Text
<1>4. Coming' \o queue' = Coming \o queue BY <1>1, <1>2, <1>3 DEF Moved
<1>5. Flowing BY <1>1 DEF Flowing, BaseInv, ControlInv, TypeOK
<1> QED BY <1>1, <1>4, <1>5 DEF Rest

(* What a handler takes is the head of what was left. *)
LEMMA RestHandle ==
    ASSUME BaseInv, BaseInv', StreamInv, Handling
    PROVE  /\ Data(FromTarget) \in Text /\ Rest' \in Text
           /\ Data(FromTarget) \o Rest' = Rest
           /\ Flowing' => Flowing
<1> DEFINE data == Data(FromTarget)
<1>1. /\ data \in Text /\ queue' = queue /\ working' = working
      /\ (data = Coming /\ Coming' = << >>) \/ (data = << >> /\ Coming' = Coming)
      /\ Returns /\ FlowResult
    BY HandlingResult DEF StreamInv, Taken, FlowResult
<1> HIDE DEF data
<1>2. Coming \in Text /\ queue \in Text /\ working \in Text /\ << >> \in Text
    BY RestText, EmptySeq DEF Text
<1>3. Coming' \in Text /\ Rest' \in Text
    <2>1. Coming' \in Text BY <1>1, <1>2
    <2>2. Coming' \o queue' \in Text BY <1>1, <1>2, <2>1, ConcatText
    <2> DEFINE ready == Coming' \o queue'
    <2>3. ready \in Text BY <2>2
    <2> HIDE DEF ready
    <2>4. ready \o working' \in Text BY <1>1, <1>2, <2>3, ConcatText
    <2> QED BY <2>1, <2>4 DEF Rest, ready
<1>4. data \o Coming' = Coming
    BY <1>1, <1>2, ConcatEmptySeq DEF Text
<1>5. data \o Rest' = Rest
    <2> DEFINE ready == Coming' \o queue
    <2>1. ready \in Text BY <1>2, <1>3, ConcatText
    <2>2. data \o ready = Coming \o queue
        <3>1. (data \o Coming') \o queue = data \o (Coming' \o queue)
            <4> DEFINE coming == Coming'
            <4>1. coming \in Text BY <1>3
            <4> HIDE DEF coming
            <4>2. (data \o coming) \o queue = data \o (coming \o queue)
                BY ONLY ZenonT(60), <1>1, <1>2, <4>1, ConcatAssoc
            <4> QED BY <4>2 DEF coming
        <3> QED BY <1>4, <3>1
    <2> HIDE DEF ready
    <2>3. (data \o ready) \o working = data \o (ready \o working)
        BY ONLY ZenonT(60), <1>1, <1>2, <2>1, ConcatAssoc
    <2>4. Rest' = ready \o working BY <1>1 DEF Rest, ready
    <2>5. Rest = (data \o ready) \o working BY <2>2 DEF Rest
    <2> QED BY <2>3, <2>4, <2>5
<1>6. Flowing' => Flowing BY <1>1 DEF Flowing, FlowResult, Returns
<1> QED BY <1>1, <1>3, <1>5, <1>6 DEF data

(* Printing moves a piece within what is left. *)
LEMMA RestEmit ==
    ASSUME BaseInv, Emit
    PROVE  Rest' = Rest
<1>1. /\ queue' = Append(queue, Head(working))
      /\ working' = Tail(working) /\ working # << >>
      /\ UNCHANGED <<call, useFlow, ack, replies, pending, packet>>
    BY DEF Emit, client, flow
<1>2. Coming' = Coming BY <1>1 DEF Coming, Arriving, FromTarget
<1>3. Coming \in Text /\ queue \in Text /\ working \in Text /\ Coming \o queue \in Text
    BY RestText
<1> DEFINE piece == <<Head(working)>> tail == Tail(working)
<1>4. piece \in Text /\ tail \in Text /\ working = piece \o tail
    BY <1>1, <1>3, HeadAndTail
<1>5. queue' = queue \o piece
    <2>1. Head(working) \in Pieces BY <1>1, <1>3, HeadAndTail
    <2> QED BY <1>1, <1>3, <2>1, AppendIsConcat DEF Text
<1>6. working' = tail BY <1>1
<1> HIDE DEF piece, tail
<1>7. Coming \o (queue \o piece) = (Coming \o queue) \o piece
    <2>1. Coming \in Text /\ queue \in Text /\ piece \in Text BY <1>3, <1>4
    <2> QED BY ONLY ZenonT(60), <2>1, ConcatAssoc
<1>8. ((Coming \o queue) \o piece) \o tail = (Coming \o queue) \o (piece \o tail)
    <2> DEFINE ready == Coming \o queue
    <2>1. ready \in Text BY <1>3
    <2> HIDE DEF ready
    <2>2. (ready \o piece) \o tail = ready \o (piece \o tail) BY <1>4, <2>1, ConcatAssoc
    <2> QED BY <2>2 DEF ready
<1>9. Rest' = (Coming \o (queue \o piece)) \o tail BY <1>2, <1>5, <1>6 DEF Rest
<1>10. Rest = (Coming \o queue) \o (piece \o tail) BY <1>4 DEF Rest
<1> QED BY <1>7, <1>8, <1>9, <1>10

CommandPart == CommandInv /\ OwnOutput

(* A step that leaves the calls that returned and what is left alone. *)
LEMMA CommandSame ==
    ASSUME CommandPart, ended' = ended, Flowing' => Rest' = Rest /\ Flowing,
           UNCHANGED <<line, output>>,
           call'.number = call.number, call'.kind = call.kind,
           call'.step = "write" <=> call.step = "write",
           Commanding' <=> Commanding
    PROVE  CommandPart'
<1>1. OwnOutput' /\ (Good' <=> Good) BY NotEnded DEF CommandPart
<1>2. CommandInv'
    <2> SUFFICES ASSUME Good', Flowing'
                 PROVE  /\ call'.step = "write" => line' = << >> /\ output' = << >>
                        /\ IF Commanding'
                           THEN Progress(call'.number, call'.kind, Rest', line', output')
                           ELSE Rest' = << >>
        BY DEF CommandInv
    <2>1. Good /\ Flowing /\ Rest' = Rest BY <1>1
    <2>2. /\ call.step = "write" => line = << >> /\ output = << >>
          /\ IF Commanding THEN Progress(call.number, call.kind, Rest, line, output)
             ELSE Rest = << >>
        BY <2>1 DEF CommandPart, CommandInv
    <2> QED BY <2>1, <2>2
<1> QED BY <1>1, <1>2 DEF CommandPart

(* A call that begins finds nothing left of the ones before. *)
LEMMA CommandCall ==
    ASSUME BaseInv, CommandPart, NEW kind \in Kinds, Call(kind)
    PROVE  CommandPart'
<1>1. /\ call.step = "idle" /\ ended' = ended
      /\ call'.step = CASE kind \in {"ok", "single"} -> "write"
                        [] kind = "position" -> "position"
                        [] OTHER -> IF probed THEN "poll" ELSE "probe"
      /\ call'.kind = kind /\ line' = << >> /\ output' = << >>
      /\ UNCHANGED <<probed, useFlow, ack, replies, board, queue, working, pending, packet>>
    BY DEF Call, flow, channel
<1>2. call'.step \in {"write", "position", "poll", "probe"} BY <1>1 DEF Kinds
<1>3. Coming' = Coming BY <1>1, <1>2 DEF Coming, Arriving
<1>4. Rest' = Rest BY <1>1, <1>3 DEF Rest
<1>5. Flowing' => Flowing BY <1>1, <1>2 DEF Flowing
<1>6. ~Commanding /\ ~Commanding' BY <1>1 DEF Commanding
<1>7. OwnOutput' /\ (Good' <=> Good) BY <1>1, NotEnded DEF CommandPart
<1>8. CommandInv' BY <1>1, <1>4, <1>5, <1>6, <1>7 DEF CommandPart, CommandInv
<1> QED BY <1>7, <1>8 DEF CommandPart

(* The last chunk of a command has the board print its output, or none. *)
LEMMA CommandWrite ==
    ASSUME BaseInv, CommandPart, DoWrite
    PROVE  CommandPart'
<1> DEFINE text == OutputOf(call.number, call.kind)
<1>1. /\ call.step = "write" /\ ended' = ended /\ call.kind \in {"ok", "single"}
      /\ call' = [call EXCEPT !.step = IF write > 1 THEN "write"
                                       ELSE IF probed THEN "poll" ELSE "probe"]
      /\ working' = working \/ (working' = working \o text /\ ~(write > 1))
      /\ UNCHANGED <<line, output, probed, useFlow, ack, replies, board, queue, pending, packet>>
    BY DEF DoWrite, StepTo, flow, BaseInv, ControlInv
<1>2. /\ call'.number = call.number /\ call'.kind = call.kind
      /\ call'.step = IF write > 1 THEN "write" ELSE IF probed THEN "poll" ELSE "probe"
    BY <1>1 DEF BaseInv, TypeOK
<1>3. Coming' = Coming BY <1>1, <1>2 DEF Coming, Arriving
<1>4. Flowing' => Flowing BY <1>1, <1>2 DEF Flowing
<1>5. OwnOutput' /\ (Good' <=> Good) BY <1>1, NotEnded DEF CommandPart
<1>6. ~Commanding /\ (Commanding' <=> ~(write > 1)) BY <1>1, <1>2 DEF Commanding
<1>7. CommandInv'
    <2> SUFFICES ASSUME Good', Flowing'
                 PROVE  /\ line' = << >> /\ output' = << >>
                        /\ IF Commanding'
                           THEN Progress(call'.number, call'.kind, Rest', line', output')
                           ELSE Rest' = << >>
        BY DEF CommandInv
    <2>1. Rest = << >> /\ line' = << >> /\ output' = << >>
        BY <1>1, <1>4, <1>5, <1>6 DEF CommandPart, CommandInv
    <2>2. CASE working' = working
        <3>1. Rest' = << >> BY <1>1, <1>3, <2>1, <2>2 DEF Rest
        <3>2. Progress(call'.number, call'.kind, Rest', line', output')
            BY <2>1, <3>1 DEF Progress
        <3> QED BY <2>1, <3>1, <3>2
    <2>3. CASE working' = working \o text /\ ~(write > 1)
        <3>1. Coming \o queue = << >> /\ working = << >>
            <4>1. Coming \o queue \in Text /\ working \in Text BY RestText
            <4> DEFINE ready == Coming \o queue
            <4>2. ready \o working = << >> BY <2>1 DEF Rest
            <4> HIDE DEF ready
            <4>3. ready = << >> /\ working = << >>
                <5>1. ready \in Text BY <4>1 DEF ready
                <5> QED BY <4>1, <4>2, <5>1, Heads0
            <4> QED BY <4>3 DEF ready
        <3>2. text \in Text
            <4>1. call.number \in Nat BY DEF BaseInv, TypeOK
            <4> QED BY <4>1, OutputText
        <3>3. << >> \o text = text BY <3>2, ConcatEmptySeq DEF Text
        <3>4. Rest' = text BY <1>1, <1>3, <2>3, <3>1, <3>3 DEF Rest
        <3>5. Progress(call'.number, call'.kind, Rest', line', output')
            BY <1>2, <2>1, <3>4 DEF Progress
        <3> QED BY <1>6, <2>1, <2>3, <3>5
    <2> QED BY <1>1, <2>2, <2>3
<1> QED BY <1>5, <1>7 DEF CommandPart

(* A reply to a command takes the client on in its output, or ends the      *)
(* command with the whole of it.                                            *)
LEMMA CommandProcess ==
    ASSUME BaseInv, BaseInv', StreamInv, CommandPart, Handling,
           call.kind \in {"ok", "single"}, ProcessReplies(line \o Data(FromTarget))
    PROVE  CommandPart'
<1> DEFINE data == Data(FromTarget)
<1>1. /\ data \in Text /\ Rest' \in Text /\ data \o Rest' = Rest
      /\ Flowing' => Flowing
    BY RestHandle
<1>2. /\ call.step \in {"probed", "handle"} /\ call.number = Len(ended) + 1
      /\ call'.number = call.number /\ call'.kind = call.kind
      /\ call'.step \in {"idle", "poll"}
      /\ useFlow' => Flowing
    BY HandlingResult DEF StreamInv, FlowResult, Returns, BaseInv, ControlInv
<1>3. ProcessReplies(line \o data) OBVIOUS
<1> HIDE DEF data
<1>4. \/ StepTo("poll")
      \/ \E result : Finish(0, result, TRUE)
    BY <1>3 DEF ProcessReplies
<1>5. CASE Good /\ Flowing
    <2>0. Progress(call.number, call.kind, Rest, line, output)
        BY <1>2, <1>5 DEF CommandPart, CommandInv, Commanding
    <2>1. \/ StepTo("poll") /\ Progress(call.number, call.kind, Rest', line', output')
          \/ Rest' = << >> /\ Finish(0, Own(call.number, call.kind), TRUE)
        <3> DEFINE rest == Rest'
        <3>1. rest \in Text /\ data \o rest = Rest BY <1>1
        <3> HIDE DEF rest
        <3>2. CASE call.kind = "ok"
            <4>1. Progress(call.number, "ok", data \o rest, line, output)
                BY <2>0, <3>1, <3>2
            <4>2. \/ StepTo("poll") /\ Progress(call.number, "ok", rest, line', output')
                  \/ rest = << >> /\ Finish(0, Own(call.number, "ok"), TRUE)
                BY <1>1, <1>3, <3>1, <3>2, <4>1, OkProgress DEF BaseInv
            <4> QED BY <3>2, <4>2 DEF rest
        <3>3. CASE call.kind = "single"
            <4>1. Progress(call.number, "single", data \o rest, line, output)
                BY <2>0, <3>1, <3>3
            <4>2. \/ StepTo("poll") /\ Progress(call.number, "single", rest, line', output')
                  \/ rest = << >> /\ Finish(0, Own(call.number, "single"), TRUE)
                BY <1>1, <1>3, <3>1, <3>3, <4>1, SingleProgress DEF BaseInv
            <4> QED BY <3>3, <4>2 DEF rest
        <3> QED BY <3>2, <3>3
    <2>2. CASE StepTo("poll") /\ Progress(call.number, call.kind, Rest', line', output')
        <3>1. ended' = ended /\ call'.step = "poll" BY <2>2 DEF StepTo, BaseInv, TypeOK
        <3>2. OwnOutput' BY <3>1, NotEnded DEF CommandPart
        <3>3. CommandInv' BY <1>2, <2>2, <3>1 DEF CommandInv, Commanding
        <3> QED BY <3>2, <3>3 DEF CommandPart
    <2>3. CASE Rest' = << >> /\ Finish(0, Own(call.number, call.kind), TRUE)
        <3>1. OwnOutput' BY <1>2, <2>3, EndedWell DEF CommandPart, BaseInv
        <3>2. call'.step = "idle" BY <2>3, FinishLength DEF BaseInv
        <3>3. CommandInv' BY <2>3, <3>2 DEF CommandInv, Commanding
        <3> QED BY <3>1, <3>3 DEF CommandPart
    <2> QED BY <2>1, <2>2, <2>3
<1>6. CASE ~(Good /\ Flowing)
    <2>1. OwnOutput' /\ (Good' => Good)
        <3>1. CASE StepTo("poll")
            <4>1. ended' = ended BY <3>1 DEF StepTo
            <4> QED BY <4>1, NotEnded DEF CommandPart
        <3>2. CASE \E result : Finish(0, result, TRUE)
            <4>1. PICK result : Finish(0, result, TRUE) BY <3>2
            <4>2. ~(Good /\ useFlow') BY <1>2, <1>6
            <4>3. OwnOutput' /\ (Good' => Good /\ 0 = 0)
                BY <1>2, <4>1, <4>2, EndedWell DEF CommandPart, BaseInv
            <4> QED BY <4>3
        <3> QED BY <1>4, <3>1, <3>2
    <2>2. CommandInv' BY <1>1, <1>6, <2>1 DEF CommandInv
    <2> QED BY <2>1, <2>2 DEF CommandPart
<1> QED BY <1>5, <1>6

(* A read that ends or goes on leaves no output behind that was not there. *)
LEMMA CommandRead ==
    ASSUME BaseInv, BaseInv', StreamInv, CommandPart, Handling,
           call.kind \in {"read", "flush"},
           StepTo("poll") \/ \E error, data : Finish(error, data, TRUE)
    PROVE  CommandPart'
<1>1. /\ Data(FromTarget) \in Text /\ Rest' \in Text
      /\ Data(FromTarget) \o Rest' = Rest
      /\ Flowing' => Flowing
    BY RestHandle
<1>2. /\ call.number = Len(ended) + 1 /\ call.step \in {"probed", "handle"}
      /\ call'.kind = call.kind /\ call'.step \in {"idle", "poll"}
    BY HandlingResult DEF StreamInv, Returns, BaseInv, ControlInv
<1>3. OwnOutput' /\ (Good' => Good)
    <2>1. CASE StepTo("poll")
        <3>1. ended' = ended BY <2>1 DEF StepTo
        <3> QED BY <3>1, NotEnded DEF CommandPart
    <2>2. CASE \E error, data : Finish(error, data, TRUE)
        <3>1. PICK error, data : Finish(error, data, TRUE) BY <2>2
        <3>2. OwnOutput' /\ (Good' => Good /\ error = 0)
            BY <1>2, <3>1, EndedWell DEF CommandPart, BaseInv
        <3> QED BY <3>2
    <2> QED BY <2>1, <2>2
<1>4. CommandInv'
    <2> SUFFICES ASSUME Good', Flowing' PROVE ~Commanding' /\ Rest' = << >> /\ call'.step # "write"
        BY DEF CommandInv
    <2>1. ~Commanding /\ ~Commanding' BY <1>2 DEF Commanding
    <2>2. Rest = << >> BY <1>1, <1>3, <2>1 DEF CommandPart, CommandInv
    <2>3. Rest' = << >>
        <3> DEFINE rest == Rest' data == Data(FromTarget)
        <3>1. rest \in Text /\ data \in Text /\ data \o rest = << >> BY <1>1, <2>2
        <3> HIDE DEF rest, data
        <3>2. rest = << >> BY <3>1, Heads0
        <3> QED BY <3>2 DEF rest
    <2> QED BY <1>2, <2>1, <2>3
<1> QED BY <1>3, <1>4 DEF CommandPart

(* The handlers. *)
LEMMA CommandHandle ==
    ASSUME BaseInv, BaseInv', StreamInv, CommandPart, Handling
    PROVE  CommandPart'
<1>0. call.kind \in Kinds BY HandlingResult DEF StreamInv, BaseInv, ControlInv
<1>1. ASSUME NEW error, NEW data, ReadEnds(error, data)
      PROVE  StepTo("poll") \/ \E e, d : Finish(e, d, TRUE)
    BY <1>1 DEF ReadEnds
<1>2. CASE HandleProbe
    <2>1. CASE call.kind \in {"read", "flush"}
        <3>1. StepTo("poll") \/ \E e, d : Finish(e, d, TRUE)
            BY <1>1, <1>2, <2>1 DEF HandleProbe
        <3> QED BY <2>1, <3>1, CommandRead
    <2>2. CASE ~(call.kind \in {"read", "flush"})
        <3>1. call.kind \in {"ok", "single"}
            BY <1>0, <1>2, <2>2 DEF HandleProbe, BaseInv, ControlInv, Kinds
        <3>2. ProcessReplies(line \o Data(FromTarget)) BY <1>2, <2>2 DEF HandleProbe
        <3> QED BY <3>1, <3>2, CommandProcess
    <2> QED BY <2>1, <2>2
<1>3. CASE HandleCommand
    <2>1. call.kind \in {"ok", "single"} /\ ProcessReplies(line \o Data(FromTarget))
        BY <1>3, ReadOff DEF HandleCommand
    <2> QED BY <2>1, CommandProcess
<1>4. CASE HandleRead
    <2>1. call.kind \in {"read", "flush"} BY <1>4 DEF HandleRead
    <2>2. StepTo("poll") \/ \E e, d : Finish(e, d, TRUE) BY <1>1, <1>4 DEF HandleRead
    <2> QED BY <2>1, <2>2, CommandRead
<1> QED BY <1>2, <1>3, <1>4 DEF Handling

(* A call that ends otherwise, in an error or not a command. *)
LEMMA CommandEnds ==
    ASSUME BaseInv, CommandPart, call.number = Len(ended) + 1, Flowing' => Flowing,
           Rest' = Rest, NEW error, NEW result, NEW true, Finish(error, result, true),
           error # 0 \/ (~Commanding /\ call.kind \notin {"ok", "single"})
    PROVE  CommandPart'
<1>1. OwnOutput' /\ (Good' => Good /\ error = 0)
    BY EndedWell DEF CommandPart, BaseInv
<1>2. call'.step = "idle" BY FinishLength DEF BaseInv
<1>3. CommandInv' BY <1>1, <1>2 DEF CommandInv, Commanding, CommandPart
<1> QED BY <1>1, <1>3 DEF CommandPart

(* The other steps of the client and the board. *)
LEMMA CommandOther ==
    ASSUME BaseInv, CommandPart,
           GiveUp \/ Positioning \/ HandlePosition \/ Emit \/ Control \/ UNCHANGED vars
    PROVE  CommandPart'
<1>1. CASE GiveUp
    <2>1. /\ call.step = "poll" /\ Finish(ETIMEDOUT, << >>, TRUE)
          /\ UNCHANGED <<probed, useFlow, ack, replies, board, queue, working, pending, packet>>
        BY <1>1 DEF GiveUp, flow, channel
    <2>2. call.number = Len(ended) + 1 BY <2>1 DEF BaseInv, ControlInv
    <2>3. call'.step = "idle" BY <2>1, FinishLength DEF BaseInv
    <2>4. Rest' = Rest BY <2>1, <2>3 DEF Rest, Coming, Arriving
    <2>5. Flowing' => Flowing BY <2>1, <2>3 DEF Flowing
    <2>6. ETIMEDOUT # 0 BY DEF ETIMEDOUT
    <2> QED BY <2>1, <2>2, <2>4, <2>5, <2>6, CommandEnds
<1>2. CASE Positioning
    <2>1. /\ call.step = "position" /\ call' = [call EXCEPT !.step = "moving"]
          /\ UNCHANGED <<line, output, ended, probed, useFlow, ack, board, queue, working,
                         pending, packet>>
        BY <1>2 DEF Positioning, PositionLost, PositionAnswered, SendPosition, StepTo, flow,
                    channel
    <2>2. call'.number = call.number /\ call'.kind = call.kind /\ call'.step = "moving"
        BY <2>1 DEF BaseInv, TypeOK
    <2>3. Rest' = Rest BY <2>1, <2>2 DEF Rest, Coming, Arriving
    <2>4. Flowing' => Flowing BY <2>1, <2>2 DEF Flowing
    <2>5. ~Commanding /\ ~Commanding' BY <2>1, <2>2 DEF Commanding
    <2> QED BY <2>1, <2>2, <2>3, <2>4, <2>5, CommandSame
<1>3. CASE HandlePosition
    <2>1. /\ call.step = "moving"
          /\ StepTo("position") \/ \E true : Finish(0, << >>, true)
          /\ UNCHANGED <<line, output, probed, useFlow, ack, board, queue, working,
                         pending, packet>>
        BY <1>3 DEF HandlePosition, flow, channel
    <2>2. /\ call.kind = "position" /\ call.number = Len(ended) + 1
          /\ call'.number = call.number /\ call'.kind = call.kind
          /\ call'.step \in {"idle", "position"}
        BY <2>1, ZenonT(60) DEF BaseInv, ControlInv, TypeOK, StepTo, Finish
    <2>3. Rest' = Rest BY <2>1, <2>2 DEF Rest, Coming, Arriving
    <2>4. Flowing' => Flowing BY <2>1, <2>2 DEF Flowing
    <2>5. ~Commanding /\ ~Commanding' BY <2>1, <2>2 DEF Commanding
    <2>6. CASE StepTo("position")
        <3>1. ended' = ended /\ call'.step = "position"
            BY <2>6 DEF StepTo, BaseInv, TypeOK
        <3> QED BY <2>1, <2>2, <2>3, <2>4, <2>5, <3>1, CommandSame
    <2>7. CASE \E true : Finish(0, << >>, true)
        <3>1. PICK true : Finish(0, << >>, true) BY <2>7
        <3>2. call.kind \notin {"ok", "single"} BY <2>2
        <3> QED BY <2>2, <2>3, <2>4, <2>5, <3>1, <3>2, CommandEnds
    <2> QED BY <2>1, <2>6, <2>7
<1>4. CASE Emit
    <2>1. Rest' = Rest BY <1>4, RestEmit
    <2>2. UNCHANGED <<call, line, output, ended, probed, useFlow, board>>
        BY <1>4 DEF Emit, client, flow
    <2>3. Flowing' => Flowing BY <2>2 DEF Flowing
    <2>4. Commanding' <=> Commanding BY <2>2 DEF Commanding
    <2> QED BY <2>1, <2>2, <2>3, <2>4, CommandSame
<1>5. CASE Control \/ UNCHANGED vars
    <2>1. UNCHANGED <<call, line, output, ended, probed, useFlow, ack, board, replies, queue,
                      working, pending, packet>>
        BY <1>5 DEF Control, vars, client, flow, channel
    <2>2. Rest' = Rest BY <2>1 DEF Rest, Coming, Arriving, FromTarget
    <2>3. Flowing' => Flowing BY <2>1 DEF Flowing
    <2>4. Commanding' <=> Commanding BY <2>1 DEF Commanding
    <2> QED BY <2>1, <2>2, <2>3, <2>4, CommandSame
<1> QED BY <1>1, <1>2, <1>3, <1>4, <1>5

(* A cycle. *)
LEMMA CommandExchange ==
    ASSUME BaseInv, StreamInv, CommandPart, Exchanging
    PROVE  CommandPart'
<1>1. /\ call.step \in {"probe", "poll"}
      /\ call' = [call EXCEPT !.step = IF call.step = "probe" THEN "probed" ELSE "handle"]
      /\ UNCHANGED <<line, output, ended>>
    BY ExchangingCycle DEF StreamInv
<1>2. /\ call'.number = call.number /\ call'.kind = call.kind
      /\ call'.step \in {"probed", "handle"}
    BY <1>1 DEF BaseInv, TypeOK
<1>3. Flowing' => Rest' = Rest /\ Flowing BY RestExchange
<1>4. Commanding' <=> Commanding BY <1>1, <1>2 DEF Commanding
<1> QED BY <1>1, <1>2, <1>3, <1>4, CommandSame

(* Every step keeps what a command has left, and what the calls returned. *)
LEMMA CommandStep ==
    ASSUME BaseInv, BaseInv', StreamInv, CommandPart, [Next]_vars
    PROVE  CommandPart'
<1>1. CASE \E kind \in Kinds : Call(kind) BY <1>1, CommandCall
<1>2. CASE DoWrite BY <1>2, CommandWrite
<1>3. CASE Exchanging BY <1>3, CommandExchange
<1>4. CASE Handling BY <1>4, CommandHandle
<1>5. CASE GiveUp \/ Positioning \/ HandlePosition \/ Emit \/ Control \/ UNCHANGED vars
    BY <1>5, CommandOther
<1> QED BY <1>1, <1>2, <1>3, <1>4, <1>5, StepCases

(* In the first state nothing is left and no call has returned. *)
LEMMA InitCommand == ASSUME Init PROVE CommandPart
<1>1. Coming = << >> /\ queue = << >> /\ working = << >>
    BY DEF Init, Idle, Coming, Arriving
<1>2. (<< >> \o << >>) \o << >> = << >>
    <2>1. << >> \in Seq(Pieces) BY EmptySeq
    <2>2. << >> \o << >> = << >> BY <2>1, ConcatEmptySeq
    <2> QED BY <2>2
<1>3. Rest = << >> BY <1>1, <1>2 DEF Rest
<1>4. CommandInv BY <1>3 DEF Init, Idle, CommandInv, Commanding
<1>5. OwnOutput BY DEF Init, OwnOutput
<1> QED BY <1>4, <1>5 DEF CommandPart

----------------------------------------------------------------------------
(* The move under way. *)

MovePart == MoveInv /\ MoveDone

(* A call that returns keeps the promise if it is not a move, or is done. *)
LEMMA MoveEnds ==
    ASSUME TypeOK, MoveDone, NEW error, NEW result, NEW true, Finish(error, result, true),
           call.kind = "position" => true
    PROVE  MoveDone'
<1> DEFINE n == Len(ended) + 1
<1>1. /\ \A k \in DOMAIN ended : ended'[k] = ended[k]
      /\ DOMAIN ended' = DOMAIN ended \cup {n}
      /\ ended'[n] = [kind |-> call.kind, error |-> error, result |-> result,
                      flow |-> useFlow', true |-> true]
    BY FinishLength, ZenonT(60)
<1>2. ended'[n].kind = call.kind /\ ended'[n].true = true
    <2> DEFINE entry == [kind |-> call.kind, error |-> error, result |-> result,
                         flow |-> useFlow', true |-> true]
    <2>1. entry.kind = call.kind /\ entry.true = true OBVIOUS
    <2>2. ended'[n] = entry BY <1>1
    <2> HIDE DEF entry, n
    <2> QED BY <2>1, <2>2
<1> HIDE DEF n
<1>3. ASSUME NEW k \in DOMAIN ended', ended'[k].kind = "position" PROVE ended'[k].true
    <2>1. CASE k \in DOMAIN ended BY <1>1, <1>3, <2>1 DEF MoveDone
    <2>2. CASE k = n BY <1>2, <1>3, <2>2
    <2> QED BY <1>1, <2>1, <2>2
<1> QED BY <1>3 DEF MoveDone

(* A step between two requests of no move. *)
LEMMA MoveNone ==
    ASSUME MoveDone', call'.step \notin {"position", "moving"}
    PROVE  MovePart'
BY DEF MovePart, MoveInv

(* A move begins with replies to pass over. *)
LEMMA MoveCall ==
    ASSUME BaseInv, MovePart, NEW kind \in Kinds, Call(kind)
    PROVE  MovePart'
<1>1. /\ ended' = ended /\ count' = RepliesToPass
      /\ call'.step = CASE kind \in {"ok", "single"} -> "write"
                        [] kind = "position" -> "position"
                        [] OTHER -> IF probed THEN "poll" ELSE "probe"
    BY DEF Call
<1>2. call'.step # "moving" BY <1>1 DEF Kinds
<1>3. ~(count' < RepliesToPass) BY <1>1 DEF RepliesToPass
<1>4. MoveDone' BY <1>1 DEF MovePart, MoveDone
<1> QED BY <1>2, <1>3, <1>4 DEF MovePart, MoveInv

(* The request of a move is answered with the flag as it stands: of the     *)
(* move before, if the board has not heard of this one.                     *)
LEMMA MoveSend ==
    ASSUME BaseInv, MovePart, Positioning
    PROVE  MovePart'
<1>1. PICK answered \in BOOLEAN : SendPosition(answered)
    BY DEF Positioning, PositionLost, PositionAnswered
<1>2. /\ call.step = "position" /\ call' = [call EXCEPT !.step = "moving"]
      /\ motion.flag = motion.target
      /\ replies' = IF answered THEN {Moving} ELSE {}
      /\ \/ motion' = [motion EXCEPT !.target = call.number]
         \/ ~answered /\ motion' = motion
      /\ UNCHANGED <<ended, count>>
    BY <1>1 DEF SendPosition, StepTo
<1>3. call'.number = call.number /\ call'.step = "moving"
    BY <1>2 DEF BaseInv, TypeOK
<1>4. /\ motion'.flag = motion.flag /\ motion'.complete = motion.complete
      /\ motion'.fault = motion.fault
      /\ motion'.target = call.number \/ (~answered /\ motion'.target = motion.target)
    BY <1>2 DEF BaseInv, TypeOK
<1>5. count < RepliesToPass => motion.target = call.number
    BY <1>2 DEF MovePart, MoveInv
<1>6. replies' = {} \/ \E complete, fault \in BOOLEAN :
            replies' = {[source |-> "target", complete |-> complete, fault |-> fault]}
    BY <1>2 DEF Moving, BaseInv, TypeOK
<1>7. count' < RepliesToPass => motion'.target = call'.number
    BY <1>2, <1>3, <1>4, <1>5
<1>8. replies' # {} => motion'.target = call'.number
    BY <1>2, <1>3, <1>4
<1>9. ASSUME NEW frame \in replies'
      PROVE  /\ frame.fault => motion'.fault
             /\ frame.complete /\ count' < RepliesToPass => motion'.fault \/ Reached'
    <2>1. frame.complete = motion.complete /\ frame.fault = motion.fault
        BY <1>2, <1>9 DEF Moving
    <2>2. ASSUME frame.complete, count' < RepliesToPass PROVE Reached'
        <3>1. motion.flag = call.number BY <1>2, <1>5, <2>2
        <3> QED BY <1>3, <1>4, <2>1, <2>2, <3>1 DEF Reached
    <2> QED BY <1>4, <2>1, <2>2
<1>10. MoveDone' BY <1>2 DEF MovePart, MoveDone
<1> QED BY <1>3, <1>6, <1>7, <1>8, <1>9, <1>10 DEF MovePart, MoveInv

(* The first reply is passed over; a later one is of this move. *)
LEMMA MoveHandle ==
    ASSUME BaseInv, MovePart, HandlePosition
    PROVE  MovePart'
<1> DEFINE left == IF FromTarget = {} \/ count = 0 THEN count ELSE count - 1
           over == left = 0 /\ FromTarget # {}
                   /\ (Only(FromTarget).complete \/ Only(FromTarget).fault)
           true == motion.fault \/ (motion.flag = call.number /\ motion.complete)
<1>1. /\ call.step = "moving" /\ count' = left /\ replies' = {} /\ motion' = motion
      /\ IF over THEN Finish(0, << >>, true) ELSE StepTo("position")
    BY DEF HandlePosition
<1>2. count \in 0..2 /\ RepliesToPass = 2 BY DEF BaseInv, TypeOK, RepliesToPass
<1>3. FromTarget # {} => replies # {} /\ FromTarget = replies
    BY <1>1 DEF FromTarget, IsFromTarget, MovePart, MoveInv
<1>4. CASE over
    <2>1. PICK complete \in BOOLEAN, fault \in BOOLEAN :
            replies = {[source |-> "target", complete |-> complete, fault |-> fault]}
        BY <1>1, <1>3, <1>4 DEF MovePart, MoveInv
    <2> DEFINE frame == [source |-> "target", complete |-> complete, fault |-> fault]
    <2>2. Only(FromTarget) = frame /\ frame \in replies
        <3>1. FromTarget = {frame} BY <1>3, <1>4, <2>1
        <3> QED BY <2>1, <3>1, OnlyOne
    <2>3. count < RepliesToPass BY <1>2, <1>4
    <2>4. frame.complete \/ frame.fault BY <1>4, <2>2
    <2> HIDE DEF frame
    <2>5. true BY <1>1, <2>2, <2>3, <2>4 DEF MovePart, MoveInv, Reached
    <2>6. Finish(0, << >>, true) BY <1>1, <1>4
    <2> HIDE DEF true
    <2>7. MoveDone' BY <2>5, <2>6, MoveEnds DEF BaseInv, MovePart
    <2>8. call'.step = "idle" BY <2>6, FinishLength DEF BaseInv
    <2> QED BY <2>7, <2>8, MoveNone
<1>5. CASE ~over
    <2>1. StepTo("position") BY <1>1, <1>5
    <2>2. call'.step = "position" /\ call'.number = call.number /\ ended' = ended
        BY <2>1 DEF StepTo, BaseInv, TypeOK
    <2>3. ASSUME count' < RepliesToPass PROVE motion'.target = call'.number
        <3>1. CASE count < RepliesToPass BY <1>1, <2>2, <3>1 DEF MovePart, MoveInv
        <3>2. CASE ~(count < RepliesToPass)
            <4>1. FromTarget # {} BY <1>1, <1>2, <2>3, <3>2
            <4> QED BY <1>1, <1>3, <2>2, <4>1 DEF MovePart, MoveInv
        <3> QED BY <3>1, <3>2
    <2>4. MoveDone' BY <2>2 DEF MovePart, MoveDone
    <2> QED BY <2>2, <2>3, <2>4 DEF MovePart, MoveInv
<1> QED BY <1>4, <1>5

(* The board leaves a move that is reached as it is. *)
LEMMA MoveControl ==
    ASSUME BaseInv, MovePart, Control
    PROVE  MovePart'
<1>1. /\ UNCHANGED <<call, count, replies, ended>>
      /\ \/ motion.flag # motion.target
            /\ motion' = [motion EXCEPT !.flag = motion.target, !.complete = FALSE]
         \/ motion' = [motion EXCEPT !.complete = TRUE]
         \/ motion' = [motion EXCEPT !.fault = TRUE]
    BY DEF Control, client
<1>2. /\ motion'.target = motion.target
      /\ motion.fault => motion'.fault
      /\ \/ motion.flag # motion.target
         \/ motion'.flag = motion.flag /\ (motion.complete => motion'.complete)
    BY <1>1 DEF BaseInv, TypeOK
<1>3. ASSUME call.step = "moving", NEW frame \in replies
      PROVE  /\ frame.fault => motion'.fault
             /\ frame.complete /\ count' < RepliesToPass => motion'.fault \/ Reached'
    <2>1. /\ motion.target = call.number /\ (frame.fault => motion.fault)
          /\ frame.complete /\ count < RepliesToPass => motion.fault \/ Reached
        BY <1>3 DEF MovePart, MoveInv
    <2>2. Reached => Reached' BY <1>1, <1>2, <2>1 DEF Reached
    <2> QED BY <1>1, <1>2, <2>1, <2>2
<1>4. MoveDone' BY <1>1 DEF MovePart, MoveDone
<1>5. MoveInv' BY <1>1, <1>2, <1>3 DEF MovePart, MoveInv
<1> QED BY <1>4, <1>5 DEF MovePart

(* The calls that are not moves. *)
LEMMA MoveOther ==
    ASSUME BaseInv, FlowInv, MovePart, DoWrite \/ Exchanging \/ Handling \/ GiveUp
    PROVE  MovePart'
<1>1. CASE DoWrite
    <2>1. ended' = ended /\ call'.step \in {"write", "poll", "probe"}
        BY <1>1 DEF DoWrite, StepTo, BaseInv, TypeOK
    <2>2. MoveDone' BY <2>1 DEF MovePart, MoveDone
    <2> QED BY <2>1, <2>2, MoveNone
<1>2. CASE Exchanging
    <2>1. /\ ended' = ended
          /\ call' = [call EXCEPT !.step = IF call.step = "probe" THEN "probed" ELSE "handle"]
        BY <1>2, ExchangingCycle
    <2>2. call'.step \in {"probed", "handle"} BY <2>1 DEF BaseInv, TypeOK
    <2>3. MoveDone' BY <2>1 DEF MovePart, MoveDone
    <2> QED BY <2>2, <2>3, MoveNone
<1>3. CASE Handling
    <2>1. Returns /\ call.kind # "position"
        BY <1>3, HandlingResult, SMTT(30) DEF BaseInv, ControlInv
    <2>2. ended' = ended \/ \E error, result, true : Finish(error, result, true)
        BY <1>3 DEF Handling, HandleProbe, HandleCommand, HandleRead, ReadEnds, ProcessReplies,
                    StepTo
    <2>3. MoveDone'
        <3>1. CASE ended' = ended BY <3>1 DEF MovePart, MoveDone
        <3>2. CASE \E error, result, true : Finish(error, result, true)
            <4>1. PICK error, result, true : Finish(error, result, true) BY <3>2
            <4> QED BY <2>1, <4>1, MoveEnds DEF BaseInv, MovePart
        <3> QED BY <2>2, <3>1, <3>2
    <2>4. call'.step \in {"idle", "poll"} BY <2>1 DEF Returns
    <2> QED BY <2>3, <2>4, MoveNone
<1>4. CASE GiveUp
    <2>1. call.kind # "position" /\ Finish(ETIMEDOUT, << >>, TRUE)
        BY <1>4 DEF GiveUp, BaseInv, ControlInv
    <2>2. MoveDone' BY <2>1, MoveEnds DEF BaseInv, MovePart
    <2>3. call'.step = "idle" BY <2>1, FinishLength DEF BaseInv
    <2> QED BY <2>2, <2>3, MoveNone
<1> QED BY <1>1, <1>2, <1>3, <1>4

(* Every step keeps what is known of the move under way. *)
LEMMA MoveStep ==
    ASSUME BaseInv, FlowInv, MovePart, [Next]_vars
    PROVE  MovePart'
<1>1. CASE Emit \/ UNCHANGED vars
    <2>1. UNCHANGED <<call, count, replies, ended, motion>>
        BY <1>1 DEF Emit, vars, client
    <2> QED BY <2>1 DEF MovePart, MoveInv, MoveDone, Reached
<1> QED BY <1>1, MoveCall, MoveSend, MoveHandle, MoveControl, MoveOther, StepCases

(* In the first state no move is under way. *)
LEMMA InitMove == ASSUME Init PROVE MovePart
BY DEF Init, Idle, MovePart, MoveInv, MoveDone

----------------------------------------------------------------------------
(* The theorems. *)

(* IInv is an inductive invariant of the calls. *)
THEOREM Invariance == Spec => []IInv
<1>1. Init => IInv
    BY InitBase, InitStream, InitCommand, InitMove
       DEF IInv, BaseInv, StreamInv, CommandPart, MovePart
<1>2. IInv /\ [Next]_vars => IInv'
    <2> SUFFICES ASSUME IInv, [Next]_vars PROVE IInv'
        OBVIOUS
    <2>1. BaseInv /\ StreamInv /\ FlowInv /\ CommandPart /\ MovePart
        BY DEF IInv, BaseInv, StreamInv, CommandPart, MovePart
    <2>2. BaseInv' BY <2>1, BaseStep
    <2>3. StreamInv' BY <2>1, StreamStep
    <2>4. CommandPart' BY <2>1, <2>2, CommandStep
    <2>5. MovePart' BY <2>1, MoveStep
    <2> QED BY <2>2, <2>3, <2>4, <2>5 DEF IInv, BaseInv, StreamInv, CommandPart, MovePart
<1> QED BY <1>1, <1>2, PTL DEF Spec

(* Every variable keeps its type: a packet number stays below the modulus,  *)
(* and what the client holds of the output is always pieces of text.        *)
THEOREM TypeCorrect == Spec => []TypeOK
BY Invariance, PTL DEF IInv

(* With flow control the client takes the board's output piece by piece,    *)
(* each once, in order, and leaves none out, whatever is lost; without it,  *)
(* in order and each once still.                                            *)
THEOREM StreamOrdered == Spec => []StreamInOrder
<1>1. IInv => StreamInOrder
    <2> SUFFICES ASSUME IInv PROVE StreamInOrder
        OBVIOUS
    <2>1. got \in Text /\ said \in Text /\ Coming \o queue \in Text
        BY RestText DEF IInv, BaseInv, TypeOK
    <2>2. useFlow => IsPrefix(got, said)
        <3> SUFFICES ASSUME useFlow PROVE IsPrefix(got, said)
            OBVIOUS
        <3> DEFINE ready == Coming \o queue
        <3>1. said = got \o ready BY DEF IInv, FlowInv, Flowing
        <3>2. ready \in Text BY <2>1
        <3> HIDE DEF ready
        <3>3. /\ got \in Seq(Pieces) /\ ready \in Seq(Pieces) /\ said \in Seq(Pieces)
            BY <2>1, <3>2 DEF Text
        <3>4. Len(got) <= Len(said)
            <4>1. Len(got) \in Nat /\ Len(ready) \in Nat BY <3>3
            <4>2. Len(said) = Len(got) + Len(ready) BY <3>1, <3>3, ConcatProperties
            <4> QED BY <4>1, <4>2
        <3>5. SubSeq(said, 1, Len(got)) = got BY <3>1, <3>3, SubSeqOfConcat1, SubSeqFull
        <3>6. SubSeq(got, 1, Len(got)) = got BY <3>3, SubSeqFull
        <3> QED BY <3>4, <3>5, <3>6 DEF IsPrefix
    <2>3. ASSUME NEW k \in 2..Len(got) PROVE Before(got[k - 1], got[k])
        <3>1. Sorted(got) BY DEF IInv, OrderInv, InOrder
        <3>2. k - 1 \in DOMAIN got /\ k \in DOMAIN got /\ k - 1 < k
            <4>1. Len(got) \in Nat /\ DOMAIN got = 1..Len(got) BY <2>1 DEF Text
            <4> QED BY <4>1
        <3> QED BY <3>1, <3>2 DEF Sorted
    <2> QED BY <2>2, <2>3 DEF StreamInOrder
<1> QED BY <1>1, Invariance, PTL

(* On a flow-controlled channel a command that reports success returns the  *)
(* whole of its own output, as long as none before it failed.               *)
THEOREM OwnOutputs == Spec => []OwnOutput
BY Invariance, PTL DEF IInv

(* SetPositionWaitComplete returns only when its own move is over or the    *)
(* motor has faulted.                                                       *)
THEOREM MoveIsDone == Spec => []MoveDone
BY Invariance, PTL DEF IInv
=============================================================================
