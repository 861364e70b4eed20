---------------------- MODULE TimeoutTransport_proofs ----------------------
(***************************************************************************)
(* Proofs about a call of TimeoutTransport::Cycle, for any motors, frames, *)
(* pipelining and number of calls, retries and losses.                     *)
(*                                                                         *)
(* A line is followed from the child to the device and back (LinesInv,     *)
(* Traced).  On a UART, an attempt at a frame is in one of four states     *)
(* (UartInv), and every attempt that failed was paid for by a loss or by   *)
(* the one demand for checksums (Credit); at most one answer is under way, *)
(* and none between two frames (SettledInv).  On the other devices the     *)
(* frames of a chunk, its OKs and its answers are accounted for one by one *)
(* (ChunkInv).  So nothing is on the way when the flush of a call with a   *)
(* prompt device ends, and no line of an earlier call comes after it; with *)
(* other devices such a line is one that was overdue then (Late).          *)
(***************************************************************************)
EXTENDS TimeoutTransport, FiniteSetTheorems, TLAPS

ControlInv ==
    /\ pc # "idle" => call > 0
    /\ pc \in {"ok", "rcv"} => kind = "uart"
    /\ pc = "wait" => kind # "uart"
    /\ pc \in {"send", "wait", "ok", "rcv"} => sent < Size
    /\ pc = "complete" => sent = Size
    /\ pc = "flush" =>
        /\ sent = 0 /\ attempt = 0
        /\ \A i \in DOMAIN frames : ran[i] = 0
        /\ acked = {} /\ lost = {} /\ replies = {}
    /\ pc = "rcv" => sent + 1 \in acked /\ Current.reply_required
    /\ kind # "uart" => ~demanding

(* A line of this call, or one on the way when its flush ended; while the  *)
(* flush lasts all lines are of earlier calls.                             *)
Ours(line) ==
    /\ line.call = call /\ line.frame \in DOMAIN frames
    /\ line.source = frames[line.frame].destination
Late(line) == device # "prompt" /\ line.call < call /\ Reply(line) \in overdue
Known(line) == Ours(line) \/ Late(line)

Placed(line) == IF pc = "flush" THEN line.call < call ELSE Known(line)

(* What is said of a line of this call. *)
OfThisCall(line) == pc # "flush" /\ line.call = call
Asks(line) == OfThisCall(line) => frames[line.frame].reply_required
Sent(line) == OfThisCall(line) => line.reply_required = frames[line.frame].reply_required

LinesInv ==
    /\ \A i \in DOMAIN tx : Placed(tx[i]) /\ Sent(tx[i])
    /\ \A answer \in bus : Placed(answer) /\ Asks(answer)
    /\ \A i \in DOMAIN rx : IsRcv(rx[i]) => Placed(rx[i]) /\ Asks(rx[i])
    /\ \A reply \in replies : Known(reply)

(* Where the answer to a frame that was carried out may be. *)
Answer(i) == Rcv(call, i, frames[i].destination)
InRx(line) == \E k \in DOMAIN rx : rx[k] = line
Somewhere(i) == Answer(i) \in bus \/ InRx(Answer(i)) \/ Answer(i) \in replies \/ i \in lost

Traced == \A i \in DOMAIN frames : ran[i] > 0 /\ frames[i].reply_required => Somewhere(i)

----------------------------------------------------------------------------
(* The attempt at a frame on a UART. *)

Verdicts == {rx[i].type : i \in DOMAIN rx} \ {"rcv"}

(* What may be spent on attempts. *)
Credit == losses + (IF demanding /\ checksum_active_ THEN 1 ELSE 0)

OnTheWay ==
    /\ Len(tx) = 1 /\ Head(tx) = Request(sent + 1)
    /\ Verdicts = {} /\ attempt <= Credit
Granted ==
    /\ tx = <<>> /\ Verdicts = {"OK"}
    /\ ran[sent + 1] > 0 /\ attempt <= Credit
Refused ==
    /\ tx = <<>> /\ Verdicts = {"ERR"}
    /\ demanding /\ ~checksum_active_ /\ attempt <= Credit
Failed ==
    /\ tx = <<>> /\ Verdicts = {}
    /\ demanding \/ sent + 1 \in lost
    /\ attempt < Credit

OnUart ==
    /\ pc # "ok" => tx = <<>> /\ Verdicts = {}
    /\ pc \in {"flush", "send"} => attempt <= Credit
    /\ pc = "ok" => OnTheWay \/ Granted \/ Refused \/ Failed
    /\ \A i \in acked : ran[i] > 0
    /\ Setbacks <= max_retries => \A i \in 1..sent : i \in acked

UartInv == device = "prompt" /\ kind = "uart" => OnUart

(* At most one answer is under way, none while the line is or between two  *)
(* frames.                                                                 *)
RcvAt == {k \in DOMAIN rx : IsRcv(rx[k])}

Settled ==
    /\ pc \in {"idle", "flush", "send", "complete"} => bus = {} /\ rx = <<>>
    /\ pc \in {"ok", "rcv"} =>
        /\ RcvAt # {} => bus = {}
        /\ \A a, b \in bus : a = b
        /\ (tx # <<>> \/ ~Current.reply_required) => bus = {} /\ RcvAt = {}
    /\ pc = "rcv" => expected_reply_count # NoReplies

SettledInv == device = "prompt" /\ kind = "uart" => Settled

----------------------------------------------------------------------------
(* The chunk of the other devices. *)

Last == Smaller(sent + Advance, Size)

(* The frames of the lines at each place. *)
FramesOf(S) == {line.frame : line \in S}
OkAt == {k \in DOMAIN rx : rx[k].type = "OK"}
Received == {rx[k].frame : k \in RcvAt}
Untaken == Last - Len(tx)

Owing(m) ==
    {i \in Chunk : frames[i].reply_required /\ frames[i].destination = m /\ i \notin FramesOf(replies)}

Clean == tx = <<>> /\ bus = {} /\ rx = <<>>

(* The lines out are the end of the chunk; a frame taken is answered once. *)
Once ==
    /\ Len(tx) <= Cardinality(Chunk)
    /\ \A k \in DOMAIN tx : tx[k].frame = Untaken + k
    /\ \A k, l \in RcvAt : rx[k].frame = rx[l].frame => k = l
    /\ FramesOf(bus) \cap Received = {}
    /\ FramesOf(bus) \cup Received \subseteq (sent + 1)..Untaken
    /\ FramesOf(replies) \cap (FramesOf(bus) \cup Received) = {}
    /\ FramesOf(replies) \subseteq 1..Untaken
    /\ \A i \in (sent + 1)..Untaken : frames[i].reply_required =>
        i \in FramesOf(bus) \cup Received \cup FramesOf(replies) \cup lost

Counts ==
    /\ \A m \in Motor : expected_reply_count[m] = Cardinality(Owing(m))
    /\ expected_ok_count = Cardinality(Chunk)
    /\ kind = "fdcanusb" => ok_count + Cardinality(OkAt) + Len(tx) = expected_ok_count
    /\ kind = "socketcan" =>
        /\ RcvAt = DOMAIN rx
        /\ ok_count = Cardinality(Chunk \cap FramesOf(replies))
    /\ ~(expected_reply_count = NoReplies /\ ok_count >= expected_ok_count)

OnChunk ==
    /\ pc # "wait" => Clean
    /\ pc = "wait" => Once /\ Counts
    /\ pc \in {"flush", "send"} => FramesOf(replies) \subseteq 1..sent

ChunkInv == device = "prompt" /\ kind # "uart" => OnChunk

(* The flush of a call with a prompt device ends with nothing on the way. *)
QuietAtFlush == device = "prompt" /\ pc = "flush" => Quiet

IInv == TypeOK /\ ControlInv /\ LinesInv /\ Traced /\ UartInv /\ SettledInv /\ ChunkInv

----------------------------------------------------------------------------
(* Lemmas about the operators. *)

Line == {OK, ERR} \cup RcvLine

LEMMA LineFacts ==
    ASSUME NEW line \in Line
    PROVE  /\ IsRcv(line) => line \in RcvLine
           /\ line.type \in {"OK", "ERR", "rcv"}
BY DEF Line, OK, ERR, RcvLine, IsRcv

(* The answer to an answer is the answer itself. *)
LEMMA ReplyFacts ==
    ASSUME NEW line \in RcvLine \cup RequestLine
    PROVE  /\ Reply(line) \in RcvLine
           /\ Reply(line).call = line.call /\ Reply(line).frame = line.frame
           /\ Reply(line).source = line.source
           /\ Reply(Reply(line)) = Reply(line)
           /\ line \in RcvLine => Reply(line) = line
<1>1. /\ line.call \in Position /\ line.frame \in Position /\ line.source \in Motor
    BY DEF RcvLine, RequestLine
<1>2. line \in RcvLine => line = [type |-> "rcv", call |-> line.call, frame |-> line.frame,
                                 source |-> line.source]
    BY DEF RcvLine
<1> QED BY <1>1, <1>2 DEF Reply, Rcv, RcvLine

LEMMA SmallerFacts ==
    ASSUME NEW a \in Int, NEW b \in Int
    PROVE  Smaller(a, b) \in {a, b} /\ Smaller(a, b) <= a /\ Smaller(a, b) <= b
BY DEF Smaller

(* The lines that have come are those read, then those left. *)
LEMMA ReadFacts ==
    ASSUME TypeOK, rx # <<>>
    PROVE  /\ Read \in Seq(Line) /\ Unread \in Seq(Line)
           /\ Len(Read) \in Nat \ {0} /\ Len(rx) = Len(Read) + Len(Unread)
           /\ \A i \in DOMAIN Read : i \in DOMAIN rx /\ Read[i] = rx[i]
           /\ \A i \in DOMAIN Unread : i + Len(Read) \in DOMAIN rx /\ Unread[i] = rx[i + Len(Read)]
           /\ kind # "socketcan" => Unread = <<>>
           /\ kind = "socketcan" => Len(Read) = 1
<1>1. rx \in Seq(Line) BY DEF TypeOK, Line
<1>2. Len(rx) \in Nat \ {0} /\ DOMAIN rx = 1..Len(rx) BY <1>1
<1>3. CASE kind = "socketcan"
    <2>1. Read = SubSeq(rx, 1, 1) /\ Unread = Tail(rx) BY <1>3 DEF Read, Unread
    <2>2. /\ SubSeq(rx, 1, 1) \in Seq(Line) /\ Len(SubSeq(rx, 1, 1)) = 1
          /\ SubSeq(rx, 1, 1)[1] = rx[1]
        BY <1>1, <1>2
    <2>3. /\ Tail(rx) \in Seq(Line) /\ Len(Tail(rx)) = Len(rx) - 1
          /\ \A i \in 1..(Len(rx) - 1) : Tail(rx)[i] = rx[i + 1]
        BY <1>1, <1>2
    <2>4. Read \in Seq(Line) /\ Len(Read) = 1 /\ DOMAIN Read = {1} /\ Read[1] = rx[1]
        BY <2>1, <2>2
    <2>5. Unread \in Seq(Line) /\ Len(Unread) = Len(rx) - 1 /\ DOMAIN Unread = 1..(Len(rx) - 1)
        BY <2>1, <2>3
    <2>6. \A i \in DOMAIN Read : i \in DOMAIN rx /\ Read[i] = rx[i] BY <1>2, <2>4
    <2>7. \A i \in DOMAIN Unread : i + 1 \in DOMAIN rx /\ Unread[i] = rx[i + 1]
        BY <1>2, <2>1, <2>3, <2>5
    <2> QED BY <1>2, <1>3, <2>4, <2>5, <2>6, <2>7
<1>4. CASE kind # "socketcan"
    <2>1. Read = rx /\ Unread = <<>> BY <1>4 DEF Read, Unread
    <2> QED BY <1>1, <1>2, <1>4, <2>1
<1> QED BY <1>3, <1>4

LEMMA CountsAreNumbers ==
    ASSUME TypeOK, rx # <<>>
    PROVE  Oks \in Nat /\ \A m : From(m) \in Nat
<1>1. IsFiniteSet(DOMAIN Read)
    <2>1. DOMAIN Read = 1..Len(Read) /\ Len(Read) \in Nat BY ReadFacts
    <2> QED BY <2>1, FS_Interval
<1>2. ASSUME NEW S \in SUBSET DOMAIN Read PROVE Cardinality(S) \in Nat
    BY <1>1, FS_Subset, FS_CardinalityType
<1>3. Cardinality({i \in DOMAIN Read : Read[i].type = "OK"}) \in Nat BY <1>2
<1>4. \A m : Cardinality({i \in DOMAIN Read : IsRcv(Read[i]) /\ Read[i].source = m}) \in Nat
    BY <1>2
<1> QED BY <1>3, <1>4 DEF Oks, From

LEMMA RcvsFacts ==
    ASSUME TypeOK, rx # <<>>
    PROVE  /\ Rcvs \subseteq RcvLine
           /\ \A line \in Rcvs : \E i \in DOMAIN rx : rx[i] = line /\ IsRcv(rx[i])
<1>1. \A i \in DOMAIN Read : Read[i] \in Line /\ i \in DOMAIN rx /\ Read[i] = rx[i]
    BY ReadFacts
<1>2. ASSUME NEW line \in Rcvs
      PROVE  line \in RcvLine /\ \E i \in DOMAIN rx : rx[i] = line /\ IsRcv(rx[i])
    <2>1. PICK i \in DOMAIN Read : IsRcv(Read[i]) /\ line = Read[i] BY DEF Rcvs
    <2> QED BY <1>1, <2>1, LineFacts
<1> QED BY <1>2

LEMMA AdvanceFacts ==
    ASSUME TypeOK, sent < Size
    PROVE  /\ Advance \in Nat \ {0}
           /\ Smaller(sent + Advance, Size) \in (sent + 1)..Size
           /\ Chunk \subseteq DOMAIN frames
           /\ IsFiniteSet(Chunk)
           /\ Cardinality(Chunk) = Smaller(sent + Advance, Size) - sent
<1>1. Size \in Nat /\ sent \in Nat /\ DOMAIN frames = 1..Size BY DEF TypeOK, Size
<1>2. Advance \in Nat \ {0}
    BY <1>1, TransportAssumption DEF Advance, TypeOK
<1>3. Smaller(sent + Advance, Size) \in (sent + 1)..Size
    BY <1>1, <1>2 DEF Smaller
<1>4. IsFiniteSet(Chunk) /\ Cardinality(Chunk) = Smaller(sent + Advance, Size) - sent
    BY <1>1, <1>3, FS_Interval DEF Chunk
<1> QED BY <1>1, <1>2, <1>3, <1>4 DEF Chunk

LEMMA RequestFacts ==
    ASSUME TypeOK, ControlInv, pc # "idle", NEW i \in DOMAIN frames
    PROVE  /\ Request(i) \in RequestLine /\ Ours(Request(i))
           /\ Request(i).frame = i /\ Request(i).checksum = checksum_active_
           /\ Request(i).reply_required = frames[i].reply_required
           /\ Sent(Request(i))
           /\ Answer(i) = Reply(Request(i)) /\ Answer(i) \in RcvLine
<1>1. /\ frames[i] \in Frame /\ i \in Nat \ {0} /\ call \in Nat \ {0}
      /\ checksum_active_ \in BOOLEAN
    BY DEF TypeOK, ControlInv
<1> QED BY <1>1 DEF Frame, Request, RequestLine, Position, Ours, Sent, Answer, Reply, Rcv, RcvLine

----------------------------------------------------------------------------
(* Types, control and lines. *)

BaseInv == TypeOK /\ ControlInv /\ LinesInv

LEMMA InitBase == Init => BaseInv
<1> SUFFICES ASSUME Init PROVE BaseInv
    OBVIOUS
<1>1. kind \in {"fdcanusb", "uart", "socketcan"} /\ checksum_active_ \in BOOLEAN
    <2>1. PICK options \in Options, port \in Port : Opened(options, port) BY DEF Init
    <2> QED BY <2>1 DEF Opened, Options, Detected, DetectIsFdcanusb
<1>2. demanding \in BOOLEAN /\ (kind # "uart" => demanding = FALSE)
    BY DEF Init
<1>3. TypeOK
    BY <1>1, <1>2, TransportAssumption DEF Init, TypeOK, NoReplies
<1>4. ControlInv
    BY <1>2 DEF Init, ControlInv
<1>5. LinesInv
    BY DEF Init, LinesInv
<1> QED BY <1>3, <1>4, <1>5 DEF BaseInv

(* A line is what it was while the call lasts, its flush apart. *)
LEMMA PlacedRest ==
    ASSUME UNCHANGED <<call, frames, device, overdue>>, pc = "flush" <=> pc' = "flush", NEW line
    PROVE  /\ Placed(line)' = Placed(line) /\ Known(line)' = Known(line)
           /\ Asks(line)' = Asks(line) /\ Sent(line)' = Sent(line)
BY DEF Placed, Known, Ours, Late, Reply, Rcv, Asks, Sent, OfThisCall

(* Reading takes lines off the front and moves none. *)
LEMMA ConsumeLines ==
    ASSUME BaseInv, ConsumeData, UNCHANGED <<call, frames, device, overdue>>,
           pc = "flush" <=> pc' = "flush"
    PROVE  /\ rx' \in Seq(Line) /\ checksum_active_' \in BOOLEAN
           /\ \A i \in DOMAIN rx' : \E k \in DOMAIN rx : rx'[i] = rx[k]
           /\ (\A reply \in replies : Known(reply))' => LinesInv'
<1>1. rx # <<>> /\ rx' = Unread /\ tx' = tx /\ bus' = bus BY DEF ConsumeData
<1>2. rx' \in Seq(Line) /\ \A i \in DOMAIN rx' : \E k \in DOMAIN rx : rx'[i] = rx[k]
    BY <1>1, ReadFacts DEF BaseInv
<1>3. checksum_active_' \in BOOLEAN
    BY DEF ConsumeData, ProcessErr, BaseInv, TypeOK
<1>4. \A line : /\ Placed(line) => Placed(line)'
                /\ Asks(line) => Asks(line)'
                /\ Sent(line) => Sent(line)'
    BY PlacedRest
<1>5. \A i \in DOMAIN rx' : IsRcv(rx'[i]) => (Placed(rx[i]) /\ Asks(rx[i]))'
    BY <1>2, <1>4 DEF BaseInv, LinesInv
<1>6. \A i \in DOMAIN tx' : Placed(tx[i])' /\ Sent(tx[i])'
    BY <1>1, <1>4 DEF BaseInv, LinesInv
<1>7. \A answer \in bus' : Placed(answer)' /\ Asks(answer)'
    BY <1>1, <1>4 DEF BaseInv, LinesInv
<1> QED BY <1>2, <1>3, <1>5, <1>6, <1>7 DEF LinesInv

(* Steps of the child that touch no line. *)
LEMMA LinesRest ==
    ASSUME LinesInv, UNCHANGED <<configVars, callVars, lineVars, replies, overdue>>,
           pc = "flush" <=> pc' = "flush"
    PROVE  LinesInv'
BY PlacedRest DEF LinesInv, configVars, callVars, lineVars

(* What is taken for a reply is of this call, or late. *)
LEMMA TakenAreKnown ==
    ASSUME BaseInv, rx # <<>>, pc # "flush", pc' # "flush", TakeReplies,
           UNCHANGED <<call, frames, device, overdue>>
    PROVE  replies' \subseteq RcvLine /\ (\A reply \in replies : Known(reply))'
<1>1. \A line \in Rcvs : line \in RcvLine /\ Known(line)
    BY RcvsFacts DEF BaseInv, LinesInv, Placed
<1>2. \A line : Known(line) => Known(line)' BY PlacedRest
<1> QED BY <1>1, <1>2 DEF TakeReplies, BaseInv, TypeOK, LinesInv

LEMMA CycleBase == BaseInv /\ Cycle => BaseInv'
<1> SUFFICES ASSUME BaseInv, Cycle PROVE BaseInv'
    OBVIOUS
<1>1. frames' \in Seq(Frame) /\ call' \in Nat /\ call' > call
    BY TransportAssumption DEF Cycle, BaseInv, TypeOK
<1>2. /\ pc' = "flush" /\ sent' = 0 /\ attempt' = 0 /\ replies' = {}
      /\ ran' = [i \in DOMAIN frames' |-> 0] /\ acked' = {} /\ lost' = {} /\ overdue' = {}
      /\ UNCHANGED <<configVars, checksum_active_, waitVars, lineVars, losses>>
    BY DEF Cycle
<1>3. sent' \in 0..Len(frames') /\ attempt' \in 0..max_retries
    BY <1>1, <1>2, TransportAssumption
<1>4. TypeOK'
    BY <1>1, <1>2, <1>3 DEF BaseInv, TypeOK, configVars, waitVars, lineVars
<1>5. ControlInv'
    BY <1>1, <1>2 DEF BaseInv, ControlInv, TypeOK, configVars
<1>6. LinesInv'
    <2>1. ASSUME NEW line, line.call \in Nat, Placed(line)
          PROVE  Placed(line)' /\ Asks(line)' /\ Sent(line)'
        <3>1. line.call <= call /\ call \in Nat
            BY <2>1 DEF BaseInv, TypeOK, Placed, Known, Ours, Late
        <3> QED BY <1>1, <1>2, <2>1, <3>1 DEF Placed, Asks, Sent, OfThisCall
    <2>2. /\ \A i \in DOMAIN tx : tx[i] \in RequestLine
          /\ \A answer \in bus : answer \in RcvLine
          /\ \A i \in DOMAIN rx : IsRcv(rx[i]) => rx[i] \in RcvLine
        BY LineFacts DEF BaseInv, TypeOK, Line
    <2>3. \A line \in RcvLine \cup RequestLine : line.call \in Nat
        BY DEF RcvLine, RequestLine, Position
    <2> QED BY <1>2, <2>1, <2>2, <2>3 DEF BaseInv, LinesInv, lineVars
<1> QED BY <1>4, <1>5, <1>6 DEF BaseInv

LEMMA FlushBase == BaseInv /\ QuietAtFlush /\ (Flush \/ FlushOver) => BaseInv'
<1>1. ASSUME BaseInv, Flush PROVE BaseInv'
    <2>1. LinesInv' /\ rx' \in Seq(Line) /\ checksum_active_' \in BOOLEAN
        <3>1. (\A reply \in replies : Known(reply))'
            BY <1>1 DEF Flush, FlushDrops, BaseInv, ControlInv
        <3> QED BY <1>1, <3>1, ConsumeLines DEF Flush, configVars, callVars, historyVars
    <2>2. TypeOK'
        BY <1>1, <2>1
        DEF Flush, FlushDrops, ConsumeData, BaseInv, TypeOK, Line, configVars, callVars, waitVars,
            historyVars
    <2>3. ControlInv'
        BY <1>1 DEF Flush, FlushDrops, BaseInv, ControlInv, configVars, callVars, historyVars, Size
    <2> QED BY <2>1, <2>2, <2>3 DEF BaseInv
<1>2. ASSUME BaseInv, QuietAtFlush, FlushOver PROVE BaseInv'
    <2>1. /\ pc = "flush" /\ pc' = IF Size = 0 THEN "complete" ELSE "send"
          /\ rx = <<>> /\ overdue' = bus \cup {Reply(tx[i]) : i \in DOMAIN tx}
          /\ UNCHANGED <<configVars, checksum_active_, callVars, sent, attempt, waitVars, replies,
                         lineVars, ran, acked, lost, losses>>
        BY <1>2 DEF FlushOver
    <2>2. /\ \A i \in DOMAIN tx : tx[i] \in RequestLine /\ tx[i].call < call
          /\ \A answer \in bus : answer \in RcvLine /\ answer.call < call
          /\ replies = {}
        BY <1>2, <2>1 DEF BaseInv, TypeOK, LinesInv, Placed, ControlInv
    <2>3. Size \in Nat BY <1>2 DEF BaseInv, TypeOK, Size
    <2>4. TypeOK'
        <3>1. overdue' \subseteq RcvLine BY <2>1, <2>2, ReplyFacts
        <3> QED BY <1>2, <2>1, <3>1
            DEF BaseInv, TypeOK, configVars, callVars, waitVars, lineVars
    <2>5. ControlInv'
        BY <1>2, <2>1, <2>3
        DEF BaseInv, ControlInv, configVars, callVars, Size
    <2>6. LinesInv'
        <3>1. ASSUME NEW line \in RcvLine \cup RequestLine, line.call < call,
                     Reply(line) \in overdue',
                     device # "prompt"
              PROVE  Placed(line)' /\ Asks(line)' /\ Sent(line)'
            <4>1. line.call # call' /\ call' = call /\ device' = device
                BY <1>2, <2>1, <3>1 DEF BaseInv, TypeOK, RcvLine, RequestLine, Position, callVars,
                    configVars
            <4> QED BY <2>1, <3>1, <4>1
                DEF Placed, Known, Late, Reply, Rcv, Asks, Sent, OfThisCall
        <3>2. CASE device = "prompt"
            <4>1. tx = <<>> /\ bus = {} BY <1>2, <2>1, <3>2 DEF QuietAtFlush, Quiet
            <4> QED BY <2>1, <2>2, <4>1 DEF LinesInv, lineVars
        <3>3. CASE device # "prompt"
            <4>1. \A i \in DOMAIN tx : Reply(tx[i]) \in overdue' BY <2>1
            <4>2. \A answer \in bus : Reply(answer) \in overdue' BY <2>1, <2>2, ReplyFacts
            <4>3. \A i \in DOMAIN tx : Placed(tx[i])' /\ Sent(tx[i])' 
                BY <2>1, <2>2, <3>1, <3>3, <4>1 DEF lineVars
            <4> QED BY <2>1, <2>2, <3>1, <3>3, <4>2, <4>3 DEF LinesInv, lineVars
        <3> QED BY <3>2, <3>3
    <2> QED BY <2>4, <2>5, <2>6 DEF BaseInv
<1> QED BY <1>1, <1>2

(* Lines of this call are sent behind those already on the way. *)
LEMMA TransmitLines ==
    ASSUME BaseInv, pc = "send", pc' # "flush", NEW n \in Nat, sent + n <= Size,
           Transmit([i \in 1..n |-> Request(sent + i)]),
           UNCHANGED <<configVars, callVars, bus, rx, replies, overdue>>
    PROVE  tx' \in Seq(RequestLine) /\ LinesInv'
<1> DEFINE out == [i \in 1..n |-> Request(sent + i)]
<1>1. ASSUME NEW i \in 1..n
      PROVE  /\ out[i] \in RequestLine /\ Known(out[i]) /\ Sent(out[i])
    <2>1. sent + i \in DOMAIN frames BY DEF BaseInv, TypeOK, Size
    <2> QED BY <2>1, RequestFacts DEF BaseInv, Known
<1>2. out \in Seq(RequestLine) /\ Len(out) = n BY <1>1
<1>3. tx \in Seq(RequestLine) BY DEF BaseInv, TypeOK
<1>4. tx' = tx \o out BY DEF Transmit
<1> HIDE DEF out
<1>5. tx' \in Seq(RequestLine) BY <1>2, <1>3, <1>4
<1>6. \A i \in DOMAIN tx' : (\E k \in DOMAIN tx : tx'[i] = tx[k]) \/ \E k \in 1..n : tx'[i] = out[k]
    BY <1>2, <1>3, <1>4, SMTT(30)
<1>7. \A i \in DOMAIN tx' : Known(tx'[i]) /\ Sent(tx'[i])
    BY <1>1, <1>6 DEF BaseInv, LinesInv, Placed
<1>8. LinesInv'
    BY <1>7
    DEF BaseInv, LinesInv, Placed, Known, Ours, Late, Reply, Rcv, Asks, Sent, OfThisCall, callVars,
        configVars
<1> QED BY <1>5, <1>8

LEMMA SendBase == BaseInv /\ (SendChunk \/ SendUart) => BaseInv'
<1>1. ASSUME BaseInv, SendChunk PROVE BaseInv'
    <2>1. /\ pc = "send" /\ kind # "uart" /\ pc' = "wait"
          /\ expected_ok_count' = Cardinality(Chunk) /\ ok_count' = 0
          /\ UNCHANGED <<configVars, checksum_active_, callVars, sent, attempt, replies, bus, rx,
                         historyVars>>
        BY <1>1 DEF SendChunk
    <2>2. sent < Size BY <1>1, <2>1 DEF BaseInv, ControlInv
    <2>3. /\ IsFiniteSet(Chunk) /\ Cardinality(Chunk) \in Nat
          /\ sent + Cardinality(Chunk) <= Size
        <3>1. sent \in Nat /\ Size \in Nat BY <1>1 DEF BaseInv, TypeOK, Size
        <3> QED BY <1>1, <2>2, <3>1, AdvanceFacts, FS_CardinalityType DEF BaseInv
    <2>4. tx' \in Seq(RequestLine) /\ LinesInv'
        BY <1>1, <2>1, <2>3, TransmitLines DEF SendChunk, historyVars
    <2>5. expected_reply_count' \in [Motor -> Nat]
        <3>1. \A m \in Motor : Cardinality({i \in Chunk : frames[i].reply_required
                                                /\ frames[i].destination = m}) \in Nat
            BY <2>3, FS_Subset, FS_CardinalityType
        <3> QED BY <1>1, <3>1 DEF SendChunk, CountsCleared
    <2>6. TypeOK'
        BY <1>1, <2>1, <2>3, <2>4, <2>5
        DEF BaseInv, TypeOK, configVars, callVars, historyVars
    <2>7. ControlInv'
        BY <1>1, <2>1, <2>2 DEF BaseInv, ControlInv, configVars, callVars, historyVars, Size
    <2> QED BY <2>4, <2>6, <2>7 DEF BaseInv
<1>2. ASSUME BaseInv, SendUart PROVE BaseInv'
    <2>1. /\ pc = "send" /\ kind = "uart" /\ pc' = "ok"
          /\ UNCHANGED <<configVars, checksum_active_, callVars, sent, attempt, waitVars, replies,
                         bus, rx, historyVars>>
        BY <1>2 DEF SendUart
    <2>2. sent < Size /\ sent \in Nat /\ Size \in Nat
        BY <1>2, <2>1 DEF BaseInv, ControlInv, TypeOK, Size
    <2>3. <<Request(sent + 1)>> = [i \in 1..1 |-> Request(sent + i)]
        OBVIOUS
    <2>4. tx' \in Seq(RequestLine) /\ LinesInv'
        <3>1. Transmit([i \in 1..1 |-> Request(sent + i)])
            BY <1>2, <2>3 DEF SendUart, Transmit
        <3>2. 1 \in Nat /\ sent + 1 <= Size /\ pc' # "flush" BY <2>1, <2>2
        <3> QED BY <1>2, <2>1, <3>1, <3>2, TransmitLines DEF historyVars
    <2>5. TypeOK'
        BY <1>2, <2>1, <2>4
        DEF BaseInv, TypeOK, configVars, callVars, waitVars, historyVars
    <2>6. ControlInv'
        BY <1>2, <2>1, <2>2 DEF BaseInv, ControlInv, configVars, callVars, historyVars, Size
    <2> QED BY <2>4, <2>5, <2>6 DEF BaseInv
<1> QED BY <1>1, <1>2

(* Counting answers down. *)
LEMMA CountedDown ==
    ASSUME TypeOK, rx # <<>>, CountReplies
    PROVE  expected_reply_count' \in [Motor -> Nat]
<1>1. ASSUME NEW m \in Motor
      PROVE  expected_reply_count[m] - Smaller(expected_reply_count[m], From(m)) \in Nat
    <2>1. expected_reply_count[m] \in Nat /\ From(m) \in Nat
        BY CountsAreNumbers DEF TypeOK
    <2> QED BY <2>1 DEF Smaller
<1> QED BY <1>1 DEF CountReplies

LEMMA ChunkBase == BaseInv /\ (CheckReplies \/ CheckTimeout) => BaseInv'
<1>1. ASSUME BaseInv, pc = "wait",
             \/ NextChunk
             \/ UNCHANGED <<pc, sent>>,
             UNCHANGED <<configVars, callVars, attempt, historyVars>>
      PROVE  sent' \in 0..Len(frames') /\ pc' \in {"wait", "send", "complete"} /\ ControlInv'
    <2>1. sent < Size /\ sent \in Nat /\ Size \in Nat /\ Size = Len(frames)
        BY <1>1 DEF BaseInv, ControlInv, TypeOK, Size
    <2>2. CASE NextChunk
        <3>1. sent' \in (sent + 1)..Size BY <1>1, <2>1, <2>2, AdvanceFacts DEF NextChunk, BaseInv
        <3> QED BY <1>1, <2>1, <2>2, <3>1
            DEF NextChunk, BaseInv, ControlInv, configVars, callVars, historyVars, Size
    <2>3. CASE UNCHANGED <<pc, sent>>
        BY <1>1, <2>1, <2>3 DEF BaseInv, ControlInv, configVars, callVars, historyVars, Size
    <2> QED BY <1>1, <2>2, <2>3
<1>2. ASSUME BaseInv, CheckReplies PROVE BaseInv'
    <2>1. /\ pc = "wait" /\ ConsumeData /\ TakeReplies /\ CountReplies
          /\ ok_count' = ok_count + Oks /\ UNCHANGED expected_ok_count
          /\ NextChunk \/ UNCHANGED <<pc, sent>>
          /\ UNCHANGED <<configVars, callVars, attempt, historyVars>>
        BY <1>2 DEF CheckReplies
    <2>2. sent' \in 0..Len(frames') /\ pc' \in {"wait", "send", "complete"} /\ ControlInv'
        BY <1>1, <1>2, <2>1
    <2>3. rx # <<>> BY <2>1 DEF ConsumeData
    <2>4. replies' \subseteq RcvLine /\ (\A reply \in replies : Known(reply))'
        BY <1>2, <2>1, <2>2, <2>3, TakenAreKnown DEF configVars, callVars, historyVars
    <2>5. rx' \in Seq(Line) /\ checksum_active_' \in BOOLEAN /\ LinesInv'
        BY <1>2, <2>1, <2>2, <2>4, ConsumeLines DEF configVars, callVars, historyVars
    <2>6. expected_reply_count' \in [Motor -> Nat] /\ ok_count' \in Nat
        <3>1. ok_count \in Nat /\ Oks \in Nat
            BY <1>2, <2>3, CountsAreNumbers DEF BaseInv, TypeOK
        <3> QED BY <1>2, <2>1, <2>3, <3>1, CountedDown DEF BaseInv
    <2>7. TypeOK'
        BY <1>2, <2>1, <2>2, <2>4, <2>5, <2>6
        DEF ConsumeData, BaseInv, TypeOK, Line, configVars, callVars, historyVars
    <2> QED BY <2>2, <2>5, <2>7 DEF BaseInv
<1>3. ASSUME BaseInv, CheckTimeout PROVE BaseInv'
    <2>1. /\ pc = "wait" /\ NextChunk
          /\ UNCHANGED <<configVars, checksum_active_, callVars, attempt, waitVars, replies,
                         lineVars, historyVars>>
        BY <1>3 DEF CheckTimeout, GiveUp
    <2>2. sent' \in 0..Len(frames') /\ pc' \in {"wait", "send", "complete"} /\ ControlInv'
        BY <1>1, <1>3, <2>1
    <2>3. LinesInv' BY <1>3, <2>1, <2>2, LinesRest DEF BaseInv, historyVars
    <2>4. TypeOK'
        BY <1>3, <2>1, <2>2
        DEF BaseInv, TypeOK, configVars, callVars, waitVars, lineVars, historyVars
    <2> QED BY <2>2, <2>3, <2>4 DEF BaseInv
<1> QED BY <1>2, <1>3

(* On to the next frame of a UART. *)
LEMMA NextFrameFacts ==
    ASSUME BaseInv, pc \in {"ok", "rcv"}, NextFrame
    PROVE  /\ sent' = sent + 1 /\ sent' \in 0..Len(frames) /\ attempt' = 0 /\ attempt' \in 0..max_retries
           /\ pc' \in {"send", "complete"}
           /\ pc' = "send" => sent' < Size
           /\ pc' = "complete" => sent' = Size
<1>1. sent < Size /\ sent \in Nat /\ Size \in Nat /\ Size = Len(frames)
    BY DEF BaseInv, ControlInv, TypeOK, Size
<1> QED BY <1>1, TransportAssumption DEF NextFrame

LEMMA OkBase == BaseInv /\ (WaitForOk \/ OkTimeout) => BaseInv'
<1>1. ASSUME BaseInv, WaitForOk PROVE BaseInv'
    <2>1. /\ pc = "ok" /\ ConsumeData /\ TakeReplies
          /\ UNCHANGED <<configVars, callVars, expected_ok_count, ok_count, ran, lost, overdue,
                         losses>>
          /\ rx # <<>>
        BY <1>1 DEF WaitForOk, ConsumeData
    <2>2. sent < Size /\ sent \in Nat /\ Size \in Nat /\ Size = Len(frames) /\ call > 0 /\ kind = "uart"
        BY <1>1, <2>1 DEF BaseInv, ControlInv, TypeOK, Size
    <2>3. /\ sent' \in 0..Len(frames) /\ attempt' \in 0..max_retries
          /\ pc' \in {"ok", "rcv", "send", "complete"}
          /\ acked' \subseteq DOMAIN frames
          /\ expected_reply_count' \in [Motor -> Nat]
          /\ pc' \in {"ok", "rcv", "send"} => sent' < Size
          /\ pc' = "complete" => sent' = Size
          /\ pc' = "rcv" => sent' = sent /\ sent + 1 \in acked' /\ Current.reply_required
        <3>1. CASE Oks > 0 /\ Current.reply_required
            <4>1. /\ pc' = "rcv" /\ acked' = acked \cup {sent + 1} /\ UNCHANGED <<sent, attempt>>
                  /\ expected_reply_count' = [NoReplies EXCEPT ![Current.destination] = 1]
                BY <1>1, <3>1 DEF WaitForOk, Acknowledged
            <4>2. /\ acked \subseteq DOMAIN frames /\ sent + 1 \in DOMAIN frames
                  /\ sent \in 0..Len(frames) /\ attempt \in 0..max_retries
                BY <1>1, <2>2 DEF BaseInv, TypeOK
            <4>3. expected_reply_count' \in [Motor -> Nat] BY <4>1 DEF NoReplies
            <4> QED BY <2>2, <3>1, <4>1, <4>2, <4>3
        <3>2. CASE Oks > 0 /\ ~Current.reply_required
            <4>1. NextFrame /\ acked' = acked \cup {sent + 1} /\ UNCHANGED expected_reply_count
                BY <1>1, <3>2 DEF WaitForOk, Acknowledged
            <4>2. /\ acked \subseteq DOMAIN frames /\ sent + 1 \in DOMAIN frames
                  /\ expected_reply_count \in [Motor -> Nat]
                BY <1>1, <2>2 DEF BaseInv, TypeOK
            <4>3. /\ sent' \in 0..Len(frames) /\ attempt' \in 0..max_retries
                  /\ pc' \in {"send", "complete"}
                  /\ pc' = "send" => sent' < Size
                  /\ pc' = "complete" => sent' = Size
                BY <1>1, <2>1, <4>1, NextFrameFacts
            <4> QED BY <4>1, <4>2, <4>3
        <3>3. CASE ~(Oks > 0)
            <4>1. UNCHANGED <<pc, sent, attempt, acked, expected_reply_count>>
                BY <1>1, <3>3 DEF WaitForOk
            <4>2. /\ sent \in 0..Len(frames) /\ attempt \in 0..max_retries
                  /\ acked \subseteq DOMAIN frames /\ expected_reply_count \in [Motor -> Nat]
                BY <1>1 DEF BaseInv, TypeOK
            <4> QED BY <2>1, <2>2, <4>1, <4>2
        <3> QED BY <3>1, <3>2, <3>3
    <2>4. replies' \subseteq RcvLine /\ (\A reply \in replies : Known(reply))'
        BY <1>1, <2>1, <2>3, TakenAreKnown DEF configVars, callVars
    <2>5. rx' \in Seq(Line) /\ checksum_active_' \in BOOLEAN /\ LinesInv'
        BY <1>1, <2>1, <2>3, <2>4, ConsumeLines DEF configVars, callVars
    <2>6. TypeOK'
        BY <1>1, <2>1, <2>3, <2>4, <2>5
        DEF ConsumeData, BaseInv, TypeOK, Line, configVars, callVars
    <2>7. ControlInv'
        BY <1>1, <2>1, <2>2, <2>3 DEF BaseInv, ControlInv, configVars, callVars, Size, Current
    <2> QED BY <2>5, <2>6, <2>7 DEF BaseInv
<1>2. ASSUME BaseInv, OkTimeout PROVE BaseInv'
    <2>1. /\ pc = "ok"
          /\ UNCHANGED <<configVars, checksum_active_, callVars, waitVars, replies, lineVars, historyVars>>
        BY <1>2 DEF OkTimeout
    <2>2. sent < Size /\ sent \in Nat /\ Size \in Nat /\ Size = Len(frames) /\ call > 0 /\ kind = "uart"
        BY <1>2, <2>1 DEF BaseInv, ControlInv, TypeOK, Size
    <2>3. /\ sent' \in 0..Len(frames) /\ attempt' \in 0..max_retries
          /\ pc' \in {"send", "complete"}
          /\ pc' = "send" => sent' < Size
          /\ pc' = "complete" => sent' = Size
        <3>1. CASE RetriesLeft
            <4>1. attempt \in 0..max_retries /\ max_retries \in Nat
                BY <1>2, TransportAssumption DEF BaseInv, TypeOK
            <4>2. pc' = "send" /\ attempt' = Smaller(attempt + 1, max_retries) /\ sent' = sent
                BY <1>2, <3>1 DEF OkTimeout
            <4> QED BY <2>2, <4>1, <4>2 DEF Smaller
        <3>2. CASE ~RetriesLeft
            <4>1. NextFrame BY <1>2, <3>2 DEF OkTimeout
            <4> QED BY <1>2, <2>1, <4>1, NextFrameFacts
        <3> QED BY <3>1, <3>2
    <2>4. LinesInv' BY <1>2, <2>1, <2>3, LinesRest DEF BaseInv, historyVars
    <2>5. TypeOK'
        BY <1>2, <2>1, <2>3
        DEF BaseInv, TypeOK, configVars, callVars, waitVars, lineVars, historyVars
    <2>6. ControlInv'
        BY <1>2, <2>1, <2>2, <2>3 DEF BaseInv, ControlInv, configVars, callVars, Size
    <2> QED BY <2>4, <2>5, <2>6 DEF BaseInv
<1> QED BY <1>1, <1>2

LEMMA RcvBase == BaseInv /\ (WaitForReply \/ ReplyTimeout) => BaseInv'
<1>1. ASSUME BaseInv, WaitForReply PROVE BaseInv'
    <2>1. /\ pc = "rcv" /\ ConsumeData /\ TakeReplies /\ CountReplies
          /\ NextFrame \/ UNCHANGED <<pc, sent, attempt>>
          /\ UNCHANGED <<configVars, callVars, expected_ok_count, ok_count, historyVars>>
          /\ rx # <<>>
        BY <1>1 DEF WaitForReply, ConsumeData
    <2>2. /\ sent' \in 0..Len(frames) /\ attempt' \in 0..max_retries
          /\ pc' \in {"rcv", "send", "complete"}
          /\ pc' = "send" => sent' < Size
          /\ pc' = "complete" => sent' = Size
          /\ pc' = "rcv" => sent' = sent
        <3>1. CASE NextFrame BY <1>1, <2>1, <3>1, NextFrameFacts
        <3>2. CASE UNCHANGED <<pc, sent, attempt>> BY <1>1, <2>1, <3>2 DEF BaseInv, TypeOK
        <3> QED BY <2>1, <3>1, <3>2
    <2>3. replies' \subseteq RcvLine /\ (\A reply \in replies : Known(reply))'
        BY <1>1, <2>1, <2>2, TakenAreKnown DEF configVars, callVars, historyVars
    <2>4. rx' \in Seq(Line) /\ checksum_active_' \in BOOLEAN /\ LinesInv'
        BY <1>1, <2>1, <2>2, <2>3, ConsumeLines DEF configVars, callVars, historyVars
    <2>5. expected_reply_count' \in [Motor -> Nat]
        BY <1>1, <2>1, CountedDown DEF BaseInv
    <2>6. TypeOK'
        BY <1>1, <2>1, <2>2, <2>3, <2>4, <2>5
        DEF ConsumeData, BaseInv, TypeOK, Line, configVars, callVars, historyVars
    <2>7. ControlInv'
        BY <1>1, <2>1, <2>2
        DEF BaseInv, ControlInv, configVars, callVars, historyVars, Size, Current
    <2> QED BY <2>4, <2>6, <2>7 DEF BaseInv
<1>2. ASSUME BaseInv, ReplyTimeout PROVE BaseInv'
    <2>1. /\ pc = "rcv" /\ NextFrame
          /\ UNCHANGED <<configVars, checksum_active_, callVars, waitVars, replies, lineVars, historyVars>>
        BY <1>2 DEF ReplyTimeout
    <2>2. /\ sent' \in 0..Len(frames) /\ attempt' \in 0..max_retries
          /\ pc' \in {"send", "complete"}
          /\ pc' = "send" => sent' < Size
          /\ pc' = "complete" => sent' = Size
        BY <1>2, <2>1, NextFrameFacts
    <2>3. LinesInv' BY <1>2, <2>1, <2>2, LinesRest DEF BaseInv, historyVars
    <2>4. TypeOK'
        BY <1>2, <2>1, <2>2
        DEF BaseInv, TypeOK, configVars, callVars, waitVars, lineVars, historyVars
    <2>5. ControlInv'
        BY <1>2, <2>1, <2>2 DEF BaseInv, ControlInv, configVars, callVars, Size
    <2> QED BY <2>3, <2>4, <2>5 DEF BaseInv
<1> QED BY <1>1, <1>2

LEMMA CompleteBase == BaseInv /\ Complete => BaseInv'
<1> SUFFICES ASSUME BaseInv, Complete PROVE BaseInv'
    OBVIOUS
<1>1. LinesInv' BY LinesRest DEF Complete, BaseInv, historyVars
<1>2. TypeOK'
    BY DEF Complete, BaseInv, TypeOK, configVars, callVars, waitVars, lineVars, historyVars
<1>3. ControlInv' BY DEF Complete, BaseInv, ControlInv, configVars
<1> QED BY <1>1, <1>2, <1>3 DEF BaseInv

(* The device. *)
LEMMA CarriedOut ==
    ASSUME BaseInv, tx # <<>>, CarryOut(Head(tx)), UNCHANGED <<pc, call, frames, device, overdue>>
    PROVE  /\ ran' \in [DOMAIN frames -> Nat] /\ bus' \subseteq RcvLine
           /\ \A i \in DOMAIN frames : ran'[i] >= ran[i]
           /\ pc = "flush" => ran' = ran
           /\ \A answer \in bus' : Placed(answer)' /\ Asks(answer)'
<1>1. Head(tx) \in RequestLine /\ Head(tx) = tx[1] /\ 1 \in DOMAIN tx BY DEF BaseInv, TypeOK
<1>2. ran \in [DOMAIN frames -> Nat] BY DEF BaseInv, TypeOK
<1>3. /\ ran' \in [DOMAIN frames -> Nat]
      /\ \A i \in DOMAIN frames : ran'[i] >= ran[i]
    <2>1. CASE Head(tx).call = call
        <3>1. ran' = [ran EXCEPT ![Head(tx).frame] = @ + 1] BY <2>1 DEF CarryOut
        <3>2. \A i \in DOMAIN frames : ran[i] \in Nat BY <1>2
        <3>3. \A i \in DOMAIN frames : ran'[i] = IF i = Head(tx).frame THEN ran[i] + 1 ELSE ran[i]
            BY <1>2, <3>1
        <3>4. ran' = [i \in DOMAIN frames |-> ran'[i]] BY <1>2, <3>1
        <3>5. \A i \in DOMAIN frames : ran'[i] \in Nat /\ ran'[i] >= ran[i] BY <3>2, <3>3
        <3> QED BY <3>4, <3>5
    <2>2. CASE Head(tx).call # call
        <3>1. ran' = ran /\ \A i \in DOMAIN frames : ran[i] \in Nat BY <1>2, <2>2 DEF CarryOut
        <3> QED BY <1>2, <3>1
    <2> QED BY <2>1, <2>2
<1>4. pc = "flush" => ran' = ran
    BY <1>1 DEF CarryOut, BaseInv, LinesInv, Placed, TypeOK
<1>5. Reply(Head(tx)) \in RcvLine /\ Reply(Head(tx)).call = Head(tx).call
      /\ Reply(Head(tx)).frame = Head(tx).frame /\ Reply(Head(tx)).source = Head(tx).source
      /\ Reply(Reply(Head(tx))) = Reply(Head(tx))
    BY <1>1, ReplyFacts
<1>6. ASSUME NEW answer \in bus' PROVE answer \in RcvLine /\ Placed(answer) /\ Asks(answer)
    <2>1. CASE answer \in bus BY <2>1 DEF BaseInv, TypeOK, LinesInv
    <2>2. CASE answer = Reply(Head(tx)) /\ Head(tx).reply_required
        <3>1. Placed(Head(tx)) /\ Sent(Head(tx)) BY <1>1 DEF BaseInv, LinesInv
        <3>2. Placed(answer) BY <1>5, <2>2, <3>1 DEF Placed, Known, Ours, Late
        <3>3. Asks(answer) BY <1>5, <2>2, <3>1 DEF Asks, Sent, OfThisCall
        <3> QED BY <1>5, <2>2, <3>2, <3>3
    <2> QED BY <2>1, <2>2 DEF CarryOut
<1>7. ASSUME NEW line, Placed(line), Asks(line) PROVE Placed(line)' /\ Asks(line)'
    BY <1>7 DEF Placed, Known, Ours, Late, Reply, Rcv, Asks, OfThisCall
<1>8. \A answer \in bus' : Placed(answer)' /\ Asks(answer)'
    BY <1>6, <1>7
<1> QED BY <1>3, <1>4, <1>6, <1>8

(* Lines are left over, or one more comes that is no answer or was on the  *)
(* bus.                                                                    *)
LEMMA DeviceLines ==
    ASSUME BaseInv, UNCHANGED <<configVars, pc, callVars, replies, overdue>>,
           tx' = tx \/ (tx # <<>> /\ tx' = Tail(tx)),
           bus' \subseteq RcvLine, \A answer \in bus' : Placed(answer)' /\ Asks(answer)',
           \/ rx' = rx
           \/ \E line \in {OK, ERR} \cup bus : rx' = Append(rx, line)
    PROVE  tx' \in Seq(RequestLine) /\ rx' \in Seq(Line) /\ LinesInv'
<1>1. tx \in Seq(RequestLine) /\ rx \in Seq(Line) /\ bus \subseteq Line
    BY DEF BaseInv, TypeOK, Line
<1>2. tx' \in Seq(RequestLine) /\ \A i \in DOMAIN tx' : \E k \in DOMAIN tx : tx'[i] = tx[k]
    <2>1. CASE tx' = tx BY <1>1, <2>1
    <2>2. CASE tx # <<>> /\ tx' = Tail(tx)
        <3>1. /\ Tail(tx) \in Seq(RequestLine)
              /\ \A i \in DOMAIN Tail(tx) : i + 1 \in DOMAIN tx /\ Tail(tx)[i] = tx[i + 1]
            BY <1>1, <2>2
        <3> QED BY <2>2, <3>1
    <2> QED BY <2>1, <2>2
<1>3. /\ rx' \in Seq(Line)
      /\ \A i \in DOMAIN rx' : (\E k \in DOMAIN rx : rx'[i] = rx[k]) \/ rx'[i] \in {OK, ERR} \cup bus
    <2>1. CASE rx' = rx BY <1>1, <2>1
    <2>2. ASSUME NEW line \in {OK, ERR} \cup bus, rx' = Append(rx, line)
          PROVE  /\ rx' \in Seq(Line)
                 /\ \A i \in DOMAIN rx' : (\E k \in DOMAIN rx : rx'[i] = rx[k]) \/ rx'[i] = line
        <3>1. line \in Line BY <1>1, <2>2 DEF Line
        <3> QED BY <1>1, <2>2, <3>1
    <2> QED BY <2>1, <2>2
<1>4. \A i \in DOMAIN tx' : Placed(tx'[i]) /\ Sent(tx'[i])
    BY <1>2 DEF BaseInv, LinesInv
<1>5. \A i \in DOMAIN rx' : IsRcv(rx'[i]) => Placed(rx'[i]) /\ Asks(rx'[i])
    <2>1. ~IsRcv(OK) /\ ~IsRcv(ERR) BY DEF IsRcv, OK, ERR
    <2> QED BY <1>3, <2>1 DEF BaseInv, LinesInv
<1>6. LinesInv'
    BY <1>4, <1>5
    DEF BaseInv, LinesInv, Placed, Known, Ours, Late, Reply, Rcv, Asks, Sent, OfThisCall, callVars,
        configVars
<1> QED BY <1>2, <1>3, <1>6

LEMMA DeviceBase == BaseInv /\ Device => BaseInv'
<1> DEFINE Rest == UNCHANGED <<configVars, checksum_active_, pc, callVars, sent, attempt, waitVars,
                               replies, acked, overdue>>
           Same == \A answer \in bus' : Placed(answer)' /\ Asks(answer)'
<1>0. ASSUME BaseInv, Rest, tx' \in Seq(RequestLine), rx' \in Seq(Line), LinesInv',
             bus' \subseteq RcvLine, ran' \in [DOMAIN frames -> Nat], pc = "flush" => ran' = ran,
             lost' \subseteq DOMAIN frames, pc = "flush" => lost' = lost, losses' \in 0..MaxLosses
      PROVE  BaseInv'
    <2>1. TypeOK'
        BY <1>0 DEF BaseInv, TypeOK, Line, configVars, callVars, waitVars
    <2>2. ControlInv'
        BY <1>0 DEF BaseInv, ControlInv, configVars, callVars, Size, Current
    <2> QED BY <1>0, <2>1, <2>2 DEF BaseInv
<1>1. ASSUME BaseInv, Accept PROVE BaseInv'
    <2>1. Rest /\ tx # <<>> /\ tx' = Tail(tx) /\ UNCHANGED <<lost, losses>>
        BY <1>1 DEF Accept
    <2>2. /\ ran' \in [DOMAIN frames -> Nat] /\ bus' \subseteq RcvLine
          /\ pc = "flush" => ran' = ran
          /\ Same
        <3>1. CASE Refuses(Head(tx))
            BY <1>1, <2>1, <3>1
            DEF Accept, BaseInv, TypeOK, LinesInv, Placed, Known, Ours, Late, Reply, Rcv, Asks,
                OfThisCall, callVars, configVars
        <3>2. CASE ~Refuses(Head(tx))
            BY <1>1, <2>1, <3>2, CarriedOut DEF Accept, callVars, configVars
        <3> QED BY <3>1, <3>2
    <2>3. rx' = rx \/ \E line \in {OK, ERR} \cup bus : rx' = Append(rx, line)
        BY <1>1 DEF Accept
    <2>4. tx' \in Seq(RequestLine) /\ rx' \in Seq(Line) /\ LinesInv'
        BY <1>1, <2>1, <2>2, <2>3, DeviceLines
    <2> QED BY <1>0, <1>1, <2>1, <2>2, <2>4 DEF BaseInv, TypeOK
<1>2. ASSUME BaseInv, Ignore PROVE BaseInv'
    <2>1. /\ Rest /\ tx # <<>> /\ tx' = Tail(tx)
          /\ UNCHANGED <<bus, rx, ran, lost, losses>>
        BY <1>2 DEF Ignore, historyVars
    <2>2. bus' \subseteq RcvLine /\ Same
        BY <1>2, <2>1
        DEF BaseInv, TypeOK, LinesInv, Placed, Known, Ours, Late, Reply, Rcv, Asks,
            OfThisCall, callVars, configVars
    <2>3. tx' \in Seq(RequestLine) /\ rx' \in Seq(Line) /\ LinesInv'
        BY <1>2, <2>1, <2>2, DeviceLines
    <2> QED BY <1>0, <1>2, <2>1, <2>2, <2>3 DEF BaseInv, TypeOK
<1>3. ASSUME BaseInv, NEW line, Loses(line), Placed(line), UNCHANGED call
      PROVE  lost' \subseteq DOMAIN frames /\ (pc = "flush" => lost' = lost) /\ losses' \in 0..MaxLosses
    <2>1. lost \subseteq DOMAIN frames /\ losses \in 0..MaxLosses /\ MaxLosses \in Nat /\ call \in Nat
        BY <1>3, TransportAssumption DEF BaseInv, TypeOK
    <2> QED BY <1>3, <2>1 DEF Loses, Placed, Known, Ours, Late
<1>4. ASSUME BaseInv, LoseLine PROVE BaseInv'
    <2>1. Rest /\ tx # <<>> /\ tx' = Tail(tx) /\ rx' = rx /\ Loses(Head(tx))
        BY <1>4 DEF LoseLine
    <2>2. /\ ran' \in [DOMAIN frames -> Nat] /\ bus' \subseteq RcvLine
          /\ pc = "flush" => ran' = ran
          /\ Same
        <3>1. CASE UNCHANGED <<ran, bus>>
            BY <1>4, <2>1, <3>1
            DEF BaseInv, TypeOK, LinesInv, Placed, Known, Ours, Late, Reply, Rcv, Asks,
                OfThisCall, callVars, configVars
        <3>2. CASE CarryOut(Head(tx))
            BY <1>4, <2>1, <3>2, CarriedOut DEF callVars, configVars
        <3> QED BY <1>4, <3>1, <3>2 DEF LoseLine
    <2>3. tx' \in Seq(RequestLine) /\ rx' \in Seq(Line) /\ LinesInv'
        BY <1>4, <2>1, <2>2, DeviceLines
    <2>4. Placed(Head(tx)) BY <1>4, <2>1 DEF BaseInv, TypeOK, LinesInv
    <2> QED BY <1>0, <1>3, <1>4, <2>1, <2>2, <2>3, <2>4 DEF callVars
<1>5. ASSUME BaseInv, Deliver PROVE BaseInv'
    <2>1. PICK answer \in bus : bus' = bus \ {answer} /\ rx' = Append(rx, answer)
        BY <1>5 DEF Deliver
    <2>2. Rest /\ tx' = tx /\ UNCHANGED <<ran, lost, losses>> BY <1>5 DEF Deliver, historyVars
    <2>3. bus' \subseteq RcvLine /\ Same
        BY <1>5, <2>1, <2>2
        DEF BaseInv, TypeOK, LinesInv, Placed, Known, Ours, Late, Reply, Rcv, Asks,
            OfThisCall, callVars, configVars
    <2>4. tx' \in Seq(RequestLine) /\ rx' \in Seq(Line) /\ LinesInv'
        BY <1>5, <2>1, <2>2, <2>3, DeviceLines
    <2> QED BY <1>0, <1>5, <2>2, <2>3, <2>4 DEF BaseInv, TypeOK
<1>6. ASSUME BaseInv, LoseAnswer PROVE BaseInv'
    <2>1. PICK answer \in bus : bus' = bus \ {answer} /\ Loses(answer)
        BY <1>6 DEF LoseAnswer
    <2>2. Rest /\ UNCHANGED <<tx, rx, ran>> BY <1>6 DEF LoseAnswer
    <2>3. bus' \subseteq RcvLine /\ Same
        BY <1>6, <2>1, <2>2
        DEF BaseInv, TypeOK, LinesInv, Placed, Known, Ours, Late, Reply, Rcv, Asks,
            OfThisCall, callVars, configVars
    <2>4. tx' \in Seq(RequestLine) /\ rx' \in Seq(Line) /\ LinesInv'
        BY <1>6, <2>2, <2>3, DeviceLines
    <2>5. Placed(answer) BY <1>6 DEF BaseInv, LinesInv
    <2> QED BY <1>0, <1>3, <1>6, <2>1, <2>2, <2>3, <2>4, <2>5 DEF BaseInv, TypeOK, callVars
<1> QED BY <1>1, <1>2, <1>4, <1>5, <1>6 DEF Device

LEMMA StutterBase == BaseInv /\ UNCHANGED vars => BaseInv'
BY LinesRest
DEF vars, configVars, callVars, waitVars, lineVars, historyVars, BaseInv, TypeOK, ControlInv,
    Size, Current

LEMMA BaseStep == BaseInv /\ QuietAtFlush /\ [Next]_vars => BaseInv'
BY CycleBase, FlushBase, SendBase, ChunkBase, OkBase, RcvBase, CompleteBase, DeviceBase,
   StutterBase
DEF Next, Thread, Over

----------------------------------------------------------------------------
(* Answers are traced. *)

(* What was read is with the replies, the rest still in the line. *)
LEMMA ReadMoves ==
    ASSUME TypeOK, ConsumeData, TakeReplies, NEW line, IsRcv(line), NEW k \in DOMAIN rx, rx[k] = line
    PROVE  line \in replies' \/ \E j \in DOMAIN rx' : rx'[j] = line
<1>1. rx # <<>> /\ rx' = Unread BY DEF ConsumeData
<1>2. rx \in Seq(Line) /\ Len(Read) \in Nat /\ Unread \in Seq(Line) /\ Read \in Seq(Line)
      /\ Len(rx) = Len(Read) + Len(Unread)
    BY <1>1, ReadFacts DEF TypeOK, Line
<1>3. CASE k <= Len(Read)
    <2>1. k \in DOMAIN Read /\ Read[k] = line BY <1>1, <1>2, <1>3, ReadFacts
    <2> QED BY <2>1 DEF TakeReplies, Rcvs
<1>4. CASE k > Len(Read)
    <2>1. k - Len(Read) \in DOMAIN Unread BY <1>2, <1>4
    <2>2. Unread[k - Len(Read)] = rx[(k - Len(Read)) + Len(Read)] BY <1>1, <2>1, ReadFacts
    <2>3. (k - Len(Read)) + Len(Read) = k BY <1>2
    <2> QED BY <1>1, <2>1, <2>2, <2>3
<1> QED BY <1>2, <1>3, <1>4

LEMMA TracedStep == BaseInv /\ Traced /\ [Next]_vars => Traced'
<1> SUFFICES ASSUME BaseInv, Traced, [Next]_vars,
                    NEW i \in DOMAIN frames', ran'[i] > 0, frames'[i].reply_required
             PROVE  Somewhere(i)'
    BY DEF Traced
<1>1. CASE Cycle
    BY <1>1 DEF Cycle
<1>2. CASE Flush
    <2>1. ran[i] = 0 /\ ran' = ran
        BY <1>2 DEF Flush, callVars, historyVars, BaseInv, ControlInv
    <2> QED BY <2>1
<1> SUFFICES ASSUME ~Cycle, ~Flush PROVE Somewhere(i)'
    BY <1>1, <1>2
<1>3. CASE CheckReplies \/ WaitForOk \/ WaitForReply
    <2>1. /\ ConsumeData /\ TakeReplies
          /\ UNCHANGED <<callVars, ran, lost>>
        BY <1>3 DEF CheckReplies, WaitForOk, WaitForReply, historyVars
    <2>2. IsRcv(Answer(i)) BY DEF IsRcv, Answer, Rcv
    <2>3. Somewhere(i) BY <2>1 DEF Traced, callVars
    <2>4. Answer(i)' = Answer(i) BY <2>1 DEF Answer, callVars
    <2>5. replies \subseteq replies' /\ bus' = bus BY <2>1 DEF TakeReplies, ConsumeData
    <2>6. InRx(Answer(i)) => Answer(i) \in replies' \/ \E j \in DOMAIN rx' : rx'[j] = Answer(i)
        BY <2>1, <2>2, ReadMoves DEF InRx, BaseInv
    <2> QED BY <2>1, <2>3, <2>4, <2>5, <2>6 DEF Somewhere, InRx
<1>4. CASE FlushOver \/ SendChunk \/ SendUart \/ CheckTimeout \/ OkTimeout \/ ReplyTimeout
           \/ Complete \/ Over \/ UNCHANGED vars
    <2>1. UNCHANGED <<callVars, bus, rx, replies, ran, lost>>
        BY <1>4
        DEF FlushOver, SendChunk, SendUart, CheckTimeout, OkTimeout, ReplyTimeout, Complete, Over,
            vars, lineVars, historyVars
    <2> QED BY <2>1 DEF Traced, Somewhere, InRx, Answer, callVars
<1>5. CASE Device
    <2>1. UNCHANGED <<callVars, replies, pc>> /\ lost \subseteq lost'
        BY <1>5
        DEF Device, Accept, Ignore, LoseLine, Deliver, LoseAnswer, Loses, historyVars
    <2>2. Answer(i)' = Answer(i) /\ i \in DOMAIN frames BY <2>1 DEF Answer, callVars
    <2>3. rx \in Seq(Line) BY DEF BaseInv, TypeOK, Line
    <2>4. InRx(Answer(i)) => InRx(Answer(i))'
        <3>1. rx' = rx \/ \E line : rx' = Append(rx, line)
            BY <1>5 DEF Device, Accept, Ignore, LoseLine, Deliver, LoseAnswer, historyVars
        <3> QED BY <2>2, <2>3, <3>1 DEF InRx
    <2>5. Answer(i) \in bus => Somewhere(i)'
        <3>1. CASE Answer(i) \in bus' BY <2>2, <3>1 DEF Somewhere
        <3>2. CASE Answer(i) \in bus \ bus'
            <4>1. CASE Deliver
                <5>1. rx' = Append(rx, Answer(i)) BY <3>2, <4>1 DEF Deliver
                <5>2. Len(rx) + 1 \in DOMAIN rx' /\ rx'[Len(rx) + 1] = Answer(i)
                    BY <2>3, <5>1
                <5> QED BY <2>2, <5>2 DEF Somewhere, InRx
            <4>2. CASE LoseAnswer
                <5>1. Loses(Answer(i)) BY <3>2, <4>2 DEF LoseAnswer
                <5> QED BY <5>1 DEF Loses, Answer, Rcv, Somewhere
            <4>3. CASE Accept \/ Ignore \/ LoseLine
                BY <3>2, <4>3 DEF Accept, Ignore, LoseLine, CarryOut
            <4> QED BY <1>5, <4>1, <4>2, <4>3 DEF Device
        <3> QED BY <3>1, <3>2
    <2>6. CASE ran'[i] = ran[i]
        <3>1. Somewhere(i) BY <2>1, <2>2, <2>6 DEF Traced, callVars
        <3> QED BY <2>1, <2>2, <2>4, <2>5, <3>1 DEF Somewhere
    <2>7. CASE ran'[i] # ran[i]
        <3>1. /\ tx # <<>> /\ CarryOut(Head(tx))
            BY <1>5, <2>7
            DEF Device, Accept, Ignore, LoseLine, Deliver, LoseAnswer, historyVars
        <3>2. Head(tx).call = call /\ Head(tx).frame = i
            BY <2>7, <2>2, <3>1 DEF CarryOut, BaseInv, TypeOK
        <3>3. Head(tx) = tx[1] /\ 1 \in DOMAIN tx BY <3>1 DEF BaseInv, TypeOK
        <3>4. pc # "flush" /\ Head(tx).reply_required
              /\ Head(tx).source = frames[i].destination
            BY <2>1, <3>2, <3>3, <2>2
            DEF BaseInv, TypeOK, LinesInv, Placed, Known, Ours, Late, Sent, OfThisCall, callVars
        <3>5. Reply(Head(tx)) = Answer(i) BY <3>2, <3>4 DEF Reply, Answer
        <3> QED BY <2>2, <3>1, <3>4, <3>5 DEF CarryOut, Somewhere
    <2> QED BY <2>6, <2>7
<1> QED BY <1>3, <1>4, <1>5 DEF Next, Thread

LEMMA InitTraced == Init => Traced
BY DEF Init, Traced

----------------------------------------------------------------------------
(* A frame on a UART. *)

LEMMA CreditFacts ==
    ASSUME TypeOK
    PROVE  losses \in Nat /\ Credit \in Nat /\ Setbacks \in Nat /\ Credit <= Setbacks
           /\ attempt \in Nat
<1>1. losses \in Nat /\ attempt \in Nat BY TransportAssumption DEF TypeOK
<1> QED BY <1>1 DEF Credit, Setbacks

(* A UART is read to the end, and an OK among the lines is seen. *)
LEMMA VerdictRead ==
    ASSUME TypeOK, kind = "uart", ConsumeData
    PROVE  /\ Verdicts' = {}
           /\ Oks > 0 <=> "OK" \in Verdicts
           /\ checksum_active_' = (checksum_active_ \/ "ERR" \in Verdicts)
<1>1. rx # <<>> /\ rx' = <<>> /\ Read = rx BY DEF ConsumeData, Unread, Read
<1>2. Verdicts' = {} BY <1>1 DEF Verdicts
<1>3. Oks > 0 <=> "OK" \in Verdicts
    <2> DEFINE OkLines == {i \in DOMAIN rx : rx[i].type = "OK"}
    <2>1. rx \in Seq(Line) BY DEF TypeOK, Line
    <2>2. DOMAIN rx = 1..Len(rx) /\ Len(rx) \in Nat BY <2>1
    <2>3. IsFiniteSet(DOMAIN rx) BY <2>2, FS_Interval
    <2>4. IsFiniteSet(OkLines) BY <2>3, FS_Subset
    <2>5. Oks = Cardinality(OkLines) BY <1>1 DEF Oks
    <2>6. Cardinality(OkLines) \in Nat /\ (Cardinality(OkLines) = 0 <=> OkLines = {})
        BY <2>4, FS_CardinalityType, FS_EmptySet
    <2>7. OkLines # {} <=> "OK" \in Verdicts BY DEF Verdicts
    <2> HIDE DEF OkLines
    <2> QED BY <2>5, <2>6, <2>7
<1>4. checksum_active_' = (checksum_active_ \/ "ERR" \in Verdicts)
    BY <1>1 DEF ConsumeData, ProcessErr, Verdicts
<1> QED BY <1>2, <1>3, <1>4

LEMMA VerdictCame ==
    ASSUME TypeOK, NEW line \in Line, rx' = Append(rx, line)
    PROVE  Verdicts' = Verdicts \cup ({line.type} \ {"rcv"})
<1>1. rx \in Seq(Line) BY DEF TypeOK, Line
<1>2. Len(rx') = Len(rx) + 1 /\ DOMAIN rx' = 1..(Len(rx) + 1) /\ DOMAIN rx = 1..Len(rx)
      /\ Len(rx) \in Nat
    BY <1>1
<1>3. rx'[Len(rx) + 1] = line /\ \A i \in DOMAIN rx : i \in DOMAIN rx' /\ rx'[i] = rx[i]
    BY <1>1
<1>4. \A i \in DOMAIN rx' : i \in DOMAIN rx \/ i = Len(rx) + 1 BY <1>2
<1>5. {rx'[i].type : i \in DOMAIN rx'} = {rx[i].type : i \in DOMAIN rx} \cup {line.type}
    BY <1>2, <1>3, <1>4
<1> QED BY <1>5 DEF Verdicts

LEMMA UartFlush ==
    ASSUME BaseInv, OnUart, kind = "uart", kind' = "uart", Flush \/ FlushOver \/ Complete
    PROVE  OnUart'
<1>1. CASE Flush
    <2>1. /\ UNCHANGED <<configVars, pc, callVars, sent, attempt, historyVars>> /\ ConsumeData
          /\ pc = "flush" /\ tx' = tx
        BY <1>1 DEF Flush, ConsumeData
    <2>2. Verdicts' = {} BY <2>1, VerdictRead DEF BaseInv
    <2>3. attempt' <= Credit'
        <3>1. attempt <= Credit /\ attempt' = attempt BY <2>1 DEF OnUart
        <3>2. Credit' = Credit
            <4>1. Verdicts = {} BY <2>1 DEF OnUart
            <4>2. checksum_active_' = checksum_active_ BY <2>1, <4>1, VerdictRead DEF BaseInv, TypeOK
            <4> QED BY <2>1, <4>2 DEF Credit, configVars, historyVars
        <3> QED BY <3>1, <3>2
    <2> QED BY <2>1, <2>2, <2>3 DEF OnUart, Setbacks, configVars, historyVars
<1>2. CASE FlushOver
    <2>1. /\ UNCHANGED <<configVars, checksum_active_, callVars, sent, attempt, lineVars, ran, acked,
                         lost, losses>>
          /\ pc = "flush" /\ pc' \in {"complete", "send"}
        BY <1>2 DEF FlushOver
    <2>2. Verdicts' = Verdicts /\ Credit' = Credit /\ Setbacks' = Setbacks /\ tx' = tx
        BY <2>1 DEF Verdicts, Credit, Setbacks, configVars, lineVars
    <2> QED BY <2>1, <2>2 DEF OnUart
<1>3. CASE Complete
    <2>1. /\ UNCHANGED <<configVars, checksum_active_, callVars, sent, attempt, lineVars, historyVars>>
          /\ pc = "complete" /\ pc' = "idle"
        BY <1>3 DEF Complete
    <2>2. Verdicts' = Verdicts /\ Setbacks' = Setbacks /\ tx' = tx
        BY <2>1 DEF Verdicts, Setbacks, configVars, lineVars, historyVars
    <2> QED BY <2>1, <2>2 DEF OnUart, historyVars
<1> QED BY <1>1, <1>2, <1>3

LEMMA UartCycle ==
    ASSUME BaseInv, BaseInv', OnUart, Cycle
    PROVE  OnUart'
<1>1. /\ pc = "idle" /\ pc' = "flush" /\ sent' = 0 /\ attempt' = 0 /\ acked' = {}
      /\ UNCHANGED lineVars
    BY DEF Cycle
<1>2. Verdicts' = Verdicts /\ tx' = tx BY <1>1 DEF Verdicts, lineVars
<1>3. Credit' \in Nat
    <2>1. losses' \in Nat BY TransportAssumption DEF BaseInv, TypeOK
    <2>2. Credit' = losses' + 0 \/ Credit' = losses' + 1 BY DEF Credit
    <2> QED BY <2>1, <2>2
<1>4. 1..sent' = {} BY <1>1
<1> QED BY <1>1, <1>2, <1>3, <1>4 DEF OnUart

LEMMA UartSend ==
    ASSUME BaseInv, OnUart, SendUart
    PROVE  OnUart'
<1>1. /\ pc = "send" /\ pc' = "ok"
      /\ UNCHANGED <<configVars, checksum_active_, callVars, sent, attempt, bus, rx, historyVars>>
      /\ tx' = tx \o <<Request(sent + 1)>>
    BY DEF SendUart, Transmit
<1>2. tx = <<>> /\ Verdicts = {} /\ attempt <= Credit BY <1>1 DEF OnUart
<1>3. tx' = <<Request(sent + 1)>> BY <1>1, <1>2
<1>4. Request(sent + 1)' = Request(sent + 1) BY <1>1 DEF Request, callVars
<1>5. Verdicts' = Verdicts /\ Credit' = Credit /\ Setbacks' = Setbacks
    BY <1>1 DEF Verdicts, Credit, Setbacks, configVars, historyVars
<1>6. Len(tx') = 1 /\ Head(tx') = Request(sent + 1) BY <1>3
<1>7. OnTheWay' BY <1>1, <1>2, <1>4, <1>5, <1>6 DEF OnTheWay
<1> QED BY <1>1, <1>5, <1>7 DEF OnUart, historyVars

(* On to the next frame, the one in hand being acknowledged. *)
LEMMA UartNext ==
    ASSUME BaseInv, OnUart, NextFrame, pc \in {"ok", "rcv"}, tx' = <<>>, Verdicts' = {},
           Credit' \in Nat, \A i \in acked' : ran'[i] > 0, acked \subseteq acked',
           sent + 1 \in acked' \/ ~(Setbacks <= max_retries), UNCHANGED <<losses, demanding>>
    PROVE  OnUart'
<1>1. sent' = sent + 1 /\ attempt' = 0 /\ pc' # "ok" /\ sent \in Nat
    BY NextFrameFacts DEF BaseInv, TypeOK
<1>2. Setbacks' = Setbacks BY DEF Setbacks
<1>3. Setbacks <= max_retries => \A i \in 1..sent' : i \in acked'
    <2> SUFFICES ASSUME Setbacks <= max_retries, NEW i \in 1..(sent + 1) PROVE i \in acked'
        BY <1>1
    <2>1. CASE i = sent + 1 BY <2>1
    <2>2. CASE i \in 1..sent BY <2>2 DEF OnUart
    <2> QED BY <1>1, <2>1, <2>2
<1>4. attempt' <= Credit' BY <1>1
<1> QED BY <1>1, <1>2, <1>3, <1>4 DEF OnUart

LEMMA UartOk ==
    ASSUME BaseInv, OnUart, kind = "uart", WaitForOk
    PROVE  OnUart'
<1>1. /\ pc = "ok" /\ ConsumeData /\ tx' = tx
      /\ UNCHANGED <<configVars, callVars, ran, lost, losses>>
    BY DEF WaitForOk, ConsumeData
<1>2. /\ Verdicts' = {} /\ (Oks > 0 <=> "OK" \in Verdicts)
      /\ checksum_active_' = (checksum_active_ \/ "ERR" \in Verdicts)
    BY <1>1, VerdictRead DEF BaseInv
<1>3. OnTheWay \/ Granted \/ Refused \/ Failed BY <1>1 DEF OnUart
<1>4. Setbacks' = Setbacks BY <1>1 DEF Setbacks, configVars
<1>5. CASE Granted
    <2>1. Oks > 0 /\ checksum_active_' = checksum_active_
        BY <1>2, <1>5 DEF Granted, BaseInv, TypeOK
    <2>2. Acknowledged BY <2>1 DEF WaitForOk
    <2>3. acked' = acked \cup {sent + 1} /\ \A i \in acked' : ran'[i] > 0
        BY <1>1, <1>5, <2>2 DEF Acknowledged, Granted, OnUart
    <2>4. tx' = <<>> BY <1>1, <1>5 DEF Granted
    <2>5. CASE NextFrame
        <3>1. Credit' \in Nat
            <4>1. Credit' = Credit BY <1>1, <2>1 DEF Credit, configVars
            <4> QED BY <4>1, CreditFacts DEF BaseInv
        <3> QED BY <1>1, <1>2, <2>3, <2>4, <2>5, <3>1, UartNext DEF configVars
    <2>6. CASE pc' = "rcv" /\ sent' = sent
        BY <1>2, <1>4, <2>3, <2>4, <2>6 DEF OnUart
    <2> QED BY <2>2, <2>5, <2>6 DEF Acknowledged
<1>6. CASE ~Granted
    <2>1. ~(Oks > 0) BY <1>2, <1>3, <1>6 DEF OnTheWay, Refused, Failed
    <2>2. UNCHANGED <<pc, sent, attempt, acked>> BY <2>1 DEF WaitForOk
    <2>3. CASE OnTheWay
        <3>1. checksum_active_' = checksum_active_ BY <1>2, <2>3 DEF OnTheWay, BaseInv, TypeOK
        <3>2. Credit' = Credit BY <1>1, <3>1 DEF Credit, configVars
        <3>3. Request(sent + 1)' = Request(sent + 1)
            BY <1>1, <2>2, <3>1 DEF Request, callVars
        <3>4. OnTheWay' BY <1>1, <1>2, <2>2, <2>3, <3>2, <3>3 DEF OnTheWay
        <3> QED BY <1>1, <1>2, <1>4, <2>2, <3>4 DEF OnUart
    <2>4. CASE Failed
        <3>1. checksum_active_' = checksum_active_ BY <1>2, <2>4 DEF Failed, BaseInv, TypeOK
        <3>2. Credit' = Credit BY <1>1, <3>1 DEF Credit, configVars
        <3>3. Failed' BY <1>1, <1>2, <2>2, <2>4, <3>2 DEF Failed, configVars
        <3> QED BY <1>1, <1>2, <1>4, <2>2, <3>3 DEF OnUart
    <2>5. CASE Refused
        <3>1. checksum_active_' = TRUE BY <1>2, <2>5 DEF Refused
        <3>2. Credit = losses + 0 /\ Credit' = losses + 1
            BY <1>1, <2>5, <3>1 DEF Credit, Refused, configVars
        <3>3. attempt' < Credit'
            BY <2>2, <2>5, <3>2, CreditFacts DEF Refused, BaseInv
        <3>4. Failed' BY <1>1, <1>2, <2>5, <3>3 DEF Failed, Refused, configVars
        <3> QED BY <1>1, <1>2, <1>4, <2>2, <3>4 DEF OnUart
    <2> QED BY <1>3, <1>6, <2>3, <2>4, <2>5
<1> QED BY <1>5, <1>6

(* The wait for an OK ends without one only when the attempt failed. *)
LEMMA OkTimeoutFails ==
    ASSUME BaseInv, OnUart, device = "prompt", pc = "ok", TimedOut
    PROVE  Failed
<1>1. rx = <<>> /\ tx = <<>> BY DEF TimedOut, Quiet
<1>2. Verdicts = {} BY <1>1 DEF Verdicts
<1>3. ~OnTheWay BY <1>1 DEF OnTheWay
<1> QED BY <1>2, <1>3 DEF OnUart, Granted, Refused

LEMMA UartTimeout ==
    ASSUME BaseInv, OnUart, device = "prompt", OkTimeout
    PROVE  OnUart'
<1>1. /\ pc = "ok"
      /\ UNCHANGED <<configVars, checksum_active_, callVars, lineVars, historyVars>>
    BY DEF OkTimeout
<1>2. Failed BY <1>1, OkTimeoutFails DEF OkTimeout
<1>3. Verdicts' = Verdicts /\ Credit' = Credit /\ Setbacks' = Setbacks /\ tx' = tx
    BY <1>1 DEF Verdicts, Credit, Setbacks, configVars, lineVars, historyVars
<1>4. Credit \in Nat /\ Setbacks \in Nat /\ Credit <= Setbacks /\ attempt \in Nat
    BY CreditFacts DEF BaseInv
<1>5. max_retries \in Nat BY TransportAssumption
<1>6. CASE RetriesLeft
    <2>1. pc' = "send" /\ attempt' = Smaller(attempt + 1, max_retries) /\ sent' = sent
        BY <1>6 DEF OkTimeout
    <2>2. attempt' <= attempt + 1 BY <1>4, <1>5, <2>1 DEF Smaller
    <2>3. attempt' \in Nat BY <1>4, <1>5, <2>1 DEF Smaller
    <2>4. attempt' <= Credit'
        BY <1>2, <1>3, <1>4, <2>2, <2>3 DEF Failed
    <2> QED BY <1>1, <1>2, <1>3, <2>1, <2>4 DEF OnUart, Failed, historyVars
<1>7. CASE ~RetriesLeft
    <2>1. NextFrame BY <1>7 DEF OkTimeout
    <2>2. ~(Setbacks <= max_retries) BY <1>2, <1>4, <1>5, <1>7 DEF RetriesLeft, Failed
    <2>3. tx' = <<>> /\ Verdicts' = {} /\ Credit' \in Nat BY <1>2, <1>3, <1>4 DEF Failed
    <2>4. acked' = acked /\ ran' = ran /\ UNCHANGED <<losses, demanding>>
        BY <1>1 DEF historyVars, configVars
    <2>5. \A i \in acked' : ran'[i] > 0 BY <2>4 DEF OnUart
    <2> QED BY <1>1, <2>1, <2>2, <2>3, <2>4, <2>5, UartNext
<1> QED BY <1>6, <1>7

LEMMA UartReply ==
    ASSUME BaseInv, OnUart, kind = "uart", WaitForReply \/ ReplyTimeout
    PROVE  OnUart'
<1>1. /\ pc = "rcv" /\ tx' = tx
      /\ UNCHANGED <<configVars, callVars, historyVars>>
      /\ NextFrame \/ UNCHANGED <<pc, sent, attempt>>
    BY DEF WaitForReply, ReplyTimeout, ConsumeData, lineVars
<1>2. tx = <<>> /\ Verdicts = {} BY <1>1 DEF OnUart
<1>3. Verdicts' = {} /\ checksum_active_' = checksum_active_
    <2>1. CASE WaitForReply
        BY <1>2, <2>1, VerdictRead DEF WaitForReply, BaseInv, TypeOK
    <2>2. CASE ReplyTimeout
        BY <1>2, <2>2 DEF ReplyTimeout, lineVars, Verdicts
    <2> QED BY <2>1, <2>2
<1>4. Credit' = Credit /\ Credit \in Nat
    BY <1>1, <1>3, CreditFacts DEF Credit, configVars, historyVars, BaseInv
<1>5. sent + 1 \in acked BY <1>1 DEF BaseInv, ControlInv
<1>6. acked' = acked /\ ran' = ran /\ UNCHANGED <<losses, demanding>>
    BY <1>1 DEF historyVars, configVars
<1>7. \A i \in acked' : ran'[i] > 0 BY <1>6 DEF OnUart
<1>8. CASE NextFrame BY <1>1, <1>2, <1>3, <1>4, <1>5, <1>6, <1>7, <1>8, UartNext
<1>9. CASE UNCHANGED <<pc, sent, attempt>>
    BY <1>1, <1>2, <1>3, <1>6, <1>7, <1>9 DEF OnUart, Setbacks
<1> QED BY <1>1, <1>8, <1>9

LEMMA UartDevice ==
    ASSUME BaseInv, OnUart, kind = "uart", device = "prompt", Device
    PROVE  OnUart'
<1>1. /\ UNCHANGED <<configVars, checksum_active_, pc, callVars, sent, attempt, acked, overdue>>
      /\ Setbacks' >= Setbacks /\ Credit' >= Credit /\ lost \subseteq lost'
      /\ losses' = losses \/ losses' = losses + 1
    <2>1. /\ UNCHANGED <<configVars, checksum_active_, pc, callVars, sent, attempt, acked, overdue>>
          /\ losses' = losses \/ losses' = losses + 1
          /\ lost \subseteq lost'
        BY DEF Device, Accept, Ignore, LoseLine, Deliver, LoseAnswer, Loses, historyVars
    <2>2. losses \in Nat BY CreditFacts DEF BaseInv
    <2>3. Setbacks' >= Setbacks BY <2>1, <2>2 DEF Setbacks, configVars
    <2>4. Credit' >= Credit BY <2>1, <2>2 DEF Credit, configVars
    <2> QED BY <2>1, <2>3, <2>4
<1>2. Request(sent + 1)' = Request(sent + 1) BY <1>1 DEF Request, callVars
<1>3. Credit \in Nat /\ Setbacks \in Nat /\ attempt \in Nat /\ max_retries \in Nat
    BY CreditFacts, TransportAssumption DEF BaseInv
<1>4. Credit' \in Nat /\ Setbacks' \in Nat
    <2>1. losses' \in Nat BY <1>1, CreditFacts DEF BaseInv
    <2>2. Credit' = losses' + 0 \/ Credit' = losses' + 1 BY DEF Credit
    <2>3. Setbacks' = losses' + 0 \/ Setbacks' = losses' + 1 BY DEF Setbacks
    <2> QED BY <2>1, <2>2, <2>3
<1>5. attempt <= Credit => attempt' <= Credit' BY <1>1, <1>3, <1>4
<1>6. attempt < Credit => attempt' < Credit' BY <1>1, <1>3, <1>4
<1>7. ASSUME \A i \in DOMAIN frames : ran'[i] >= ran[i]
      PROVE  /\ \A i \in acked' : ran'[i] > 0
             /\ Setbacks' <= max_retries => \A i \in 1..sent' : i \in acked'
    <2>1. acked \subseteq DOMAIN frames /\ ran \in [DOMAIN frames -> Nat]
          /\ acked' = acked /\ sent' = sent
        BY <1>1 DEF BaseInv, TypeOK
    <2>2. \A i \in acked : ran[i] > 0 BY DEF OnUart
    <2>3. ASSUME NEW i \in acked PROVE ran'[i] > 0
        <3>1. i \in DOMAIN frames /\ ran[i] \in Nat /\ ran[i] > 0 BY <2>1, <2>2
        <3>2. ran'[i] >= ran[i] /\ ran'[i] \in Nat
            <4>1. ran'[i] >= ran[i] BY <1>7, <3>1
            <4>2. BaseInv' BY DeviceBase
            <4>3. ran'[i] \in Nat BY <1>1, <3>1, <4>2 DEF BaseInv, TypeOK, callVars
            <4> QED BY <4>1, <4>3
        <3> QED BY <3>1, <3>2
    <2>4. Setbacks' <= max_retries => Setbacks <= max_retries BY <1>1, <1>3, <1>4
    <2> QED BY <2>1, <2>3, <2>4 DEF OnUart
<1>8. ASSUME UNCHANGED tx, Verdicts' = Verdicts, \A i \in DOMAIN frames : ran'[i] >= ran[i]
      PROVE  OnUart'
    <2>1. OnTheWay => OnTheWay' BY <1>1, <1>2, <1>5, <1>8 DEF OnTheWay
    <2>2. Refused => Refused' BY <1>1, <1>5, <1>8 DEF Refused, configVars
    <2>3. Failed => Failed' BY <1>1, <1>6, <1>8 DEF Failed, configVars
    <2>4. ASSUME Granted, pc = "ok" PROVE Granted'
        <3>1. sent + 1 \in DOMAIN frames /\ ran[sent + 1] \in Nat
            BY <2>4 DEF BaseInv, TypeOK, ControlInv, Size
        <3>2. ran'[sent + 1] \in Nat
            <4>1. BaseInv' BY DeviceBase
            <4> QED BY <1>1, <3>1, <4>1 DEF BaseInv, TypeOK, callVars
        <3>3. ran'[sent + 1] >= ran[sent + 1] BY <1>8, <3>1
        <3>4. ran'[sent' + 1] > 0 BY <1>1, <2>4, <3>1, <3>2, <3>3 DEF Granted
        <3> QED BY <1>1, <1>5, <1>8, <2>4, <3>4 DEF Granted
    <2> QED BY <1>1, <1>5, <1>7, <1>8, <2>1, <2>2, <2>3, <2>4 DEF OnUart
<1>9. \A i \in DOMAIN frames : ran[i] \in Nat BY DEF BaseInv, TypeOK
(* What takes a line takes that of the attempt in hand. *)
<1>10. ASSUME tx # <<>>, tx' = Tail(tx)
       PROVE  /\ pc = "ok" /\ OnTheWay /\ tx' = <<>> /\ Head(tx) = Request(sent + 1)
              /\ sent + 1 \in DOMAIN frames /\ Head(tx).frame = sent + 1
              /\ Head(tx).call = call /\ Head(tx).checksum = checksum_active_
    <2>1. pc = "ok" /\ OnTheWay BY <1>10 DEF OnUart, Granted, Refused, Failed
    <2>2. tx' = <<>>
        <3>1. tx \in Seq(RequestLine) /\ Len(tx) = 1 BY <2>1 DEF OnTheWay, BaseInv, TypeOK
        <3>2. tx' \in Seq(RequestLine) /\ Len(tx') = 0 BY <1>10, <3>1
        <3> QED BY <3>2
    <2>3. sent + 1 \in DOMAIN frames BY <2>1 DEF BaseInv, TypeOK, ControlInv, Size
    <2> QED BY <2>1, <2>2, <2>3 DEF OnTheWay, Request
<1>11. CASE Accept
    <2>1. tx # <<>> /\ tx' = Tail(tx) BY <1>11 DEF Accept
    <2>2. /\ pc = "ok" /\ OnTheWay /\ tx' = <<>> /\ Head(tx) = Request(sent + 1)
          /\ sent + 1 \in DOMAIN frames /\ Head(tx).frame = sent + 1
          /\ Head(tx).call = call /\ Head(tx).checksum = checksum_active_
        BY <2>1, <1>10
    <2>3. CASE Refuses(Head(tx))
        <3>1. rx' = Append(rx, ERR) /\ ran' = ran BY <1>11, <2>3 DEF Accept
        <3>2. ERR \in Line /\ ERR.type = "ERR" BY DEF Line, ERR
        <3>3. Verdicts' = Verdicts \cup ({ERR.type} \ {"rcv"})
            BY <3>1, <3>2, VerdictCame DEF BaseInv
        <3>4. Verdicts' = {"ERR"} BY <2>2, <3>2, <3>3 DEF OnTheWay
        <3>5. Refused' BY <1>1, <1>5, <2>2, <2>3, <3>4 DEF Refuses, Refused, OnTheWay, configVars
        <3>6. \A i \in DOMAIN frames : ran'[i] >= ran[i] BY <3>1, <1>9
        <3> QED BY <1>1, <1>7, <2>2, <3>5, <3>6 DEF OnUart
    <2>4. CASE ~Refuses(Head(tx))
        <3>1. CarryOut(Head(tx)) /\ rx' = Append(rx, OK) BY <1>11, <2>4 DEF Accept
        <3>2. OK \in Line /\ OK.type = "OK" BY DEF Line, OK
        <3>3. Verdicts' = Verdicts \cup ({OK.type} \ {"rcv"})
            BY <3>1, <3>2, VerdictCame DEF BaseInv
        <3>4. Verdicts' = {"OK"} BY <2>2, <3>2, <3>3 DEF OnTheWay
        <3>5. ran' = [ran EXCEPT ![sent + 1] = @ + 1] BY <2>2, <3>1 DEF CarryOut
        <3>6. ran'[sent + 1] = ran[sent + 1] + 1 BY <2>2, <3>5 DEF BaseInv, TypeOK
        <3>7. \A i \in DOMAIN frames : ran'[i] >= ran[i]
            BY <1>1, <2>1, <3>1, CarriedOut DEF configVars, callVars
        <3>8. Granted'
            BY <1>1, <1>5, <1>9, <2>2, <3>4, <3>6 DEF Granted, OnTheWay
        <3> QED BY <1>1, <1>7, <2>2, <3>7, <3>8 DEF OnUart
    <2> QED BY <2>3, <2>4
<1>12. CASE Ignore BY <1>12 DEF Ignore
<1>13. CASE LoseLine
    <2>1. tx # <<>> /\ tx' = Tail(tx) /\ rx' = rx /\ Loses(Head(tx)) BY <1>13 DEF LoseLine
    <2>2. /\ pc = "ok" /\ OnTheWay /\ tx' = <<>> /\ Head(tx) = Request(sent + 1)
          /\ sent + 1 \in DOMAIN frames /\ Head(tx).frame = sent + 1 /\ Head(tx).call = call
        BY <2>1, <1>10
    <2>3. sent + 1 \in lost' /\ losses' = losses + 1 BY <2>1, <2>2 DEF Loses
    <2>4. Verdicts' = {} BY <2>1, <2>2 DEF Verdicts, OnTheWay
    <2>5. \A i \in DOMAIN frames : ran'[i] >= ran[i]
        <3>1. CASE ran' = ran BY <1>9, <3>1
        <3>2. CASE CarryOut(Head(tx))
            BY <1>1, <2>1, <3>2, CarriedOut DEF configVars, callVars
        <3> QED BY <1>13, <3>1, <3>2 DEF LoseLine
    <2>6. attempt' < Credit'
        <3>1. Credit' = Credit + 1
            <4>1. losses \in Nat BY CreditFacts DEF BaseInv
            <4> QED BY <1>1, <2>3, <4>1 DEF Credit, configVars
        <3> QED BY <1>1, <1>3, <2>2, <3>1 DEF OnTheWay
    <2>7. Failed' BY <1>1, <2>2, <2>3, <2>4, <2>6 DEF Failed
    <2> QED BY <1>1, <1>7, <2>2, <2>5, <2>7 DEF OnUart
<1>14. CASE Deliver
    <2>1. PICK answer \in bus : rx' = Append(rx, answer) BY <1>14 DEF Deliver
    <2>2. answer \in Line /\ answer.type = "rcv" BY DEF BaseInv, TypeOK, Line, RcvLine
    <2>3. Verdicts' = Verdicts BY <2>1, <2>2, VerdictCame DEF BaseInv
    <2>4. ran' = ran /\ tx' = tx BY <1>14 DEF Deliver, historyVars
    <2> QED BY <1>8, <1>9, <2>3, <2>4
<1>15. CASE LoseAnswer
    <2>1. UNCHANGED <<tx, rx, ran>> BY <1>15 DEF LoseAnswer
    <2>2. Verdicts' = Verdicts BY <2>1 DEF Verdicts
    <2> QED BY <1>8, <1>9, <2>1, <2>2
<1> QED BY <1>11, <1>12, <1>13, <1>14, <1>15 DEF Device

LEMMA InitUart == Init => UartInv
BY DEF Init, UartInv, OnUart, Verdicts, Credit, Setbacks

LEMMA UartStep == BaseInv /\ UartInv /\ [Next]_vars => UartInv'
<1> SUFFICES ASSUME BaseInv, UartInv, [Next]_vars, device' = "prompt", kind' = "uart"
             PROVE  OnUart'
    BY DEF UartInv
<1>1. device = "prompt" /\ kind = "uart"
    BY DEF Next, Thread, Device, Over, Cycle, Flush, FlushOver, SendChunk, CheckReplies, CheckTimeout,
           SendUart, WaitForOk, OkTimeout, WaitForReply, ReplyTimeout, Complete, Accept, Ignore,
           LoseLine, Deliver, LoseAnswer, vars, configVars
<1>2. OnUart BY <1>1 DEF UartInv
<1>4. CASE Cycle BY <1>2, <1>4, CycleBase, UartCycle
<1>5. CASE Flush \/ FlushOver \/ Complete BY <1>1, <1>2, <1>5, UartFlush
<1>6. CASE SendChunk \/ CheckReplies \/ CheckTimeout
    BY <1>1, <1>6 DEF SendChunk, CheckReplies, CheckTimeout, BaseInv, ControlInv
<1>7. CASE SendUart BY <1>2, <1>7, UartSend
<1>8. CASE WaitForOk BY <1>1, <1>2, <1>8, UartOk
<1>9. CASE OkTimeout BY <1>1, <1>2, <1>9, UartTimeout
<1>10. CASE WaitForReply \/ ReplyTimeout BY <1>1, <1>2, <1>10, UartReply
<1>11. CASE Device BY <1>1, <1>2, <1>11, UartDevice
<1>12. CASE Over \/ UNCHANGED vars
    <2>1. UNCHANGED <<demanding, checksum_active_, pc, call, frames, sent, attempt, tx, rx, ran,
                      acked, lost, losses>>
        BY <1>12 DEF Over, vars, configVars, callVars, lineVars, historyVars
    <2>2. Verdicts' = Verdicts /\ Credit' = Credit /\ Setbacks' = Setbacks
          /\ Request(sent + 1)' = Request(sent + 1)
        BY <2>1 DEF Verdicts, Credit, Setbacks, Request
    <2>3. OnTheWay' = OnTheWay /\ Granted' = Granted /\ Refused' = Refused /\ Failed' = Failed
        BY <2>1, <2>2 DEF OnTheWay, Granted, Refused, Failed
    <2> QED BY <1>2, <2>1, <2>2, <2>3 DEF OnUart
<1> QED BY <1>4, <1>5, <1>6, <1>7, <1>8, <1>9, <1>10, <1>11, <1>12 DEF Next, Thread

(* At most one answer under way. *)

LEMMA InitSettled == Init => SettledInv
BY DEF Init, SettledInv, Settled, RcvAt

(* A UART is read to the end. *)
LEMMA SettledRead ==
    ASSUME BaseInv, kind = "uart", Settled, pc \in {"ok", "rcv"}, ConsumeData
    PROVE  /\ rx' = <<>> /\ RcvAt' = {} /\ bus' = bus /\ tx' = tx
           /\ CountReplies /\ pc = "rcv" /\ expected_reply_count' = NoReplies => bus = {}
<1>1. rx # <<>> /\ rx' = <<>> /\ Read = rx /\ bus' = bus /\ tx' = tx
    BY DEF ConsumeData, Unread, Read
<1>2. RcvAt' = {} BY <1>1 DEF RcvAt
<1>3. ASSUME CountReplies, pc = "rcv", expected_reply_count' = NoReplies, RcvAt = {} PROVE FALSE
    <2>1. \A m \in Motor : From(m) = 0
        <3> SUFFICES ASSUME NEW m \in Motor PROVE From(m) = 0
            OBVIOUS
        <3>1. {i \in DOMAIN rx : IsRcv(rx[i]) /\ rx[i].source = m} = {} BY <1>3 DEF RcvAt
        <3> QED BY <1>1, <3>1, FS_EmptySet DEF From
    <2>2. \A m \in Motor : expected_reply_count[m] \in Nat BY DEF BaseInv, TypeOK
    <2>3. \A m \in Motor : expected_reply_count'[m] = expected_reply_count[m]
        BY <1>3, <2>1, <2>2 DEF CountReplies, Smaller
    <2>4. \A m \in Motor : expected_reply_count[m] = 0 BY <1>3, <2>3 DEF NoReplies
    <2>5. expected_reply_count = NoReplies BY <2>4 DEF BaseInv, TypeOK, NoReplies
    <2> QED BY <1>3, <2>5 DEF Settled
<1>4. RcvAt # {} => bus = {} BY DEF Settled
<1> QED BY <1>1, <1>2, <1>3, <1>4

LEMMA SettledChild ==
    ASSUME BaseInv, OnUart, OnUart', device = "prompt", kind = "uart", Settled, Cycle \/ Thread
    PROVE  Settled'
<1>1. CASE Cycle BY <1>1 DEF Cycle, Settled, lineVars
<1>2. CASE Flush BY <1>2 DEF Flush, ConsumeData, Settled
<1>3. CASE FlushOver BY <1>3 DEF FlushOver, Settled, lineVars
<1>4. CASE Complete BY <1>4 DEF Complete, Settled, lineVars
<1>5. CASE SendChunk \/ CheckReplies \/ CheckTimeout
    BY <1>5 DEF SendChunk, CheckReplies, CheckTimeout, BaseInv, ControlInv
<1>6. CASE SendUart
    <2>1. bus' = {} /\ rx' = <<>> /\ pc' = "ok" BY <1>6 DEF SendUart, Settled
    <2>2. RcvAt' = {} BY <2>1 DEF RcvAt
    <2> QED BY <2>1, <2>2 DEF Settled
<1>7. CASE WaitForOk
    <2>1. pc = "ok" /\ ConsumeData /\ UNCHANGED callVars BY <1>7 DEF WaitForOk
    <2>2. rx' = <<>> /\ RcvAt' = {} /\ bus' = bus /\ tx' = tx BY <2>1, SettledRead
    <2>3. sent < Size /\ sent \in Nat /\ frames \in Seq(Frame)
        BY <2>1 DEF BaseInv, TypeOK, ControlInv
    <2>4. CASE ~(Oks > 0)
        <3>1. pc' = "ok" /\ Current' = Current
            BY <1>7, <2>1, <2>4 DEF WaitForOk, Current, callVars
        <3> QED BY <2>1, <2>2, <3>1 DEF Settled
    <2>5. CASE Oks > 0 /\ Current.reply_required
        <3>1. /\ pc' = "rcv" /\ Current' = Current
              /\ expected_reply_count' = [NoReplies EXCEPT ![Current.destination] = 1]
            BY <1>7, <2>1, <2>5 DEF WaitForOk, Acknowledged, Current, callVars
        <3>2. Current.destination \in Motor
            <4>1. sent + 1 \in DOMAIN frames BY <2>3 DEF Size
            <4>2. frames[sent + 1] \in Frame BY <2>3, <4>1
            <4> QED BY <4>2 DEF Current, Frame
        <3>3. expected_reply_count'[Current.destination] = 1 BY <3>1, <3>2 DEF NoReplies
        <3>4. expected_reply_count' # NoReplies BY <3>2, <3>3 DEF NoReplies
        <3>5. tx' = <<>> BY <3>1 DEF OnUart
        <3> QED BY <2>1, <2>2, <2>5, <3>1, <3>4, <3>5 DEF Settled, NoReplies
    <2>6. CASE Oks > 0 /\ ~Current.reply_required
        <3>1. NextFrame BY <1>7, <2>6 DEF WaitForOk, Acknowledged
        <3>2. pc' \in {"send", "complete"} BY <2>1, <3>1 DEF NextFrame
        <3>3. bus = {} BY <2>1, <2>6 DEF Settled
        <3> QED BY <2>2, <3>2, <3>3 DEF Settled
    <2> QED BY <2>4, <2>5, <2>6
<1>8. CASE OkTimeout \/ ReplyTimeout
    <2>1. TimedOut /\ UNCHANGED lineVars BY <1>8 DEF OkTimeout, ReplyTimeout
    <2>2. bus' = {} /\ rx' = <<>> BY <2>1 DEF TimedOut, Quiet, lineVars
    <2>3. pc' \in {"send", "complete"} BY <1>8 DEF OkTimeout, ReplyTimeout, NextFrame
    <2> QED BY <2>2, <2>3 DEF Settled
<1>9. CASE WaitForReply
    <2>1. pc = "rcv" /\ ConsumeData /\ CountReplies /\ UNCHANGED callVars
        BY <1>9 DEF WaitForReply
    <2>2. /\ rx' = <<>> /\ RcvAt' = {} /\ bus' = bus /\ tx' = tx
          /\ expected_reply_count' = NoReplies => bus = {}
        BY <2>1, SettledRead
    <2>3. CASE expected_reply_count' = NoReplies
        <3>1. NextFrame BY <1>9, <2>3 DEF WaitForReply
        <3>2. pc' \in {"send", "complete"} BY <3>1 DEF NextFrame
        <3> QED BY <2>2, <2>3, <3>2 DEF Settled
    <2>4. CASE expected_reply_count' # NoReplies
        <3>1. pc' = "rcv" /\ Current' = Current
            BY <1>9, <2>1, <2>4 DEF WaitForReply, Current, callVars
        <3> QED BY <2>1, <2>2, <2>4, <3>1 DEF Settled, NoReplies
    <2> QED BY <2>3, <2>4
<1> QED BY <1>1, <1>2, <1>3, <1>4, <1>5, <1>6, <1>7, <1>8, <1>9 DEF Thread

LEMMA SettledDevice ==
    ASSUME BaseInv, OnUart, kind = "uart", device = "prompt", Settled, Device
    PROVE  Settled'
<1>1. /\ pc' = pc /\ Current' = Current /\ expected_reply_count' = expected_reply_count
    BY DEF Device, Accept, Ignore, LoseLine, Deliver, LoseAnswer, Current, callVars, waitVars
<1>2. CASE Accept \/ LoseLine
    <2>1. tx # <<>> /\ tx' = Tail(tx) BY <1>2 DEF Accept, LoseLine
    <2>2. pc = "ok" /\ OnTheWay BY <2>1 DEF OnUart, Granted, Refused, Failed
    <2>3. tx' = <<>> /\ Head(tx) = Request(sent + 1)
        <3>1. tx \in Seq(RequestLine) /\ Len(tx) = 1 BY <2>2 DEF OnTheWay, BaseInv, TypeOK
        <3>2. tx' \in Seq(RequestLine) /\ Len(tx') = 0 BY <2>1, <3>1
        <3> QED BY <2>2, <3>2 DEF OnTheWay
    <2>4. bus = {} /\ RcvAt = {} BY <2>1, <2>2 DEF Settled
    <2>5. \/ bus' = bus
          \/ Current.reply_required /\ bus' = {Reply(Head(tx))}
        BY <1>2, <2>3, <2>4 DEF Accept, LoseLine, CarryOut, Request, Current
    <2>6. RcvAt' = {}
        <3>1. rx' = rx \/ \E line \in {OK, ERR} : rx' = Append(rx, line)
            BY <1>2 DEF Accept, LoseLine
        <3>2. CASE rx' = rx BY <2>4, <3>2 DEF RcvAt
        <3>3. ASSUME NEW line \in {OK, ERR}, rx' = Append(rx, line) PROVE RcvAt' = {}
            <4>1. line \in Line /\ ~IsRcv(line) BY DEF Line, OK, ERR, IsRcv
            <4>2. rx \in Seq(Line) BY DEF BaseInv, TypeOK, Line
            <4>3. \A k \in DOMAIN rx' : (k \in DOMAIN rx /\ rx'[k] = rx[k]) \/ rx'[k] = line
                BY <3>3, <4>1, <4>2
            <4> QED BY <2>4, <4>1, <4>3 DEF RcvAt
        <3> QED BY <3>1, <3>2, <3>3
    <2> QED BY <1>1, <2>2, <2>3, <2>4, <2>5, <2>6 DEF Settled
<1>3. CASE Ignore BY <1>3 DEF Ignore
<1>4. CASE Deliver \/ LoseAnswer
    <2>1. PICK answer \in bus : bus' = bus \ {answer} BY <1>4 DEF Deliver, LoseAnswer
    <2>2. pc \in {"ok", "rcv"} /\ tx = <<>> /\ Current.reply_required /\ RcvAt = {}
        BY <2>1 DEF Settled, BaseInv, TypeOK, ControlInv
    <2>3. bus' = {} BY <2>1, <2>2 DEF Settled
    <2>4. tx' = tx BY <1>4 DEF Deliver, LoseAnswer
    <2> QED BY <1>1, <2>2, <2>3, <2>4 DEF Settled, NoReplies
<1> QED BY <1>2, <1>3, <1>4 DEF Device

LEMMA SettledStep == BaseInv /\ UartInv /\ SettledInv /\ [Next]_vars => SettledInv'
<1> SUFFICES ASSUME BaseInv, UartInv, SettledInv, [Next]_vars, device' = "prompt", kind' = "uart"
             PROVE  Settled'
    BY DEF SettledInv
<1>1. device = "prompt" /\ kind = "uart"
    BY DEF Next, Thread, Device, Over, Cycle, Flush, FlushOver, SendChunk, CheckReplies,
           CheckTimeout, SendUart, WaitForOk, OkTimeout, WaitForReply, ReplyTimeout, Complete,
           Accept, Ignore, LoseLine, Deliver, LoseAnswer, vars, configVars
<1>2. OnUart /\ OnUart' /\ Settled BY <1>1, UartStep DEF UartInv, SettledInv
<1>3. CASE Cycle \/ Thread BY <1>1, <1>2, <1>3, SettledChild
<1>4. CASE Device BY <1>1, <1>2, <1>4, SettledDevice
<1>5. CASE Over \/ UNCHANGED vars
    <2>1. UNCHANGED <<pc, tx, bus, rx, expected_reply_count, frames, sent>>
        BY <1>5 DEF Over, vars, callVars, waitVars, lineVars
    <2> QED BY <1>2, <2>1 DEF Settled, RcvAt, Current, NoReplies
<1> QED BY <1>3, <1>4, <1>5 DEF Next

----------------------------------------------------------------------------
(* The chunk of the other devices. *)

LEMMA ImageCount ==
    ASSUME NEW S, IsFiniteSet(S), NEW T, NEW f \in [S -> T],
           \A x, y \in S : f[x] = f[y] => x = y, \A z \in T : \E x \in S : f[x] = z
    PROVE  Cardinality(T) = Cardinality(S)
<1>1. f \in Bijection(S, T) BY DEF Bijection, Injection, Surjection, IsInjective
<1>2. ExistsBijection(S, T) BY <1>1 DEF ExistsBijection
<1> QED BY <1>2, FS_Bijection

LEMMA OursIsAnswer ==
    ASSUME NEW line \in RcvLine, Ours(line)
    PROVE  line.frame \in DOMAIN frames /\ line = Answer(line.frame)
<1>1. line.frame \in DOMAIN frames /\ line.call = call /\ line.source = frames[line.frame].destination
    BY DEF Ours
<1>2. line.type = "rcv" /\ line = [type |-> line.type, call |-> line.call, frame |-> line.frame,
                                   source |-> line.source]
    BY DEF RcvLine
<1> QED BY <1>1, <1>2 DEF Answer, Rcv

LEMMA ChunkFacts ==
    ASSUME BaseInv, pc = "wait"
    PROVE  /\ sent \in Nat /\ sent < Size /\ Size \in Nat /\ DOMAIN frames = 1..Size
           /\ Last \in (sent + 1)..Size /\ Chunk = (sent + 1)..Last
           /\ IsFiniteSet(Chunk) /\ Cardinality(Chunk) = Last - sent
           /\ Len(tx) \in Nat /\ Untaken + Len(tx) = Last
           /\ Untaken \in Int /\ Untaken <= Last
           /\ (sent + 1)..Untaken \subseteq Chunk
           /\ Chunk \subseteq DOMAIN frames
           /\ Len(tx) <= Cardinality(Chunk) => Untaken >= sent
<1>1. sent \in Nat /\ sent < Size /\ Size \in Nat /\ DOMAIN frames = 1..Size /\ Len(tx) \in Nat
    BY DEF BaseInv, TypeOK, ControlInv, Size
<1>2. Last \in (sent + 1)..Size /\ IsFiniteSet(Chunk) /\ Cardinality(Chunk) = Last - sent
      /\ Chunk \subseteq DOMAIN frames
    BY <1>1, AdvanceFacts DEF BaseInv, Last
<1>3. Chunk = (sent + 1)..Last BY DEF Chunk, Last
<1>4. Untaken = Last - Len(tx) BY DEF Untaken
<1>5. (sent + 1)..Untaken \subseteq Chunk BY <1>1, <1>2, <1>3, <1>4
<1> QED BY <1>1, <1>2, <1>3, <1>4, <1>5

(* What is read of a chunk. *)
GotAt == {k \in DOMAIN Read : IsRcv(Read[k])}
Got == {Read[k].frame : k \in GotAt}
Taken(m) == {f \in Got : frames[f].destination = m}
StillOwing(m) == {i \in Owing(m) : i \notin FramesOf(replies')}

LEMMA ReadSplit ==
    ASSUME TypeOK, Once, ConsumeData
    PROVE  /\ \A k \in GotAt : k \in RcvAt /\ Read[k] = rx[k]
           /\ Got \cup Received' = Received
           /\ Got \cap Received' = {}
           /\ \A k, l \in RcvAt' : rx'[k].frame = rx'[l].frame => k = l
           /\ RcvAt = DOMAIN rx => RcvAt' = DOMAIN rx' /\ GotAt = DOMAIN Read
<1>1. rx # <<>> /\ rx' = Unread BY DEF ConsumeData
<1>2. /\ rx \in Seq(Line) /\ Read \in Seq(Line) /\ Unread \in Seq(Line)
      /\ Len(Read) \in Nat \ {0} /\ Len(rx) = Len(Read) + Len(Unread)
      /\ \A i \in DOMAIN Read : i \in DOMAIN rx /\ Read[i] = rx[i]
      /\ \A i \in DOMAIN Unread : i + Len(Read) \in DOMAIN rx /\ Unread[i] = rx[i + Len(Read)]
    BY <1>1, ReadFacts DEF TypeOK, Line
<1>3. \A k \in GotAt : k \in RcvAt /\ Read[k] = rx[k] BY <1>2 DEF GotAt, RcvAt
<1>4. \A k \in RcvAt' : k + Len(Read) \in RcvAt /\ rx'[k] = rx[k + Len(Read)] /\ k \in Nat \ {0}
    BY <1>1, <1>2 DEF RcvAt
<1>5. \A k \in RcvAt : k \in Nat /\ (k \in GotAt \/ k - Len(Read) \in RcvAt')
    <2> SUFFICES ASSUME NEW k \in RcvAt PROVE k \in Nat /\ (k \in GotAt \/ k - Len(Read) \in RcvAt')
        OBVIOUS
    <2>1. k \in 1..Len(rx) /\ Len(rx) \in Nat /\ IsRcv(rx[k]) /\ k \in Nat
        BY <1>2 DEF RcvAt
    <2>2. CASE k <= Len(Read)
        <3>1. k \in DOMAIN Read BY <1>2, <2>1, <2>2
        <3> QED BY <1>2, <2>1, <3>1 DEF GotAt
    <2>3. CASE k > Len(Read)
        <3>1. k - Len(Read) \in DOMAIN Unread /\ (k - Len(Read)) + Len(Read) = k
            BY <1>2, <2>1, <2>3
        <3>2. Unread[k - Len(Read)] = rx[k] BY <1>2, <3>1
        <3> QED BY <1>1, <2>1, <3>1, <3>2 DEF RcvAt
    <2> QED BY <1>2, <2>1, <2>2, <2>3
<1>6. \A k, l \in RcvAt : rx[k].frame = rx[l].frame => k = l BY DEF Once
<1>7. Got \cup Received' = Received
    <2>1. \A f \in Got : f \in Received BY <1>3 DEF Got, Received
    <2>2. \A f \in Received' : f \in Received BY <1>4 DEF Received
    <2>3. ASSUME NEW f \in Received PROVE f \in Got \cup Received'
        <3>1. PICK k \in RcvAt : f = rx[k].frame BY DEF Received
        <3>2. CASE k \in GotAt BY <1>3, <3>1, <3>2 DEF Got
        <3>3. CASE k - Len(Read) \in RcvAt'
            <4>1. (k - Len(Read)) + Len(Read) = k BY <1>2, <1>5
            <4>2. rx'[k - Len(Read)] = rx[k] BY <1>4, <3>3, <4>1
            <4> QED BY <3>1, <3>3, <4>2 DEF Received
        <3> QED BY <1>5, <3>2, <3>3
    <2> QED BY <2>1, <2>2, <2>3
<1>8. Got \cap Received' = {}
    <2> SUFFICES ASSUME NEW k \in GotAt, NEW l \in RcvAt', Read[k].frame = rx'[l].frame PROVE FALSE
        BY DEF Got, Received
    <2>1. k = l + Len(Read) BY <1>3, <1>4, <1>6
    <2>2. k \in DOMAIN Read BY DEF GotAt
    <2> QED BY <1>2, <1>4, <2>1, <2>2
<1>9. \A k, l \in RcvAt' : rx'[k].frame = rx'[l].frame => k = l
    <2> SUFFICES ASSUME NEW k \in RcvAt', NEW l \in RcvAt', rx'[k].frame = rx'[l].frame PROVE k = l
        OBVIOUS
    <2>1. k + Len(Read) = l + Len(Read) BY <1>4, <1>6
    <2> QED BY <1>2, <1>4, <2>1
<1>10. RcvAt = DOMAIN rx => RcvAt' = DOMAIN rx' /\ GotAt = DOMAIN Read
    BY <1>1, <1>2 DEF RcvAt, GotAt
<1> QED BY <1>3, <1>7, <1>8, <1>9, <1>10

(* Each answer read is owed by its motor, and counted once. *)
LEMMA TakenOwed ==
    ASSUME BaseInv, Once, device = "prompt", pc = "wait", ConsumeData, NEW m \in Motor
    PROVE  Taken(m) \subseteq Owing(m) /\ From(m) = Cardinality(Taken(m))
<1> DEFINE At == {i \in DOMAIN Read : IsRcv(Read[i]) /\ Read[i].source = m}
<1>1. /\ \A k \in GotAt : k \in RcvAt /\ Read[k] = rx[k]
      /\ Got \subseteq Received
    BY ReadSplit DEF BaseInv
<1>2. \A k \in GotAt : Ours(Read[k]) /\ frames[Read[k].frame].reply_required
    <2>1. \A k \in RcvAt : k \in DOMAIN rx /\ IsRcv(rx[k]) BY DEF RcvAt
    <2> QED BY <1>1, <2>1 DEF BaseInv, LinesInv, Placed, Known, Ours, Late, Asks, OfThisCall
<1>3. Taken(m) \subseteq Owing(m)
    <2> SUFFICES ASSUME NEW f \in Taken(m) PROVE f \in Owing(m)
        OBVIOUS
    <2>1. f \in Got /\ frames[f].destination = m BY DEF Taken
    <2>2. frames[f].reply_required BY <1>2, <2>1 DEF Got
    <2>3. f \in (sent + 1)..Untaken /\ f \notin FramesOf(replies) BY <1>1, <2>1 DEF Once
    <2> QED BY <2>1, <2>2, <2>3, ChunkFacts DEF Owing
<1>4. IsFiniteSet(At)
    <2>1. Read \in Seq(Line) BY ReadFacts DEF ConsumeData, BaseInv
    <2>2. DOMAIN Read = 1..Len(Read) /\ Len(Read) \in Nat BY <2>1
    <2>3. IsFiniteSet(DOMAIN Read) BY <2>2, FS_Interval
    <2> QED BY <2>3, FS_Subset
<1>5. At \subseteq GotAt BY DEF GotAt
<1>6. \A i \in At : Read[i].frame \in Taken(m)
    BY <1>2, <1>5 DEF Taken, Got, Ours
<1>7. \A f \in Taken(m) : \E i \in At : Read[i].frame = f
    <2> SUFFICES ASSUME NEW f \in Taken(m) PROVE \E i \in At : Read[i].frame = f
        OBVIOUS
    <2>1. PICK i \in GotAt : f = Read[i].frame BY DEF Taken, Got
    <2>2. Read[i].source = m BY <1>2, <2>1 DEF Taken, Ours
    <2> QED BY <2>1, <2>2 DEF GotAt
<1>8. \A i, j \in At : Read[i].frame = Read[j].frame => i = j
    BY <1>1, <1>5 DEF Once
<1> DEFINE f == [i \in At |-> Read[i].frame]
<1>9. f \in [At -> Taken(m)] BY <1>6
<1>10. \A i, j \in At : f[i] = f[j] => i = j BY <1>8
<1>11. \A z \in Taken(m) : \E i \in At : f[i] = z BY <1>7
<1>12. From(m) = Cardinality(At) BY DEF From
<1> HIDE DEF At, f
<1>13. Cardinality(Taken(m)) = Cardinality(At) BY <1>4, <1>9, <1>10, <1>11, ImageCount
<1> QED BY <1>3, <1>12, <1>13

LEMMA RepliesGot ==
    ASSUME BaseInv, ConsumeData, TakeReplies
    PROVE  FramesOf(replies') = FramesOf(replies) \cup Got
<1>1. Rcvs = {Read[k] : k \in GotAt} BY DEF Rcvs, GotAt
<1>2. replies' = replies \cup {Read[k] : k \in GotAt} BY <1>1 DEF TakeReplies
<1> QED BY <1>2 DEF FramesOf, Got

LEMMA RepliesCounted ==
    ASSUME BaseInv, Once, Counts, device = "prompt", pc = "wait", ConsumeData, TakeReplies, CountReplies,
           NEW m \in Motor
    PROVE  /\ IsFiniteSet(StillOwing(m))
           /\ expected_reply_count'[m] = Cardinality(StillOwing(m))
<1>1. Taken(m) \subseteq Owing(m) /\ From(m) = Cardinality(Taken(m)) BY TakenOwed
<1>2. IsFiniteSet(Owing(m))
    <2>1. Owing(m) \subseteq Chunk BY DEF Owing
    <2> QED BY <2>1, ChunkFacts, FS_Subset
<1>3. StillOwing(m) = Owing(m) \ Taken(m)
    <2>1. FramesOf(replies') = FramesOf(replies) \cup Got BY RepliesGot
    <2> QED BY <2>1 DEF StillOwing, Taken, Owing
<1>4. Owing(m) \cap Taken(m) = Taken(m) BY <1>1
<1>5. /\ IsFiniteSet(Owing(m) \ Taken(m))
      /\ Cardinality(Owing(m) \ Taken(m)) = Cardinality(Owing(m)) - Cardinality(Taken(m))
    BY <1>2, <1>4, FS_Difference
<1>6. /\ Cardinality(Owing(m)) \in Nat /\ Cardinality(Taken(m)) \in Nat
      /\ Cardinality(Taken(m)) <= Cardinality(Owing(m))
    BY <1>1, <1>2, FS_Subset, FS_CardinalityType
<1>7. Smaller(Cardinality(Owing(m)), Cardinality(Taken(m))) = Cardinality(Taken(m))
    BY <1>6 DEF Smaller
<1>8. expected_reply_count[m] = Cardinality(Owing(m)) BY DEF Counts
<1>9. expected_reply_count'[m] = Cardinality(Owing(m)) - Cardinality(Taken(m))
    BY <1>1, <1>7, <1>8 DEF CountReplies
<1> QED BY <1>3, <1>5, <1>9

LEMMA OksCounted ==
    ASSUME BaseInv, Once, Counts, pc = "wait", kind # "uart", ConsumeData, TakeReplies,
           ok_count' = ok_count + Oks
    PROVE  /\ kind = "fdcanusb" => rx' = <<>> /\ ok_count' + Len(tx) = expected_ok_count
           /\ kind = "socketcan" =>
                /\ RcvAt' = DOMAIN rx'
                /\ ok_count' = Cardinality(Chunk \cap FramesOf(replies'))
<1>1. CASE kind = "fdcanusb"
    <2>1. rx' = <<>> /\ Read = rx BY <1>1 DEF ConsumeData, Unread, Read
    <2>2. Oks = Cardinality(OkAt) BY <1>1, <2>1 DEF Oks, OkAt
    <2>3. Oks \in Nat /\ ok_count \in Nat /\ Len(tx) \in Nat
        BY CountsAreNumbers DEF ConsumeData, BaseInv, TypeOK
    <2>4. ok_count + Cardinality(OkAt) + Len(tx) = expected_ok_count BY <1>1 DEF Counts
    <2> QED BY <1>1, <2>1, <2>2, <2>3, <2>4
<1>2. CASE kind = "socketcan"
    <2>1. RcvAt = DOMAIN rx /\ ok_count = Cardinality(Chunk \cap FramesOf(replies))
        BY <1>2 DEF Counts
    <2>2. RcvAt' = DOMAIN rx' /\ GotAt = DOMAIN Read BY <2>1, ReadSplit DEF BaseInv
    <2>3. Len(Read) = 1 /\ DOMAIN Read = {1} /\ Oks = 1
        <3>1. Len(Read) = 1 /\ Read \in Seq(Line) BY <1>2, ReadFacts DEF ConsumeData, BaseInv
        <3>2. Oks = 1 BY <1>2 DEF Oks
        <3> QED BY <3>1, <3>2
    <2> DEFINE first == Read[1].frame
    <2>4. Got = {first} BY <2>2, <2>3 DEF Got
    <2>5. first \in Chunk /\ first \notin FramesOf(replies)
        <3>1. first \in Received BY <2>4, ReadSplit DEF BaseInv
        <3>2. first \in (sent + 1)..Untaken /\ first \notin FramesOf(replies) BY <3>1 DEF Once
        <3> QED BY <3>2, ChunkFacts
    <2>6. FramesOf(replies') = FramesOf(replies) \cup {first} BY <2>4, RepliesGot
    <2> HIDE DEF first
    <2>7. Chunk \cap FramesOf(replies') = (Chunk \cap FramesOf(replies)) \cup {first}
        BY <2>5, <2>6
    <2>8. IsFiniteSet(Chunk \cap FramesOf(replies)) BY ChunkFacts, FS_Subset
    <2>9. Cardinality(Chunk \cap FramesOf(replies')) = Cardinality(Chunk \cap FramesOf(replies)) + 1
        BY <2>5, <2>7, <2>8, FS_AddElement
    <2> QED BY <1>2, <2>1, <2>2, <2>3, <2>9
<1> QED BY <1>1, <1>2 DEF BaseInv, TypeOK

(* The places after the read, as in Once. *)
LEMMA OnceRead ==
    ASSUME BaseInv, Once, pc = "wait", ConsumeData, TakeReplies
    PROVE  /\ FramesOf(bus) \cap Received' = {}
           /\ FramesOf(bus) \cup Received' \subseteq (sent + 1)..Untaken
           /\ FramesOf(replies') \cap (FramesOf(bus) \cup Received') = {}
           /\ FramesOf(replies') \subseteq 1..Untaken
           /\ \A i \in (sent + 1)..Untaken : frames[i].reply_required =>
                i \in FramesOf(bus) \cup Received' \cup FramesOf(replies') \cup lost
<1>1. Got \cup Received' = Received /\ Got \cap Received' = {} BY ReadSplit DEF BaseInv
<1>2. FramesOf(replies') = FramesOf(replies) \cup Got BY RepliesGot
<1>3. sent \in Nat /\ Untaken \in Int BY ChunkFacts
<1>4. (sent + 1)..Untaken \subseteq 1..Untaken BY <1>3
<1> QED BY <1>1, <1>2, <1>4 DEF Once

(* When nothing is owed and no OK is missing, nothing is on the way. *)
LEMMA NothingLeft ==
    ASSUME BaseInv, Once, Counts, device = "prompt", pc = "wait", kind # "uart",
           ConsumeData, TakeReplies, CountReplies, ok_count' = ok_count + Oks, UNCHANGED expected_ok_count, AllHere
    PROVE  /\ tx = <<>> /\ bus = {} /\ rx' = <<>> /\ FramesOf(replies') \subseteq 1..Last
           /\ \A i \in Chunk : frames[i].reply_required => i \in FramesOf(replies')
<1>1. ASSUME NEW m \in Motor PROVE StillOwing(m) = {}
    <2>1. IsFiniteSet(StillOwing(m)) /\ expected_reply_count'[m] = Cardinality(StillOwing(m))
        BY RepliesCounted
    <2>2. expected_reply_count'[m] = 0 BY DEF AllHere, NoReplies
    <2> QED BY <2>1, <2>2, FS_EmptySet
<1>2. ASSUME NEW i \in Chunk, frames[i].reply_required PROVE i \in FramesOf(replies')
    <2>1. i \in DOMAIN frames BY ChunkFacts
    <2>2. frames[i].destination \in Motor
        <3>1. frames[i] \in Frame BY <2>1 DEF BaseInv, TypeOK
        <3> QED BY <3>1 DEF Frame
    <2>3. FramesOf(replies') = FramesOf(replies) \cup Got BY RepliesGot
    <2>4. i \notin StillOwing(frames[i].destination) BY <1>1, <2>2
    <2> QED BY <1>2, <2>3, <2>4 DEF StillOwing, Owing
<1>3. (sent + 1)..Untaken \subseteq Chunk BY ChunkFacts
<1>4. \A answer \in bus : answer.frame \in DOMAIN frames /\ frames[answer.frame].reply_required
    BY DEF BaseInv, LinesInv, Placed, Known, Ours, Late, Asks, OfThisCall
<1>5. bus = {}
    <2> SUFFICES ASSUME NEW answer \in bus PROVE FALSE
        OBVIOUS
    <2>1. answer.frame \in FramesOf(bus) BY DEF FramesOf
    <2>2. answer.frame \in (sent + 1)..Untaken /\ answer.frame \notin FramesOf(replies')
        BY <2>1, OnceRead
    <2> QED BY <1>2, <1>3, <1>4, <2>2
<1>6. Len(tx) \in Nat /\ Untaken + Len(tx) = Last /\ sent \in Nat /\ Last \in Int
      /\ Chunk = (sent + 1)..Last /\ Cardinality(Chunk) = Last - sent /\ Last > sent
      /\ IsFiniteSet(Chunk) /\ Untaken \in Int
    BY ChunkFacts
<1>7. expected_ok_count = Cardinality(Chunk) /\ ok_count' >= expected_ok_count
    BY DEF Counts, AllHere
<1>8. CASE kind = "fdcanusb"
    <2>1. rx' = <<>> /\ ok_count' + Len(tx) = expected_ok_count BY <1>8, OksCounted
    <2>2. ok_count' \in Int /\ expected_ok_count \in Int
        <3>1. Oks \in Nat /\ ok_count \in Nat
            BY CountsAreNumbers DEF ConsumeData, BaseInv, TypeOK
        <3> QED BY <1>6, <1>7, <3>1
    <2>3. Len(tx) = 0 BY <1>6, <1>7, <2>1, <2>2
    <2>4. tx = <<>> BY <2>3 DEF BaseInv, TypeOK
    <2>5. FramesOf(replies') \subseteq 1..Last
        <3>1. Untaken = Last BY <1>6, <2>3
        <3> QED BY <3>1, OnceRead
    <2> QED BY <1>2, <1>5, <2>1, <2>4, <2>5
<1>9. CASE kind = "socketcan"
    <2>1. RcvAt' = DOMAIN rx' /\ ok_count' = Cardinality(Chunk \cap FramesOf(replies'))
        BY <1>9, OksCounted
    <2>2. Chunk \subseteq FramesOf(replies')
        <3> DEFINE Here == Chunk \cap FramesOf(replies')
        <3>1. Here \subseteq Chunk OBVIOUS
        <3>2. Cardinality(Here) >= Cardinality(Chunk) BY <1>7, <2>1
        <3>3. Cardinality(Here) <= Cardinality(Chunk)
              /\ (Cardinality(Chunk) = Cardinality(Here) => Chunk = Here)
              /\ Cardinality(Here) \in Nat
            BY <1>6, <3>1, FS_Subset, FS_CardinalityType
        <3>4. Cardinality(Chunk) \in Int BY <1>6
        <3> HIDE DEF Here
        <3>5. Chunk = Here BY <3>2, <3>3, <3>4
        <3> QED BY <3>5 DEF Here
    <2>3. Last \in 1..Untaken BY <1>6, <2>2, OnceRead
    <2>4. Len(tx) = 0 /\ Untaken = Last BY <1>6, <2>3
    <2>5. tx = <<>> BY <2>4 DEF BaseInv, TypeOK
    <2>6. Received' = {}
        <3> SUFFICES ASSUME NEW f \in Received' PROVE FALSE
            OBVIOUS
        <3>1. f \in (sent + 1)..Untaken /\ f \notin FramesOf(replies') BY OnceRead
        <3> QED BY <1>3, <2>2, <3>1
    <2>7. DOMAIN rx' = {} BY <2>1, <2>6 DEF Received
    <2>8. rx' = <<>>
        <3>1. rx' \in Seq(Line)
            <4>1. rx # <<>> /\ rx' = Unread BY DEF ConsumeData
            <4> QED BY <4>1, ReadFacts DEF BaseInv
        <3>2. DOMAIN rx' = 1..Len(rx') /\ Len(rx') \in Nat BY <3>1
        <3>3. Len(rx') = 0 BY <2>7, <3>2
        <3> QED BY <3>1, <3>3
    <2>9. FramesOf(replies') \subseteq 1..Last BY <2>4, OnceRead
    <2> QED BY <1>2, <1>5, <2>5, <2>8, <2>9
<1> QED BY <1>8, <1>9 DEF BaseInv, TypeOK

LEMMA ChunkCall ==
    ASSUME BaseInv, OnChunk, device = "prompt", kind # "uart",
           Cycle \/ Flush \/ FlushOver \/ Complete
    PROVE  OnChunk'
<1>1. UNCHANGED lineVars /\ pc # "wait" /\ pc' # "wait"
    <2>1. CASE Cycle BY <2>1 DEF Cycle
    <2>2. CASE Flush BY <2>2 DEF Flush, ConsumeData, OnChunk, Clean
    <2>3. CASE FlushOver BY <2>3 DEF FlushOver
    <2>4. CASE Complete BY <2>4 DEF Complete
    <2> QED BY <2>1, <2>2, <2>3, <2>4
<1>2. Clean' BY <1>1 DEF OnChunk, Clean, lineVars
<1>3. pc' \in {"flush", "send"} => FramesOf(replies') \subseteq 1..sent'
    <2>1. CASE Cycle BY <2>1 DEF Cycle, FramesOf
    <2>2. CASE Flush BY <2>2 DEF Flush, ConsumeData, OnChunk, Clean
    <2>3. CASE FlushOver BY <2>3 DEF FlushOver, OnChunk
    <2>4. CASE Complete BY <2>4 DEF Complete
    <2> QED BY <2>1, <2>2, <2>3, <2>4
<1> QED BY <1>1, <1>2, <1>3 DEF OnChunk, FramesOf

LEMMA ChunkSent ==
    ASSUME BaseInv, OnChunk, SendChunk
    PROVE  OnChunk'
<1>1. /\ pc = "send" /\ kind # "uart" /\ pc' = "wait"
      /\ expected_ok_count' = Cardinality(Chunk) /\ ok_count' = 0
      /\ UNCHANGED <<configVars, checksum_active_, callVars, sent, attempt, replies, bus, rx,
                     historyVars>>
    BY DEF SendChunk
<1>2. /\ tx = <<>> /\ bus = {} /\ rx = <<>> /\ bus' = {} /\ rx' = <<>>
      /\ FramesOf(replies) \subseteq 1..sent /\ replies' = replies
    BY <1>1 DEF OnChunk, Clean
<1>3. BaseInv' BY SendBase
<1>4. Chunk' = Chunk /\ sent' = sent /\ Last' = Last /\ frames' = frames
    BY <1>1 DEF Chunk, Last, Advance, Size, configVars, callVars
<1>5. /\ sent \in Nat /\ Last \in Int /\ Last > sent /\ Chunk = (sent + 1)..Last
      /\ IsFiniteSet(Chunk) /\ Cardinality(Chunk) = Last - sent
    BY <1>1, AdvanceFacts DEF BaseInv, ControlInv, TypeOK, Size, Last, Chunk
<1> DEFINE n == Cardinality(Chunk)
           out == [i \in 1..n |-> Request(sent + i)]
<1>6. n \in Nat /\ n > 0 /\ n = Last - sent BY <1>5
<1>7. tx' = out
    <2>1. tx' = tx \o out BY DEF SendChunk, Transmit
    <2>2. out \in Seq({Request(sent + i) : i \in 1..n}) BY <1>6
    <2> QED BY <1>2, <2>1, <2>2
<1>8. Len(tx') = n /\ DOMAIN tx' = 1..n BY <1>6, <1>7
<1>9. \A k \in DOMAIN tx' : tx'[k].frame = sent + k BY <1>7, <1>8 DEF Request
<1> HIDE DEF n, out
<1>10. Untaken' = sent BY <1>4, <1>5, <1>6, <1>8 DEF Untaken
<1>11. RcvAt' = {} /\ OkAt' = {} /\ Received' = {} /\ FramesOf(bus') = {}
    BY <1>2 DEF RcvAt, OkAt, Received, FramesOf
<1>12. (sent' + 1)..Untaken' = {} BY <1>4, <1>5, <1>10
<1>13. Once'
    <2>1. Len(tx') <= Cardinality(Chunk') BY <1>4, <1>6, <1>8 DEF n
    <2>2. \A k \in DOMAIN tx' : tx'[k].frame = Untaken' + k BY <1>9, <1>10
    <2>3. FramesOf(replies') \subseteq 1..Untaken' BY <1>2, <1>10
    <2> QED BY <1>11, <1>12, <2>1, <2>2, <2>3 DEF Once, FramesOf
<1>14. ASSUME NEW m \in Motor PROVE expected_reply_count'[m] = Cardinality(Owing(m)')
    <2> DEFINE Asked == {i \in Chunk : frames[i].reply_required /\ frames[i].destination = m}
    <2>1. \A i \in Chunk : i \notin FramesOf(replies) BY <1>2, <1>5
    <2>2. Owing(m)' = Asked BY <1>2, <1>4, <2>1 DEF Owing, FramesOf
    <2>3. Asked \subseteq Chunk OBVIOUS
    <2>4. Cardinality(Asked) \in Nat BY <1>5, <2>3, FS_Subset, FS_CardinalityType
    <2>5. expected_reply_count'[m] = 0 + Cardinality(Asked)
        BY DEF SendChunk, CountsCleared
    <2> QED BY <2>2, <2>4, <2>5
<1>15. Counts'
    <2>1. expected_ok_count' = Cardinality(Chunk') BY <1>1, <1>4
    <2>2. Cardinality(OkAt') = 0 BY <1>11, FS_EmptySet
    <2>3. kind' = "fdcanusb" => ok_count' + Cardinality(OkAt') + Len(tx') = expected_ok_count'
        BY <1>1, <1>6, <1>8, <2>2 DEF n
    <2>4. RcvAt' = DOMAIN rx' BY <1>2, <1>11
    <2>5. ok_count' = Cardinality(Chunk' \cap FramesOf(replies'))
        <3>1. Chunk' \cap FramesOf(replies') = {} BY <1>2, <1>4, <1>5
        <3> QED BY <1>1, <3>1, FS_EmptySet
    <2>6. ~(ok_count' >= expected_ok_count') BY <1>1, <1>6 DEF n
    <2> QED BY <1>14, <2>1, <2>3, <2>4, <2>5, <2>6 DEF Counts, FramesOf
<1> QED BY <1>1, <1>13, <1>15 DEF OnChunk

LEMMA ChunkEnd ==
    ASSUME BaseInv, pc = "wait", NextChunk, tx' = <<>>, bus' = {}, rx' = <<>>,
           FramesOf(replies') \subseteq 1..Last
    PROVE  OnChunk'
<1>1. sent' = Last /\ pc' # "wait" BY DEF NextChunk, Last
<1> QED BY <1>1 DEF OnChunk, Clean, FramesOf

LEMMA ChunkChecked ==
    ASSUME BaseInv, OnChunk, device = "prompt", kind # "uart", CheckReplies
    PROVE  OnChunk'
<1>1. /\ pc = "wait" /\ ConsumeData /\ TakeReplies /\ CountReplies
      /\ ok_count' = ok_count + Oks /\ UNCHANGED expected_ok_count
      /\ UNCHANGED <<configVars, callVars, attempt, historyVars>>
      /\ tx' = tx /\ bus' = bus
    BY DEF CheckReplies, ConsumeData
<1>2. Once /\ Counts BY <1>1 DEF OnChunk
<1>3. CASE AllHere
    <2>1. NextChunk BY <1>3 DEF CheckReplies
    <2>2. tx = <<>> /\ bus = {} /\ rx' = <<>> /\ FramesOf(replies') \subseteq 1..Last
        BY <1>1, <1>2, <1>3, NothingLeft
    <2> QED BY <1>1, <2>1, <2>2, ChunkEnd
<1>4. CASE ~AllHere
    <2>1. pc' = pc /\ sent' = sent BY <1>4 DEF CheckReplies
    <2>2. Chunk' = Chunk /\ Last' = Last /\ Untaken' = Untaken /\ frames' = frames /\ lost' = lost
          /\ kind' = kind
        BY <1>1, <2>1 DEF Chunk, Last, Untaken, Advance, Size, configVars, callVars, historyVars
    <2>3. Once'
        <3>1. \A k, l \in RcvAt' : rx'[k].frame = rx'[l].frame => k = l
            BY <1>1, <1>2, ReadSplit DEF BaseInv
        <3>2. Len(tx') <= Cardinality(Chunk') /\ \A k \in DOMAIN tx' : tx'[k].frame = Untaken' + k
            BY <1>1, <1>2, <2>2 DEF Once
        <3>3. /\ FramesOf(bus') \cap Received' = {}
              /\ FramesOf(bus') \cup Received' \subseteq (sent' + 1)..Untaken'
              /\ FramesOf(replies') \cap (FramesOf(bus') \cup Received') = {}
              /\ FramesOf(replies') \subseteq 1..Untaken'
              /\ \A i \in (sent' + 1)..Untaken' : frames'[i].reply_required =>
                    i \in FramesOf(bus') \cup Received' \cup FramesOf(replies') \cup lost'
            BY <1>1, <1>2, <2>1, <2>2, OnceRead
        <3> QED BY <3>1, <3>2, <3>3 DEF Once, FramesOf
    <2>4. Counts'
        <3>1. ASSUME NEW m \in Motor PROVE expected_reply_count'[m] = Cardinality(Owing(m)')
            <4>1. Owing(m)' = StillOwing(m)
                <5>1. FramesOf(replies') = FramesOf(replies) \cup Got BY <1>1, RepliesGot
                <5> QED BY <2>2, <5>1 DEF Owing, StillOwing, FramesOf
            <4> QED BY <1>1, <1>2, <4>1, RepliesCounted
        <3>2. expected_ok_count' = Cardinality(Chunk') BY <1>1, <1>2, <2>2 DEF Counts
        <3>3. kind' = "fdcanusb" => ok_count' + Cardinality(OkAt') + Len(tx') = expected_ok_count'
            <4> SUFFICES ASSUME kind = "fdcanusb"
                         PROVE  ok_count' + Cardinality(OkAt') + Len(tx') = expected_ok_count'
                BY <2>2
            <4>1. rx' = <<>> /\ ok_count' + Len(tx) = expected_ok_count BY <1>1, <1>2, OksCounted
            <4>2. OkAt' = {} BY <4>1 DEF OkAt
            <4>3. Cardinality(OkAt') = 0 BY <4>2, FS_EmptySet
            <4>4. ok_count' \in Nat /\ Len(tx) \in Nat
                <5>1. Oks \in Nat /\ ok_count \in Nat
                    BY <1>1, CountsAreNumbers DEF ConsumeData, BaseInv, TypeOK
                <5> QED BY <1>1, <5>1, ChunkFacts
            <4> QED BY <1>1, <4>1, <4>3, <4>4
        <3>4. kind' = "socketcan" =>
                /\ RcvAt' = DOMAIN rx'
                /\ ok_count' = Cardinality(Chunk' \cap FramesOf(replies'))
            BY <1>1, <1>2, <2>2, OksCounted
        <3>5. ~(expected_reply_count' = NoReplies /\ ok_count' >= expected_ok_count')
            BY <1>1, <1>4 DEF AllHere
        <3> QED BY <3>1, <3>2, <3>3, <3>4, <3>5 DEF Counts, FramesOf, NoReplies
    <2> QED BY <1>1, <2>1, <2>3, <2>4 DEF OnChunk
<1> QED BY <1>3, <1>4

LEMMA ChunkTimedOut ==
    ASSUME BaseInv, OnChunk, device = "prompt", CheckTimeout
    PROVE  OnChunk'
<1>1. /\ pc = "wait" /\ NextChunk /\ rx = <<>> /\ tx = <<>> /\ bus = {}
      /\ UNCHANGED <<lineVars, replies>>
    BY DEF CheckTimeout, GiveUp, TimedOut, Quiet
<1>2. Untaken = Last BY <1>1, ChunkFacts
<1>3. FramesOf(replies) \subseteq 1..Last BY <1>1, <1>2 DEF OnChunk, Once
<1> QED BY <1>1, <1>3, ChunkEnd DEF lineVars

(* A line comes behind the others. *)
LEMMA LineCame ==
    ASSUME TypeOK, NEW line \in Line, rx' = Append(rx, line)
    PROVE  /\ Len(rx) \in Nat /\ Len(rx) + 1 \notin DOMAIN rx
           /\ DOMAIN rx' = DOMAIN rx \cup {Len(rx) + 1}
           /\ rx'[Len(rx) + 1] = line /\ \A k \in DOMAIN rx : rx'[k] = rx[k]
<1>1. rx \in Seq(Line) BY DEF TypeOK, Line
<1> QED BY <1>1

LEMMA ChunkAccept ==
    ASSUME BaseInv, OnChunk, device = "prompt", kind # "uart", Accept
    PROVE  OnChunk'
<1>1. /\ tx # <<>> /\ tx' = Tail(tx)
      /\ UNCHANGED <<configVars, checksum_active_, pc, callVars, sent, attempt, waitVars, replies,
                     acked, lost, overdue, losses>>
    BY DEF Accept
<1>2. pc = "wait" BY <1>1 DEF OnChunk, Clean
<1>3. Once /\ Counts BY <1>2 DEF OnChunk
<1>4. /\ sent \in Nat /\ Chunk = (sent + 1)..Last /\ Len(tx) \in Nat /\ Untaken + Len(tx) = Last
      /\ Untaken \in Int /\ Untaken >= sent /\ Last \in Int
      /\ Cardinality(Chunk) \in Nat /\ Chunk \subseteq DOMAIN frames
    BY <1>2, <1>3, ChunkFacts DEF Once
<1>5. /\ 1 \in DOMAIN tx /\ Head(tx) = tx[1] /\ Len(tx') = Len(tx) - 1 /\ Len(tx) > 0
      /\ \A k \in DOMAIN tx' : k + 1 \in DOMAIN tx /\ tx'[k] = tx[k + 1] /\ k \in Nat
    BY <1>1 DEF BaseInv, TypeOK
<1> DEFINE f == Untaken + 1
<1>6. Head(tx).frame = f BY <1>3, <1>5 DEF Once
<1>7. /\ Head(tx).call = call /\ Head(tx).reply_required = frames[f].reply_required
      /\ Head(tx).source = frames[f].destination
    BY <1>2, <1>5, <1>6
    DEF BaseInv, LinesInv, Placed, Known, Ours, Late, Sent, OfThisCall
<1>8. CarryOut(Head(tx)) /\ rx' = (IF kind = "socketcan" THEN rx ELSE Append(rx, OK))
    <2>1. ~Refuses(Head(tx)) BY DEF BaseInv, ControlInv, Refuses
    <2> QED BY <2>1 DEF Accept
<1>9. bus' = IF frames[f].reply_required THEN bus \cup {Answer(f)} ELSE bus
    <2>1. Reply(Head(tx)) = Answer(f) BY <1>6, <1>7 DEF Reply, Answer
    <2> QED BY <1>7, <1>8, <2>1 DEF CarryOut
<1>10. FramesOf(bus') = IF frames[f].reply_required THEN FramesOf(bus) \cup {f} ELSE FramesOf(bus)
    <2>1. Answer(f).frame = f BY DEF Answer, Rcv
    <2> QED BY <1>9, <2>1 DEF FramesOf
<1>11. /\ Chunk' = Chunk /\ Last' = Last /\ frames' = frames /\ lost' = lost /\ kind' = kind
       /\ sent' = sent /\ Untaken' = f
    <2>1. Chunk' = Chunk /\ Last' = Last /\ frames' = frames /\ lost' = lost /\ kind' = kind
          /\ sent' = sent
        BY <1>1 DEF Chunk, Last, Advance, Size, configVars, callVars
    <2> QED BY <1>4, <1>5, <2>1 DEF Untaken
<1>12. RcvAt' = RcvAt /\ Received' = Received /\ \A k \in RcvAt : rx'[k] = rx[k]
    <2>1. CASE kind = "socketcan" BY <1>8, <2>1 DEF RcvAt, Received
    <2>2. CASE kind # "socketcan"
        <3>1. OK \in Line /\ ~IsRcv(OK) BY DEF Line, OK, IsRcv
        <3>2. /\ DOMAIN rx' = DOMAIN rx \cup {Len(rx) + 1} /\ rx'[Len(rx) + 1] = OK
              /\ \A k \in DOMAIN rx : rx'[k] = rx[k]
            BY <1>8, <2>2, <3>1, LineCame DEF BaseInv
        <3>3. RcvAt' = RcvAt BY <3>1, <3>2 DEF RcvAt
        <3>4. \A k \in RcvAt : rx'[k] = rx[k] BY <3>2 DEF RcvAt
        <3> QED BY <3>3, <3>4 DEF Received
    <2> QED BY <2>1, <2>2
<1>13. f \notin FramesOf(bus) \cup Received \cup FramesOf(replies)
    BY <1>3, <1>4 DEF Once
<1>14. (sent + 1)..f = ((sent + 1)..Untaken) \cup {f} /\ 1..Untaken \subseteq 1..f
    BY <1>4
<1> HIDE DEF f
<1>15. Once'
    <2>1. Len(tx') <= Cardinality(Chunk') BY <1>3, <1>4, <1>5, <1>11 DEF Once
    <2>2. \A k \in DOMAIN tx' : tx'[k].frame = Untaken' + k
        BY <1>3, <1>4, <1>5, <1>11 DEF Once, f
    <2>3. \A k, l \in RcvAt' : rx'[k].frame = rx'[l].frame => k = l
        BY <1>3, <1>12 DEF Once
    <2>4. FramesOf(bus') \cap Received' = {} BY <1>3, <1>10, <1>12, <1>13 DEF Once
    <2>5. FramesOf(bus') \cup Received' \subseteq (sent' + 1)..Untaken'
        BY <1>3, <1>10, <1>11, <1>12, <1>14 DEF Once
    <2>6. FramesOf(replies') \cap (FramesOf(bus') \cup Received') = {}
        BY <1>1, <1>3, <1>10, <1>12, <1>13 DEF Once
    <2>7. FramesOf(replies') \subseteq 1..Untaken' BY <1>1, <1>3, <1>11, <1>14 DEF Once
    <2>8. \A i \in (sent' + 1)..Untaken' : frames'[i].reply_required =>
            i \in FramesOf(bus') \cup Received' \cup FramesOf(replies') \cup lost'
        BY <1>1, <1>3, <1>10, <1>11, <1>12, <1>14 DEF Once
    <2> QED BY <2>1, <2>2, <2>3, <2>4, <2>5, <2>6, <2>7, <2>8 DEF Once, FramesOf
<1>16. Counts'
    <2>1. /\ expected_reply_count' = expected_reply_count /\ ok_count' = ok_count
          /\ expected_ok_count' = expected_ok_count /\ replies' = replies
        BY <1>1 DEF waitVars
    <2>2. \A m \in Motor : Owing(m)' = Owing(m) BY <1>11, <2>1 DEF Owing, FramesOf
    <2>3. kind = "fdcanusb" => ok_count + Cardinality(OkAt') + Len(tx') = expected_ok_count
        <3> SUFFICES ASSUME kind = "fdcanusb"
                     PROVE  ok_count + Cardinality(OkAt') + Len(tx') = expected_ok_count
            OBVIOUS
        <3>1. OK \in Line /\ OK.type = "OK" BY DEF Line, OK
        <3>2. /\ DOMAIN rx' = DOMAIN rx \cup {Len(rx) + 1} /\ rx'[Len(rx) + 1] = OK
              /\ \A k \in DOMAIN rx : rx'[k] = rx[k]
              /\ Len(rx) + 1 \notin DOMAIN rx /\ Len(rx) \in Nat
            BY <1>8, <3>1, LineCame DEF BaseInv
        <3>3. OkAt' = OkAt \cup {Len(rx) + 1} /\ Len(rx) + 1 \notin OkAt
            BY <3>1, <3>2 DEF OkAt
        <3>4. IsFiniteSet(OkAt)
            <4>1. DOMAIN rx = 1..Len(rx) BY DEF BaseInv, TypeOK
            <4>2. IsFiniteSet(DOMAIN rx) BY <3>2, <4>1, FS_Interval
            <4> QED BY <4>2, FS_Subset DEF OkAt
        <3>5. Cardinality(OkAt') = Cardinality(OkAt) + 1 /\ Cardinality(OkAt) \in Nat
            BY <3>3, <3>4, FS_AddElement, FS_CardinalityType
        <3>6. ok_count + Cardinality(OkAt) + Len(tx) = expected_ok_count BY <1>3 DEF Counts
        <3>7. ok_count \in Nat BY DEF BaseInv, TypeOK
        <3> QED BY <1>4, <1>5, <3>5, <3>6, <3>7
    <2>4. kind = "socketcan" => rx' = rx BY <1>8
    <2> QED BY <1>3, <1>11, <1>12, <2>1, <2>2, <2>3, <2>4 DEF Counts, NoReplies
<1> QED BY <1>1, <1>2, <1>15, <1>16 DEF OnChunk

(* An answer leaves the bus: no other is for its frame. *)
LEMMA LeftBus ==
    ASSUME BaseInv, device = "prompt", pc = "wait", NEW answer \in bus, bus' = bus \ {answer}
    PROVE  FramesOf(bus') = FramesOf(bus) \ {answer.frame} /\ answer.frame \in FramesOf(bus)
<1>1. \A a \in bus : a = Answer(a.frame)
    <2>1. \A a \in bus : a \in RcvLine /\ Ours(a)
        BY DEF BaseInv, TypeOK, LinesInv, Placed, Known, Late
    <2> QED BY <2>1, OursIsAnswer
<1>2. \A a \in bus : a.frame = answer.frame => a = answer BY <1>1
<1> QED BY <1>2 DEF FramesOf

LEMMA ChunkAnswer ==
    ASSUME BaseInv, OnChunk, device = "prompt", kind # "uart", Deliver \/ LoseAnswer
    PROVE  OnChunk'
<1>1. /\ UNCHANGED <<configVars, checksum_active_, pc, callVars, sent, attempt, waitVars, replies,
                     tx>>
      /\ \E answer \in bus : bus' = bus \ {answer}
    BY DEF Deliver, LoseAnswer
<1>2. pc = "wait" BY <1>1 DEF OnChunk, Clean
<1>3. Once /\ Counts BY <1>2 DEF OnChunk
<1>4. /\ Chunk' = Chunk /\ Last' = Last /\ frames' = frames /\ kind' = kind
      /\ sent' = sent /\ Untaken' = Untaken /\ tx' = tx /\ replies' = replies
    BY <1>1 DEF Chunk, Last, Untaken, Advance, Size, configVars, callVars
<1>5. /\ expected_reply_count' = expected_reply_count /\ ok_count' = ok_count
      /\ expected_ok_count' = expected_ok_count
    BY <1>1 DEF waitVars
<1>6. \A m \in Motor : Owing(m)' = Owing(m) BY <1>4 DEF Owing, FramesOf
<1>7. CASE Deliver
    <2>1. PICK answer \in bus : bus' = bus \ {answer} /\ rx' = Append(rx, answer)
        BY <1>7 DEF Deliver
    <2>2. lost' = lost BY <1>7 DEF Deliver, historyVars
    <2>3. answer \in Line /\ IsRcv(answer) /\ answer.type # "OK"
        BY DEF BaseInv, TypeOK, Line, RcvLine, IsRcv
    <2>4. /\ DOMAIN rx' = DOMAIN rx \cup {Len(rx) + 1} /\ rx'[Len(rx) + 1] = answer
          /\ \A k \in DOMAIN rx : rx'[k] = rx[k]
          /\ Len(rx) + 1 \notin DOMAIN rx
        BY <2>1, <2>3, LineCame DEF BaseInv
    <2> DEFINE new == Len(rx) + 1
    <2>5. RcvAt' = RcvAt \cup {new} /\ OkAt' = OkAt
        BY <2>3, <2>4 DEF RcvAt, OkAt
    <2>6. new \notin RcvAt /\ rx'[new] = answer /\ \A k \in RcvAt : rx'[k] = rx[k]
        BY <2>4 DEF RcvAt
    <2> HIDE DEF new
    <2>7. Received' = Received \cup {answer.frame} BY <2>5, <2>6 DEF Received
    <2>8. FramesOf(bus') = FramesOf(bus) \ {answer.frame} /\ answer.frame \in FramesOf(bus)
        BY <1>2, <2>1, LeftBus
    <2>9. answer.frame \notin Received BY <1>3, <2>8 DEF Once
    <2>10. \A k, l \in RcvAt' : rx'[k].frame = rx'[l].frame => k = l
        <3>1. \A k \in RcvAt : rx'[k].frame \in Received /\ rx'[k].frame = rx[k].frame
            BY <2>6 DEF Received
        <3>2. \A k, l \in RcvAt : rx[k].frame = rx[l].frame => k = l BY <1>3 DEF Once
        <3> QED BY <2>5, <2>6, <2>9, <3>1, <3>2
    <2>11. Once'
        <3>1. FramesOf(bus') \cup Received' = FramesOf(bus) \cup Received BY <2>7, <2>8
        <3>2. FramesOf(bus') \cap Received' = {} BY <1>3, <2>7, <2>8 DEF Once
        <3>3. /\ FramesOf(bus') \cup Received' \subseteq (sent' + 1)..Untaken'
              /\ FramesOf(replies') \cap (FramesOf(bus') \cup Received') = {}
              /\ FramesOf(replies') \subseteq 1..Untaken'
              /\ \A i \in (sent' + 1)..Untaken' : frames'[i].reply_required =>
                    i \in FramesOf(bus') \cup Received' \cup FramesOf(replies') \cup lost'
            BY <1>3, <1>4, <2>2, <3>1 DEF Once
        <3>4. Len(tx') <= Cardinality(Chunk') /\ \A k \in DOMAIN tx' : tx'[k].frame = Untaken' + k
            BY <1>3, <1>4 DEF Once
        <3> QED BY <2>10, <3>2, <3>3, <3>4 DEF Once, FramesOf
    <2>12. RcvAt = DOMAIN rx => RcvAt' = DOMAIN rx' BY <2>4, <2>5 DEF new
    <2>13. Counts'
        BY <1>3, <1>4, <1>5, <1>6, <2>5, <2>12 DEF Counts, NoReplies
    <2> QED BY <1>1, <1>2, <2>11, <2>13 DEF OnChunk
<1>8. CASE LoseAnswer
    <2>1. PICK answer \in bus : bus' = bus \ {answer} /\ Loses(answer) /\ rx' = rx
        BY <1>8 DEF LoseAnswer
    <2>2. answer.call = call BY <1>2 DEF BaseInv, LinesInv, Placed, Known, Ours, Late
    <2>3. lost' = lost \cup {answer.frame} BY <2>1, <2>2 DEF Loses
    <2>4. FramesOf(bus') = FramesOf(bus) \ {answer.frame} BY <1>2, <2>1, LeftBus
    <2>5. RcvAt' = RcvAt /\ OkAt' = OkAt /\ Received' = Received
        BY <2>1 DEF RcvAt, OkAt, Received
    <2>6. Once'
        <3>1. /\ FramesOf(bus') \cap Received' = {}
              /\ FramesOf(bus') \cup Received' \subseteq (sent' + 1)..Untaken'
              /\ FramesOf(replies') \cap (FramesOf(bus') \cup Received') = {}
              /\ FramesOf(replies') \subseteq 1..Untaken'
              /\ \A i \in (sent' + 1)..Untaken' : frames'[i].reply_required =>
                    i \in FramesOf(bus') \cup Received' \cup FramesOf(replies') \cup lost'
            BY <1>3, <1>4, <2>3, <2>4, <2>5 DEF Once
        <3>2. Len(tx') <= Cardinality(Chunk') /\ \A k \in DOMAIN tx' : tx'[k].frame = Untaken' + k
            BY <1>3, <1>4 DEF Once
        <3>3. \A k, l \in RcvAt' : rx'[k].frame = rx'[l].frame => k = l
            BY <1>3, <2>1, <2>5 DEF Once
        <3> QED BY <3>1, <3>2, <3>3 DEF Once, FramesOf
    <2>7. Counts' BY <1>3, <1>4, <1>5, <1>6, <2>1, <2>5 DEF Counts, NoReplies
    <2> QED BY <1>1, <1>2, <2>6, <2>7 DEF OnChunk
<1> QED BY <1>7, <1>8

LEMMA InitChunk == Init => ChunkInv
BY DEF Init, ChunkInv, OnChunk, Clean

LEMMA ChunkStep == BaseInv /\ ChunkInv /\ [Next]_vars => ChunkInv'
<1> SUFFICES ASSUME BaseInv, ChunkInv, [Next]_vars, device' = "prompt", kind' # "uart"
             PROVE  OnChunk'
    BY DEF ChunkInv
<1>1. device = "prompt" /\ kind # "uart"
    BY DEF Next, Thread, Device, Over, Cycle, Flush, FlushOver, SendChunk, CheckReplies, CheckTimeout,
           SendUart, WaitForOk, OkTimeout, WaitForReply, ReplyTimeout, Complete, Accept, Ignore,
           LoseLine, Deliver, LoseAnswer, vars, configVars
<1>2. OnChunk BY <1>1 DEF ChunkInv
<1>3. CASE Cycle \/ Flush \/ FlushOver \/ Complete BY <1>1, <1>2, <1>3, ChunkCall
<1>4. CASE SendChunk BY <1>2, <1>4, ChunkSent
<1>5. CASE CheckReplies BY <1>1, <1>2, <1>5, ChunkChecked
<1>6. CASE CheckTimeout BY <1>1, <1>2, <1>6, ChunkTimedOut
<1>7. CASE SendUart \/ WaitForOk \/ OkTimeout \/ WaitForReply \/ ReplyTimeout
    BY <1>1, <1>7
    DEF SendUart, WaitForOk, OkTimeout, WaitForReply, ReplyTimeout, BaseInv, ControlInv
<1>8. CASE Accept BY <1>1, <1>2, <1>8, ChunkAccept
<1>9. CASE Deliver \/ LoseAnswer BY <1>1, <1>2, <1>9, ChunkAnswer
<1>10. CASE Ignore \/ LoseLine BY <1>1, <1>10 DEF Ignore, LoseLine
<1>11. CASE Over \/ UNCHANGED vars
    <2>1. UNCHANGED <<configVars, pc, frames, sent, expected_ok_count, ok_count, expected_reply_count,
                      replies, tx, bus, rx, lost>>
        BY <1>11 DEF Over, vars, callVars, waitVars, lineVars, historyVars
    <2>2. /\ Chunk' = Chunk /\ Last' = Last /\ Untaken' = Untaken /\ RcvAt' = RcvAt /\ OkAt' = OkAt
          /\ Received' = Received
        BY <2>1 DEF Chunk, Last, Untaken, Advance, Size, RcvAt, OkAt, Received, configVars
    <2>3. \A m \in Motor : Owing(m)' = Owing(m) BY <2>1, <2>2 DEF Owing, FramesOf
    <2>4. Once' = Once BY <2>1, <2>2 DEF Once, FramesOf
    <2>5. Counts' = Counts BY <2>1, <2>2, <2>3 DEF Counts, NoReplies, FramesOf, configVars
    <2> QED BY <1>2, <2>1, <2>4, <2>5 DEF OnChunk, Clean, FramesOf
<1> QED BY <1>3, <1>4, <1>5, <1>6, <1>7, <1>8, <1>9, <1>10, <1>11 DEF Next, Thread, Device

----------------------------------------------------------------------------
(* What follows for a call. *)

LEMMA QuietInv == UartInv /\ SettledInv /\ ChunkInv => QuietAtFlush
BY DEF UartInv, OnUart, SettledInv, Settled, ChunkInv, OnChunk, Clean, QuietAtFlush, Quiet

(* IInv is an inductive invariant of the cycles. *)
THEOREM Invariance == Spec => []IInv
<1>1. IInv <=> BaseInv /\ Traced /\ UartInv /\ SettledInv /\ ChunkInv BY DEF IInv, BaseInv
<1>2. Init => IInv BY <1>1, InitBase, InitTraced, InitUart, InitSettled, InitChunk
<1>3. IInv' <=> BaseInv' /\ Traced' /\ UartInv' /\ SettledInv' /\ ChunkInv'
    BY DEF IInv, BaseInv
<1>4. IInv /\ [Next]_vars => IInv'
    BY <1>1, <1>3, QuietInv, BaseStep, TracedStep, UartStep, SettledStep, ChunkStep
<1> QED BY <1>2, <1>4, PTL DEF Spec

(* Every variable keeps its type.                                          *)
THEOREM TypeCorrect == Spec => []TypeOK
<1>1. IInv => TypeOK BY DEF IInv
<1> QED BY <1>1, Invariance, PTL

(* What is returned as an answer was given to this call, or was still on   *)
(* the way to it when its flush ended: no answer that had come in before   *)
(* is ever returned (moteus_transport.h:336-339, 1015-1018), and with a    *)
(* device that answers in time nothing is on the way then, for each kind   *)
(* of device, so that no answer of an earlier call comes back at all.      *)
THEOREM RepliesOfThisCall == Spec => []RepliesAreCurrent
<1>1. IInv => RepliesAreCurrent
    <2> SUFFICES ASSUME IInv, NEW reply \in replies
                 PROVE  reply.call = call \/ (device # "prompt" /\ reply \in overdue)
        BY DEF RepliesAreCurrent
    <2>1. Known(reply) /\ reply \in RcvLine BY DEF IInv, TypeOK, LinesInv
    <2>2. Reply(reply) = reply BY <2>1, ReplyFacts
    <2> QED BY <2>1, <2>2 DEF Known, Ours, Late
<1> QED BY <1>1, Invariance, PTL

(* On a UART whose device answers in time, a frame taken to be             *)
(* acknowledged has been carried out (moteus_transport.h:1026-1042).       *)
THEOREM AckRan == Spec => []AckMeansRan
<1>1. IInv => AckMeansRan BY DEF IInv, UartInv, OnUart, AckMeansRan
<1> QED BY <1>1, Invariance, PTL

(* With no more than max_retries setbacks, every frame of a call gets      *)
(* through to the device of a UART (moteus_transport.h:1026-1042).         *)
THEOREM UartGetsThrough == Spec => []UartDelivers
<1>1. IInv => UartDelivers
    BY DEF IInv, TypeOK, ControlInv, UartInv, OnUart, UartDelivers, Size
<1> QED BY <1>1, Invariance, PTL

(* A wait that ends before its time has the answer to every frame that     *)
(* asked for one (moteus_transport.h:432-437).                             *)
THEOREM WaitEndsComplete == Spec => EarlyEndIsComplete
<1>1. ASSUME IInv, device = "prompt", CheckReplies, pc' # "wait",
             NEW i \in Chunk, frames[i].reply_required
      PROVE  Answered(i)
    <2>1. BaseInv BY <1>1 DEF IInv, BaseInv
    <2>2. /\ pc = "wait" /\ ConsumeData /\ TakeReplies /\ CountReplies
          /\ ok_count' = ok_count + Oks /\ UNCHANGED <<expected_ok_count, call, frames>>
        BY <1>1 DEF CheckReplies, callVars
    <2>3. kind # "uart" BY <2>1, <2>2 DEF BaseInv, ControlInv
    <2>4. Once /\ Counts BY <1>1, <2>2, <2>3 DEF IInv, ChunkInv, OnChunk
    <2>5. AllHere BY <1>1, <2>2 DEF CheckReplies
    <2>6. i \in FramesOf(replies') BY <1>1, <2>1, <2>2, <2>3, <2>4, <2>5, NothingLeft
    <2>7. PICK reply \in replies' : reply.frame = i BY <2>6 DEF FramesOf
    <2>8. BaseInv' BY <1>1, <2>1, ChunkBase
    <2>9. reply \in RcvLine /\ Ours(reply)
        <3>1. device' = "prompt" BY <1>1 DEF CheckReplies, configVars
        <3> QED BY <2>2, <2>8, <3>1 DEF BaseInv, TypeOK, LinesInv, Known, Ours, Late
    <2>10. reply = Answer(i) BY <2>7, <2>9, OursIsAnswer
    <2>11. Answer(i) = Reply(Request(i)) BY DEF Answer, Reply, Rcv, Request
    <2> QED BY <2>10, <2>11 DEF Answered
<1>2. IInv /\ [Next]_vars =>
        [device = "prompt" /\ CheckReplies /\ pc' # "wait" =>
            \A i \in Chunk : frames[i].reply_required => Answered(i)]_vars
    BY <1>1
<1> QED BY <1>2, Invariance, PTL DEF Spec, EarlyEndIsComplete

(* Time runs out only if something of what is waited for was lost, or the  *)
(* wait was in vain from the start (moteus_transport.h:346).               *)
THEOREM TimeoutAfterLoss == Spec => TimeoutMeansLoss
<1>1. ASSUME IInv, device = "prompt", CheckTimeout PROVE VainSocket \/ Chunk \cap lost # {}
    <2> SUFFICES ASSUME ~VainSocket, Chunk \cap lost = {} PROVE FALSE
        OBVIOUS
    <2>1. BaseInv BY <1>1 DEF IInv, BaseInv
    <2>2. pc = "wait" /\ tx = <<>> /\ bus = {} /\ rx = <<>>
        BY <1>1 DEF CheckTimeout, TimedOut, Quiet
    <2>3. kind # "uart" BY <2>1, <2>2 DEF BaseInv, ControlInv
    <2>4. Once /\ Counts BY <1>1, <2>2, <2>3 DEF IInv, ChunkInv, OnChunk
    <2>5. Untaken = Last /\ Chunk = (sent + 1)..Last BY <2>1, <2>2, ChunkFacts
    <2>6. FramesOf(bus) = {} /\ Received = {} /\ OkAt = {}
        BY <2>2 DEF FramesOf, Received, RcvAt, OkAt
    <2>7. \A i \in Chunk : frames[i].reply_required => i \in FramesOf(replies)
        BY <2>4, <2>5, <2>6 DEF Once
    <2>8. expected_reply_count = NoReplies
        <3>1. \A m \in Motor : Owing(m) = {} BY <2>7 DEF Owing
        <3>2. \A m \in Motor : expected_reply_count[m] = 0
            BY <2>4, <3>1, FS_EmptySet DEF Counts
        <3> QED BY <2>1, <3>2 DEF BaseInv, TypeOK, NoReplies
    <2>9. ok_count >= expected_ok_count
        <3>1. expected_ok_count = Cardinality(Chunk) /\ Cardinality(Chunk) \in Nat
              /\ ok_count \in Nat
            BY <2>1, <2>2, <2>4 DEF Counts, BaseInv, TypeOK
        <3>2. CASE kind = "fdcanusb"
            <4>1. ok_count + Cardinality(OkAt) + Len(tx) = expected_ok_count
                BY <2>4, <3>2 DEF Counts
            <4>2. Cardinality(OkAt) = 0 /\ Len(tx) = 0 BY <2>2, <2>6, FS_EmptySet
            <4> QED BY <3>1, <4>1, <4>2
        <3>3. CASE kind = "socketcan"
            <4>1. \A i \in Chunk : frames[i].reply_required BY <3>3 DEF VainSocket
            <4>2. Chunk \cap FramesOf(replies) = Chunk BY <2>7, <4>1
            <4>3. ok_count = Cardinality(Chunk) BY <2>4, <3>3, <4>2 DEF Counts
            <4> QED BY <3>1, <4>3
        <3> QED BY <2>1, <2>3, <3>2, <3>3 DEF BaseInv, TypeOK
    <2> QED BY <2>4, <2>8, <2>9 DEF Counts
<1>2. ASSUME IInv, device = "prompt", OkTimeout PROVE demanding \/ sent + 1 \in lost
    <2>1. pc = "ok" /\ TimedOut BY <1>2 DEF OkTimeout
    <2>2. BaseInv BY <1>2 DEF IInv, BaseInv
    <2>3. OnUart BY <1>2, <2>1, <2>2 DEF IInv, ControlInv, UartInv
    <2>4. Failed BY <1>2, <2>1, <2>2, <2>3, OkTimeoutFails
    <2> QED BY <2>4 DEF Failed
<1>3. ASSUME IInv, device = "prompt", ReplyTimeout PROVE VainReply \/ sent + 1 \in lost
    <2>1. pc = "rcv" /\ bus = {} /\ rx = <<>> BY <1>3 DEF ReplyTimeout, TimedOut, Quiet
    <2>2. sent + 1 \in acked /\ Current.reply_required /\ kind = "uart"
        BY <1>3, <2>1 DEF IInv, ControlInv
    <2>3. ran[sent + 1] > 0 /\ sent + 1 \in DOMAIN frames
        BY <1>3, <2>2 DEF IInv, TypeOK, UartInv, OnUart
    <2>4. Somewhere(sent + 1) BY <1>3, <2>2, <2>3 DEF IInv, Traced, Current
    <2>5. Answer(sent + 1) \in replies \/ sent + 1 \in lost
        BY <2>1, <2>4 DEF Somewhere, InRx
    <2>6. Answer(sent + 1).frame = sent + 1 BY DEF Answer, Rcv
    <2> QED BY <2>5, <2>6 DEF VainReply
<1>4. IInv /\ [Next]_vars =>
        [device = "prompt" =>
            /\ CheckTimeout => VainSocket \/ Chunk \cap lost # {}
            /\ OkTimeout => demanding \/ sent + 1 \in lost
            /\ ReplyTimeout => VainReply \/ sent + 1 \in lost]_vars
    BY <1>1, <1>2, <1>3
<1> QED BY <1>4, Invariance, PTL DEF Spec, TimeoutMeansLoss
=============================================================================
