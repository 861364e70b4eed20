-------------------------- MODULE MoteusController --------------------------
(* mjbots::moteus::Controller: the calls of one client on the diagnostic    *)
(* channel of a motor controller, and SetPositionWaitComplete.              *)
(*                                                                          *)
(* The diagnostic channel is a stream of text in each direction, carried in *)
(* frames: the client writes a command in chunks of 48 bytes and polls for  *)
(* the output.  A poll of the plain protocol takes the next piece of output *)
(* off the board; one of the flow-controlled protocol acknowledges the last *)
(* packet that came, and the board repeats a packet until it is             *)
(* acknowledged.  Which of them the board speaks is probed once.            *)
(*                                                                          *)
(* Each call is one Transport::Cycle after the other.  A cycle loses the    *)
(* request, loses the reply, or delivers it, and may bring a frame of       *)
(* another board besides; what a late reply would do is in                  *)
(* TimeoutTransport.  The target answers a request once, so that the frames *)
(* of a cycle are a set with at most one of the target's.                   *)
(*                                                                          *)
(* ProcessReplies reads the bytes of a reply through a pointer into a       *)
(* result whose scope has ended (moteus.h:1190, 1213).  The model takes     *)
(* them to be there still, as a compiler that gives that storage to nothing *)
(* else in between leaves them.                                             *)
EXTENDS Integers, Sequences, FiniteSets, SequencesExt

CONSTANTS MaxCalls,          \* calls of the client
          Chunks,            \* frames a command takes
          PacketModulus,     \* packet numbers; 256 in the code
          MaxRetries,        \* Options::diagnostic_flow_retries
          Boards             \* subset of {"flow", "plain", "deaf"}: what the board
                             \*   answers a flow-controlled poll with ("deaf": nothing)

ASSUME MoteusControllerAssumption ==
    /\ {MaxCalls, Chunks} \subseteq Nat \ {0}
    /\ PacketModulus \in Nat \ {0, 1}
    /\ MaxRetries \in Nat
    /\ Boards \subseteq {"flow", "plain", "deaf"}

VARIABLES
    call,        \* the call under way: its number, kind and step
    write,       \* chunks of the command left to write
    empty,       \* empty_replies
    line,        \* current_line
    output,      \* the ostringstream, or the response of a read
    retries,     \* retries_remaining
    count,       \* of SetPositionWaitComplete
    probed,      \* flow_control_probed_
    useFlow,     \* use_flow_control_
    ack,         \* last_ack_packet_[channel]
    replies,     \* the frames the last cycle brought
    ended,       \* the calls that returned, with what
    got,         \* every piece of output the client took, in order
    said,        \* every piece the board had ready, in order
    board,       \* how the board answers
    heard,       \* the chunks of the line so far all arrived
    queue,       \* the output of the board nobody asked for yet
    working,     \* output of the last command still to come
    pending,     \* the packet sent and not acknowledged, as a sequence
    packet,      \* the number of the last packet
    motion       \* the board's trajectory: [target, flag, complete, fault]

client == <<call, write, empty, line, output, retries, count>>
flow == <<probed, useFlow, ack>>
channel == <<heard, queue, working, pending, packet>>
vars == <<client, flow, replies, ended, got, said, board, channel, motion>>

Kinds == {"ok", "single", "read", "flush", "position"}

-----------------------------------------------------------------------------
(* The text.  A piece of output is [call, part, end], the part of which     *)
(* command's output it is and whether it ends a line, "OK" or another, or   *)
(* none.  A command that reports OK prints a line and then OK, split over   *)
(* two pieces; the answer to the other kind is one line.                    *)

Piece(c, part, end) == [call |-> c, part |-> part, end |-> end]

OutputOf(c, kind) ==
    IF kind = "ok" THEN <<Piece(c, 1, "text"), Piece(c, 2, "none"), Piece(c, 3, "OK")>>
                   ELSE <<Piece(c, 1, "none"), Piece(c, 2, "text")>>

Ends(text) == {k \in DOMAIN text : text[k].end # "none"}

LineStart(text, k) == 1 + Max({0} \cup {j \in Ends(text) : j < k})

LineAt(text, k) == SubSeq(text, LineStart(text, k), k)

(* The line is "OK" and nothing else: both pieces of it, from one command.  *)
IsOK(l) == /\ Len(l) = 2 /\ l[2].end = "OK"
           /\ l[1] = Piece(l[2].call, 2, "none")

OKLines(text) == {k \in Ends(text) : IsOK(LineAt(text, k))}

-----------------------------------------------------------------------------
Idle == [number |-> 0, kind |-> "none", step |-> "idle"]

Init ==
    /\ call = Idle
    /\ write = 0 /\ empty = 0 /\ line = << >> /\ output = << >>
    /\ retries = 0 /\ count = 0
    /\ probed = FALSE /\ useFlow = FALSE /\ ack = 0
    /\ replies = {} /\ ended = << >> /\ got = << >> /\ said = << >>
    /\ board \in Boards
    /\ heard = TRUE /\ queue = << >> /\ working = << >> /\ pending = << >>
    /\ packet \in IF board = "flow" THEN 0..(PacketModulus - 1) ELSE {0}
    /\ motion = [target |-> 0, flag |-> 0, complete |-> TRUE, fault |-> FALSE]

ETIMEDOUT == 110

(* The callback is invoked with an error, or the call returns.  `true` is   *)
(* kept of a position call: whether what it waited for had happened.        *)
Finish(error, result, true) ==
    /\ ended' = Append(ended, [kind |-> call.kind, error |-> error, result |-> result,
                               flow |-> useFlow', true |-> true])
    /\ call' = [call EXCEPT !.step = "idle"]

StepTo(step) == call' = [call EXCEPT !.step = step] /\ UNCHANGED ended

-----------------------------------------------------------------------------
(* The board (external).                                                    *)

(* At most two pieces fit a packet.                                         *)
Fit(q) == IF Len(q) < 2 THEN Len(q) ELSE 2
Room(q) == SubSeq(q, 1, Fit(q))
Later(q) == SubSeq(q, Fit(q) + 1, Len(q))

Frame(protocol, number, data) ==
    [source |-> "target", protocol |-> protocol, number |-> number, data |-> data]

Stranger == [source |-> "other", protocol |-> "flow", number |-> 0,
             data |-> <<Piece(0, 1, "text")>>]

Speaks(protocol) == IF protocol = "flow" THEN board ELSE "plain"

Repeats(number) == pending # << >> /\ number # packet

NextNumber == IF queue = << >> THEN packet ELSE (packet + 1) % PacketModulus

(* A plain poll takes what is pending or, if nothing is, what is next.      *)
Reply(protocol, number) ==
    CASE Speaks(protocol) = "deaf" -> {}
      [] Speaks(protocol) = "plain" ->
            {Frame("plain", 0, IF pending = << >> THEN Room(queue) ELSE pending)}
      [] Speaks(protocol) = "flow" ->
            {IF Repeats(number) THEN Frame("flow", packet, pending)
             ELSE Frame("flow", NextNumber, Room(queue))}

BoardActs(protocol, number) ==
    CASE \/ Speaks(protocol) = "deaf"
         \/ Speaks(protocol) = "flow" /\ Repeats(number) ->
            UNCHANGED <<queue, pending, packet>>
      [] Speaks(protocol) = "plain" ->
            /\ queue' = IF pending = << >> THEN Later(queue) ELSE queue
            /\ pending' = << >>
            /\ UNCHANGED packet
      [] OTHER ->
            /\ pending' = Room(queue)
            /\ queue' = Later(queue)
            /\ packet' = NextNumber

(* The outcomes of a cycle.                                                 *)
Noise == {{}, {Stranger}}

RequestLost == replies' \in Noise /\ UNCHANGED <<queue, pending, packet>>

ReplyLost(protocol, number) ==
    BoardActs(protocol, number) /\ replies' \in Noise

Delivered(protocol, number) ==
    /\ BoardActs(protocol, number)
    /\ \E noise \in Noise : replies' = Reply(protocol, number) \cup noise

Exchange(protocol, number) == \/ RequestLost
                              \/ ReplyLost(protocol, number)
                              \/ Delivered(protocol, number)

(* The output of a command becomes ready piece by piece.                    *)
Emit ==
    /\ working # << >>
    /\ queue' = Append(queue, Head(working))
    /\ said' = Append(said, Head(working))
    /\ working' = Tail(working)
    /\ UNCHANGED <<client, flow, replies, ended, got, board, heard, pending, packet, motion>>

(* The control loop takes up a new target, and gets there or faults; its    *)
(* timeout, kPositionTimeout, counts as a fault.                            *)
Control ==
    /\ \/ /\ motion.flag # motion.target
          /\ motion' = [motion EXCEPT !.flag = motion.target, !.complete = FALSE]
       \/ /\ motion.flag = motion.target /\ ~motion.complete
          /\ motion' = [motion EXCEPT !.complete = TRUE]
       \/ /\ ~motion.fault /\ motion.target # 0
          /\ motion' = [motion EXCEPT !.fault = TRUE]
    /\ UNCHANGED <<client, flow, replies, ended, got, said, board, channel>>

-----------------------------------------------------------------------------
(* The client.                                                              *)

(* Variant: any frame will do.                                              *)
IsAnyFrame(reply) == TRUE
IsFromTarget(reply) == reply.source = "target"

FromTarget == {reply \in replies : IsFromTarget(reply)}

(* The frames that parse: DiagnosticFlowResponse or DiagnosticResponse.     *)
Parsed(protocol) == {reply \in FromTarget : reply.protocol = protocol}

Only(frames) == CHOOSE frame \in frames : TRUE

Data(frames) == IF frames = {} THEN << >> ELSE Only(frames).data

(* Variant: the number of the packet is not kept.                           *)
AcknowledgeNothing(frames) == UNCHANGED ack
Acknowledge(frames) ==
    ack' = IF frames = {} THEN ack ELSE Only(frames).number

(* SetPositionWaitComplete: the first reply may still show the move before. *)
(* Variant: the first reply counts.                                         *)
OneReply == 1
RepliesToPass == 2

Call(kind) ==
    /\ call.step = "idle" /\ Len(ended) < MaxCalls
    /\ call' = [number |-> Len(ended) + 1, kind |-> kind,
                step |-> CASE kind \in {"ok", "single"} -> "write"
                           [] kind = "position" -> "position"
                           [] OTHER -> IF probed THEN "poll" ELSE "probe"]
    /\ write' = Chunks
    /\ empty' = 0 /\ line' = << >> /\ output' = << >>
    /\ retries' = MaxRetries
    /\ count' = RepliesToPass
    /\ UNCHANGED <<flow, replies, ended, got, said, board, channel, motion>>

(* DoWrite and the callback after it: no replies, so the next chunk or the  *)
(* first read follows.  The board carries out a line it heard whole.        *)
DoWrite ==
    /\ call.step = "write"
    /\ \E lost \in BOOLEAN :
          LET whole == heard /\ ~lost
          IN IF write > 1 \/ lost
             THEN heard' = whole /\ UNCHANGED working
             ELSE /\ heard' = TRUE
                  /\ working' = IF whole THEN working \o OutputOf(call.number, call.kind)
                                ELSE working
    /\ write' = write - 1
    /\ StepTo(IF write > 1 THEN "write" ELSE IF probed THEN "poll" ELSE "probe")
    /\ UNCHANGED <<empty, line, output, retries, count, flow, replies, got, said, board,
                   queue, pending, packet, motion>>

(* ProbeFlowControl: it counts as done before its answer is in.             *)
ProbeFlowControl ==
    /\ call.step = "probe"
    /\ probed' = TRUE
    /\ Exchange("flow", 0)
    /\ StepTo("probed")
    /\ UNCHANGED <<write, empty, line, output, retries, count, useFlow, ack, got, said,
                   board, heard, working, motion>>

(* A read is over: AsyncDiagnosticRead's callback, or the next turn of      *)
(* DiagnosticFlush.  It goes on until a read is empty and its time is up,   *)
(* counted in empty reads: at most FlushReads of them, and anew after data. *)
FlushReads == 2

ReadEnds(error, data) ==
    \/ /\ call.kind = "read" \/ (call.kind = "flush" /\ data = << >>)
       /\ Finish(error, data, TRUE)
       /\ UNCHANGED <<retries, empty>>
    \/ /\ call.kind = "flush"
       /\ data # << >> \/ empty < FlushReads
       /\ StepTo("poll")
       /\ retries' = MaxRetries
       /\ empty' = IF data # << >> THEN 0 ELSE empty + 1

(* ProcessReplies: a line ends the command, or goes to the output.          *)
ProcessReplies(text) ==
    LET done == IF call.kind = "single" THEN Ends(text) ELSE OKLines(text)
        last == Max({0} \cup Ends(text))
    IN IF done # {}
       THEN /\ Finish(0, IF call.kind = "single" THEN LineAt(text, Min(done))
                         ELSE output \o SubSeq(text, 1, LineStart(text, Min(done)) - 1), TRUE)
            /\ line' = text /\ UNCHANGED output
       ELSE /\ StepTo("poll")
            /\ output' = output \o SubSeq(text, 1, last)
            /\ line' = SubSeq(text, last + 1, Len(text))

HandleProbe ==
    /\ call.step = "probed"
    /\ LET flowing == Parsed("flow")
           data    == Data(FromTarget)
       IN /\ useFlow' = (flowing # {})
          /\ Acknowledge(flowing)
          /\ got' = got \o data
          /\ IF call.kind \in {"read", "flush"}
             THEN /\ ReadEnds(IF data = << >> THEN ETIMEDOUT ELSE 0, data)
                  /\ UNCHANGED <<line, output>>
             ELSE ProcessReplies(line \o data) /\ UNCHANGED <<retries, empty>>
    /\ replies' = {}
    /\ UNCHANGED <<write, count, probed, said, board, channel, motion>>

(* DoReadInner gives up after five empty replies; the reads do not.         *)
Expired == call.kind \in {"ok", "single"} /\ empty >= 5

GiveUp ==
    /\ call.step = "poll" /\ Expired
    /\ UNCHANGED <<write, empty, line, output, retries, count, flow, replies, got, said,
                   board, channel, motion>>
    /\ Finish(ETIMEDOUT, << >>, TRUE)

Polling == IF useFlow THEN "flow" ELSE "plain"

Poll(exchange) ==
    /\ call.step = "poll" /\ ~Expired
    /\ exchange
    /\ StepTo("handle")
    /\ UNCHANGED <<write, empty, line, output, retries, count, flow, got, said, board,
                   heard, working, motion>>

PollLost == Poll(RequestLost \/ ReplyLost(Polling, ack))
PollAnswered == Poll(Delivered(Polling, ack))

(* Variant: a reply without data starts the count anew.                     *)
CountAnew(frames, data) == IF frames = {} THEN empty ELSE 0
CountEmpty(frames, data) ==
    IF frames = {} THEN empty ELSE IF data = << >> THEN empty + 1 ELSE 0

HandleCommand ==
    /\ call.step = "handle" /\ call.kind \in {"ok", "single"}
    /\ LET frames == Parsed(Polling)
           data   == Data(frames)
       IN /\ IF useFlow THEN Acknowledge(frames) ELSE UNCHANGED ack
          /\ empty' = CountEmpty(frames, data)
          /\ got' = got \o data
          /\ UNCHANGED <<probed, useFlow>>
          /\ ProcessReplies(line \o data)
    /\ replies' = {}
    /\ UNCHANGED <<write, retries, count, said, board, channel, motion>>

(* The flow-controlled read repeats its poll; the plain one cannot.         *)
HandleRead ==
    /\ call.step = "handle" /\ call.kind \in {"read", "flush"}
    /\ LET frames == Parsed(Polling)
           any    == frames # {}
           data   == Data(frames)
       IN /\ IF useFlow THEN Acknowledge(frames) ELSE UNCHANGED ack
          /\ got' = got \o data
          /\ UNCHANGED <<probed, useFlow>>
          /\ CASE any -> ReadEnds(0, data)
               [] ~any /\ useFlow /\ retries > 0 -> StepTo("poll") /\ retries' = retries - 1
                                                       /\ UNCHANGED empty
               [] OTHER -> ReadEnds(ETIMEDOUT, << >>)
    /\ replies' = {}
    /\ UNCHANGED <<write, line, output, count, said, board, channel, motion>>

-----------------------------------------------------------------------------
(* SetPositionWaitComplete.  The board answers with its flag as it stands   *)
(* when the frame comes; the control loop has run before the next one.      *)
Moving == [source |-> "target", complete |-> motion.complete, fault |-> motion.fault]

SendPosition(answered) ==
    /\ call.step = "position" /\ motion.flag = motion.target
    /\ replies' = IF answered THEN {Moving} ELSE {}
    /\ \/ motion' = [motion EXCEPT !.target = call.number]
       \/ ~answered /\ UNCHANGED motion
    /\ StepTo("moving")
    /\ UNCHANGED <<write, empty, line, output, retries, count, flow, got, said, board, channel>>

PositionLost == SendPosition(FALSE)
PositionAnswered == SendPosition(TRUE)

HandlePosition ==
    /\ call.step = "moving"
    /\ LET found == FromTarget
           left  == IF found = {} \/ count = 0 THEN count ELSE count - 1
       IN /\ count' = left
          /\ UNCHANGED flow
          /\ IF left = 0 /\ found # {} /\ (Only(found).complete \/ Only(found).fault)
             THEN Finish(0, << >>, motion.fault \/ (motion.flag = call.number /\ motion.complete))
             ELSE StepTo("position")
    /\ replies' = {}
    /\ UNCHANGED <<write, empty, line, output, retries, got, said, board, channel, motion>>

Over == call.step = "idle" /\ Len(ended) = MaxCalls /\ UNCHANGED vars

Turn == \/ DoWrite \/ ProbeFlowControl \/ HandleProbe \/ GiveUp
        \/ PollLost \/ PollAnswered \/ HandleCommand \/ HandleRead
        \/ PositionLost \/ PositionAnswered \/ HandlePosition

Next == (\E kind \in Kinds : Call(kind)) \/ Turn \/ Emit \/ Control \/ Over

(* The transport's thread goes on with a call, the board with its work, and *)
(* a request sent again and again is answered again and again.              *)
Fairness == /\ WF_vars(Turn) /\ WF_vars(Emit) /\ WF_vars(Control)
            /\ SF_vars(PollAnswered) /\ SF_vars(PositionAnswered)

Spec == Init /\ [][Next]_vars /\ Fairness

-----------------------------------------------------------------------------
(* StreamInOrder: with flow control the client takes the board's output     *)
(* piece by piece, each once, in order, with nothing left out, whatever     *)
(* requests and replies are lost; and without it, what it takes is still in *)
(* order and taken once.                                                    *)
Before(p, q) == p.call < q.call \/ (p.call = q.call /\ p.part < q.part)

StreamInOrder ==
    /\ useFlow => IsPrefix(got, said)
    /\ \A k \in 2..Len(got) : Before(got[k - 1], got[k])

(* OwnOutput: on a flow-controlled channel a command that reports success   *)
(* returns the whole of its own output, as long as no command before it     *)
(* failed: not the end of an earlier one's, and not a part.                 *)
OwnOutput ==
    \A k \in DOMAIN ended :
        (/\ ended[k].kind \in {"ok", "single"} /\ ended[k].error = 0 /\ ended[k].flow
         /\ \A j \in 1..(k - 1) : ended[j].error = 0)
        => ended[k].result = IF ended[k].kind = "ok" THEN <<OutputOf(k, "ok")[1]>>
                             ELSE OutputOf(k, "single")

(* MoveDone: SetPositionWaitComplete returns only when this move is over or *)
(* the motor has faulted, never on the flag of the move before.             *)
MoveDone == \A k \in DOMAIN ended : ended[k].kind = "position" => ended[k].true

(* CallsEnd: every call returns, on a link that answers now and then.       *)
CallsEnd == call.step # "idle" ~> call.step = "idle"
=============================================================================
