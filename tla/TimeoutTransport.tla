-------------------------- MODULE TimeoutTransport --------------------------
(***************************************************************************)
(* One call of TimeoutTransport::Cycle as its child thread carries it out, *)
(* for the three ways to reach the motors: an fdcanusb adapter, a UART     *)
(* (both class Fdcanusb), and a CAN socket (class Socketcan).              *)
(*                                                                         *)
(* The line to the device and the line back are queues.  An adapter says   *)
(* OK for each frame it takes; a UART may lose a line in either direction, *)
(* and a frame without OK is sent again; a socket has no OK.  Answers of   *)
(* the motors come in any order, late, or never.                           *)
(***************************************************************************)
EXTENDS Integers, Sequences, FiniteSets

CONSTANTS
    Motor,
    CallFrames,    \* the lists of frames a caller may pass
    Pipelines,     \* values of max_pipeline: frames sent before waiting, negative for no limit
    max_retries,   \* of a frame on a UART
    MaxCalls,      \* bound: calls of the caller
    MaxBehind,     \* bound: lines and answers a late device is behind when a wait runs out
    MaxLosses      \* bound: lines and answers lost

Frame == [destination : Motor, reply_required : BOOLEAN]

ASSUME TransportAssumption ==
    /\ CallFrames \subseteq Seq(Frame)
    /\ Pipelines \subseteq Int \ {0} /\ Pipelines # {}
    /\ {max_retries, MaxCalls, MaxBehind, MaxLosses} \subseteq Nat

VARIABLES
    max_pipeline,
    kind,              \* "fdcanusb", "uart" or "socketcan"
    demanding,         \* the device refuses lines without a checksum
    device,            \* "prompt": it answers in time what it answers at all; "late"; "silent"
    checksum_active_,
    pc,                \* where the child stands
    call,              \* number of the call
    frames,            \* the frames of the call
    sent,              \* frames dealt with, or being dealt with
    attempt,           \* of the frame in hand, on a UART
    expected_ok_count,
    ok_count,
    expected_reply_count,
    replies,           \* what the call returns; in which order is left out
    tx,                \* the line to the device
    bus,               \* answers of motors on their way
    rx,                \* the line from the device
    ran,               \* history: how often each frame of the call was carried out
    acked,             \* history: the frames of the call taken to be acknowledged
    lost,              \* history: the frames of the call that lost a line
    overdue,           \* history: answers still to come when the call's flush ended
    losses

configVars == <<max_pipeline, kind, demanding, device>>
callVars == <<call, frames>>
waitVars == <<expected_ok_count, ok_count, expected_reply_count>>
lineVars == <<tx, bus, rx>>
historyVars == <<ran, acked, lost, overdue, losses>>
vars == <<configVars, checksum_active_, pc, callVars, sent, attempt, waitVars, replies,
          lineVars, historyVars>>

Smaller(a, b) == IF a <= b THEN a ELSE b
NoReplies == [m \in Motor |-> 0]
Size == Len(frames)

(* A line to the device names the frame by call and position; a line back  *)
(* is an OK, an ERR that asks for checksums, or the answer of a motor.     *)
Request(i) ==
    [call |-> call, frame |-> i, checksum |-> checksum_active_,
     source |-> frames[i].destination, reply_required |-> frames[i].reply_required]
OK == [type |-> "OK"]
ERR == [type |-> "ERR"]
Rcv(c, i, m) == [type |-> "rcv", call |-> c, frame |-> i, source |-> m]
Reply(r) == Rcv(r.call, r.frame, r.source)

(* A serial port that is not a known USB adapter is taken to be a UART,     *)
(* unless the options settle the question.                                 *)
Options == [uart_mode : BOOLEAN, checksum_enabled : BOOLEAN, auto_detect : BOOLEAN]
Port == {"adapter", "other serial", "can"}
DetectIsFdcanusb(port) == port = "adapter"
Detected(options, port) ==
    options.auto_detect /\ ~options.uart_mode /\ ~DetectIsFdcanusb(port)

Opened(options, port) ==
    IF port = "can" THEN kind = "socketcan" /\ checksum_active_ = FALSE
    ELSE /\ kind = IF options.uart_mode \/ Detected(options, port) THEN "uart" ELSE "fdcanusb"
         /\ checksum_active_ = (options.checksum_enabled \/ Detected(options, port))

Init ==
    /\ \E options \in Options, port \in Port : Opened(options, port)
    /\ demanding \in (IF kind = "uart" THEN BOOLEAN ELSE {FALSE})
    /\ device \in {"prompt", "late", "silent"}
    /\ max_pipeline \in Pipelines
    /\ pc = "idle" /\ call = 0 /\ frames = <<>>
    /\ sent = 0 /\ attempt = 0
    /\ expected_ok_count = 0 /\ ok_count = 0 /\ expected_reply_count = NoReplies
    /\ replies = {}
    /\ tx = <<>> /\ bus = {} /\ rx = <<>>
    /\ ran = <<>> /\ acked = {} /\ lost = {} /\ overdue = {} /\ losses = 0

----------------------------------------------------------------------------
(* The child reads. *)

(* A read of the serial line gets every line that has come, one of the     *)
(* socket a single frame.                                                  *)
Read == IF kind = "socketcan" THEN SubSeq(rx, 1, 1) ELSE rx
Unread == IF kind = "socketcan" THEN Tail(rx) ELSE <<>>
IsRcv(line) == line.type = "rcv"
Rcvs == {Read[i] : i \in {k \in DOMAIN Read : IsRcv(Read[k])}}
\* Variant: an ERR counts like an OK.
OksOrErrs ==
    IF kind = "socketcan" THEN 1 ELSE Cardinality({i \in DOMAIN Read : ~IsRcv(Read[i])})
Oks ==
    IF kind = "socketcan" THEN 1
    ELSE Cardinality({i \in DOMAIN Read : Read[i].type = "OK"})
ProcessErr == checksum_active_' = (checksum_active_ \/ \E i \in DOMAIN Read : Read[i].type = "ERR")

ConsumeData ==
    /\ rx # <<>>
    /\ rx' = Unread
    /\ ProcessErr
    /\ UNCHANGED <<tx, bus>>

\* Variant: what was waiting is taken for replies to the new call.
FlushKeeps == replies' = replies \cup Rcvs
FlushDrops == UNCHANGED replies

TakeReplies == replies' = replies \cup Rcvs

From(m) == Cardinality({i \in DOMAIN Read : IsRcv(Read[i]) /\ Read[i].source = m})
\* Variant: any answer counts for whichever motor still owes one.
CountAnySource ==
    expected_reply_count' =
        [m \in Motor |-> expected_reply_count[m] -
            Smaller(expected_reply_count[m], Cardinality({i \in DOMAIN Read : IsRcv(Read[i])}))]
CountReplies ==
    expected_reply_count' =
        [m \in Motor |-> expected_reply_count[m] - Smaller(expected_reply_count[m], From(m))]

(* The wait is over as soon as everything expected has come. *)
AllHere == expected_reply_count' = NoReplies /\ ok_count' >= expected_ok_count

(* poll times out: nothing can be read, and a prompt device has nothing    *)
(* more to say, a late one not without end.                                *)
Quiet == tx = <<>> /\ bus = {}
TimedOut ==
    /\ rx = <<>>
    /\ device = "prompt" => Quiet
    /\ device = "late" => Len(tx) + Cardinality(bus) <= MaxBehind

----------------------------------------------------------------------------
(* A call. *)

Cycle ==
    /\ pc = "idle" /\ call < MaxCalls
    /\ call' = call + 1
    /\ frames' \in CallFrames
    /\ replies' = {}
    /\ pc' = "flush"
    /\ sent' = 0 /\ attempt' = 0
    /\ ran' = [i \in DOMAIN frames' |-> 0] /\ acked' = {} /\ lost' = {} /\ overdue' = {}
    /\ UNCHANGED <<configVars, checksum_active_, waitVars, lineVars, losses>>

Flush ==
    /\ pc = "flush"
    /\ ConsumeData
    /\ FlushDrops
    /\ UNCHANGED <<configVars, pc, callVars, sent, attempt, waitVars, historyVars>>

(* The flush ends after a moment without input (final_wait_ns), whatever   *)
(* is still on the way, or part of a line in line_buffer_.                 *)
FlushOver ==
    /\ pc = "flush"
    /\ rx = <<>>
    /\ pc' = IF Size = 0 THEN "complete" ELSE "send"
    /\ overdue' = bus \cup {Reply(tx[i]) : i \in DOMAIN tx}
    /\ UNCHANGED <<configVars, checksum_active_, callVars, sent, attempt, waitVars, replies,
                   lineVars, ran, acked, lost, losses>>

(* The frames are written out as lines, and the lines flushed. *)
Transmit(requests) == tx' = tx \o requests

(* As many frames as max_pipeline allows, then their OKs and answers.      *)
Advance == IF max_pipeline < 0 THEN Size ELSE max_pipeline
Chunk == (sent + 1)..Smaller(sent + Advance, Size)
\* Variant: what the chunk before did not get is still waited for.
CountsKept(m) == expected_reply_count[m]
CountsCleared(m) == 0

SendChunk ==
    /\ pc = "send" /\ kind # "uart"
    /\ Transmit([i \in 1..Cardinality(Chunk) |-> Request(sent + i)])
    /\ expected_ok_count' = Cardinality(Chunk)
    /\ ok_count' = 0
    /\ expected_reply_count' =
        [m \in Motor |-> CountsCleared(m) +
            Cardinality({i \in Chunk : frames[i].reply_required /\ frames[i].destination = m})]
    /\ pc' = "wait"
    /\ UNCHANGED <<configVars, checksum_active_, callVars, sent, attempt, replies, bus, rx,
                   historyVars>>

NextChunk ==
    /\ sent' = Smaller(sent + Advance, Size)
    /\ pc' = IF sent' < Size THEN "send" ELSE "complete"

CheckReplies ==
    /\ pc = "wait"
    /\ ConsumeData
    /\ TakeReplies
    /\ CountReplies
    /\ ok_count' = ok_count + Oks
    /\ UNCHANGED expected_ok_count
    /\ IF AllHere THEN NextChunk ELSE UNCHANGED <<pc, sent>>
    /\ UNCHANGED <<configVars, callVars, attempt, historyVars>>

\* Variant: a poll that timed out is repeated.
PollAgain == UNCHANGED <<pc, sent>>
GiveUp == NextChunk

CheckTimeout ==
    /\ pc = "wait"
    /\ TimedOut
    /\ GiveUp
    /\ UNCHANGED <<configVars, checksum_active_, callVars, attempt, waitVars, replies, lineVars,
                   historyVars>>

(* On a UART: one frame at a time, again until its OK comes.               *)
Current == frames[sent + 1]

SendUart ==
    /\ pc = "send" /\ kind = "uart"
    /\ Transmit(<<Request(sent + 1)>>)
    /\ pc' = "ok"
    /\ UNCHANGED <<configVars, checksum_active_, callVars, sent, attempt, waitVars, replies, bus,
                   rx, historyVars>>

NextFrame ==
    /\ sent' = sent + 1
    /\ attempt' = 0
    /\ pc' = IF sent' < Size THEN "send" ELSE "complete"

Acknowledged ==
    /\ acked' = acked \cup {sent + 1}
    /\ IF Current.reply_required
         THEN /\ pc' = "rcv"
              /\ expected_reply_count' = [NoReplies EXCEPT ![Current.destination] = 1]
              /\ UNCHANGED <<sent, attempt>>
         ELSE NextFrame /\ UNCHANGED expected_reply_count

WaitForOk ==
    /\ pc = "ok"
    /\ ConsumeData
    /\ TakeReplies
    /\ IF Oks > 0 THEN Acknowledged ELSE UNCHANGED <<pc, sent, attempt, acked, expected_reply_count>>
    /\ UNCHANGED <<configVars, callVars, expected_ok_count, ok_count, ran, lost, overdue, losses>>

\* Variant: the first attempt counts as a retry.
RetriesLeftLess == attempt + 1 < max_retries
RetriesLeft == attempt < max_retries

OkTimeout ==
    /\ pc = "ok"
    /\ TimedOut
    /\ IF RetriesLeft
         THEN pc' = "send" /\ attempt' = Smaller(attempt + 1, max_retries) /\ UNCHANGED sent
         ELSE NextFrame
    /\ UNCHANGED <<configVars, checksum_active_, callVars, waitVars, replies, lineVars, historyVars>>

(* The answer, which may have been read together with the OK.              *)
WaitForReply ==
    /\ pc = "rcv"
    /\ ConsumeData
    /\ TakeReplies
    /\ CountReplies
    /\ IF expected_reply_count' = NoReplies THEN NextFrame ELSE UNCHANGED <<pc, sent, attempt>>
    /\ UNCHANGED <<configVars, callVars, expected_ok_count, ok_count, historyVars>>

ReplyTimeout ==
    /\ pc = "rcv"
    /\ TimedOut
    /\ NextFrame
    /\ UNCHANGED <<configVars, checksum_active_, callVars, waitVars, replies, lineVars, historyVars>>

(* The completion callback is posted and run. *)
Complete ==
    /\ pc = "complete"
    /\ pc' = "idle"
    /\ UNCHANGED <<configVars, checksum_active_, callVars, sent, attempt, waitVars, replies,
                   lineVars, historyVars>>

Thread ==
    \/ Flush \/ FlushOver \/ SendChunk \/ CheckReplies \/ CheckTimeout
    \/ SendUart \/ WaitForOk \/ OkTimeout \/ WaitForReply \/ ReplyTimeout \/ Complete

----------------------------------------------------------------------------
(* The device and the motors. *)

Loses(line) ==
    /\ losses < MaxLosses
    /\ losses' = losses + 1
    /\ lost' = IF line.call = call THEN lost \cup {line.frame} ELSE lost

Refuses(request) == demanding /\ ~request.checksum

CarryOut(request) ==
    /\ ran' = IF request.call = call THEN [ran EXCEPT ![request.frame] = @ + 1] ELSE ran
    /\ bus' = IF request.reply_required THEN bus \cup {Reply(request)} ELSE bus

(* A line is taken: refused, or carried out and acknowledged. *)
Accept ==
    /\ device # "silent" /\ tx # <<>>
    /\ tx' = Tail(tx)
    /\ IF Refuses(Head(tx))
         THEN rx' = Append(rx, ERR) /\ UNCHANGED <<ran, bus>>
         ELSE CarryOut(Head(tx)) /\ rx' = (IF kind = "socketcan" THEN rx ELSE Append(rx, OK))
    /\ UNCHANGED <<configVars, checksum_active_, pc, callVars, sent, attempt, waitVars, replies,
                   acked, lost, overdue, losses>>

(* A UART loses the line, or the OK or ERR for it. *)
LoseLine ==
    /\ kind = "uart" /\ device # "silent" /\ tx # <<>>
    /\ Loses(Head(tx))
    /\ tx' = Tail(tx)
    /\ \/ UNCHANGED <<ran, bus>>
       \/ ~Refuses(Head(tx)) /\ CarryOut(Head(tx))
    /\ UNCHANGED <<configVars, checksum_active_, pc, callVars, sent, attempt, waitVars, replies,
                   rx, acked, overdue>>

(* Nothing is connected, or it is off. *)
Ignore ==
    /\ device = "silent" /\ tx # <<>>
    /\ tx' = Tail(tx)
    /\ UNCHANGED <<configVars, checksum_active_, pc, callVars, sent, attempt, waitVars, replies,
                   bus, rx, historyVars>>

(* An answer comes, or does not. *)
Deliver ==
    /\ \E answer \in bus : bus' = bus \ {answer} /\ rx' = Append(rx, answer)
    /\ UNCHANGED <<configVars, checksum_active_, pc, callVars, sent, attempt, waitVars, replies,
                   tx, historyVars>>

LoseAnswer ==
    /\ \E answer \in bus : bus' = bus \ {answer} /\ Loses(answer)
    /\ UNCHANGED <<configVars, checksum_active_, pc, callVars, sent, attempt, waitVars, replies,
                   tx, rx, ran, acked, overdue>>

Device == Accept \/ Ignore \/ LoseLine \/ Deliver \/ LoseAnswer

Over == pc = "idle" /\ call = MaxCalls /\ UNCHANGED vars

Next == Cycle \/ Thread \/ Device \/ Over

Spec == Init /\ [][Next]_vars

(* The thread runs.  A device takes what is sent and the bus delivers or   *)
(* drops its answers: no faster than it likes unless it is prompt.         *)
FairSpec == Spec /\ WF_vars(Thread) /\ WF_vars(Device)

----------------------------------------------------------------------------
(* Correctness. *)

Position == Nat \ {0}
RcvLine == [type : {"rcv"}, call : Position, frame : Position, source : Motor]
RequestLine ==
    [call : Position, frame : Position, checksum : BOOLEAN, source : Motor,
     reply_required : BOOLEAN]

TypeOK ==
    /\ kind \in {"fdcanusb", "uart", "socketcan"}
    /\ max_pipeline \in Pipelines
    /\ device \in {"prompt", "late", "silent"}
    /\ {demanding, checksum_active_} \subseteq BOOLEAN
    /\ pc \in {"idle", "flush", "send", "wait", "ok", "rcv", "complete"}
    /\ call \in Nat /\ frames \in Seq(Frame)
    /\ sent \in 0..Len(frames) /\ attempt \in 0..max_retries
    /\ expected_ok_count \in Nat /\ ok_count \in Nat
    /\ expected_reply_count \in [Motor -> Nat]
    /\ replies \subseteq RcvLine
    /\ tx \in Seq(RequestLine) /\ bus \subseteq RcvLine
    /\ rx \in Seq({OK, ERR} \cup RcvLine)
    /\ ran \in [DOMAIN frames -> Nat]
    /\ {acked, lost} \subseteq SUBSET DOMAIN frames
    /\ overdue \subseteq RcvLine
    /\ losses \in 0..MaxLosses

(* A call returns no answer to an earlier one, unless it came from a       *)
(* device that answers late, and after the flush: what had come in before  *)
(* is dropped (moteus_transport.h:336-339, 1015-1018), and behind a call   *)
(* with a prompt device nothing is left to come, though the flush lasts a  *)
(* moment only.                                                            *)
RepliesAreCurrent ==
    \A reply \in replies : reply.call = call \/ (device # "prompt" /\ reply \in overdue)

(* On a UART whose device answers in time, a frame taken to be             *)
(* acknowledged has been carried out: neither an ERR, nor the OK of        *)
(* another frame or of an earlier attempt, stands for its own              *)
(* (moteus_transport.h:1026-1042, 881-890).  A device that answers late    *)
(* breaks it: the late OK is taken for that of the frame sent meanwhile.   *)
AckMeansRan == device = "prompt" /\ kind = "uart" => \A i \in acked : ran[i] > 0

(* Up to max_retries lines may be lost, the demand for checksums counting  *)
(* as one, and every frame still gets through                              *)
(* (moteus_transport.h:1026-1042, 881-890).                                *)
Setbacks == losses + (IF demanding THEN 1 ELSE 0)
UartDelivers ==
    device = "prompt" /\ kind = "uart" /\ pc = "complete" /\ Setbacks <= max_retries =>
        \A i \in DOMAIN frames : i \in acked

(* A wait that ends before its time has the answer to every frame that     *)
(* asked for one, each of its own motor (moteus_transport.h:432-437).      *)
Answered(i) == Reply(Request(i)) \in replies'
EarlyEndIsComplete ==
    [][device = "prompt" /\ CheckReplies /\ pc' # "wait" =>
        \A i \in Chunk : frames[i].reply_required => Answered(i)]_vars

(* Time runs out only if something of what is waited for was lost: what    *)
(* an earlier part of the call, or an earlier call, lost is not waited     *)
(* for again (moteus_transport.h:346).  Three waits are in vain: for       *)
(* the OK of a line refused; on a UART, for the answer that was read with  *)
(* its OK; and for OKs of a socket, which only answers give.               *)
VainSocket == kind = "socketcan" /\ \E i \in Chunk : ~frames[i].reply_required
VainReply == \E reply \in replies : reply.frame = sent + 1
TimeoutMeansLoss ==
    [][device = "prompt" =>
        /\ CheckTimeout => VainSocket \/ Chunk \cap lost # {}
        /\ OkTimeout => demanding \/ sent + 1 \in lost
        /\ ReplyTimeout => VainReply \/ sent + 1 \in lost]_vars

(* Every call ends, also with a device that never says a word.             *)
CallsEnd == pc # "idle" ~> pc = "idle"
=============================================================================
