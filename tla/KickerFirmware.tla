--------------------------- MODULE KickerFirmware ---------------------------
(***************************************************************************)
(* Arduino.ino: the board that pulses the kicker's solenoid and drives the *)
(* dribbler at the bytes it receives, from power-up or reset on.           *)
(*                                                                         *)
(* Time passes in milliseconds, between any two steps of the sketch.       *)
(* millis() wraps, and the sketch subtracts modulo the same width.         *)
(***************************************************************************)
EXTENDS Naturals, Sequences

CONSTANTS
    kickerActiveLevel,  \* TRUE for HIGH (new kicker), FALSE for LOW (old board)
    kicker_timeout,     \* minimum gap between kicks
    kickerPulseTime,
    Wrap,               \* millis() and unsigned long count modulo Wrap
    MaxQueue,           \* bound: the serial receive buffer; more is dropped
    Horizon             \* bound: where the time since the last pulse is capped

ASSUME FirmwareAssumption ==
    /\ kickerActiveLevel \in BOOLEAN
    /\ {kicker_timeout, kickerPulseTime, Horizon} \subseteq Nat
    /\ {Wrap, MaxQueue} \subseteq Nat \ {0}
    /\ kicker_timeout <= Horizon

kickerIdleLevel == ~kickerActiveLevel
Byte == {"K", "D", "S"}

VARIABLES
    fpc,            \* where the sketch stands
    latch, driven,  \* output latch of the kicker's pin; whether it is an OUTPUT
    esc,            \* what the dribbler's controller was last told
    millis,
    previous_time,  \* pervious_time
    current_time,   \* millis() when the kick in progress was read
    incoming,       \* bytes received, not yet read
    since           \* time since the solenoid was last energised, up to Horizon

pinVars == <<latch, driven>>
kickVars == <<previous_time, current_time>>
firmwareVars == <<fpc, pinVars, esc, millis, kickVars, incoming, since>>

(* Power-up; the solenoid has rested. *)
Init ==
    /\ fpc = "latch"
    /\ latch = FALSE /\ driven = FALSE
    /\ esc = "off"
    /\ millis = 0 /\ previous_time = 0 /\ current_time = 0
    /\ incoming = <<>>
    /\ since = Horizon

(* a - b in unsigned long. *)
Minus(a, b) == IF a >= b THEN a - b ELSE a + Wrap - b

----------------------------------------------------------------------------
(* setup() *)

\* Variant: the latch is left as the reset made it.
LoadLow == UNCHANGED latch
LoadIdle == latch' = kickerIdleLevel

PreloadLatch ==
    /\ fpc = "latch"
    /\ fpc' = "output"
    /\ LoadIdle
    /\ UNCHANGED <<driven, esc, millis, kickVars, incoming, since>>

DrivePin ==
    /\ fpc = "output"
    /\ fpc' = "attach"
    /\ driven' = TRUE
    /\ UNCHANGED <<latch, esc, millis, kickVars, incoming, since>>

AttachDribbler ==
    /\ fpc = "attach"
    /\ fpc' = "loop"
    /\ esc' = "stop"
    /\ UNCHANGED <<pinVars, millis, kickVars, incoming, since>>

----------------------------------------------------------------------------
(* loop() *)

Reads(b) ==
    /\ fpc = "loop"
    /\ incoming # <<>> /\ Head(incoming) = b
    /\ incoming' = Tail(incoming)

\* Variant: the end of the gap is computed, and compared as a number.
TooFastByDeadline == millis < (previous_time + kicker_timeout) % Wrap
TooFast == Minus(millis, previous_time) < kicker_timeout

\* Variant: a rejected kick restarts the timer.
RejectionRestarts == previous_time' = millis
RejectionKeepsTimer == UNCHANGED previous_time

RejectKick ==
    /\ Reads("K")
    /\ TooFast
    /\ RejectionKeepsTimer
    /\ UNCHANGED <<fpc, pinVars, esc, millis, current_time, since>>

Kick ==
    /\ Reads("K")
    /\ ~TooFast
    /\ fpc' = "pulse"
    /\ latch' = kickerActiveLevel
    /\ current_time' = millis
    /\ since' = 0
    /\ UNCHANGED <<driven, esc, millis, previous_time>>

PulseOver == Minus(millis, current_time) >= kickerPulseTime

Release ==
    /\ fpc = "pulse"
    /\ PulseOver
    /\ fpc' = "loop"
    /\ latch' = kickerIdleLevel
    /\ previous_time' = current_time
    /\ UNCHANGED <<driven, esc, millis, current_time, incoming, since>>

Dribble ==
    /\ \/ Reads("D") /\ esc' = "run"
       \/ Reads("S") /\ esc' = "stop"
    /\ UNCHANGED <<fpc, pinVars, millis, kickVars, since>>

Sketch ==
    \/ PreloadLatch \/ DrivePin \/ AttachDribbler
    \/ RejectKick \/ Kick \/ Release \/ Dribble

----------------------------------------------------------------------------
(* The board's surroundings: the clock, the serial line, and the reset that *)
(* opening the serial port or a loss of power causes.                       *)

Tick ==
    /\ millis' = IF millis + 1 = Wrap THEN 0 ELSE millis + 1
    /\ since' = IF since = Horizon THEN since ELSE since + 1
    /\ UNCHANGED <<fpc, pinVars, esc, kickVars, incoming>>

Receive(b) ==
    /\ incoming' = IF Len(incoming) < MaxQueue THEN Append(incoming, b) ELSE incoming
    /\ UNCHANGED <<fpc, pinVars, esc, millis, kickVars, since>>

Reset ==
    /\ fpc' = "latch"
    /\ latch' = FALSE /\ driven' = FALSE
    /\ esc' = "off"
    /\ millis' = 0 /\ previous_time' = 0 /\ current_time' = 0
    /\ incoming' = <<>>
    /\ UNCHANGED since

Next == Sketch \/ Tick \/ (\E b \in Byte : Receive(b)) \/ Reset

Spec == Init /\ [][Next]_firmwareVars

----------------------------------------------------------------------------
(* Correctness. *)

TypeOK ==
    /\ fpc \in {"latch", "output", "attach", "loop", "pulse"}
    /\ latch \in BOOLEAN /\ driven \in BOOLEAN
    /\ esc \in {"off", "stop", "run"}
    /\ millis \in 0..(Wrap - 1)
    /\ previous_time \in 0..(Wrap - 1)
    /\ current_time \in 0..(Wrap - 1)
    /\ incoming \in Seq(Byte)
    /\ since \in 0..Horizon

(* Two pulses start at least kicker_timeout apart, whatever is queued, when *)
(* millis() wraps and however often the board is reset, although a reset   *)
(* forgets the last kick (Arduino.ino:28, 55-67).                          *)
KickGap == [][Kick => since >= kicker_timeout]_firmwareVars

(* The solenoid is driven only by a kick: not at boot, not after a reset,  *)
(* not between kicks, with either kicker (Arduino.ino:36-40, 64-66).       *)
NoTwitch == driven /\ latch = kickerActiveLevel => fpc = "pulse"
=============================================================================
