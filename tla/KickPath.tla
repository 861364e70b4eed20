------------------------------ MODULE KickPath ------------------------------
(***************************************************************************)
(* The way of a kick the operator keeps asking for: the robot's control    *)
(* loop sends K at every tick of its Arduino timer, and the board fires as *)
(* often as its timeout allows.                                            *)
(*                                                                         *)
(* Here the sketch is faster than a millisecond: time passes only when it  *)
(* waits for a byte or for the end of a pulse.  The board is up when the   *)
(* robot starts to kick and is not reset meanwhile (the port stays open).  *)
(***************************************************************************)
EXTENDS KickerFirmware

CONSTANTS
    Interval,   \* Arduino_interval
    MaxIter     \* bound: longest iteration of the control loop

(* The longest time between two ticks of the Arduino timer, as in RobotLoop. *)
Gap == Interval + MaxIter - 1

ASSUME PathAssumption ==
    /\ {Interval, MaxIter} \subseteq Nat \ {0}
    /\ kickerPulseTime < kicker_timeout
    /\ kicker_timeout + Gap < Wrap
    /\ kicker_timeout + Gap < Horizon

VARIABLE age    \* time since the robot's last Arduino tick

vars == <<firmwareVars, age>>

(* The board has just booted; its solenoid is taken to have rested from    *)
(* then on, which is the rest the sketch demands.                          *)
BoardUp ==
    /\ fpc = "loop"
    /\ latch = kickerIdleLevel /\ driven = TRUE
    /\ esc = "stop"
    /\ millis = 0 /\ previous_time = 0 /\ current_time = 0
    /\ incoming = <<>>
    /\ since = 0

InitPath == BoardUp /\ age = 0

(* The Arduino block of the control loop, with cmd.kick up. *)
SendKick ==
    /\ age >= Interval
    /\ age' = 0
    /\ Receive("K")

SketchStep == Sketch /\ UNCHANGED age

Waits == (fpc = "loop" /\ incoming = <<>>) \/ (fpc = "pulse" /\ ~PulseOver)

TimePasses ==
    /\ Waits
    /\ age < Gap
    /\ age' = age + 1
    /\ Tick

NextPath == SendKick \/ SketchStep \/ TimePasses

SpecPath == InitPath /\ [][NextPath]_vars

(* While the operator holds the kick the solenoid fires again and again,   *)
(* never later than one tick after the timeout: refused kicks do not push  *)
(* the next one away, and millis() may wrap (Arduino.ino:55-67,            *)
(* RobotFramework.cpp:407-414).                                            *)
HeldKickFires == since < kicker_timeout + Gap
=============================================================================
