----------------------------- MODULE RobotDrive -----------------------------
(* The control loop with the decoder and the kinematics it calls: main's    *)
(* cmd and m, from the text of a datagram to the speeds of the wheels.      *)
EXTENDS RobotLoop, CommandDecoder, WheelMath, TLC

CONSTANTS Text,     \* the tokens of every command datagram
          Mode      \* of Wheel_math: 0 safe, 1 capped, 2 unsafe

(* The decoder's members outlive the datagram.                              *)
DecodeText(p, c) ==
    IF p \in DOMAIN Text
    THEN LET read == decode_cmd(Text[p], c.velocity @@ [kick |-> c.kick, dribble |-> c.dribble])
         IN [velocity |-> [a \in Axis |-> read[a]], kick |-> read.kick, dribble |-> read.dribble]
    ELSE c

SpeedsOf(v) == [m \in Motor |-> calculate(v, Mode)[m]]

ASSUME DriveAssumption ==
    /\ N <= 4
    /\ Mode \in {0, 1, 2}
    /\ Velocity \subseteq [Axis -> Int]
    /\ Zero = <<0, 1>>
    /\ \A v \in Velocity : Calculate(v) = SpeedsOf(v)
    /\ \A p \in Payload, c \in Command : Decode(p, c) = DecodeText(p, c)

(* However datagrams are cut short, garbled or beyond the limits, in safe   *)
(* and capped mode no wheel is ever told to turn faster than it would for   *)
(* some body velocity within the limits (wheel_math.cpp:33-69,              *)
(* decode.cpp:5, RobotFramework.cpp:304-311).                               *)
WheelsKeepLimits == Mode \in {0, 1} => \A m \in Motor : Within(command[m].velocity, m)
=============================================================================
