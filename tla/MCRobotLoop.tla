---------------------------- MODULE MCRobotLoop ----------------------------
(* Small instances of RobotDrive: datagrams that set everything, too much,  *)
(* or a part of the members.                                                *)
EXTENDS RobotDrive

Body(x, y, w) == [velocity_x |-> x, velocity_y |-> y, velocity_w |-> w]

(* "cut" ends after velocity_x, "garbled" has no number for velocity_y, and *)
(* "push" has a number for kick that is no bool.                            *)
MCText == [fast    |-> <<7, 4, 3, 0, 0, 0, 9>>,
         brake   |-> <<7, 0, 0, 0, 0, 0, 9>>,
         kick    |-> <<7, 0, 0, 0, 1, 1, 9>>,
         push    |-> <<7, 0, 0, 0, 2, 1, 9>>,
         cut     |-> <<7, 0>>,
         garbled |-> <<7, 0, NoNumber, 0, 0, 0, 9>>]

MCDecode(p, c) == DecodeText(p, c)
MCCalculate(v) == SpeedsOf(v)
MCZero == <<0, 1>>

(* What the members can hold, uninitialised members among them.             *)
MCVelocity == {Body(4, 3, 0), Body(0, 3, 0), Body(0, 0, 0)}
MCSpeed == {MCZero} \cup {MCCalculate(v)[m] : v \in MCVelocity, m \in Motor}
Still == {Body(0, 0, 0)}

DrivePayload == {"STOP", "TIMEOUT", "fast", "cut"}
BoardPayload == {"STOP", "TIMEOUT", "brake", "kick", "push", "garbled"}

Times(receiver, camera_, motor, sender, arduino) ==
    [t \in Timer |-> CASE t = "receiver" -> receiver [] t = "camera" -> camera_
                       [] t = "motor" -> motor [] t = "sender" -> sender
                       [] t = "arduino" -> arduino]

(* Driving: polls and motor cycles that drift against each other.  Board:   *)
(* the tick is due at every other poll.                                     *)
DriveInterval == Times(2, 1, 3, 1, 1)
BoardInterval == Times(1, 2, 1, 1, 2)
=============================================================================
