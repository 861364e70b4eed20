----------------------------- MODULE MCArduino -----------------------------
(* The board in its two surroundings: behind a port that ArduinoLink opens  *)
(* and closes, any bytes coming in and the sketch as slow as it likes; or   *)
(* behind a port that stays open, while the operator holds the kick and     *)
(* time is counted.  Which of them it is does not change.                   *)
EXTENDS ArduinoLink, KickPath

VARIABLE holding    \* the operator holds the kick

boardVars == <<allVars, age, holding>>

PortStaysOpen ==
    /\ lpc = "idle" /\ port = None
    /\ is_connected = TRUE /\ connected_port = BoardPort
    /\ opened = BoardPort /\ alive = TRUE /\ probed = TRUE /\ refused = FALSE
    /\ present = {BoardPort} /\ plugs = 0

InitBoard == \/ holding = FALSE /\ InitLink /\ age = 0
             \/ holding = TRUE /\ InitPath /\ PortStaysOpen

NextBoard == \/ ~holding /\ NextLink /\ UNCHANGED <<age, holding>>
             \/ holding /\ NextPath /\ UNCHANGED <<linkVars, plugVars, holding>>

SpecBoard == InitBoard /\ [][NextBoard]_boardVars

(* While the operator holds the kick and the port stays open, the solenoid  *)
(* fires again and again, never later than one tick of the robot's timer    *)
(* after the board's timeout (Arduino.ino:55-67, RobotFramework.cpp:407).   *)
HeldKickIsNotStarved == holding => HeldKickFires
=============================================================================
