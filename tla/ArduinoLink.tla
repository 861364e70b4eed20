----------------------------- MODULE ArduinoLink -----------------------------
(***************************************************************************)
(* Class Arduino (arduino.cpp), the robot's end of the serial line, with   *)
(* the board of KickerFirmware at one of the ports.  Devices are plugged   *)
(* and unplugged at any time; opening the board's port resets it.          *)
(*                                                                         *)
(* findArduino and connect sleep for two seconds with a port open, so they *)
(* are several steps.  An open port whose device was unplugged is dead,    *)
(* and stays so when a device is plugged in again; on a live one, too, the *)
(* settings made after Open and the flush after the sleep may fail.        *)
(***************************************************************************)
EXTENDS KickerFirmware

CONSTANTS
    Ports,      \* the number of ports, in the order findArduino tries them
    BoardPort,  \* where the board is
    Locked,     \* ports that cannot be opened
    MaxPlugs    \* bound: how often something is plugged or unplugged

Port == 1..Ports
None == 0

ASSUME LinkAssumption ==
    /\ Ports \in Nat /\ BoardPort \in Port
    /\ Locked \subseteq Port
    /\ MaxPlugs \in Nat

VARIABLES
    lpc,            \* "idle", "scan", "probe" (test_port was opened), "settle" (serial_port was)
    port,           \* the port that is tried
    is_connected,
    connected_port,
    opened,         \* the port serial_port holds open
    alive,          \* its device has not been unplugged since
    probed,         \* the device at test_port has not been unplugged since
    present,        \* ports with a device
    plugs,
    refused         \* history: connect failed after it had opened the port

linkVars == <<lpc, port, is_connected, connected_port, opened, alive, probed, refused>>
plugVars == <<present, plugs>>
allVars == <<firmwareVars, linkVars, plugVars>>

InitLink ==
    /\ Init
    /\ lpc = "idle" /\ port = None
    /\ is_connected = FALSE /\ connected_port = None
    /\ opened = None /\ alive = FALSE /\ probed = FALSE /\ refused = FALSE
    /\ present \in SUBSET Port /\ plugs = 0

(* Opening the board's port pulls its reset line. *)
Touch(p) == IF p = BoardPort THEN Reset ELSE UNCHANGED firmwareVars

CanOpen(p) == p \in present /\ p \notin Locked

----------------------------------------------------------------------------
(* The calls. *)

(* findArduino: the ports one after the other; the first that can be       *)
(* opened is taken for the Arduino.                                        *)
FindArduino ==
    /\ lpc = "idle"
    /\ lpc' = "scan" /\ port' = 1
    /\ UNCHANGED <<is_connected, connected_port, opened, alive, probed, refused, plugVars, firmwareVars>>

NextPort ==
    IF port < Ports THEN lpc' = "scan" /\ port' = port + 1 ELSE lpc' = "idle" /\ port' = None

SkipPort ==
    /\ lpc = "scan" /\ ~CanOpen(port)
    /\ NextPort
    /\ UNCHANGED <<is_connected, connected_port, opened, alive, probed, refused, plugVars, firmwareVars>>

TestPort ==
    /\ lpc = "scan" /\ CanOpen(port)
    /\ lpc' = "probe" /\ probed' = TRUE
    /\ Touch(port)
    /\ UNCHANGED <<port, is_connected, connected_port, opened, alive, refused, plugVars>>

(* The settings, the flush or Close throw: on a dead port for certain, on  *)
(* a live one when it refuses them.                                        *)
TestFails ==
    /\ lpc = "probe"
    /\ NextPort
    /\ UNCHANGED <<is_connected, connected_port, opened, alive, probed, refused, plugVars, firmwareVars>>

(* disconnect: closing a dead port may fail, which leaves it open. *)
Closed(o) == o = None \/ (~alive /\ o = opened)
\* Variant: the flag is cleared and the port forgotten, not closed.
ForgetPort(o) == o = opened
ClosePort(o) == IF is_connected /\ opened # None THEN Closed(o) ELSE o = opened

DisconnectFirst(o) == IF is_connected THEN ClosePort(o) ELSE o = opened

(* connect up to Open, which fails on a port that cannot be opened, and if *)
(* serial_port is open already.                                            *)
Connects(p) ==
    \E o \in {opened, None} :
        /\ DisconnectFirst(o)
        /\ is_connected' = FALSE
        /\ connected_port' = IF is_connected THEN None ELSE connected_port
        /\ IF o = None /\ CanOpen(p)
             THEN /\ lpc' = "settle" /\ port' = p
                  /\ opened' = p /\ alive' = TRUE /\ refused' = FALSE
                  /\ Touch(p)
             ELSE /\ lpc' = "idle" /\ port' = None
                  /\ opened' = o /\ UNCHANGED <<alive, refused>>
                  /\ UNCHANGED firmwareVars

TestSucceeds ==
    /\ lpc = "probe" /\ probed
    /\ Connects(port)
    /\ UNCHANGED <<probed, plugVars>>

Connect(p) ==
    /\ lpc = "idle"
    /\ Connects(p)
    /\ UNCHANGED <<probed, plugVars>>

(* The rest of connect: five settings, the sleep, the flush.  On a dead    *)
(* port one of them throws, on a live one each may; the handler then       *)
(* leaves serial_port open.                                                *)
Settle ==
    /\ lpc = "settle"
    /\ is_connected' \in {alive, FALSE}
    /\ connected_port' = IF is_connected' THEN port ELSE connected_port
    /\ refused' = ~is_connected'
    /\ lpc' = "idle" /\ port' = None
    /\ UNCHANGED <<opened, alive, probed, plugVars, firmwareVars>>

Disconnect ==
    /\ lpc = "idle"
    /\ \E o \in {opened, None} : ClosePort(o) /\ opened' = o
    /\ is_connected' = FALSE
    /\ connected_port' = None
    /\ UNCHANGED <<lpc, port, alive, probed, refused, plugVars, firmwareVars>>

(* sendCommand *)
Writable == is_connected /\ opened # None

SendCommand(b) ==
    /\ lpc = "idle"
    /\ IF Writable /\ alive /\ opened = BoardPort
         THEN Receive(b) ELSE UNCHANGED firmwareVars
    /\ UNCHANGED <<linkVars, plugVars>>

Call ==
    \/ FindArduino \/ SkipPort \/ TestPort \/ TestFails \/ TestSucceeds
    \/ (\E p \in Port : Connect(p))
    \/ Settle \/ Disconnect
    \/ (\E b \in Byte : SendCommand(b))

----------------------------------------------------------------------------
(* The surroundings: the board runs while it has power. *)

Board ==
    /\ \/ BoardPort \in present /\ Sketch
       \/ Tick
    /\ UNCHANGED <<linkVars, plugVars>>

Plug(p) ==
    /\ plugs < MaxPlugs
    /\ plugs' = plugs + 1
    /\ present' = IF p \in present THEN present \ {p} ELSE present \cup {p}
    /\ alive' = (alive /\ p # opened)
    /\ probed' = (probed /\ p # port)
    /\ Touch(p)
    /\ UNCHANGED <<lpc, port, is_connected, connected_port, opened, refused>>

NextLink == Call \/ Board \/ \E p \in Port : Plug(p)

SpecLink == InitLink /\ [][NextLink]_allVars

----------------------------------------------------------------------------
(* Correctness. *)

LinkTypeOK ==
    /\ lpc \in {"idle", "scan", "probe", "settle"}
    /\ port \in Port \cup {None}
    /\ is_connected \in BOOLEAN
    /\ {connected_port, opened} \subseteq Port \cup {None}
    /\ alive \in BOOLEAN /\ probed \in BOOLEAN /\ refused \in BOOLEAN
    /\ present \subseteq Port
    /\ plugs \in 0..MaxPlugs

(* A link that calls itself connected holds the port it names: whatever    *)
(* fails in connecting, closing or searching, sendCommand writes to no     *)
(* other (arduino.cpp:71-117).                                             *)
ConnectedMeansOpen == is_connected => opened # None /\ connected_port = opened

(* A link that is not connected has a port open only because connect threw *)
(* after Open, or the device was unplugged before the port was closed: no  *)
(* other way through searching, reconnecting and disconnecting leaks it    *)
(* (arduino.cpp:59-63, 73-77, 98-102, 105-117).                            *)
LeakMeansError ==
    lpc # "settle" /\ ~is_connected /\ opened # None => refused \/ ~alive

(* A port leaked that way is never closed, and no connect opens another:   *)
(* disconnect passes over it, Open throws (arduino.cpp:77, 106).  Proved,  *)
(* not run.                                                                *)
LeakIsForEver ==
    [][lpc # "settle" /\ ~is_connected /\ opened # None
        => lpc' # "settle" /\ ~is_connected' /\ opened' = opened]_allVars

(* Without a leak, and in place of a live connection too, connect opens a  *)
(* port that can be opened (arduino.cpp:73-77); its settings may fail yet. *)
(* Proved, not run.                                                        *)
ConnectOpens ==
    [][\A p \in Port :
        Connect(p) /\ CanOpen(p) /\ (opened = None \/ (is_connected /\ alive)) => opened' = p]_allVars
=============================================================================
