----------------------------- MODULE RobotLoop -----------------------------
(***************************************************************************)
(* The robot client of src/RobotFramework.cpp: main() from the             *)
(* construction of its modules to the end of the process, the camera       *)
(* thread it starts, the signal handler it installs and the UDP socket it  *)
(* polls.                                                                  *)
(*                                                                         *)
(* Time.  The loop reads one clock per iteration and compares it with the  *)
(* last_*_time variables only through >=, so each of them is kept as its   *)
(* age.  An iteration takes between 1 and MaxIter units: it sleeps for one *)
(* at its end, and MaxIter bounds the work (CAN cycle, serial writes).     *)
(***************************************************************************)
EXTENDS Naturals, Sequences

CONSTANTS
    N,                 \* motors configured in Motor.yaml, with ids 1..N
    Velocity,          \* body velocities the decoder can hold
    Speed, Zero,       \* wheel speeds, and the one that stands still
    Calculate(_),      \* Wheel_math::calculate for the mode main selected
    Payload,           \* datagram texts, "STOP" and "TIMEOUT" among them
    Decode(_, _),      \* cmdDecoder::decode_cmd: a text applied to the members
    Peer, NoPeer,      \* addresses datagrams come from; an address never set
    Observation, NoBall, \* camera results, and the one published at start-up
    Interval,          \* the configured interval of every timer
    MessageHorizon,    \* bound: where the age of the last command is capped
    MaxIter,           \* bound: longest loop iteration, sleep included
    MaxQueue           \* bound: datagrams the kernel queues between two polls

Motor == 1..N
Timer == {"receiver", "camera", "motor", "sender", "arduino"}
Command == [velocity : Velocity, kick : BOOLEAN, dribble : BOOLEAN]
Datagram == [payload : Payload, from : Peer]

(* const int TIMEOUT_LIMIT of the loop. *)
TIMEOUT_LIMIT == 3

ASSUME SizeAssumption ==
    /\ N \in Nat
    /\ Interval \in [Timer -> Nat \ {0}]
    /\ {MaxIter, MaxQueue, MessageHorizon} \subseteq Nat \ {0}
ASSUME DataAssumption ==
    /\ Zero \in Speed
    /\ NoBall \in Observation
    /\ NoPeer \notin Peer
    /\ {"STOP", "TIMEOUT"} \subseteq Payload
    /\ \A v \in Velocity : Calculate(v) \in [Motor -> Speed]
    /\ \A p \in Payload, c \in Command : Decode(p, c) \in Command

VARIABLES
    pc,                 \* where main() stands
    age,                \* current_time - last_*_time; "message" is last_known_message
    timeout_count,      \* consecutive polls without a datagram, up to the limit
    inbox,              \* datagrams in the socket's receive queue
    client_addr,        \* UDP: where the last datagram read came from
    target_addr,        \* UDP: where the next send goes
    cmd,                \* the decoder's members
    velocity_map,       \* wheel speeds for the next motor cycle; empty at first
    command,            \* last CAN frame each motor was sent
    swept,              \* controllers already stopped by the running SetStop loop
    emergency_stop,     \* main's flag
    manual_stop_flag,   \* set by the signal handler
    is_connected,       \* Arduino::is_connected
    serial,             \* last byte the Arduino was sent
    sender_msg,         \* the telemetry under construction
    cam, seen,          \* where the camera thread stands, and its local obs
    ball_observation, stop_camera_thread  \* the atomics it shares with main

network == <<inbox, client_addr, target_addr>>
clock   == <<age, timeout_count>>
drive   == <<velocity_map, command, swept, emergency_stop>>
board   == <<is_connected, serial>>
camera  == <<cam, seen, ball_observation>>
vars == <<pc, clock, network, cmd, drive, board, sender_msg, camera,
          manual_stop_flag, stop_camera_thread>>

StopFrame == [mode |-> "stopped", velocity |-> Zero]
PositionFrame(s) == [mode |-> "position", velocity |-> s]
Frame == [mode : {"unknown", "stopped", "position"}, velocity : Speed]
Standstill == [m \in Motor |-> Zero]

Booting == {"construct", "arduino", "camera", "handlers"}
Looping == {"receive", "image", "motors", "report", "board", "top"}
Sweeping == {"construct", "clear", "stop", "halt"}
Closing == {"stop", "leave", "halt", "release", "join"}
Ended == {"exited", "killed"}

Init ==
    /\ pc = "construct"
    /\ age = [t \in Timer \cup {"message"} |-> 0]
    /\ timeout_count = 0
    /\ inbox = <<>>
    /\ client_addr = NoPeer /\ target_addr = NoPeer
    /\ cmd \in [velocity : Velocity, kick : {FALSE}, dribble : {FALSE}]
    /\ velocity_map = [m \in {} |-> Zero]
    /\ command = [m \in Motor |-> [mode |-> "unknown", velocity |-> Zero]]
    /\ swept = 0
    /\ emergency_stop = FALSE /\ manual_stop_flag = FALSE
    /\ is_connected = FALSE /\ serial = "none"
    /\ sender_msg = [obs |-> NoBall]
    /\ cam = "off" /\ seen = NoBall
    /\ ball_observation = NoBall /\ stop_camera_thread = FALSE

----------------------------------------------------------------------------
(* Loops over telemetry.controllers that call SetStop, one controller a    *)
(* step: the Telemetry constructor, before the loop, on a STOP datagram    *)
(* and after the loop.                                                     *)

AfterSweep == [construct |-> "arduino", clear |-> "enter",
               stop |-> "leave", halt |-> "release"]

\* Variant: the last controller is skipped.
SweepOverEarly == swept + 1 >= N
SweepOver == swept = N

SetStop ==
    /\ pc \in Sweeping
    /\ ~SweepOver
    /\ swept' = swept + 1
    /\ command' = [command EXCEPT ![swept + 1] = StopFrame]
    /\ UNCHANGED <<pc, clock, network, cmd, velocity_map, emergency_stop, board,
                   sender_msg, camera, manual_stop_flag, stop_camera_thread>>

EndSweep ==
    /\ pc \in Sweeping
    /\ SweepOver
    /\ swept' = 0
    /\ pc' = AfterSweep[pc]
    /\ UNCHANGED <<clock, network, cmd, velocity_map, command, emergency_stop, board,
                   sender_msg, camera, manual_stop_flag, stop_camera_thread>>

(* findArduino and connect: the robot drives on without a board. *)
ConnectArduino ==
    /\ pc = "arduino"
    /\ pc' = "camera"
    /\ is_connected' \in BOOLEAN
    /\ UNCHANGED <<clock, network, cmd, drive, serial, sender_msg, camera,
                   manual_stop_flag, stop_camera_thread>>

(* The camera thread exists only when the camera opens. *)
StartCamera ==
    /\ pc = "camera"
    /\ pc' = "handlers"
    /\ cam' \in {"off", "check"}
    /\ UNCHANGED <<clock, network, cmd, drive, board, sender_msg, seen,
                   ball_observation, manual_stop_flag, stop_camera_thread>>

InstallHandlers ==
    /\ pc = "handlers"
    /\ pc' = "clear"
    /\ UNCHANGED <<clock, network, cmd, drive, board, sender_msg, camera,
                   manual_stop_flag, stop_camera_thread>>

----------------------------------------------------------------------------
(* The control loop. *)

\* Variants: the overcurrent flag is not tested; a timer is late by one.
MayLoopOvercurrent == ~manual_stop_flag
DueLate(t) == age[t] > Interval[t]

MayLoop == ~emergency_stop /\ ~manual_stop_flag
Due(t) == age[t] >= Interval[t]
Rearm(t) == age' = [age EXCEPT ![t] = 0]

\* Variant: the SetStop loop after the control loop is missing.
AfterLoopRelease == "release"
AfterLoop == "halt"

(* The first test of the loop condition; the timers start with it. *)
EnterLoop ==
    /\ pc = "enter"
    /\ pc' = IF MayLoop THEN "receive" ELSE AfterLoop
    /\ UNCHANGED <<clock, network, cmd, drive, board, sender_msg, camera,
                   manual_stop_flag, stop_camera_thread>>

Older(d) ==
    [t \in Timer \cup {"message"} |->
        IF t = "message" /\ age[t] + d > MessageHorizon
        THEN MessageHorizon ELSE age[t] + d]

NextIteration ==
    /\ pc = "top"
    /\ MayLoop
    /\ pc' = "receive"
    /\ \E d \in 1..MaxIter : age' = Older(d)
    /\ UNCHANGED <<timeout_count, network, cmd, drive, board, sender_msg, camera,
                   manual_stop_flag, stop_camera_thread>>

LeaveLoop ==
    /\ pc = "top"
    /\ ~MayLoop
    /\ pc' = AfterLoop
    /\ UNCHANGED <<clock, network, cmd, drive, board, sender_msg, camera,
                   manual_stop_flag, stop_camera_thread>>

(* A block whose timer has not run out is passed over. *)
Block == [receiver |-> [at |-> "receive", next |-> "image"],
          camera   |-> [at |-> "image",   next |-> "motors"],
          motor    |-> [at |-> "motors",  next |-> "report"],
          sender   |-> [at |-> "report",  next |-> "board"],
          arduino  |-> [at |-> "board",   next |-> "top"]]

PassOver(t) ==
    /\ pc = Block[t].at
    /\ ~Due(t)
    /\ pc' = Block[t].next
    /\ UNCHANGED <<clock, network, cmd, drive, board, sender_msg, camera,
                   manual_stop_flag, stop_camera_thread>>

Serve(t) ==
    /\ pc = Block[t].at
    /\ Due(t)
    /\ pc' = Block[t].next
    /\ Rearm(t)

(* UDP::receive drains the queue and returns the newest text, or the text  *)
(* "TIMEOUT" when there was none.                                          *)
Polled == IF inbox = <<>> THEN "TIMEOUT" ELSE inbox[Len(inbox)].payload
Drain ==
    /\ inbox' = <<>>
    /\ client_addr' = IF inbox = <<>> THEN client_addr ELSE inbox[Len(inbox)].from
    /\ UNCHANGED target_addr

Missed == IF timeout_count < TIMEOUT_LIMIT THEN timeout_count + 1 ELSE timeout_count

\* Variant: the comparison with the limit is strict.
WatchdogFiresLate == Missed > TIMEOUT_LIMIT
WatchdogFires == Missed >= TIMEOUT_LIMIT

ReceiveNothing ==
    /\ Serve("receiver")
    /\ Polled = "TIMEOUT"
    /\ Drain
    /\ timeout_count' = Missed
    /\ velocity_map' = IF WatchdogFires THEN Standstill ELSE velocity_map
    /\ UNCHANGED <<cmd, command, swept, emergency_stop, board, sender_msg, camera,
                   manual_stop_flag, stop_camera_thread>>

(* The exit path of a STOP: the receiver's timer is not rearmed. *)
ReceiveStop ==
    /\ pc = "receive"
    /\ Due("receiver")
    /\ Polled = "STOP"
    /\ Drain
    /\ velocity_map' = Standstill
    /\ pc' = "stop"
    /\ UNCHANGED <<clock, cmd, command, swept, emergency_stop, board, sender_msg, camera,
                   manual_stop_flag, stop_camera_thread>>

\* Variant: the count survives a command.
CountKept == timeout_count' = timeout_count
CountReset == timeout_count' = 0
SpeedsOfCommand == Calculate(cmd'.velocity)

ReceiveCommand ==
    /\ pc = "receive"
    /\ Due("receiver")
    /\ Polled \notin {"STOP", "TIMEOUT"}
    /\ Drain
    /\ CountReset
    /\ cmd' = Decode(Polled, cmd)
    /\ velocity_map' = SpeedsOfCommand
    /\ age' = [age EXCEPT !["receiver"] = 0, !["message"] = 0]
    /\ pc' = "image"
    /\ UNCHANGED <<command, swept, emergency_stop, board, sender_msg, camera,
                   manual_stop_flag, stop_camera_thread>>

ReadCamera ==
    /\ Serve("camera")
    /\ sender_msg' = [sender_msg EXCEPT !.obs = ball_observation]
    /\ UNCHANGED <<timeout_count, network, cmd, drive, board, camera,
                   manual_stop_flag, stop_camera_thread>>

(* Telemetry::cycle sends every controller its speed, 0.0 when the map has *)
(* none; of the controllers that answer, some report too much current.     *)
Commanded(m) == PositionFrame(IF m \in DOMAIN velocity_map THEN velocity_map[m] ELSE Zero)

CycleMotors ==
    /\ Serve("motor")
    /\ command' = [m \in Motor |-> Commanded(m)]
    /\ \E over \in SUBSET Motor : emergency_stop' = (emergency_stop \/ over # {})
    /\ UNCHANGED <<timeout_count, network, cmd, velocity_map, swept, board, sender_msg,
                   camera, manual_stop_flag, stop_camera_thread>>

(* UDP::send uses the address before it stores the client's. *)
SendReport ==
    /\ Serve("sender")
    /\ target_addr' = client_addr
    /\ UNCHANGED <<timeout_count, inbox, client_addr, cmd, drive, board, sender_msg,
                   camera, manual_stop_flag, stop_camera_thread>>

(* sendCommand can fail and its result is ignored: the kick is forgotten   *)
(* all the same.                                                           *)
Byte == IF cmd.kick THEN "K" ELSE IF cmd.dribble THEN "D" ELSE "S"

CommandBoard ==
    /\ Serve("arduino")
    /\ IF is_connected
       THEN /\ serial' \in {Byte, serial}
            /\ cmd' = IF Byte = "K" THEN [cmd EXCEPT !.kick = FALSE] ELSE cmd
       ELSE UNCHANGED <<serial, cmd>>
    /\ UNCHANGED <<timeout_count, network, drive, is_connected, sender_msg, camera,
                   manual_stop_flag, stop_camera_thread>>

----------------------------------------------------------------------------
(* The ways out. *)

(* a.disconnect(); std::exit(0): the camera thread dies with the process. *)
ExitOnStop ==
    /\ pc = "leave"
    /\ is_connected' = FALSE
    /\ cam' = "off"
    /\ pc' = "exited"
    /\ UNCHANGED <<clock, network, cmd, drive, serial, sender_msg, seen,
                   ball_observation, manual_stop_flag, stop_camera_thread>>

\* Variant: the camera thread is not told to stop.
CameraNotTold == UNCHANGED stop_camera_thread
TellCamera == stop_camera_thread' = TRUE

ReleaseDevices ==
    /\ pc = "release"
    /\ is_connected' = FALSE
    /\ TellCamera
    /\ pc' = "join"
    /\ UNCHANGED <<clock, network, cmd, drive, serial, sender_msg, camera,
                   manual_stop_flag>>

JoinCamera ==
    /\ pc = "join"
    /\ cam \in {"off", "done"}
    /\ pc' = "exited"
    /\ UNCHANGED <<clock, network, cmd, drive, board, sender_msg, camera,
                   manual_stop_flag, stop_camera_thread>>

Main ==
    \/ SetStop \/ EndSweep
    \/ ConnectArduino \/ StartCamera \/ InstallHandlers
    \/ EnterLoop \/ NextIteration \/ LeaveLoop
    \/ \E t \in Timer : PassOver(t)
    \/ ReceiveNothing \/ ReceiveStop \/ ReceiveCommand
    \/ ReadCamera \/ CycleMotors \/ SendReport \/ CommandBoard
    \/ ExitOnStop \/ ReleaseDevices \/ JoinCamera

----------------------------------------------------------------------------
(* CameraThread *)

CameraUnchanged == UNCHANGED <<pc, clock, network, cmd, drive, board, sender_msg,
                               manual_stop_flag, stop_camera_thread>>

CameraCheck ==
    /\ cam = "check"
    /\ cam' = IF stop_camera_thread THEN "done" ELSE "observe"
    /\ UNCHANGED <<seen, ball_observation>>
    /\ CameraUnchanged

CameraObserve ==
    /\ cam = "observe"
    /\ cam' = "publish"
    /\ seen' \in Observation
    /\ UNCHANGED ball_observation
    /\ CameraUnchanged

CameraPublish ==
    /\ cam = "publish"
    /\ cam' = "check"
    /\ ball_observation' = seen
    /\ UNCHANGED seen
    /\ CameraUnchanged

Camera == CameraCheck \/ CameraObserve \/ CameraPublish

----------------------------------------------------------------------------
(* The environment: datagrams are queued, lost or duplicated at will by    *)
(* the network, so any datagram may arrive at any time; a signal kills the *)
(* process until the handlers are installed.                               *)

Arrive ==
    /\ pc \notin Ended
    /\ Len(inbox) < MaxQueue
    /\ \E d \in Datagram : inbox' = Append(inbox, d)
    /\ UNCHANGED <<pc, clock, client_addr, target_addr, cmd, drive, board, sender_msg,
                   camera, manual_stop_flag, stop_camera_thread>>

KilledBySignal ==
    /\ pc \in Booting
    /\ pc' = "killed"
    /\ cam' = "off"
    /\ is_connected' = FALSE
    /\ UNCHANGED <<clock, network, cmd, drive, serial, sender_msg, seen,
                   ball_observation, manual_stop_flag, stop_camera_thread>>

SignalHandler ==
    /\ pc \notin Booting \cup Ended
    /\ manual_stop_flag' = TRUE
    /\ UNCHANGED <<pc, clock, network, cmd, drive, board, sender_msg, camera,
                   stop_camera_thread>>

Over == pc \in Ended /\ UNCHANGED vars

Next == Main \/ Camera \/ Arrive \/ KilledBySignal \/ SignalHandler \/ Over

Spec == Init /\ [][Next]_vars

(* The main thread never blocks for ever outside the join.  The camera     *)
(* thread may hang in its device: that BallDetection::observe returns is   *)
(* assumed only by the property that needs it.                             *)
FairSpec == Spec /\ WF_vars(Main)
CameraFairness == WF_vars(Camera)

----------------------------------------------------------------------------
(* Correctness. *)

TypeOK ==
    /\ pc \in Booting \cup {"clear", "enter"} \cup Looping \cup Closing \cup Ended
    /\ age \in [Timer \cup {"message"} -> Nat]
    /\ timeout_count \in 0..TIMEOUT_LIMIT
    /\ inbox \in Seq(Datagram)
    /\ client_addr \in Peer \cup {NoPeer}
    /\ target_addr \in Peer \cup {NoPeer}
    /\ cmd \in Command
    /\ velocity_map \in [Motor -> Speed] \cup [{} -> Speed]
    /\ command \in [Motor -> Frame]
    /\ swept \in 0..N
    /\ {emergency_stop, manual_stop_flag, is_connected, stop_camera_thread} \subseteq BOOLEAN
    /\ serial \in {"none", "K", "D", "S"}
    /\ sender_msg \in [obs : Observation]
    /\ cam \in {"off", "check", "observe", "publish", "done"}
    /\ seen \in Observation
    /\ ball_observation \in Observation

(* The longest time between two services of a timer. *)
Gap(t) == Interval[t] + MaxIter - 1

(* The longest time a wheel may keep turning after the last command: two   *)
(* missed polls, a motor cycle just before the third is due, and the time  *)
(* to the next motor cycle, which carries the zero speeds.                 *)
WheelDeadline == 2 * Gap("receiver") + Interval["receiver"] - 1 + Gap("motor")

(* No periodic block of the loop is starved by the others: each is served  *)
(* within its interval and one iteration (RobotFramework.cpp:262-432).     *)
NoTimerStarves == \A t \in Timer : age[t] <= Gap(t)

(* When commands stop coming, the last frame sent to every motor demands   *)
(* no motion once WheelDeadline has passed: the count of missed polls, the *)
(* polling interval and the motor interval together keep that promise      *)
(* (RobotFramework.cpp:271-284, 341-343).                                  *)
SilenceStopsWheels ==
    \A m \in Motor : command[m].velocity # Zero => age["message"] <= WheelDeadline

(* The watchdog is patient: it overrides the operator's speeds only after  *)
(* TIMEOUT_LIMIT full polling intervals without a command                  *)
(* (RobotFramework.cpp:271, "grace before stopping").                      *)
PatientWatchdog ==
    [][ReceiveNothing /\ velocity_map' # velocity_map
        => age["message"] >= TIMEOUT_LIMIT * Interval["receiver"]]_vars

(* Once an overcurrent is seen, or the program is on a way out, a motor is *)
(* sent nothing but stop frames (RobotFramework.cpp:257, 286-297, 437).    *)
HaltIsFinal ==
    [][(emergency_stop \/ pc \in Closing \cup Ended) =>
        \A m \in Motor : command'[m] \in {command[m], StopFrame}]_vars

(* However the program ends, it leaves no motor under a position command;  *)
(* past the SetStop loops every motor was stopped                          *)
(* (RobotFramework.cpp:243, 291, 438, Telemetry.cpp:26).                   *)
ParkedAtEnd ==
    /\ pc \in {"leave", "release", "join", "exited"} =>
          \A m \in Motor : command[m] = StopFrame
    /\ pc = "killed" => \A m \in Motor : command[m].mode # "position"

StopDemanded == manual_stop_flag \/ emergency_stop \/ pc = "stop"
AllStopped == \A m \in Motor : command[m] = StopFrame

(* A signal, an overcurrent or a STOP ends the process, camera thread      *)
(* joined, if the camera's device answers (RobotFramework.cpp:437-453).    *)
StopEndsProcess == CameraFairness => (StopDemanded ~> pc \in Ended)

(* The motors are stopped for good even if the camera never returns from   *)
(* its device: the sweep comes before the join (RobotFramework.cpp:438).   *)
StopReachesMotors == StopDemanded ~> [](AllStopped /\ ~is_connected)

(* UDP.cpp:86, "Copy the IP from the sender": telemetry goes to the robot's *)
(* last correspondent.                                                     *)
TelemetryAnswersSender == [][SendReport => target_addr = client_addr]_vars
=============================================================================
