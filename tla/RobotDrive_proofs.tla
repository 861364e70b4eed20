------------------------- MODULE RobotDrive_proofs -------------------------
(* What the control loop guarantees for every number of motors, every       *)
(* interval, every decoder and every bound; and the limits of the           *)
(* kinematics carried through it, for every text of a datagram.             *)
EXTENDS RobotDrive, TLAPS

----------------------------------------------------------------------------
(* The loop. *)

(* The blocks of the loop that come after a timer's own, up to the sleep.  *)
After == [receiver |-> {"image", "motors", "report", "board", "top"},
          camera   |-> {"motors", "report", "board", "top"},
          motor    |-> {"report", "board", "top"},
          sender   |-> {"board", "top"},
          arduino  |-> {"top"}]

(* How far a SetStop loop has come, and where every motor is stopped.      *)
SweepInv ==
    /\ pc \in Sweeping => \A m \in 1..swept : command[m] = StopFrame
    /\ pc \notin Sweeping \cup {"killed"} => swept = 0
    /\ pc \in {"arduino", "camera", "handlers", "leave", "release", "join", "exited"} =>
          \A m \in Motor : command[m] = StopFrame
    /\ pc \in {"construct", "killed"} =>
          \A m \in Motor : command[m].mode # "position"

(* A timer that was just served or passed over is younger than its         *)
(* interval; the others are at most one iteration late.                    *)
TimerInv ==
    \A t \in Timer :
        /\ age[t] <= Gap(t)
        /\ pc \in After[t] => age[t] < Interval[t]

(* The silence is at most the missed polls so far, and the wheels turn at  *)
(* most a motor cycle longer.                                              *)
SilenceInv ==
    /\ timeout_count = 0 => age["message"] <= age["receiver"]
    /\ timeout_count = 1 => age["message"] <= Gap("receiver") + age["receiver"]
    /\ timeout_count = 2 => age["message"] <= 2 * Gap("receiver") + age["receiver"]
    /\ timeout_count = 3 => velocity_map = Standstill
    /\ \A m \in Motor : command[m].velocity # Zero =>
          age["message"] <= 2 * Gap("receiver") + Interval["receiver"] - 1 + age["motor"]

(* ... and at least that many full intervals, unless it is off the scale.  *)
PatienceInv ==
    \/ age["message"] = MessageHorizon
    \/ /\ timeout_count = 0 => age["message"] >= age["receiver"]
       /\ timeout_count = 1 => age["message"] >= Interval["receiver"] + age["receiver"]
       /\ timeout_count = 2 => age["message"] >= 2 * Interval["receiver"] + age["receiver"]

(* Overcurrent is noticed in the motor block and ends the iteration.       *)
EmergencyInv ==
    emergency_stop => pc \in {"report", "board", "top"} \cup Closing \cup Ended

IInv == TypeOK /\ SweepInv /\ TimerInv /\ SilenceInv /\ PatienceInv /\ EmergencyInv

----------------------------------------------------------------------------
(* What a poll of the socket returns: a payload and an address it knows.   *)
LEMMA PollType ==
    ASSUME TypeOK
    PROVE  /\ Polled \in Payload
           /\ Drain => client_addr' \in Peer \cup {NoPeer}
<1>1. CASE inbox = <<>>
  BY <1>1, DataAssumption DEF TypeOK, Polled, Drain
<1>2. CASE inbox # <<>>
  <2>1. inbox[Len(inbox)] \in Datagram
    BY <1>2 DEF TypeOK
  <2>2. QED
    BY <1>2, <2>1 DEF Polled, Drain, Datagram
<1>3. QED BY <1>1, <1>2

(* Rearming and ageing keep every age a natural number.                    *)
LEMMA AgeType ==
    ASSUME TypeOK
    PROVE  /\ \A t \in Timer : Rearm(t) => age' \in [Timer \cup {"message"} -> Nat]
           /\ \A d \in 1..MaxIter : Older(d) \in [Timer \cup {"message"} -> Nat]
<1>1. \A t \in Timer : Rearm(t) => age' \in [Timer \cup {"message"} -> Nat]
  BY DEF TypeOK, Rearm
<1>2. \A d \in 1..MaxIter : Older(d) \in [Timer \cup {"message"} -> Nat]
  <2> TAKE d \in 1..MaxIter
  <2>1. MaxIter \in Nat /\ MessageHorizon \in Nat
    BY SizeAssumption
  <2>2. \A t \in Timer \cup {"message"} : age[t] + d \in Nat
    BY <2>1 DEF TypeOK
  <2>3. QED
    BY <2>1, <2>2 DEF Older
<1>3. QED BY <1>1, <1>2

(* The initial states are well typed.                                      *)
LEMMA InitType == Init => TypeOK
<1> SUFFICES ASSUME Init PROVE TypeOK
  OBVIOUS
<1>1. cmd \in Command
  BY DEF Init, Command
<1>2. command \in [Motor -> Frame] /\ velocity_map \in [{} -> Speed]
  BY DataAssumption DEF Init, Frame
<1>3. inbox \in Seq(Datagram)
  BY DEF Init
<1>4. sender_msg \in [obs : Observation]
  BY DataAssumption DEF Init
<1>5. age \in [Timer \cup {"message"} -> Nat]
  BY DEF Init
<1>6. swept \in 0..N /\ timeout_count \in 0..TIMEOUT_LIMIT
  BY SizeAssumption DEF Init, TIMEOUT_LIMIT
<1>7. QED
  BY <1>1, <1>2, <1>3, <1>4, <1>5, <1>6, DataAssumption DEF Init, TypeOK, Booting

(* Every variable keeps its type, whatever the datagrams and the peers.    *)
THEOREM TypeCorrect == Spec => []TypeOK
<1>1. Init => TypeOK
  BY InitType
<1>2. TypeOK /\ [Next]_vars => TypeOK'
  <2> SUFFICES ASSUME TypeOK, [Next]_vars PROVE TypeOK'
    OBVIOUS
  <2> USE DEF TypeOK, clock, network, drive, board, camera, Booting, Looping, Closing, Ended
  <2>1. CASE SetStop
    BY <2>1, SizeAssumption, DataAssumption
    DEF SetStop, SweepOver, Motor, StopFrame, Frame
  <2>2. CASE EndSweep
    BY <2>2, SizeAssumption DEF EndSweep, AfterSweep, Sweeping
  <2>3. CASE ConnectArduino \/ StartCamera \/ InstallHandlers
    BY <2>3 DEF ConnectArduino, StartCamera, InstallHandlers
  <2>4. CASE EnterLoop \/ LeaveLoop
    BY <2>4 DEF EnterLoop, LeaveLoop, AfterLoop
  <2>5. CASE NextIteration
    BY <2>5, AgeType DEF NextIteration
  <2>6. ASSUME NEW t \in Timer, PassOver(t) PROVE TypeOK'
    BY <2>6 DEF PassOver, Timer, Block
  <2>7. CASE ReceiveNothing
    <3>1. velocity_map' \in [Motor -> Speed] \cup [{} -> Speed]
      BY <2>7, DataAssumption DEF ReceiveNothing, Standstill
    <3>2. timeout_count' \in 0..TIMEOUT_LIMIT
      BY <2>7 DEF ReceiveNothing, Missed, TIMEOUT_LIMIT
    <3>3. age' \in [Timer \cup {"message"} -> Nat] /\ pc' = "image"
      BY <2>7, AgeType DEF ReceiveNothing, Serve, Timer, Block
    <3>4. QED
      BY <2>7, <3>1, <3>2, <3>3, PollType DEF ReceiveNothing, Drain
  <2>8. CASE ReceiveStop
    BY <2>8, DataAssumption, PollType DEF ReceiveStop, Drain, Standstill
  <2>9. CASE ReceiveCommand
    <3>1. cmd' \in Command
      BY <2>9, DataAssumption, PollType DEF ReceiveCommand
    <3>2. velocity_map' \in [Motor -> Speed]
      BY <2>9, <3>1, DataAssumption DEF ReceiveCommand, SpeedsOfCommand, Command
    <3>3. timeout_count' \in 0..TIMEOUT_LIMIT
      BY <2>9 DEF ReceiveCommand, CountReset, TIMEOUT_LIMIT
    <3>4. age' \in [Timer \cup {"message"} -> Nat]
      BY <2>9 DEF ReceiveCommand
    <3>5. QED
      BY <2>9, <3>1, <3>2, <3>3, <3>4, PollType DEF ReceiveCommand, Drain
  <2>10. CASE ReadCamera
    BY <2>10, AgeType DEF ReadCamera, Serve, Timer, Block
  <2>11. CASE CycleMotors
    <3>1. command' \in [Motor -> Frame]
      BY <2>11, DataAssumption DEF CycleMotors, Commanded, PositionFrame, Frame
    <3>2. QED
      BY <2>11, <3>1, AgeType DEF CycleMotors, Serve, Timer, Block
  <2>12. CASE SendReport
    BY <2>12, AgeType DEF SendReport, Serve, Timer, Block
  <2>13. CASE CommandBoard
    <3>1. serial' \in {"none", "K", "D", "S"}
      BY <2>13 DEF CommandBoard, Byte
    <3>2. cmd' \in Command
      BY <2>13 DEF CommandBoard, Command
    <3>3. QED
      BY <2>13, <3>1, <3>2, AgeType DEF CommandBoard, Serve, Timer, Block
  <2>14. CASE ExitOnStop \/ ReleaseDevices \/ JoinCamera
    BY <2>14 DEF ExitOnStop, ReleaseDevices, TellCamera, JoinCamera
  <2>15. CASE Camera
    BY <2>15 DEF Camera, CameraCheck, CameraObserve, CameraPublish, CameraUnchanged
  <2>16. CASE Arrive
    BY <2>16 DEF Arrive
  <2>17. CASE KilledBySignal \/ SignalHandler
    BY <2>17, ZenonT(60) DEF KilledBySignal, SignalHandler
  <2>18. CASE UNCHANGED vars
    BY <2>18 DEF vars
  <2>19. QED
    BY <2>1, <2>2, <2>3, <2>4, <2>5, <2>6, <2>7, <2>8, <2>9, <2>10, <2>11, <2>12,
       <2>13, <2>14, <2>15, <2>16, <2>17, <2>18 DEF Next, Main, Over
<1>3. QED BY <1>1, <1>2, PTL DEF Spec

----------------------------------------------------------------------------
(* The steps that touch neither the motors nor the sweep's counter.        *)
LEMMA SweepStep == TypeOK /\ SweepInv /\ [Next]_vars => SweepInv'
<1> SUFFICES ASSUME TypeOK, SweepInv, [Next]_vars PROVE SweepInv'
  OBVIOUS
<1> USE DEF SweepInv, Sweeping, clock, network, drive, board, camera
<1>1. CASE SetStop
  <2>1. swept + 1 \in Motor /\ swept \in Nat
    BY <1>1, SizeAssumption DEF TypeOK, SetStop, SweepOver, Motor
  <2>2. \A m \in 1..swept' : command'[m] = StopFrame
    BY <1>1, <2>1, SizeAssumption DEF SetStop, SweepOver, TypeOK, Motor
  <2>3. pc = "construct" => \A m \in Motor : command'[m].mode # "position"
    BY <1>1, <2>1 DEF SetStop, TypeOK, StopFrame
  <2>4. QED
    BY <1>1, <2>2, <2>3 DEF SetStop
<1>2. CASE EndSweep
  <2>1. \A m \in Motor : command[m] = StopFrame
    BY <1>2 DEF EndSweep, SweepOver, Motor
  <2>2. swept' = 0 /\ command' = command
    BY <1>2 DEF EndSweep
  <2>3. 1..0 = {}
    OBVIOUS
  <2>4. pc' \notin {"construct", "killed"}
    BY <1>2 DEF EndSweep, AfterSweep
  <2>5. QED
    BY <2>1, <2>2, <2>3, <2>4
<1>3. CASE ConnectArduino \/ StartCamera \/ InstallHandlers
  BY <1>3 DEF ConnectArduino, StartCamera, InstallHandlers
<1>4. CASE EnterLoop \/ LeaveLoop
  BY <1>4 DEF EnterLoop, LeaveLoop, AfterLoop
<1>5. CASE NextIteration
  BY <1>5 DEF NextIteration
<1>6. ASSUME NEW t \in Timer, PassOver(t) PROVE SweepInv'
  BY <1>6 DEF PassOver, Timer, Block
<1>7. CASE ReceiveNothing
  BY <1>7 DEF ReceiveNothing, Serve, Block
<1>8. CASE ReceiveStop
  BY <1>8 DEF ReceiveStop
<1>9. CASE ReceiveCommand
  BY <1>9 DEF ReceiveCommand
<1>10. CASE ReadCamera
  BY <1>10 DEF ReadCamera, Serve, Block
<1>11. CASE CycleMotors
  BY <1>11 DEF CycleMotors, Serve, Block
<1>12. CASE SendReport
  BY <1>12 DEF SendReport, Serve, Block
<1>13. CASE CommandBoard
  BY <1>13 DEF CommandBoard, Serve, Block
<1>14. CASE ExitOnStop \/ ReleaseDevices \/ JoinCamera
  BY <1>14 DEF ExitOnStop, ReleaseDevices, JoinCamera
<1>15. CASE Camera
  BY <1>15 DEF Camera, CameraCheck, CameraObserve, CameraPublish, CameraUnchanged
<1>16. CASE Arrive
  BY <1>16 DEF Arrive
<1>17. CASE KilledBySignal
  <2>1. \A m \in Motor : command[m].mode # "position"
    BY <1>17 DEF KilledBySignal, Booting, StopFrame
  <2>2. QED
    BY <1>17, <2>1 DEF KilledBySignal
<1>18. CASE SignalHandler
  BY <1>18 DEF SignalHandler
<1>19. CASE UNCHANGED vars
  BY <1>19 DEF vars
<1>20. QED
  BY <1>1, <1>2, <1>3, <1>4, <1>5, <1>6, <1>7, <1>8, <1>9, <1>10, <1>11, <1>12,
     <1>13, <1>14, <1>15, <1>16, <1>17, <1>18, <1>19 DEF Next, Main, Over

(* An overcurrent raised in the motor block is met by the loop condition.  *)
LEMMA EmergencyStep == TypeOK /\ EmergencyInv /\ [Next]_vars => EmergencyInv'
<1> SUFFICES ASSUME TypeOK, EmergencyInv, [Next]_vars PROVE EmergencyInv'
  OBVIOUS
<1> USE DEF EmergencyInv, clock, network, drive, board, camera, Closing, Ended
<1>1. CASE SetStop \/ EndSweep
  <2>1. CASE SetStop
    BY <2>1 DEF SetStop
  <2>2. CASE EndSweep
    <3>1. emergency_stop => pc \in {"stop", "halt"}
      BY <2>2 DEF EndSweep, Sweeping
    <3>2. emergency_stop => pc' \in {"leave", "release"}
      BY <2>2, <3>1 DEF EndSweep, AfterSweep
    <3>3. QED
      BY <2>2, <3>2 DEF EndSweep
  <2>3. QED
    BY <1>1, <2>1, <2>2
<1>2. CASE ConnectArduino \/ StartCamera \/ InstallHandlers
  BY <1>2 DEF ConnectArduino, StartCamera, InstallHandlers
<1>3. CASE EnterLoop \/ LeaveLoop \/ NextIteration
  BY <1>3 DEF EnterLoop, LeaveLoop, AfterLoop, NextIteration, MayLoop
<1>4. ASSUME NEW t \in Timer, PassOver(t) PROVE EmergencyInv'
  BY <1>4 DEF PassOver, Timer, Block
<1>5. CASE ReceiveNothing \/ ReceiveStop \/ ReceiveCommand
  BY <1>5 DEF ReceiveNothing, ReceiveStop, ReceiveCommand, Serve, Block
<1>6. CASE ReadCamera \/ SendReport \/ CommandBoard
  BY <1>6 DEF ReadCamera, SendReport, CommandBoard, Serve, Block
<1>7. CASE CycleMotors
  BY <1>7 DEF CycleMotors, Serve, Block
<1>8. CASE ExitOnStop \/ ReleaseDevices \/ JoinCamera
  BY <1>8 DEF ExitOnStop, ReleaseDevices, JoinCamera
<1>9. CASE Camera
  BY <1>9 DEF Camera, CameraCheck, CameraObserve, CameraPublish, CameraUnchanged
<1>10. CASE Arrive \/ KilledBySignal \/ SignalHandler
  BY <1>10 DEF Arrive, KilledBySignal, SignalHandler
<1>11. CASE UNCHANGED vars
  BY <1>11 DEF vars
<1>12. QED
  BY <1>1, <1>2, <1>3, <1>4, <1>5, <1>6, <1>7, <1>8, <1>9, <1>10, <1>11
  DEF Next, Main, Over

----------------------------------------------------------------------------
LEMMA GapType ==
    ASSUME NEW t \in Timer
    PROVE  Interval[t] \in Nat \ {0} /\ Gap(t) \in Nat /\ Gap(t) = Interval[t] - 1 + MaxIter
BY SizeAssumption DEF Gap

(* Serving a timer's block, and passing it over, leave the timer young and *)
(* the others as they were.                                                *)
LEMMA ServeKeepsTimers ==
    ASSUME TypeOK, TimerInv, NEW t \in Timer, Serve(t) \/ PassOver(t)
    PROVE  TimerInv'
<1>1. /\ pc = Block[t].at /\ pc' = Block[t].next
      /\ age'[t] < Interval[t]
      /\ \A u \in Timer \ {t} : age'[u] = age[u]
      /\ age'[t] <= age[t] /\ {age[t], age'[t]} \subseteq Nat
  BY SizeAssumption DEF Serve, PassOver, Rearm, Due, TypeOK, clock
<1>2. ASSUME NEW u \in Timer \ {t}, pc' \in After[u] PROVE pc \in After[u]
  BY <1>1, <1>2 DEF Block, After, Timer
<1>3. ASSUME NEW u \in Timer PROVE age'[u] <= Gap(u) /\ (pc' \in After[u] => age'[u] < Interval[u])
  <2>1. CASE u = t
    <3>1. age[t] <= Gap(t) /\ Gap(t) \in Nat
      BY GapType DEF TimerInv
    <3>2. QED BY <1>1, <2>1, <3>1
  <2>2. CASE u # t
    BY <1>1, <1>2, <2>2 DEF TimerInv
  <2>3. QED BY <2>1, <2>2
<1>4. QED BY <1>3 DEF TimerInv, Gap

(* No step outside the loop's blocks touches a timer, and none enters a    *)
(* block past one that was not served.                                     *)
LEMMA TimerStep == TypeOK /\ TimerInv /\ [Next]_vars => TimerInv'
<1> SUFFICES ASSUME TypeOK, TimerInv, [Next]_vars PROVE TimerInv'
  OBVIOUS
<1> USE DEF clock, network, drive, board, camera
<1> DEFINE Loop == {"image", "motors", "report", "board", "top"}
<1>1. ASSUME age' = age, pc' = pc \/ pc' \notin Loop PROVE TimerInv'
  <2>1. \A t \in Timer : pc' \in After[t] => pc \in After[t]
    BY <1>1 DEF After, Timer
  <2>2. QED
    BY <1>1, <2>1 DEF TimerInv, Gap
<1>2. CASE SetStop \/ EndSweep
  BY <1>1, <1>2 DEF SetStop, EndSweep, AfterSweep, Sweeping
<1>3. CASE ConnectArduino \/ StartCamera \/ InstallHandlers \/ EnterLoop \/ LeaveLoop
  BY <1>1, <1>3 DEF ConnectArduino, StartCamera, InstallHandlers, EnterLoop, LeaveLoop, AfterLoop
<1>4. CASE NextIteration
  <2>1. PICK d \in 1..MaxIter : age' = Older(d)
    BY <1>4 DEF NextIteration
  <2>2. ASSUME NEW t \in Timer PROVE age'[t] <= Gap(t) /\ pc' \notin After[t]
    <3>1. age[t] < Interval[t] /\ age[t] \in Nat
      BY <1>4 DEF NextIteration, TimerInv, After, Timer, TypeOK
    <3>2. age'[t] = age[t] + d
      BY <2>1 DEF Older, Timer
    <3>3. pc' \notin After[t]
      BY <1>4 DEF NextIteration, After, Timer
    <3>4. QED
      BY <3>1, <3>2, <3>3, GapType, SizeAssumption
  <2>3. QED
    BY <2>2 DEF TimerInv, Gap
<1>5. ASSUME NEW t \in Timer, PassOver(t) PROVE TimerInv'
  BY <1>5, ServeKeepsTimers
<1>6. CASE ReceiveNothing
  BY <1>6, ServeKeepsTimers DEF ReceiveNothing, Timer
<1>7. CASE ReceiveStop
  BY <1>1, <1>7 DEF ReceiveStop
<1>8. CASE ReceiveCommand
  <2>1. \A t \in Timer : age'[t] = (IF t = "receiver" THEN 0 ELSE age[t])
    BY <1>8 DEF ReceiveCommand, TypeOK, Timer
  <2>2. \A t \in Timer : pc' \in After[t] => t = "receiver"
    BY <1>8 DEF ReceiveCommand, After, Timer
  <2>3. QED
    BY <2>1, <2>2, GapType, SizeAssumption DEF TimerInv, TypeOK, Gap
<1>9. CASE ReadCamera
  BY <1>9, ServeKeepsTimers DEF ReadCamera, Timer
<1>10. CASE CycleMotors
  BY <1>10, ServeKeepsTimers DEF CycleMotors, Timer
<1>11. CASE SendReport
  BY <1>11, ServeKeepsTimers DEF SendReport, Timer
<1>12. CASE CommandBoard
  BY <1>12, ServeKeepsTimers DEF CommandBoard, Timer
<1>13. CASE ExitOnStop \/ ReleaseDevices \/ JoinCamera
  BY <1>1, <1>13 DEF ExitOnStop, ReleaseDevices, JoinCamera
<1>14. CASE Camera
  BY <1>1, <1>14 DEF Camera, CameraCheck, CameraObserve, CameraPublish, CameraUnchanged
<1>15. CASE Arrive \/ KilledBySignal \/ SignalHandler
  BY <1>1, <1>15 DEF Arrive, KilledBySignal, SignalHandler
<1>16. CASE UNCHANGED vars
  BY <1>1, <1>16 DEF vars
<1>17. QED
  BY <1>2, <1>3, <1>4, <1>5, <1>6, <1>7, <1>8, <1>9, <1>10, <1>11, <1>12, <1>13,
     <1>14, <1>15, <1>16 DEF Next, Main, Over

----------------------------------------------------------------------------
(* The ages the silence is measured with, as numbers.                      *)
LEMMA AgeNumbers ==
    ASSUME TypeOK
    PROVE  /\ {age["message"], age["receiver"], age["motor"]} \subseteq Nat
           /\ {Gap("receiver"), Gap("motor"), Interval["receiver"], Interval["motor"]} \subseteq Nat
           /\ timeout_count \in {0, 1, 2, 3}
BY GapType, SMTT(30) DEF TypeOK, Timer, TIMEOUT_LIMIT

(* Serving a timer other than the receiver's and the motors' leaves the    *)
(* ages of both alone.                                                     *)
LEMMA ServeOther ==
    ASSUME TypeOK, NEW t \in {"camera", "sender", "arduino"}, Serve(t)
    PROVE  /\ age'["message"] = age["message"]
           /\ age'["receiver"] = age["receiver"]
           /\ age'["motor"] = age["motor"]
BY DEF Serve, Rearm, TypeOK, Timer

LEMMA SilenceStep == TypeOK /\ TimerInv /\ SilenceInv /\ [Next]_vars => SilenceInv'
<1> SUFFICES ASSUME TypeOK, TimerInv, SilenceInv, [Next]_vars PROVE SilenceInv'
  OBVIOUS
<1> USE DEF clock, network, drive, board, camera
<1>1. ASSUME age'["message"] = age["message"], age'["receiver"] = age["receiver"],
             age'["motor"] = age["motor"], timeout_count' = timeout_count,
             velocity_map' = velocity_map \/ velocity_map' = Standstill,
             \A m \in Motor : command'[m].velocity # Zero => command[m].velocity # Zero
      PROVE  SilenceInv'
  BY <1>1 DEF SilenceInv, Gap, Standstill
<1>2. CASE SetStop
  BY <1>1, <1>2 DEF SetStop, TypeOK, StopFrame
<1>3. CASE EndSweep
  BY <1>1, <1>3 DEF EndSweep
<1>4. CASE ConnectArduino \/ StartCamera \/ InstallHandlers \/ EnterLoop \/ LeaveLoop
  BY <1>1, <1>4 DEF ConnectArduino, StartCamera, InstallHandlers, EnterLoop, LeaveLoop
<1>5. CASE NextIteration
  <2>1. PICK d \in 1..MaxIter : age' = Older(d)
    BY <1>5 DEF NextIteration
  <2>2. /\ age'["message"] <= age["message"] + d
        /\ age'["receiver"] = age["receiver"] + d
        /\ age'["motor"] = age["motor"] + d
        /\ age'["message"] \in Nat /\ d \in Nat
    BY <2>1, SizeAssumption, AgeNumbers DEF Older, Timer
  <2>3. timeout_count' = timeout_count /\ velocity_map' = velocity_map /\ command' = command
    BY <1>5 DEF NextIteration
  <2>4. QED
    BY <2>2, <2>3, AgeNumbers DEF SilenceInv, Gap, Standstill
<1>6. ASSUME NEW t \in Timer, PassOver(t) PROVE SilenceInv'
  BY <1>1, <1>6 DEF PassOver
<1>7. CASE ReceiveNothing
  <2>1. /\ age'["receiver"] = 0 /\ age'["message"] = age["message"] /\ age'["motor"] = age["motor"]
        /\ command' = command
        /\ timeout_count' = Missed
        /\ Missed >= 3 => velocity_map' = Standstill
    BY <1>7 DEF ReceiveNothing, Serve, Rearm, TypeOK, Timer, WatchdogFires, TIMEOUT_LIMIT
  <2>2. age["receiver"] <= Gap("receiver")
    BY DEF TimerInv, Timer
  <2>3. Missed = 3 \/ (timeout_count \in {0, 1} /\ Missed = timeout_count + 1)
    BY AgeNumbers DEF Missed, TIMEOUT_LIMIT
  <2>4. QED
    BY <2>1, <2>2, <2>3, AgeNumbers DEF SilenceInv, Gap, Standstill
<1>8. CASE ReceiveStop
  BY <1>1, <1>8 DEF ReceiveStop
<1>9. CASE ReceiveCommand
  <2>1. /\ age'["receiver"] = 0 /\ age'["message"] = 0 /\ age'["motor"] = age["motor"]
        /\ timeout_count' = 0
    BY <1>9 DEF ReceiveCommand, CountReset, TypeOK, Timer
  <2>2. 0 <= 2 * Gap("receiver") + Interval["receiver"] - 1 + age["motor"]
    BY AgeNumbers, GapType DEF Timer
  <2>3. QED
    BY <2>1, <2>2 DEF SilenceInv, Gap
<1>10. CASE ReadCamera
  BY <1>1, <1>10, ServeOther DEF ReadCamera
<1>11. CASE CycleMotors
  <2>1. /\ age'["motor"] = 0 /\ age'["message"] = age["message"]
        /\ age'["receiver"] = age["receiver"]
        /\ timeout_count' = timeout_count /\ velocity_map' = velocity_map
    BY <1>11 DEF CycleMotors, Serve, Rearm, TypeOK, Timer
  <2>2. age["receiver"] <= Interval["receiver"] - 1
    BY <1>11, AgeNumbers DEF CycleMotors, Serve, Block, TimerInv, After, Timer
  <2>3. ASSUME NEW m \in Motor, command'[m].velocity # Zero
        PROVE  age["message"] <= 2 * Gap("receiver") + Interval["receiver"] - 1
    <3>1. velocity_map # Standstill
      BY <1>11, <2>3 DEF CycleMotors, Commanded, PositionFrame, Standstill
    <3>2. timeout_count \in {0, 1, 2}
      BY <3>1, AgeNumbers DEF SilenceInv
    <3>3. QED
      BY <2>2, <3>2, AgeNumbers DEF SilenceInv
  <2>4. QED
    BY <2>1, <2>3, AgeNumbers DEF SilenceInv, Gap, Standstill
<1>12. CASE SendReport
  BY <1>1, <1>12, ServeOther DEF SendReport
<1>13. CASE CommandBoard
  BY <1>1, <1>13, ServeOther DEF CommandBoard
<1>14. CASE ExitOnStop \/ ReleaseDevices \/ JoinCamera
  BY <1>1, <1>14 DEF ExitOnStop, ReleaseDevices, JoinCamera
<1>15. CASE Camera
  BY <1>1, <1>15 DEF Camera, CameraCheck, CameraObserve, CameraPublish, CameraUnchanged
<1>16. CASE Arrive \/ KilledBySignal \/ SignalHandler
  BY <1>1, <1>16 DEF Arrive, KilledBySignal, SignalHandler
<1>17. CASE UNCHANGED vars
  BY <1>1, <1>17 DEF vars
<1>18. QED
  BY <1>2, <1>3, <1>4, <1>5, <1>6, <1>7, <1>8, <1>9, <1>10, <1>11, <1>12, <1>13,
     <1>14, <1>15, <1>16, <1>17 DEF Next, Main, Over

(* The lower bound on the silence.                                         *)
LEMMA PatienceStep == TypeOK /\ PatienceInv /\ [Next]_vars => PatienceInv'
<1> SUFFICES ASSUME TypeOK, PatienceInv, [Next]_vars PROVE PatienceInv'
  OBVIOUS
<1> USE DEF clock, network, drive, board, camera
<1>1. ASSUME age'["message"] = age["message"], age'["receiver"] = age["receiver"],
             timeout_count' = timeout_count
      PROVE  PatienceInv'
  BY <1>1 DEF PatienceInv
<1>2. CASE SetStop \/ EndSweep
  BY <1>1, <1>2 DEF SetStop, EndSweep
<1>3. CASE ConnectArduino \/ StartCamera \/ InstallHandlers \/ EnterLoop \/ LeaveLoop
  BY <1>1, <1>3 DEF ConnectArduino, StartCamera, InstallHandlers, EnterLoop, LeaveLoop
<1>4. CASE NextIteration
  <2>1. PICK d \in 1..MaxIter : age' = Older(d)
    BY <1>4 DEF NextIteration
  <2>2. /\ age'["message"] = MessageHorizon \/ age'["message"] = age["message"] + d
        /\ age["message"] = MessageHorizon => age'["message"] = MessageHorizon
        /\ age'["receiver"] = age["receiver"] + d
        /\ d \in Nat
    BY <2>1, SizeAssumption, AgeNumbers DEF Older, Timer
  <2>3. timeout_count' = timeout_count
    BY <1>4 DEF NextIteration
  <2>4. QED
    BY <2>2, <2>3, AgeNumbers DEF PatienceInv
<1>5. ASSUME NEW t \in Timer, PassOver(t) PROVE PatienceInv'
  BY <1>1, <1>5 DEF PassOver
<1>6. CASE ReceiveNothing
  <2>1. /\ age'["receiver"] = 0 /\ age'["message"] = age["message"]
        /\ timeout_count' = Missed
        /\ age["receiver"] >= Interval["receiver"]
    BY <1>6 DEF ReceiveNothing, Serve, Rearm, Due, TypeOK, Timer
  <2>2. Missed = 3 \/ (timeout_count \in {0, 1} /\ Missed = timeout_count + 1)
    BY AgeNumbers DEF Missed, TIMEOUT_LIMIT
  <2>3. QED
    BY <2>1, <2>2, AgeNumbers DEF PatienceInv
<1>7. CASE ReceiveStop
  BY <1>1, <1>7 DEF ReceiveStop
<1>8. CASE ReceiveCommand
  BY <1>8 DEF ReceiveCommand, CountReset, TypeOK, Timer, PatienceInv
<1>9. CASE ReadCamera
  BY <1>1, <1>9, ServeOther DEF ReadCamera
<1>10. CASE CycleMotors
  BY <1>1, <1>10 DEF CycleMotors, Serve, Rearm, TypeOK, Timer
<1>11. CASE SendReport
  BY <1>1, <1>11, ServeOther DEF SendReport
<1>12. CASE CommandBoard
  BY <1>1, <1>12, ServeOther DEF CommandBoard
<1>13. CASE ExitOnStop \/ ReleaseDevices \/ JoinCamera
  BY <1>1, <1>13 DEF ExitOnStop, ReleaseDevices, JoinCamera
<1>14. CASE Camera
  BY <1>1, <1>14 DEF Camera, CameraCheck, CameraObserve, CameraPublish, CameraUnchanged
<1>15. CASE Arrive \/ KilledBySignal \/ SignalHandler
  BY <1>1, <1>15 DEF Arrive, KilledBySignal, SignalHandler
<1>16. CASE UNCHANGED vars
  BY <1>1, <1>16 DEF vars
<1>17. QED
  BY <1>2, <1>3, <1>4, <1>5, <1>6, <1>7, <1>8, <1>9, <1>10, <1>11, <1>12, <1>13,
     <1>14, <1>15, <1>16 DEF Next, Main, Over

----------------------------------------------------------------------------
(* The inductive invariant.                                                *)
THEOREM Invariance == Spec => []IInv
<1>1. Init => IInv
  <2> SUFFICES ASSUME Init PROVE IInv
    OBVIOUS
  <2>1. TypeOK
    BY InitType
  <2>2. SweepInv
    BY DEF Init, SweepInv, Sweeping
  <2>3. \A t \in Timer : age[t] = 0 /\ pc \notin After[t]
    BY DEF Init, After, Timer
  <2>4. TimerInv
    BY <2>3, GapType DEF TimerInv
  <2>5. age["message"] = 0 /\ age["receiver"] = 0 /\ age["motor"] = 0 /\ timeout_count = 0
    BY DEF Init, Timer
  <2>6. SilenceInv /\ PatienceInv
    BY <2>5 DEF Init, SilenceInv, PatienceInv
  <2>7. EmergencyInv
    BY DEF Init, EmergencyInv
  <2>8. QED
    BY <2>1, <2>2, <2>4, <2>6, <2>7 DEF IInv
<1>2. IInv /\ TypeOK' /\ [Next]_vars => IInv'
  BY SweepStep, EmergencyStep, TimerStep, SilenceStep, PatienceStep DEF IInv
<1>3. QED BY <1>1, <1>2, TypeCorrect, PTL DEF Spec

(* Every periodic block of the loop runs within its interval and one       *)
(* iteration.                                                              *)
THEOREM Punctual == Spec => []NoTimerStarves
<1>1. IInv => NoTimerStarves
  BY DEF IInv, TimerInv, NoTimerStarves
<1>2. QED BY <1>1, Invariance, PTL

(* Wheels stop turning within WheelDeadline of the last command.           *)
THEOREM WheelsStop == Spec => []SilenceStopsWheels
<1>1. IInv => SilenceStopsWheels
  <2> SUFFICES ASSUME IInv, NEW m \in Motor, command[m].velocity # Zero
               PROVE  age["message"] <= WheelDeadline
    BY DEF SilenceStopsWheels
  <2>1. TypeOK /\ age["motor"] <= Gap("motor")
    BY DEF IInv, TimerInv, Timer
  <2>2. age["message"] <= 2 * Gap("receiver") + Interval["receiver"] - 1 + age["motor"]
    BY DEF IInv, SilenceInv
  <2>3. QED
    BY <2>1, <2>2, AgeNumbers DEF WheelDeadline
<1>2. QED BY <1>1, Invariance, PTL

(* Wherever the program ends, no motor is left under a position command.   *)
THEOREM Parked == Spec => []ParkedAtEnd
<1>1. IInv => ParkedAtEnd
  BY DEF IInv, SweepInv, ParkedAtEnd
<1>2. QED BY <1>1, Invariance, PTL

(* The watchdog waits for three full polling intervals, provided the       *)
(* message age is kept at least that far.                                  *)
THEOREM Patient ==
    ASSUME TIMEOUT_LIMIT * Interval["receiver"] <= MessageHorizon
    PROVE  Spec => PatientWatchdog
<1> DEFINE Step == ReceiveNothing /\ velocity_map' # velocity_map
                     => age["message"] >= TIMEOUT_LIMIT * Interval["receiver"]
<1>1. IInv /\ [Next]_vars => [Step]_vars
  <2> SUFFICES ASSUME IInv, ReceiveNothing, velocity_map' # velocity_map
               PROVE  age["message"] >= TIMEOUT_LIMIT * Interval["receiver"]
    OBVIOUS
  <2>1. velocity_map' = Standstill /\ Missed >= 3 /\ age["receiver"] >= Interval["receiver"]
    BY DEF ReceiveNothing, WatchdogFires, TIMEOUT_LIMIT, Serve, Due
  <2>2. timeout_count = 2
    <3>1. timeout_count # 3
      BY <2>1 DEF IInv, SilenceInv
    <3>2. QED
      BY <2>1, <3>1, AgeNumbers DEF IInv, Missed, TIMEOUT_LIMIT
  <2>3. QED
    BY <2>1, <2>2, AgeNumbers DEF IInv, PatienceInv, TIMEOUT_LIMIT
<1>2. QED BY <1>1, Invariance, PTL DEF Spec, PatientWatchdog

(* Overcurrent and every way out are final for the motors.                 *)
THEOREM Final == Spec => HaltIsFinal
<1> DEFINE Step == (emergency_stop \/ pc \in Closing \cup Ended) =>
                      \A m \in Motor : command'[m] \in {command[m], StopFrame}
<1>1. IInv /\ [Next]_vars => [Step]_vars
  <2> SUFFICES ASSUME IInv, Next, emergency_stop \/ pc \in Closing \cup Ended,
                      NEW m \in Motor
               PROVE  command'[m] \in {command[m], StopFrame}
    OBVIOUS
  <2>1. ~CycleMotors
    BY DEF IInv, EmergencyInv, CycleMotors, Serve, Block, Closing, Ended
  <2>2. CASE SetStop
    BY <2>2 DEF SetStop, IInv, TypeOK
  <2>3. CASE UNCHANGED command
    BY <2>3
  <2>4. SetStop \/ UNCHANGED command
    BY <2>1 DEF Next, Main, EndSweep, ConnectArduino, StartCamera, InstallHandlers,
       EnterLoop, NextIteration, LeaveLoop, PassOver, ReceiveNothing, ReceiveStop,
       ReceiveCommand, ReadCamera, SendReport, CommandBoard, ExitOnStop, ReleaseDevices,
       JoinCamera, Camera, CameraCheck, CameraObserve, CameraPublish, CameraUnchanged,
       Arrive, KilledBySignal, SignalHandler, Over, vars, drive
  <2>5. QED BY <2>2, <2>3, <2>4
<1>2. QED BY <1>1, Invariance, PTL DEF Spec, HaltIsFinal

----------------------------------------------------------------------------
(* The kinematics. *)

BodyVelocity == [Axis -> Int]

(* A ratio not above one, with a positive denominator.                      *)
IsRatio(r) == \E n, d \in Nat \ {0} : r = <<n, d>>

(* Scaling v by r brings the axis within its limit.                         *)
Brings(r, v, a) == r[1] * abs(v[a]) <= Limit[a] * r[2]

LEMMA AbsIsNat == ASSUME NEW x \in Int PROVE abs(x) \in Nat /\ -abs(x) <= x /\ x <= abs(x)
  BY DEF abs

LEMMA Limits == ASSUME NEW a \in Axis PROVE Limit[a] \in Nat \ {0}
  BY LimitAssumption DEF Axis, Limit

(* The ratio of an axis brings it within its limit.                         *)
LEMMA CapBrings ==
  ASSUME NEW v \in BodyVelocity, NEW a \in Axis
  PROVE  IsRatio(CapRatio(v, a)) /\ Brings(CapRatio(v, a), v, a)
  <1> DEFINE x == abs(v[a])
             l == Limit[a]
  <1>1. x \in Nat /\ l \in Nat \ {0}
    BY AbsIsNat, Limits DEF BodyVelocity
  <1> HIDE DEF x, l
  <1>2. CASE x > l
    <2>1. CapRatio(v, a) = <<l, x>>  BY <1>2 DEF CapRatio, x, l
    <2>2. IsRatio(<<l, x>>)  BY <1>1, <1>2 DEF IsRatio
    <2>3. l * x <= l * x  BY <1>1
    <2> QED  BY <2>1, <2>2, <2>3 DEF Brings, x, l
  <1>3. CASE ~(x > l)
    <2>1. CapRatio(v, a) = <<1, 1>>  BY <1>3 DEF CapRatio, x, l
    <2>2. IsRatio(<<1, 1>>)  BY DEF IsRatio
    <2>3. 1 * x <= l * 1  BY <1>1, <1>3
    <2> QED  BY <2>1, <2>2, <2>3 DEF Brings, x, l
  <1> QED  BY <1>2, <1>3

(* A smaller ratio brings within its limit what a larger one does.          *)
LEMMA SmallerBrings ==
  ASSUME NEW n \in Nat \ {0}, NEW d \in Nat \ {0}, NEW n2 \in Nat \ {0}, NEW d2 \in Nat \ {0},
         NEW x \in Nat, NEW l \in Nat \ {0},
         n * d2 <= n2 * d, n2 * x <= l * d2
  PROVE  n * x <= l * d
  <1>1. (n * d2) * x <= (n2 * d) * x  BY SMT
  <1>2. (n2 * x) * d <= (l * d2) * d  BY SMT
  <1>3. (n2 * d) * x = (n2 * x) * d  BY SMT
  <1>4. (n * x) * d2 <= (l * d) * d2
    <2>1. (n * d2) * x = (n * x) * d2  BY SMT
    <2>2. (l * d2) * d = (l * d) * d2  BY SMT
    <2>3. /\ (n * d2) * x \in Int /\ (n2 * d) * x \in Int /\ (n2 * x) * d \in Int
          /\ (l * d2) * d \in Int /\ (n * x) * d2 \in Int /\ (l * d) * d2 \in Int
      OBVIOUS
    <2> QED  BY <1>1, <1>2, <1>3, <2>1, <2>2, <2>3
  <1>5. SUFFICES ASSUME n * x > l * d PROVE FALSE  OBVIOUS
  <1>6. (n * x) * d2 > (l * d) * d2  BY <1>5, SMT
  <1> QED  BY <1>4, <1>6

LEMMA MinBrings ==
  ASSUME NEW r, NEW s, IsRatio(r), IsRatio(s)
  PROVE  /\ IsRatio(MinRatio(r, s))
         /\ \A v \in BodyVelocity, a \in Axis :
               Brings(r, v, a) \/ Brings(s, v, a) => Brings(MinRatio(r, s), v, a)
  <1>1. PICK n1 \in Nat \ {0}, d1 \in Nat \ {0} : r = <<n1, d1>>  BY DEF IsRatio
  <1>2. PICK n2 \in Nat \ {0}, d2 \in Nat \ {0} : s = <<n2, d2>>  BY DEF IsRatio
  <1>3. IsRatio(MinRatio(r, s))  BY DEF MinRatio
  <1>4. ASSUME NEW v \in BodyVelocity, NEW a \in Axis, Brings(r, v, a) \/ Brings(s, v, a)
        PROVE  Brings(MinRatio(r, s), v, a)
    <2> DEFINE x == abs(v[a])
               l == Limit[a]
    <2>1. x \in Nat /\ l \in Nat \ {0}  BY AbsIsNat, Limits DEF BodyVelocity
    <2>2. /\ Brings(r, v, a) <=> n1 * x <= l * d1
          /\ Brings(s, v, a) <=> n2 * x <= l * d2
      BY <1>1, <1>2 DEF Brings
    <2> HIDE DEF x, l
    <2>3. CASE n1 * d2 <= n2 * d1
      <3>1. MinRatio(r, s) = r  BY <1>1, <1>2, <2>3 DEF MinRatio, LessEq
      <3>2. CASE n2 * x <= l * d2
        <4> n1 * x <= l * d1  BY <2>1, <2>3, <3>2, SmallerBrings
        <4> QED  BY <2>2, <3>1
      <3> QED  BY <1>4, <2>2, <3>1, <3>2
    <2>4. CASE ~(n1 * d2 <= n2 * d1)
      <3>1. MinRatio(r, s) = s  BY <1>1, <1>2, <2>4 DEF MinRatio, LessEq
      <3>2. n2 * d1 <= n1 * d2
        <4> n2 * d1 \in Int /\ n1 * d2 \in Int  OBVIOUS
        <4> QED  BY <2>4
      <3>3. CASE n1 * x <= l * d1
        <4> n2 * x <= l * d2  BY <2>1, <3>2, <3>3, SmallerBrings
        <4> QED  BY <2>2, <3>1
      <3> QED  BY <1>4, <2>2, <3>1, <3>3
    <2> QED  BY <2>3, <2>4
  <1> QED  BY <1>3, <1>4

LEMMA ScaleBrings ==
  ASSUME NEW v \in BodyVelocity
  PROVE  IsRatio(Scale(v)) /\ \A a \in Axis : Brings(Scale(v), v, a)
  <1> DEFINE x == CapRatio(v, "velocity_x")
             y == CapRatio(v, "velocity_y")
             w == CapRatio(v, "velocity_w")
  <1>1. Axis = {"velocity_x", "velocity_y", "velocity_w"}  BY DEF Axis, Limit
  <1>2. /\ IsRatio(x) /\ Brings(x, v, "velocity_x")
        /\ IsRatio(y) /\ Brings(y, v, "velocity_y")
        /\ IsRatio(w) /\ Brings(w, v, "velocity_w")
    BY <1>1, CapBrings
  <1> HIDE DEF x, y, w
  <1>3. /\ IsRatio(MinRatio(x, y))
        /\ Brings(MinRatio(x, y), v, "velocity_x") /\ Brings(MinRatio(x, y), v, "velocity_y")
    BY <1>1, <1>2, MinBrings
  <1>4. /\ IsRatio(MinRatio(MinRatio(x, y), w))
        /\ Brings(MinRatio(MinRatio(x, y), w), v, "velocity_x")
        /\ Brings(MinRatio(MinRatio(x, y), w), v, "velocity_y")
        /\ Brings(MinRatio(MinRatio(x, y), w), v, "velocity_w")
    BY <1>1, <1>2, <1>3, MinBrings
  <1> QED  BY <1>1, <1>4 DEF Scale, x, y, w

(* A multiple of a number lies as far from zero as the multiple of its size.*)
LEMMA AbsOfMultiple ==
  ASSUME NEW p \in Nat, NEW x \in Int, NEW b \in Int, p * abs(x) <= b
  PROVE  p * x \in Int /\ -b <= p * x /\ p * x <= b
  <1>1. CASE x < 0
    <2>1. p * (-x) <= b  BY <1>1 DEF abs
    <2>2. p * (-x) = -(p * x) /\ p * x \in Int  BY SMT
    <2>3. p * x <= 0  BY <1>1, SMT
    <2> QED  BY <2>1, <2>2, <2>3
  <1>2. CASE ~(x < 0)
    <2>1. p * x <= b  BY <1>2 DEF abs
    <2>2. p * x >= 0 /\ p * x \in Int  BY <1>2, SMT
    <2> QED  BY <2>1, <2>2
  <1> QED  BY <1>1, <1>2

(* The weighted sum of three numbers within limits.                         *)
LEMMA WheelBound ==
  ASSUME NEW k \in 1..4, NEW x \in Int, NEW y \in Int, NEW w \in Int,
         NEW a \in Nat, NEW b \in Nat, NEW c \in Nat,
         -a <= x, x <= a, -b <= y, y <= b, -c <= w, w <= c
  PROVE  abs(y * Sin[k] + x * Cos[k] + w * WheelDist[k])
            <= abs(Sin[k]) * b + abs(Cos[k]) * a + WheelDist[k] * c
  <1>1. CASE k = 1  BY <1>1 DEF Sin, Cos, WheelDist, abs
  <1>2. CASE k = 2  BY <1>2 DEF Sin, Cos, WheelDist, abs
  <1>3. CASE k = 3  BY <1>3 DEF Sin, Cos, WheelDist, abs
  <1>4. CASE k = 4  BY <1>4 DEF Sin, Cos, WheelDist, abs
  <1> QED  BY <1>1, <1>2, <1>3, <1>4

(* A body velocity within the limits, scaled by p / q or not at all, turns  *)
(* no wheel faster than Fastest.                                            *)
LEMMA ScaledWheel ==
  ASSUME NEW v \in BodyVelocity, NEW k \in 1..4,
         NEW p \in Nat \ {0}, NEW q \in Nat \ {0},
         \A a \in Axis : p * abs(v[a]) <= Limit[a] * q
  PROVE  Within(Ratio(p * Wheel(k, v), q), k)
  <1> DEFINE x == v.velocity_x
             y == v.velocity_y
             w == v.velocity_w
  <1>1. /\ x \in Int /\ y \in Int /\ w \in Int
        /\ X_LIMIT \in Nat /\ Y_LIMIT \in Nat /\ W_LIMIT \in Nat
    BY LimitAssumption DEF BodyVelocity, Axis, Limit
  <1>2. /\ p * abs(x) <= X_LIMIT * q
        /\ p * abs(y) <= Y_LIMIT * q
        /\ p * abs(w) <= W_LIMIT * q
    BY DEF Axis, Limit
  <1>3. Wheel(k, v) = y * Sin[k] + x * Cos[k] + w * WheelDist[k]  BY DEF Wheel
  <1>4. /\ Sin[k] \in Int /\ Cos[k] \in Int /\ WheelDist[k] \in Nat
    <2> k = 1 \/ k = 2 \/ k = 3 \/ k = 4  OBVIOUS
    <2> QED  BY DEF Sin, Cos, WheelDist
  <1> HIDE DEF x, y, w
  <1>5. /\ X_LIMIT * q \in Nat /\ Y_LIMIT * q \in Nat /\ W_LIMIT * q \in Nat
    BY <1>1
  <1>6. /\ p * x \in Int /\ -(X_LIMIT * q) <= p * x /\ p * x <= X_LIMIT * q
    BY <1>1, <1>2, <1>5, AbsOfMultiple
  <1>7. /\ p * y \in Int /\ -(Y_LIMIT * q) <= p * y /\ p * y <= Y_LIMIT * q
    BY <1>1, <1>2, <1>5, AbsOfMultiple
  <1>8. /\ p * w \in Int /\ -(W_LIMIT * q) <= p * w /\ p * w <= W_LIMIT * q
    BY <1>1, <1>2, <1>5, AbsOfMultiple
  <1>9. abs((p * y) * Sin[k] + (p * x) * Cos[k] + (p * w) * WheelDist[k])
          <= abs(Sin[k]) * (Y_LIMIT * q) + abs(Cos[k]) * (X_LIMIT * q)
                + WheelDist[k] * (W_LIMIT * q)
    BY <1>5, <1>6, <1>7, <1>8, WheelBound
  <1>10. (p * y) * Sin[k] + (p * x) * Cos[k] + (p * w) * WheelDist[k] = p * Wheel(k, v)
    BY <1>1, <1>3, <1>4, SMT
  <1>11. abs(Sin[k]) * (Y_LIMIT * q) + abs(Cos[k]) * (X_LIMIT * q) + WheelDist[k] * (W_LIMIT * q)
           = Fastest(k) * q
    <2>1. abs(Sin[k]) \in Nat /\ abs(Cos[k]) \in Nat  BY <1>4, AbsIsNat
    <2> DEFINE s == abs(Sin[k])
               c == abs(Cos[k])
               d == WheelDist[k]
    <2>2. s \in Nat /\ c \in Nat /\ d \in Nat  BY <2>1, <1>4
    <2>3. Fastest(k) = s * Y_LIMIT + c * X_LIMIT + d * W_LIMIT  BY DEF Fastest
    <2> HIDE DEF s, c, d
    <2>4. s * (Y_LIMIT * q) + c * (X_LIMIT * q) + d * (W_LIMIT * q)
            = (s * Y_LIMIT + c * X_LIMIT + d * W_LIMIT) * q
      BY <1>1, <2>2, SMT
    <2> QED  BY <2>3, <2>4 DEF s, c, d
  <1>12. abs(p * Wheel(k, v)) <= Fastest(k) * q  BY <1>9, <1>10, <1>11
  <1>13. CASE p * Wheel(k, v) = 0
    <2>1. Ratio(p * Wheel(k, v), q) = <<0, 1>>  BY <1>13 DEF Ratio
    <2>2. Fastest(k) * 1 >= 0
      <3> abs(Sin[k]) \in Nat /\ abs(Cos[k]) \in Nat  BY <1>4, AbsIsNat
      <3>1. /\ abs(Sin[k]) * Y_LIMIT \in Nat /\ abs(Cos[k]) * X_LIMIT \in Nat
            /\ WheelDist[k] * W_LIMIT \in Nat
        BY <1>1, <1>4
      <3> QED  BY <3>1 DEF Fastest
    <2> QED  BY <2>1, <2>2 DEF Within, abs
  <1>14. CASE p * Wheel(k, v) # 0
    <2>1. Ratio(p * Wheel(k, v), q) = <<p * Wheel(k, v), q>>  BY <1>14 DEF Ratio
    <2> QED  BY <2>1, <1>12 DEF Within
  <1> QED  BY <1>13, <1>14

(* SpeedsKeepLimits: whatever body velocity is asked for, safe and capped   *)
(* mode turn no wheel faster than a body within its limits would            *)
(* (wheel_math.cpp:33-69).                                                  *)
THEOREM SpeedsKeepLimits ==
  ASSUME NEW v \in BodyVelocity, NEW mode \in {0, 1}, NEW k \in 1..4
  PROVE  Within(calculate(v, mode)[k], k)
  <1>1. CASE mode = 0 /\ TooLarge(v) # {}
    <2>1. calculate(v, mode)[k] = <<0, 1>>  BY <1>1 DEF calculate
    <2>2. Fastest(k) \in Nat
      <3>1. X_LIMIT \in Nat /\ Y_LIMIT \in Nat /\ W_LIMIT \in Nat  BY LimitAssumption
      <3>2. k = 1 \/ k = 2 \/ k = 3 \/ k = 4  OBVIOUS
      <3> QED  BY <3>1, <3>2 DEF Fastest, abs, Sin, Cos, WheelDist
    <2> QED  BY <2>1, <2>2 DEF Within, abs
  <1>2. CASE mode = 0 /\ TooLarge(v) = {}
    <2>1. calculate(v, mode)[k] = Ratio(Wheel(k, v), 1)  BY <1>2 DEF calculate
    <2>2. ASSUME NEW a \in Axis PROVE 1 * abs(v[a]) <= Limit[a] * 1
      <3>1. ~(abs(v[a]) > Limit[a])  BY <1>2 DEF TooLarge
      <3>2. abs(v[a]) \in Nat /\ Limit[a] \in Nat  BY AbsIsNat, Limits DEF BodyVelocity
      <3> QED  BY <3>1, <3>2
    <2>3. Within(Ratio(1 * Wheel(k, v), 1), k)  BY <2>2, ScaledWheel
    <2>4. 1 * Wheel(k, v) = Wheel(k, v)
      <3>1. v.velocity_x \in Int /\ v.velocity_y \in Int /\ v.velocity_w \in Int
        BY DEF BodyVelocity, Axis, Limit
      <3>2. k = 1 \/ k = 2 \/ k = 3 \/ k = 4  OBVIOUS
      <3>3. Wheel(k, v) \in Int  BY <3>1, <3>2 DEF Wheel, Sin, Cos, WheelDist
      <3> QED  BY <3>3
    <2> QED  BY <2>1, <2>3, <2>4
  <1>3. CASE mode = 1
    <2>1. calculate(v, mode)[k] = Ratio(Scale(v)[1] * Wheel(k, v), Scale(v)[2])
      BY <1>3 DEF calculate
    <2>2. IsRatio(Scale(v)) /\ \A a \in Axis : Brings(Scale(v), v, a)  BY ScaleBrings
    <2>3. PICK p \in Nat \ {0}, q \in Nat \ {0} : Scale(v) = <<p, q>>  BY <2>2 DEF IsRatio
    <2>4. \A a \in Axis : p * abs(v[a]) <= Limit[a] * q  BY <2>2, <2>3 DEF Brings
    <2>5. Within(Ratio(p * Wheel(k, v), q), k)  BY <2>4, ScaledWheel
    <2> QED  BY <2>1, <2>3, <2>5
  <1> QED  BY <1>1, <1>2, <1>3

----------------------------------------------------------------------------
(* The control loop that drives with them. *)

(* A wheel is only ever told to stand still or to turn as calculated for it *)
(* from some velocity the decoder can hold.                                 *)
OwnSpeed(m) == {Zero} \cup {Calculate(v)[m] : v \in Velocity}

SpeedInv ==
    /\ \A m \in Motor : m \in DOMAIN velocity_map => velocity_map[m] \in OwnSpeed(m)
    /\ \A m \in Motor : command[m].velocity \in OwnSpeed(m)

LEMMA StopIsOwn == \A m \in Motor : StopFrame.velocity \in OwnSpeed(m)
  BY DEF StopFrame, OwnSpeed

LEMMA SpeedStep == TypeOK /\ SpeedInv /\ [Next]_vars => SpeedInv'
<1> SUFFICES ASSUME TypeOK, SpeedInv, [Next]_vars PROVE SpeedInv'
  OBVIOUS
<1> USE DEF SpeedInv
<1>1. CASE SetStop
  <2>1. velocity_map' = velocity_map  BY <1>1 DEF SetStop
  <2>2. \A m \in Motor : command'[m] \in {command[m], StopFrame}
    BY <1>1 DEF SetStop, TypeOK
  <2> QED  BY <2>1, <2>2, StopIsOwn
<1>2. CASE ReceiveNothing
  <2>1. command' = command /\ velocity_map' \in {velocity_map, Standstill}
    BY <1>2 DEF ReceiveNothing
  <2> QED  BY <2>1 DEF Standstill, OwnSpeed
<1>3. CASE ReceiveStop
  BY <1>3 DEF ReceiveStop, Standstill, OwnSpeed
<1>4. CASE ReceiveCommand
  <2>1. Polled \in Payload  BY PollType
  <2>2. cmd' \in Command  BY <1>4, <2>1, DataAssumption DEF ReceiveCommand, TypeOK
  <2>3. command' = command /\ velocity_map' = Calculate(cmd'.velocity)
    BY <1>4 DEF ReceiveCommand, SpeedsOfCommand
  <2> QED  BY <2>2, <2>3 DEF Command, OwnSpeed
<1>5. CASE CycleMotors
  <2>1. velocity_map' = velocity_map /\ command' = [m \in Motor |-> Commanded(m)]
    BY <1>5 DEF CycleMotors
  <2>2. \A m \in Motor : Commanded(m).velocity \in OwnSpeed(m)
    BY DEF Commanded, PositionFrame, OwnSpeed
  <2> QED  BY <2>1, <2>2
<1>6. ASSUME UNCHANGED <<velocity_map, command>> PROVE SpeedInv'
  BY <1>6
<1>7. CASE \/ EndSweep \/ ConnectArduino \/ StartCamera \/ InstallHandlers
           \/ EnterLoop \/ NextIteration \/ LeaveLoop
           \/ (\E t \in Timer : PassOver(t)) \/ ReadCamera \/ SendReport \/ CommandBoard
           \/ ExitOnStop \/ ReleaseDevices \/ JoinCamera
  BY <1>6, <1>7 DEF EndSweep, ConnectArduino, StartCamera, InstallHandlers, EnterLoop,
     NextIteration, LeaveLoop, PassOver, ReadCamera, SendReport, CommandBoard, ExitOnStop,
     ReleaseDevices, JoinCamera, drive
<1>8. CASE Camera \/ Arrive \/ KilledBySignal \/ SignalHandler \/ UNCHANGED vars
  BY <1>6, <1>8 DEF Camera, CameraCheck, CameraObserve, CameraPublish, CameraUnchanged,
     Arrive, KilledBySignal, SignalHandler, vars, drive
<1> QED
  BY <1>1, <1>2, <1>3, <1>4, <1>5, <1>7, <1>8 DEF Next, Main, Over

(* A speed of its own keeps the limits.                                     *)
LEMMA OwnSpeedWithin ==
  ASSUME Mode \in {0, 1}, NEW m \in Motor, NEW s \in OwnSpeed(m)
  PROVE  Within(s, m)
<1>1. m \in 1..4
  BY DriveAssumption, SizeAssumption DEF Motor
<1>2. CASE s = Zero
  <2>1. X_LIMIT \in Nat /\ Y_LIMIT \in Nat /\ W_LIMIT \in Nat  BY LimitAssumption
  <2>2. m = 1 \/ m = 2 \/ m = 3 \/ m = 4  BY <1>1
  <2>3. s = <<0, 1>>  BY <1>2, DriveAssumption
  <2> QED  BY <2>1, <2>2, <2>3 DEF Within, Fastest, abs, Sin, Cos, WheelDist
<1>3. ASSUME NEW v \in Velocity, s = Calculate(v)[m] PROVE Within(s, m)
  <2>1. v \in BodyVelocity /\ Calculate(v) = SpeedsOf(v)
    BY DriveAssumption DEF BodyVelocity
  <2>2. s = calculate(v, Mode)[m]  BY <1>3, <2>1 DEF SpeedsOf
  <2> QED  BY <1>1, <2>1, <2>2, SpeedsKeepLimits
<1> QED  BY <1>2, <1>3 DEF OwnSpeed

(* For every text and all limits, the wheels keep the limits: what a        *)
(* datagram leaves in the decoder's members, old or new, is limited before  *)
(* it reaches a motor (wheel_math.cpp:33-69, RobotFramework.cpp:304-311).   *)
THEOREM LimitsKept == Spec => []WheelsKeepLimits
<1>1. Init => SpeedInv
  BY DEF Init, SpeedInv, OwnSpeed
<1>2. SpeedInv => WheelsKeepLimits
  BY OwnSpeedWithin DEF SpeedInv, WheelsKeepLimits
<1> QED
  BY <1>1, <1>2, SpeedStep, TypeCorrect, PTL DEF Spec
=============================================================================
