-------------------------- MODULE MCArduino_proofs --------------------------
(***************************************************************************)
(* Proofs about the kicker board, the serial link before it, and the robot *)
(* that holds the kick: for any timeout, pulse, width of the counters,     *)
(* ports and plugging.                                                     *)
(*                                                                         *)
(* The board compares a difference of two wrapping counters.  The argument *)
(* for the gap is that this difference never exceeds the real time since   *)
(* the last pulse, although it may be less: after a reset and after a full *)
(* turn of millis() (Counted).  The argument for the deadline is that with *)
(* the robot holding the kick it is that time exactly (Exact).  The link   *)
(* needs one more fact: connect, while it sleeps, holds the port it is     *)
(* opening and does not call itself connected (Settling).                  *)
(***************************************************************************)
EXTENDS MCArduino, TLAPS

(* What the sketch measures next: the distance from the kick in progress,  *)
(* or from the last one.                                                   *)
Measured == IF fpc = "pulse" THEN Minus(millis, current_time) ELSE Minus(millis, previous_time)

Counted == since = Horizon \/ Measured <= since

PinInv ==
    /\ driven => fpc \in {"attach", "loop", "pulse"}
    /\ fpc \in {"output", "attach", "loop"} => latch = kickerIdleLevel

IInv == TypeOK /\ Counted /\ PinInv

(* A distance is the difference of counters, and grows by at most one as   *)
(* the counter ticks.                                                      *)
LEMMA MinusTicks ==
    ASSUME NEW a \in 0..(Wrap - 1), NEW b \in 0..(Wrap - 1)
    PROVE  /\ Minus(a, b) \in 0..(Wrap - 1)
           /\ Minus(a, a) = 0
           /\ LET next == IF a + 1 = Wrap THEN 0 ELSE a + 1
              IN  /\ next \in 0..(Wrap - 1)
                  /\ Minus(next, b) <= Minus(a, b) + 1
                  /\ Minus(a, b) + 1 < Wrap => Minus(next, b) = Minus(a, b) + 1
BY FirmwareAssumption DEF Minus

LEMMA InitInv == Init => IInv
<1> SUFFICES ASSUME Init PROVE IInv
    OBVIOUS
<1>1. 0 \in 0..(Wrap - 1) /\ Horizon \in 0..Horizon
    BY FirmwareAssumption
<1>2. TypeOK
    <2>1. <<>> \in Seq(Byte)
        OBVIOUS
    <2> QED
        BY <1>1, <2>1 DEF Init, TypeOK
<1>3. Counted
    BY DEF Init, Counted
<1>4. PinInv
    BY DEF Init, PinInv
<1> QED
    BY <1>2, <1>3, <1>4 DEF IInv

LEMMA SketchInv == IInv /\ Sketch => IInv'
<1> SUFFICES ASSUME IInv, Sketch PROVE IInv'
    OBVIOUS
<1> USE DEF IInv
<1> DEFINE Same == UNCHANGED <<millis, kickVars, since>>
<1>0. TypeOK /\ Counted /\ PinInv
    OBVIOUS
<1>t. kickerActiveLevel \in BOOLEAN /\ kickerIdleLevel \in BOOLEAN
    BY FirmwareAssumption DEF kickerIdleLevel
<1>r. ASSUME NEW b \in Byte, Reads(b)
      PROVE  fpc = "loop" /\ incoming' \in Seq(Byte)
    BY <1>0, <1>r DEF Reads, TypeOK
<1>1. CASE PreloadLatch
    BY <1>0, <1>1, <1>t DEF PreloadLatch, LoadIdle, kickVars, TypeOK, Counted, Measured, Minus, PinInv
<1>2. CASE DrivePin
    BY <1>0, <1>2, <1>t DEF DrivePin, kickVars, TypeOK, Counted, Measured, Minus, PinInv
<1>3. CASE AttachDribbler
    BY <1>0, <1>3, <1>t DEF AttachDribbler, pinVars, kickVars, TypeOK, Counted, Measured, Minus, PinInv
<1>4. CASE RejectKick
    <2>1. fpc = "loop" /\ incoming' \in Seq(Byte)
        BY <1>4, <1>r DEF RejectKick, Byte
    <2> QED
        BY <1>0, <1>4, <2>1 DEF RejectKick, RejectionKeepsTimer, pinVars, TypeOK, Counted, Measured, Minus, PinInv
<1>5. CASE Kick
    <2>1. fpc = "loop" /\ incoming' \in Seq(Byte)
        BY <1>5, <1>r DEF Kick, Byte
    <2>2. since' = 0 /\ 0 \in 0..Horizon
        BY <1>5, FirmwareAssumption DEF Kick
    <2>3. TypeOK'
        BY <1>0, <1>5, <1>t, <2>1, <2>2 DEF Kick, TypeOK
    <2>4. Measured' = Minus(millis, millis)
        BY <1>5 DEF Kick, Measured, Minus
    <2>5. Counted'
        BY <1>0, <2>2, <2>4, MinusTicks DEF Counted, TypeOK
    <2>6. PinInv'
        BY <1>0, <1>5, <2>1 DEF Kick, PinInv
    <2> QED
        BY <2>3, <2>5, <2>6
<1>6. CASE Release
    <2>1. TypeOK'
        BY <1>0, <1>6, <1>t DEF Release, TypeOK
    <2>2. Measured' = Measured
        BY <1>6 DEF Release, Measured, Minus
    <2>3. Counted'
        BY <1>0, <1>6, <2>2 DEF Release, Counted
    <2>4. PinInv'
        BY <1>0, <1>6 DEF Release, PinInv
    <2> QED
        BY <2>1, <2>3, <2>4
<1>7. CASE Dribble
    <2>1. incoming' \in Seq(Byte)
        BY <1>7, <1>r DEF Dribble, Byte
    <2> QED
        BY <1>0, <1>7, <2>1 DEF Dribble, pinVars, kickVars, TypeOK, Counted, Measured, Minus, PinInv
<1> QED
    BY <1>1, <1>2, <1>3, <1>4, <1>5, <1>6, <1>7 DEF Sketch

LEMMA TickInv == IInv /\ Tick => IInv'
<1> SUFFICES ASSUME IInv, Tick PROVE IInv'
    OBVIOUS
<1>0. TypeOK /\ Counted /\ PinInv
    BY DEF IInv
<1>1. since' \in 0..Horizon /\ (since' = Horizon \/ since' = since + 1)
    BY <1>0, FirmwareAssumption DEF Tick, TypeOK
<1>2. millis' \in 0..(Wrap - 1)
    BY <1>0, MinusTicks DEF Tick, TypeOK
<1>3. TypeOK'
    BY <1>0, <1>1, <1>2 DEF Tick, pinVars, kickVars, TypeOK
<1>4. Measured \in Nat /\ Measured' \in Nat /\ Measured' <= Measured + 1
    BY <1>0, <1>2, MinusTicks, SMTT(30) DEF Tick, kickVars, TypeOK, Measured, Minus
<1>5. Counted'
    BY <1>0, <1>1, <1>4, FirmwareAssumption DEF Tick, Counted, TypeOK
<1>6. PinInv'
    BY <1>0 DEF Tick, pinVars, PinInv
<1> QED
    BY <1>3, <1>5, <1>6 DEF IInv

LEMMA ReceiveInv == ASSUME IInv, NEW b \in Byte, Receive(b) PROVE IInv'
BY DEF IInv, Receive, pinVars, kickVars, TypeOK, Counted, Measured, Minus, PinInv

LEMMA ResetInv == IInv /\ Reset => IInv'
<1> SUFFICES ASSUME IInv, Reset PROVE IInv'
    OBVIOUS
<1>1. 0 \in 0..(Wrap - 1)
    BY FirmwareAssumption
<1>2. TypeOK'
    <2>1. <<>> \in Seq(Byte)
        OBVIOUS
    <2> QED
        BY <1>1, <2>1 DEF IInv, Reset, TypeOK
<1>3. Measured' = 0
    BY DEF Reset, Measured, Minus
<1>4. Counted'
    BY <1>2, <1>3 DEF Counted, TypeOK
<1>5. PinInv'
    BY DEF Reset, PinInv
<1> QED
    BY <1>2, <1>4, <1>5 DEF IInv

LEMMA StutterInv == IInv /\ UNCHANGED firmwareVars => IInv'
BY DEF IInv, firmwareVars, pinVars, kickVars, TypeOK, Counted, Measured, Minus, PinInv

(* The strengthened invariant of the board (Arduino.ino:35-77).            *)
THEOREM BoardInvariance == Spec => []IInv
<1>1. IInv /\ [Next]_firmwareVars => IInv'
    BY SketchInv, TickInv, ReceiveInv, ResetInv, StutterInv DEF Next
<1> QED
    BY InitInv, <1>1, PTL DEF Spec

(* Every variable of the board keeps its type.                             *)
THEOREM BoardType == Spec => []TypeOK
BY BoardInvariance, PTL DEF IInv

LEMMA InvRests == IInv => NoTwitch
BY FirmwareAssumption DEF IInv, TypeOK, PinInv, NoTwitch, kickerIdleLevel

LEMMA InvGap == IInv /\ Kick => since >= kicker_timeout
<1> SUFFICES ASSUME IInv, Kick PROVE since >= kicker_timeout
    OBVIOUS
<1>1. Measured = Minus(millis, previous_time) /\ Measured \in Nat
    BY MinusTicks DEF Kick, Reads, Measured, IInv, TypeOK
<1>2. Measured >= kicker_timeout
    BY <1>1, FirmwareAssumption DEF Kick, TooFast
<1> QED
    BY <1>1, <1>2, FirmwareAssumption DEF IInv, Counted, TypeOK

(* The solenoid is driven only by a kick, whichever level fires it.        *)
THEOREM BoardRests == Spec => []NoTwitch
BY BoardInvariance, InvRests, PTL

(* Kicks keep their gap, for every timeout and width of the counters,      *)
(* through wraps, resets and queues.                                       *)
THEOREM BoardGap == Spec => KickGap
<1>1. IInv => [Kick => since >= kicker_timeout]_firmwareVars
    BY InvGap
<1> QED
    BY BoardInvariance, <1>1, PTL DEF KickGap

----------------------------------------------------------------------------
(* The robot that holds the kick. *)

Exact == Measured = since

(* In the loop, with nothing left to read, the kick sent age ago was       *)
(* refused, and so came within the timeout.                                *)
Recent == fpc = "loop" /\ incoming = <<>> => since < kicker_timeout + age

HeldInv ==
    /\ TypeOK
    /\ age \in 0..Gap
    /\ fpc \in {"loop", "pulse"}
    /\ incoming \in Seq({"K"})
    /\ fpc = "pulse" => since <= kickerPulseTime
    /\ Exact
    /\ Recent
    /\ HeldKickFires

LEMMA GapNat == Gap \in Nat /\ Interval <= Gap
BY PathAssumption DEF Gap

LEMMA InitHeld == InitPath => HeldInv
<1> SUFFICES ASSUME InitPath PROVE HeldInv
    OBVIOUS
<1>1. 0 \in 0..(Wrap - 1) /\ 0 \in 0..Horizon /\ 0 \in 0..Gap
    BY FirmwareAssumption, GapNat
<1>2. TypeOK
    BY <1>1, FirmwareAssumption DEF InitPath, BoardUp, TypeOK, kickerIdleLevel
<1>3. Exact
    BY DEF InitPath, BoardUp, Exact, Measured, Minus
<1>4. 0 < kicker_timeout
    BY FirmwareAssumption, PathAssumption
<1> QED
    BY <1>1, <1>2, <1>3, <1>4, FirmwareAssumption, GapNat
    DEF InitPath, BoardUp, HeldInv, Recent, HeldKickFires

LEMMA SendHeld == HeldInv /\ SendKick => HeldInv'
<1> SUFFICES ASSUME HeldInv, SendKick PROVE HeldInv'
    OBVIOUS
<1>0. TypeOK /\ incoming \in Seq({"K"})
    BY DEF HeldInv
<1>1. incoming' \in Seq({"K"}) /\ incoming' \in Seq(Byte)
    BY <1>0 DEF SendKick, Receive, TypeOK, Byte
<1>2. incoming' # <<>>
    BY <1>0, FirmwareAssumption DEF SendKick, Receive
<1>3. TypeOK'
    BY <1>0, <1>1 DEF SendKick, Receive, pinVars, kickVars, TypeOK
<1>4. age' \in 0..Gap
    BY GapNat DEF SendKick
<1> QED
    BY <1>1, <1>2, <1>3, <1>4
    DEF HeldInv, SendKick, Receive, pinVars, kickVars, Exact, Measured, Minus, Recent, HeldKickFires

LEMMA SketchHeld == HeldInv /\ SketchStep => HeldInv'
<1> SUFFICES ASSUME HeldInv, SketchStep PROVE HeldInv'
    OBVIOUS
<1>0. /\ TypeOK /\ age \in 0..Gap /\ fpc \in {"loop", "pulse"} /\ incoming \in Seq({"K"})
      /\ fpc = "pulse" => since <= kickerPulseTime
      /\ Exact /\ Recent /\ HeldKickFires /\ age' = age
    BY DEF HeldInv, SketchStep
<1>t. kickerActiveLevel \in BOOLEAN /\ kickerIdleLevel \in BOOLEAN
    BY FirmwareAssumption DEF kickerIdleLevel
<1>n. /\ {kicker_timeout, kickerPulseTime, age, since, Horizon, Gap} \subseteq Nat
      /\ kickerPulseTime < kicker_timeout
    BY <1>0, FirmwareAssumption, PathAssumption, GapNat DEF TypeOK
<1>r. ASSUME NEW b \in Byte, Reads(b)
      PROVE  b = "K" /\ fpc = "loop" /\ incoming' \in Seq({"K"}) /\ incoming' \in Seq(Byte)
    BY <1>0, <1>r DEF Reads, TypeOK
<1>1. CASE PreloadLatch \/ DrivePin \/ AttachDribbler
    BY <1>0, <1>1 DEF PreloadLatch, DrivePin, AttachDribbler
<1>2. CASE RejectKick
    <2>1. fpc = "loop" /\ incoming' \in Seq({"K"}) /\ incoming' \in Seq(Byte)
        BY <1>2, <1>r DEF RejectKick, Byte
    <2>2. TypeOK' /\ Exact'
        BY <1>0, <1>2, <2>1 DEF RejectKick, RejectionKeepsTimer, pinVars, TypeOK, Exact, Measured, Minus
    <2>3. since < kicker_timeout
        BY <1>0, <1>2, <2>1 DEF RejectKick, TooFast, Exact, Measured
    <2>4. Recent' /\ HeldKickFires'
        BY <1>0, <1>2, <1>n, <2>3 DEF RejectKick, Recent, HeldKickFires
    <2> QED
        BY <1>0, <1>2, <2>1, <2>2, <2>4 DEF RejectKick, HeldInv
<1>3. CASE Kick
    <2>1. fpc = "loop" /\ incoming' \in Seq({"K"}) /\ incoming' \in Seq(Byte)
        BY <1>3, <1>r DEF Kick, Byte
    <2>2. since' = 0 /\ 0 \in 0..Horizon
        BY <1>3, FirmwareAssumption DEF Kick
    <2>3. TypeOK'
        BY <1>0, <1>3, <1>t, <2>1, <2>2 DEF Kick, TypeOK
    <2>4. Exact'
        BY <1>0, <1>3, <2>2, MinusTicks DEF Kick, Exact, Measured, Minus, TypeOK
    <2>5. fpc' = "pulse" /\ HeldKickFires'
        BY <1>3, <1>n, <2>2 DEF Kick, HeldKickFires
    <2> QED
        BY <1>0, <1>n, <2>1, <2>2, <2>3, <2>4, <2>5 DEF HeldInv, Recent
<1>4. CASE Release
    <2>1. TypeOK'
        BY <1>0, <1>4, <1>t DEF Release, TypeOK
    <2>2. Exact'
        BY <1>0, <1>4 DEF Release, Exact, Measured, Minus
    <2>3. Recent' /\ HeldKickFires'
        BY <1>0, <1>4, <1>n DEF Release, Recent, HeldKickFires
    <2> QED
        BY <1>0, <1>4, <2>1, <2>2, <2>3 DEF Release, HeldInv
<1>5. CASE Dribble
    BY <1>5, <1>r DEF Dribble, Byte
<1> QED
    BY <1>1, <1>2, <1>3, <1>4, <1>5 DEF SketchStep, Sketch

LEMMA TimeHeld == HeldInv /\ TimePasses => HeldInv'
<1> SUFFICES ASSUME HeldInv, TimePasses PROVE HeldInv'
    OBVIOUS
<1>0. /\ TypeOK /\ age \in 0..Gap /\ fpc \in {"loop", "pulse"} /\ incoming \in Seq({"K"})
      /\ fpc = "pulse" => since <= kickerPulseTime
      /\ Exact /\ Recent /\ HeldKickFires
    BY DEF HeldInv
<1>n. /\ {kicker_timeout, kickerPulseTime, age, since, Horizon, Gap} \subseteq Nat
      /\ kickerPulseTime < kicker_timeout
      /\ kicker_timeout + Gap < Wrap /\ kicker_timeout + Gap < Horizon
      /\ Wrap \in Nat
    BY <1>0, FirmwareAssumption, PathAssumption, GapNat DEF TypeOK
<1>1. /\ age' = age + 1 /\ age' \in 0..Gap
      /\ UNCHANGED <<fpc, previous_time, current_time, incoming>>
    BY <1>0, <1>n DEF TimePasses, Tick, kickVars
<1>2. since' = since + 1
    BY <1>0, <1>n DEF TimePasses, Tick, HeldKickFires
<1>3. millis' \in 0..(Wrap - 1)
    BY <1>0, MinusTicks DEF TimePasses, Tick, TypeOK
<1>4. since' \in 0..Horizon
    BY <1>0, <1>2, <1>n DEF HeldKickFires
<1>5. TypeOK'
    BY <1>0, <1>1, <1>3, <1>4 DEF TimePasses, Tick, pinVars, TypeOK
<1>6. Exact'
    <2>1. since + 1 < Wrap
        BY <1>0, <1>n DEF HeldKickFires
    <2>2. Measured = since
        BY <1>0 DEF Exact
    <2>3. Measured' = Measured + 1
        <3> DEFINE from == IF fpc = "pulse" THEN current_time ELSE previous_time
        <3>1. Measured = Minus(millis, from) /\ Measured' = Minus(millis', from)
            BY <1>1 DEF Measured, Minus
        <3>2. from \in 0..(Wrap - 1) /\ millis \in 0..(Wrap - 1)
            BY <1>0 DEF TypeOK
        <3>3. millis' = IF millis + 1 = Wrap THEN 0 ELSE millis + 1
            BY DEF TimePasses, Tick
        <3> HIDE DEF from
        <3>4. Minus(millis, from) + 1 < Wrap => Minus(millis', from) = Minus(millis, from) + 1
            BY <3>2, <3>3, MinusTicks
        <3> QED
            BY <2>1, <2>2, <3>1, <3>4
    <2> QED
        BY <1>2, <2>2, <2>3 DEF Exact
<1>7. fpc' = "pulse" => since' <= kickerPulseTime
    BY <1>0, <1>1, <1>2, <1>n DEF TimePasses, Waits, PulseOver, Exact, Measured
<1>8. Recent'
    BY <1>0, <1>1, <1>2, <1>n DEF Recent
<1>9. HeldKickFires'
    <2>1. CASE fpc = "loop"
        <3>1. since < kicker_timeout + age
            BY <1>0, <2>1 DEF TimePasses, Waits, Recent
        <3> QED
            BY <1>1, <1>2, <1>n, <3>1 DEF HeldKickFires
    <2>2. CASE fpc = "pulse"
        BY <1>1, <1>2, <1>7, <1>n, <2>2 DEF HeldKickFires
    <2> QED
        BY <1>0, <2>1, <2>2
<1> QED
    BY <1>0, <1>1, <1>5, <1>6, <1>7, <1>8, <1>9 DEF HeldInv

LEMMA StutterHeld == HeldInv /\ UNCHANGED vars => HeldInv'
BY DEF HeldInv, vars, firmwareVars, pinVars, kickVars, TypeOK, Exact, Measured, Minus,
       Recent, HeldKickFires

(* For every timeout, pulse, interval and width of the counters: an        *)
(* operator who holds the kick gets one within a tick of the timeout.      *)
THEOREM HeldKick == SpecPath => []HeldKickFires
<1>1. HeldInv /\ [NextPath]_vars => HeldInv'
    BY SendHeld, SketchHeld, TimeHeld, StutterHeld DEF NextPath
<1>2. HeldInv => HeldKickFires
    BY DEF HeldInv
<1> QED
    BY InitHeld, <1>1, <1>2, PTL DEF SpecPath

----------------------------------------------------------------------------
(* The link, whatever is plugged and unplugged while it searches,          *)
(* connects, sends and disconnects.                                        *)

Settling == lpc = "settle" => ~is_connected /\ opened = port

AtPort == lpc # "idle" => port \in Port

LinkInv ==
    /\ LinkTypeOK
    /\ AtPort
    /\ Settling
    /\ ConnectedMeansOpen
    /\ LeakMeansError

LEMMA PortsAreNumbers ==
    /\ Ports \in Nat /\ BoardPort \in Port /\ MaxPlugs \in Nat
    /\ \A p \in Port : p \in Nat /\ p # None /\ (p < Ports => p + 1 \in Port)
    /\ 1 \in Port
BY LinkAssumption DEF Port, None

LEMMA InitLinkInv == InitLink => LinkInv
<1> SUFFICES ASSUME InitLink PROVE LinkInv
    OBVIOUS
<1>1. plugs \in 0..MaxPlugs
    BY PortsAreNumbers DEF InitLink
<1>2. LinkTypeOK
    BY <1>1 DEF InitLink, LinkTypeOK
<1>3. AtPort /\ Settling /\ ConnectedMeansOpen /\ LeakMeansError
    BY DEF InitLink, AtPort, Settling, ConnectedMeansOpen, LeakMeansError
<1> QED
    BY <1>2, <1>3 DEF LinkInv

(* What disconnect leaves open is what was open, and dead.                 *)
LEMMA WhatStaysOpen ==
    ASSUME LinkInv, NEW o \in {opened, None}, DisconnectFirst(o)
    PROVE  /\ opened = None => o = None
           /\ is_connected /\ o # None => ~alive
           /\ is_connected /\ alive => o = None
           /\ ~is_connected => o = opened
BY DEF LinkInv, LinkTypeOK, ConnectedMeansOpen, DisconnectFirst, ClosePort, Closed, None

LEMMA ConnectsInv ==
    ASSUME LinkInv, NEW p \in Port, Connects(p), lpc \in {"idle", "probe"},
           UNCHANGED <<probed, plugVars>>
    PROVE  LinkInv'
<1>1. PICK o \in {opened, None} :
        /\ DisconnectFirst(o)
        /\ is_connected' = FALSE
        /\ connected_port' = IF is_connected THEN None ELSE connected_port
        /\ IF o = None /\ CanOpen(p)
             THEN /\ lpc' = "settle" /\ port' = p
                  /\ opened' = p /\ alive' = TRUE /\ refused' = FALSE
             ELSE /\ lpc' = "idle" /\ port' = None
                  /\ opened' = o /\ UNCHANGED <<alive, refused>>
    BY DEF Connects
<1>2. LinkTypeOK /\ AtPort /\ LeakMeansError
    BY DEF LinkInv
<1>3. LinkTypeOK'
    BY <1>1, <1>2 DEF LinkTypeOK, plugVars
<1>4. AtPort' /\ Settling' /\ ConnectedMeansOpen'
    BY <1>1 DEF AtPort, Settling, ConnectedMeansOpen
<1>5. LeakMeansError'
    <2>1. CASE o = None /\ CanOpen(p)
        BY <1>1, <2>1 DEF LeakMeansError
    <2>2. CASE ~(o = None /\ CanOpen(p))
        <3>1. o # None => refused \/ ~alive
            BY <1>1, <1>2, WhatStaysOpen DEF LeakMeansError
        <3> QED
            BY <1>1, <2>2, <3>1 DEF LeakMeansError
    <2> QED
        BY <2>1, <2>2
<1> QED
    BY <1>3, <1>4, <1>5 DEF LinkInv

LEMMA CallInv == LinkInv /\ Call => LinkInv'
<1> SUFFICES ASSUME LinkInv, Call PROVE LinkInv'
    OBVIOUS
<1> USE DEF LinkInv
<1>1. CASE FindArduino
    BY <1>1, PortsAreNumbers
    DEF FindArduino, plugVars, LinkTypeOK, AtPort, Settling, ConnectedMeansOpen, LeakMeansError
<1>n. ASSUME NextPort, lpc \in {"scan", "probe"},
             UNCHANGED <<is_connected, connected_port, opened, alive, probed, refused, plugVars>>
      PROVE  LinkInv'
    <2>1. (lpc' = "scan" /\ port' \in Port) \/ (lpc' = "idle" /\ port' = None)
        BY <1>n, PortsAreNumbers DEF NextPort, AtPort
    <2> QED
        BY <1>n, <2>1 DEF plugVars, LinkTypeOK, AtPort, Settling, ConnectedMeansOpen, LeakMeansError
<1>2. CASE SkipPort
    BY <1>2, <1>n DEF SkipPort
<1>3. CASE TestPort
    BY <1>3 DEF TestPort, plugVars, LinkTypeOK, AtPort, Settling, ConnectedMeansOpen, LeakMeansError
<1>4. CASE TestFails
    BY <1>4, <1>n DEF TestFails
<1>5. CASE TestSucceeds
    BY <1>5, ConnectsInv DEF TestSucceeds, AtPort
<1>6. ASSUME NEW p \in Port, Connect(p)
      PROVE  LinkInv'
    BY <1>6, ConnectsInv DEF Connect
<1>7. CASE Settle
    BY <1>7, PortsAreNumbers
    DEF Settle, plugVars, LinkTypeOK, AtPort, Settling, ConnectedMeansOpen, LeakMeansError
<1>8. CASE Disconnect
    BY <1>8
    DEF Disconnect, ClosePort, Closed, plugVars,
        LinkTypeOK, AtPort, Settling, ConnectedMeansOpen, LeakMeansError
<1>9. ASSUME NEW b \in Byte, SendCommand(b)
      PROVE  LinkInv'
    BY <1>9
    DEF SendCommand, linkVars, plugVars,
        LinkTypeOK, AtPort, Settling, ConnectedMeansOpen, LeakMeansError
<1> QED
    BY <1>1, <1>2, <1>3, <1>4, <1>5, <1>6, <1>7, <1>8, <1>9 DEF Call

LEMMA BoardInv == LinkInv /\ Board => LinkInv'
BY DEF Board, linkVars, plugVars, LinkInv, LinkTypeOK, AtPort, Settling, ConnectedMeansOpen, LeakMeansError

LEMMA PlugInv ==
    ASSUME LinkInv, NEW p \in Port, Plug(p)
    PROVE  LinkInv'
<1>1. plugs' \in 0..MaxPlugs /\ present' \subseteq Port
    BY PortsAreNumbers DEF Plug, LinkInv, LinkTypeOK
<1> QED
    BY <1>1 DEF Plug, LinkInv, LinkTypeOK, AtPort, Settling, ConnectedMeansOpen, LeakMeansError

LEMMA StutterLink == LinkInv /\ UNCHANGED allVars => LinkInv'
BY DEF allVars, linkVars, plugVars, LinkInv, LinkTypeOK, AtPort, Settling, ConnectedMeansOpen, LeakMeansError

(* The invariant holds of every run, for any ports and any plugging.       *)
THEOREM LinkInvariance == SpecLink => []LinkInv
<1>1. LinkInv /\ [NextLink]_allVars => LinkInv'
    BY CallInv, BoardInv, PlugInv, StutterLink DEF NextLink
<1> QED
    BY InitLinkInv, <1>1, PTL DEF SpecLink

(* Every variable of the link keeps its type.                              *)
THEOREM LinkType == SpecLink => []LinkTypeOK
BY LinkInvariance, PTL DEF LinkInv

(* A link that calls itself connected holds the port it names, and one     *)
(* that holds a port without calling itself connected met an error with it. *)
THEOREM LinkKnowsItsPort == SpecLink => []ConnectedMeansOpen /\ []LeakMeansError
<1>1. LinkInv => ConnectedMeansOpen /\ LeakMeansError
    BY DEF LinkInv
<1> QED
    BY LinkInvariance, <1>1, PTL

(* Whatever else may fail, Open is reached.                                *)
LEMMA InvOpens ==
    ASSUME LinkInv, NEW p \in Port, Connect(p), CanOpen(p), opened = None \/ (is_connected /\ alive)
    PROVE  opened' = p
<1>1. PICK o \in {opened, None} :
        /\ DisconnectFirst(o)
        /\ o = None /\ CanOpen(p) => opened' = p
    BY DEF Connect, Connects
<1>2. o = None
    BY <1>1, WhatStaysOpen
<1> QED
    BY <1>1, <1>2

(* No call gets out of a leak.                                             *)
LEMMA InvLeaks ==
    ASSUME LinkInv, [NextLink]_allVars, lpc # "settle", ~is_connected, opened # None
    PROVE  lpc' # "settle" /\ ~is_connected' /\ opened' = opened
<1>1. ASSUME NEW p, Connects(p)
      PROVE  lpc' # "settle" /\ ~is_connected' /\ opened' = opened
    BY <1>1, WhatStaysOpen DEF Connects, DisconnectFirst
<1>2. CASE FindArduino \/ SkipPort \/ TestPort \/ TestFails
    BY <1>2 DEF FindArduino, SkipPort, TestPort, TestFails, NextPort
<1>3. CASE TestSucceeds \/ \E p \in Port : Connect(p)
    BY <1>1, <1>3 DEF TestSucceeds, Connect
<1>4. CASE Settle \/ Disconnect
    BY <1>4 DEF Settle, Disconnect, ClosePort
<1>5. CASE (\E b \in Byte : SendCommand(b)) \/ Board
    BY <1>5 DEF SendCommand, Board, linkVars
<1>6. CASE \E p \in Port : Plug(p)
    BY <1>6 DEF Plug
<1>7. CASE UNCHANGED allVars
    BY <1>7 DEF allVars, linkVars
<1> QED
    BY <1>2, <1>3, <1>4, <1>5, <1>6, <1>7 DEF NextLink, Call

(* Connecting opens the port asked for, also in place of another           *)
(* connection; only a leak keeps it from that, and a leak lasts.           *)
THEOREM ConnectWorks == SpecLink => ConnectOpens /\ LeakIsForEver
<1>1. LinkInv =>
        [\A p \in Port :
            Connect(p) /\ CanOpen(p) /\ (opened = None \/ (is_connected /\ alive)) => opened' = p]_allVars
    BY InvOpens
<1>2. LinkInv /\ [NextLink]_allVars =>
        [lpc # "settle" /\ ~is_connected /\ opened # None
            => lpc' # "settle" /\ ~is_connected' /\ opened' = opened]_allVars
    BY InvLeaks
<1> QED
    BY LinkInvariance, <1>1, <1>2, PTL DEF ConnectOpens, LeakIsForEver, SpecLink

(* Whatever the link does with it, the board of KickerFirmware is sent      *)
(* bytes, reset, or left alone.                                            *)
LEMMA LinkDrivesBoard == [NextLink]_allVars => [Next]_firmwareVars
<1>1. ASSUME NEW p \in Port, Touch(p)
      PROVE  [Next]_firmwareVars
    BY <1>1 DEF Touch, Next
<1>2. Call => [Next]_firmwareVars
    <2> SUFFICES ASSUME Call PROVE [Next]_firmwareVars
        OBVIOUS
    <2> DEFINE Still == UNCHANGED firmwareVars
    <2>1. CASE FindArduino \/ SkipPort \/ TestFails \/ Settle \/ Disconnect
        BY <2>1 DEF FindArduino, SkipPort, TestFails, Settle, Disconnect
    <2>2. CASE TestPort
        BY <2>2 DEF TestPort, Touch, Next
    <2>3. ASSUME NEW p, Connects(p)
          PROVE  [Next]_firmwareVars
        BY <2>3 DEF Connects, Touch, Next
    <2>4. CASE TestSucceeds
        BY <2>3, <2>4 DEF TestSucceeds
    <2>5. ASSUME NEW p \in Port, Connect(p)
          PROVE  [Next]_firmwareVars
        BY <2>3, <2>5 DEF Connect
    <2>6. ASSUME NEW b \in Byte, SendCommand(b)
          PROVE  [Next]_firmwareVars
        BY <2>6 DEF SendCommand, Next
    <2> QED
        BY <2>1, <2>2, <2>4, <2>5, <2>6 DEF Call
<1>3. Board => [Next]_firmwareVars
    BY DEF Board, Next
<1>4. (\E p \in Port : Plug(p)) => [Next]_firmwareVars
    BY <1>1 DEF Plug
<1>5. UNCHANGED allVars => UNCHANGED firmwareVars
    BY DEF allVars
<1> QED
    BY <1>2, <1>3, <1>4, <1>5 DEF NextLink

(* The board behind the link is the board of KickerFirmware: whatever is   *)
(* proved of it alone holds here.                                          *)
THEOREM BoardBehindLink == SpecLink => Spec
<1>1. InitLink => Init
    BY DEF InitLink
<1> QED
    BY <1>1, LinkDrivesBoard, PTL DEF SpecLink, Spec

----------------------------------------------------------------------------
(* The board in either of its surroundings. *)

SurroundedInv ==
    /\ IInv
    /\ LinkInv
    /\ holding => HeldInv

LEMMA PathDrivesBoard == [NextPath]_vars => [Next]_firmwareVars
BY DEF NextPath, SendKick, SketchStep, TimePasses, Byte, Next, vars

LEMMA BoardStep == IInv /\ [Next]_firmwareVars => IInv'
BY SketchInv, TickInv, ReceiveInv, ResetInv, StutterInv DEF Next

LEMMA LinkStep == LinkInv /\ [NextLink]_allVars => LinkInv'
BY CallInv, BoardInv, PlugInv, StutterLink DEF NextLink

LEMMA LinkRests == LinkInv /\ UNCHANGED <<linkVars, plugVars>> => LinkInv'
BY DEF linkVars, plugVars, LinkInv, LinkTypeOK, AtPort, Settling, ConnectedMeansOpen, LeakMeansError

LEMMA InitSurrounded == InitBoard => SurroundedInv
<1>1. CASE holding = FALSE /\ InitLink
    <2>1. Init BY <1>1 DEF InitLink
    <2> QED
        BY <1>1, <2>1, InitInv, InitLinkInv DEF SurroundedInv
<1>2. CASE holding = TRUE /\ InitPath /\ PortStaysOpen
    <2>1. HeldInv
        BY <1>2, InitHeld
    <2>2. IInv
        <3>1. Counted
            BY <2>1 DEF HeldInv, Exact, Counted, TypeOK
        <3>2. PinInv
            BY <1>2 DEF InitPath, BoardUp, PinInv
        <3> QED
            BY <2>1, <3>1, <3>2 DEF HeldInv, IInv
    <2>3. LinkInv
        <3>1. plugs \in 0..MaxPlugs
            BY <1>2, PortsAreNumbers DEF PortStaysOpen
        <3> QED
            BY <1>2, <3>1, PortsAreNumbers
            DEF PortStaysOpen, LinkInv, LinkTypeOK, AtPort, Settling, ConnectedMeansOpen,
                LeakMeansError
    <2> QED
        BY <1>2, <2>1, <2>2, <2>3 DEF SurroundedInv
<1> QED
    BY <1>1, <1>2 DEF InitBoard

LEMMA SurroundedStep == SurroundedInv /\ [NextBoard]_boardVars => SurroundedInv'
<1> SUFFICES ASSUME SurroundedInv, [NextBoard]_boardVars PROVE SurroundedInv'
    OBVIOUS
<1>1. CASE ~holding /\ NextLink /\ UNCHANGED <<age, holding>>
    BY <1>1, LinkDrivesBoard, BoardStep, LinkStep DEF SurroundedInv
<1>2. CASE holding /\ NextPath /\ UNCHANGED <<linkVars, plugVars, holding>>
    <2>1. HeldInv'
        BY <1>2, SendHeld, SketchHeld, TimeHeld DEF SurroundedInv, NextPath
    <2> QED
        BY <1>2, <2>1, PathDrivesBoard, BoardStep, LinkRests DEF SurroundedInv
<1>3. CASE UNCHANGED boardVars
    <2>1. UNCHANGED allVars /\ UNCHANGED vars /\ holding' = holding
        BY <1>3 DEF boardVars, allVars, vars
    <2> QED
        BY <2>1, LinkStep, StutterHeld, StutterInv DEF SurroundedInv, allVars
<1> QED
    BY <1>1, <1>2, <1>3 DEF NextBoard

(* SurroundedInv is an inductive invariant of link, board and robot         *)
(* together.                                                                *)
THEOREM Surrounded == SpecBoard => []SurroundedInv
BY InitSurrounded, SurroundedStep, PTL DEF SpecBoard

(* An operator who holds the kick gets one within a tick of the timeout,   *)
(* for every timeout, pulse, interval and width of the counters            *)
(* (Arduino.ino:55-67, RobotFramework.cpp:407).                            *)
THEOREM HeldKickServed == SpecBoard => []HeldKickIsNotStarved
<1>1. SurroundedInv => HeldKickIsNotStarved
    BY DEF SurroundedInv, HeldInv, HeldKickIsNotStarved
<1> QED
    BY Surrounded, <1>1, PTL

(* Behind a port that is opened and closed as behind one that stays open,  *)
(* the solenoid is driven only by a kick, and kicks keep their gap         *)
(* (Arduino.ino:36-40, 55-67).                                             *)
THEOREM SolenoidInBoth == SpecBoard => []NoTwitch /\ KickGap
<1>1. SurroundedInv => NoTwitch
    BY InvRests DEF SurroundedInv
<1>2. SurroundedInv => [Kick => since >= kicker_timeout]_firmwareVars
    BY InvGap DEF SurroundedInv
<1> QED
    BY Surrounded, <1>1, <1>2, PTL DEF KickGap

(* In both surroundings a port is leaked only by an error met with it, and *)
(* unless one is leaked connecting opens the port asked for                *)
(* (arduino.cpp:71-117).                                                   *)
THEOREM LinkInBoth == SpecBoard => []LeakMeansError /\ ConnectOpens
<1>1. SurroundedInv => LeakMeansError
    BY DEF SurroundedInv, LinkInv
<1>2. SurroundedInv =>
        [\A p \in Port :
            Connect(p) /\ CanOpen(p) /\ (opened = None \/ (is_connected /\ alive)) => opened' = p]_allVars
    BY InvOpens DEF SurroundedInv
<1> QED
    BY Surrounded, <1>1, <1>2, PTL DEF ConnectOpens
=============================================================================
