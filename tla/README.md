# RobotFramework: TLA+ models and proofs

A verification development for the software of a RoboCup-style soccer robot: a
C++ client on a Raspberry Pi (`src/RobotFramework.cpp`) that takes commands by
UDP, drives four brushless motors over CAN through an mjbots pi3hat, looks for
the ball with a camera, and talks by serial line to an Arduino that fires the
kicker and runs the dribbler.

The modules model the control flow of that code, TLC checks them on small
instances, and TLAPS proves the central properties for every value of the
constants. Paths and line numbers below are those of the repository; `X.cpp:n`
stands for the file of that name under `src/`.

Contents: [1 the system](#1-the-system), [2 modules](#2-the-modules),
[3 runs](#3-the-runs), [4 fairness](#4-fairness), [5 proofs](#5-proofs),
[6 divergences](#6-where-code-and-comments-part),
[7 not modelled](#7-what-is-not-modelled), [8 plan](#8-plan).

## 1 The system

| Part | Code | State it keeps | Operations | Talks to |
|---|---|---|---|---|
| Control loop | `RobotFramework.cpp` `main` | the five `last_*_time`, `last_known_message`, `timeout_count`, `velocity_map`, `emergency_stop`, `manual_stop_flag` | boot sequence; one iteration = receive, camera, motors, sender, Arduino blocks, each behind its timer; STOP, overcurrent and signal ways out | everything below |
| Camera thread | `RobotFramework.cpp` `CameraThread`, `BallDetection/` | `ball_observation`, `stop_camera_thread` (atomics) | test flag, observe, publish | main, through the atomics and `join` |
| UDP link | `Networks/UDP.cpp` | socket queue, `client_addr`, `target_addr` | `receive` (drains, keeps the last), `send` | operator's PC; main |
| Command decoder | `Networks/decode.cpp` | velocities, kick, dribble; they outlive a datagram | `decode_cmd` | main |
| Wheel kinematics | `Math/wheel_math.cpp` | none | `calculate` | main |
| Telemetry | `Telemetry/Telemetry.cpp` | `controllers`, `servo_status` | constructor (stops every motor), `cycle` | main; moteus controllers; transport |
| Arduino link | `Arduino/arduino.cpp` | port, `is_connected` | find, connect, sendCommand, disconnect | main; the board |
| Kicker firmware | `Arduino/Arduino.ino` | pin latch, `pervious_time`, dribbler ESC | `setup`, `loop` at K, D, S | serial line; solenoid; ESC |
| Logger | `Logger/Logger.cpp` | `files`, `buffers`, `is_initialized` | `initialize`, `log` (all overloads), `flush`, `flushAll`, `closeAll`, destructor | main, UDP, Telemetry |
| Pi3Hat transport | `mjbots/pi3hat/pi3hat_moteus_transport.h` | `active_`, `done_`, `cycle_data_`, `event_queue_`, `pi3hat_`, one mutex and condition | constructor, `Cycle`, `Post`, child thread, destructor | callers' threads; hat |
| Moteus transports | `mjbots/moteus/moteus_transport.h` | `BlockingCallback`'s mutex, condition, flag; counts of OKs and replies awaited, `checksum_active_` | `BlockingCycle`; `TimeoutTransport::Cycle` over fdcanusb, UART or a CAN socket | transport; the adapter |
| Pi3Hat driver | `mjbots/pi3hat/pi3hat.cc` | queues of the hat's processors, `rx_can` span | `Cycle`: flush, send, read with timeouts | SPI; the motors |
| Moteus protocol | `moteus_protocol.h`, `moteus_multiplex.h` | the parser's place in a reply | every `Make`, `Query::Parse`, `GenericQuery::Parse` | controller; the motor's registers |
| Moteus controller | `mjbots/moteus/moteus.h` | `use_flow_control_`, `flow_control_probed_`, `last_ack_packet_`, `current_line` | `MakeFrame`, `DiagnosticCommand`, `DiagnosticRead`, `DiagnosticFlush`, `SetPositionWaitComplete` | transport |
| Configuration | `config/*.yaml` | intervals, motors, ports, limits | read at start | main, UDP, Telemetry |
| Start-up service | `STARTUP.sh` | a systemd unit, WiFi configuration | install, run, restore | starts the client |
| Installer, build files, hand-run checks, vendored tests, `pi3hat_tool` | `SETUP.sh`, `CMakeLists.txt`, `tests/`, ... | – | – | – |

Five programs run concurrently: `main`, the camera thread, the transport's
child thread, the Arduino sketch, and the hat's processors. They meet over
atomics, a mutex with two condition variables, UDP, a serial line and CAN, of
which the last three lose, delay or reorder. What is hard:

* **Time measured in polls.** The watchdog counts missed polls of a timer of its
  own, and its effect reaches the motors through a second timer.
* **Ways out.** STOP ends in the middle of an iteration with `std::exit`; an
  overcurrent is noticed in the middle of an iteration whose later blocks still
  run; a signal may come at any time, also before its handler is installed; the
  final `join` may never end.
* **Hand-over between threads.** The child tests and copies part of its request
  after it has unlocked the mutex; the completion callback lives on the
  caller's stack; the thread starts before the members it uses exist.
* **Stale replies.** A CAN reply that misses its cycle is returned by a later one.
* **Wrapping clocks and resets.** The board's `millis()` wraps and every opening
  of the serial port resets the board.
* **Lost, late and repeated answers.** An adapter's OK and a motor's answer come
  separately; a frame without OK is sent again; a diagnostic packet is repeated
  until it is acknowledged; how a board speaks is probed once.
* **Variable-length frames.** Fields share operations by resolution, numbers have
  variable length, and a reply may end anywhere.
* **Partial failure.** `initialize` stops at the first file that fails, and a
  stream that fails stays failed.

What makes each part correct:

| Part | Correct when |
|---|---|
| Control loop | wheels stop in bounded time once commands stop, and not before; a stop is final and reaches every motor; no block starves another |
| Decoder and kinematics | no datagram, whole or cut short, makes a wheel turn faster than the limits allow |
| Camera thread | it can never keep the motors from being stopped, and ends when told |
| UDP link | a drain yields the newest datagram; a report reaches the last correspondent |
| Telemetry, Pi3Hat driver | what is reported of a motor never steps back in time and recovers after lost or late replies; replies fit the room made for them |
| Transport | a call returns, with its own replies, its frames having gone out once; no callback is used after it died; events run once and in order; destruction ends |
| Kicker firmware | the solenoid is never driven but by a kick; kicks keep their gap; a held kick is not starved |
| Logger | entries reach the file once, in order, and only fewer than `BUFFER_SIZE` are ever missing |
| Arduino link | `is_connected` agrees with the port; a port stays open unused only after an error met with it; without one reconnecting opens the port |
| TimeoutTransport | replies belong to their call; an acknowledged frame was carried out; lost lines are made good as far as retries go; a wait ends early only when all is there, and in time-out only when something was lost |
| Moteus protocol | what a command says arrives in the registers it names, and what a query asks for arrives in the result; the parser never leaves the frame |
| Moteus controller | the diagnostic stream arrives once and in order; a command returns its own output; a move is reported over only when it is |

`PROJECT.json` lists the hazards at their lines with the properties that cover them.

## 2 The modules

```
RobotLoop ----+-- RobotDrive <-- MCRobotLoop
CommandDecoder+            ^---- RobotDrive_proofs
WheelMath ----+

CycleService <--refines-- Pi3HatTransport <-- Pi3HatTransport_proofs
Pi3Hat <-- MCPi3Hat
       <-- Pi3Hat_proofs
LogContract  <--refines-- Logger <-- MCLogger
                                 <-- Logger_proofs

KickerFirmware <-- KickPath <------+-- MCArduino <-- MCArduino_proofs
               ^-- ArduinoLink <---+

Multiplex <-- MoteusProtocol <-- MoteusFrames <-- MCMoteusFrames
                                              <-- MoteusFrames_proofs
TimeoutTransport <-- MCTimeoutTransport
                 <-- TimeoutTransport_proofs
MoteusController <-- MoteusController_proofs
```

**RobotLoop** – `main` from the construction of its modules to the end of the
process, the camera thread, the signal handler and the socket. `pc` follows
`main`: `construct` (the `SetStop` loop of Telemetry's constructor), `arduino`,
`camera`, `handlers` (signals still kill), `clear` (the second `SetStop` loop),
`enter`, then `receive`, `image`, `motors`, `report`, `board`, `top` for the five
timed blocks and the loop condition, and `stop`/`leave` (STOP, ending in
`std::exit`) or `halt`/`release`/`join` (the common end). A `SetStop` loop takes
one controller per step, so a signal or a datagram may fall between any two. A
block is one action: nothing else in the process writes what it reads, except
the atomics, which are read once. `last_x_time` is kept as its age
(`age[x] = current_time - last_x_time`), because the code uses it only so;
`current_time` is read once per iteration, and the ages grow by the length of
the iteration (`1..MaxIter`) as the loop turns. The decoder and the kinematics
are constant operators (`Decode`, `Calculate`) here: the proofs about this module
hold for all of them.
Datagrams arrive at will, which covers loss, repetition and reordering.

**CommandDecoder**, **WheelMath**, **RobotDrive** – `decode_cmd` reads a text, the
sequence of its tokens, into members that keep what no token overwrites: a token
that is no number stores zero and ends the reading, and so does a number that is no
`bool`, which stores true. `calculate` works on rationals, with the geometry rounded
to thousandths. `RobotDrive` gives RobotLoop these two for `Decode` and `Calculate`
(`DriveAssumption`), from the text of a datagram to the speed a motor is told.

**Pi3HatTransport** – one client thread, the child thread, and any thread that
posts events. A region under `mutex_` is a step; waits release the mutex, may
wake for a notification or spuriously, and re-test. The child's reads outside
the mutex are steps of their own, and it may see `cycle_data_` as it was when it
last held the mutex (`view`): that is the choice a data race leaves the build.
`hat = "raw"` is the `pi3hat_` member before its constructor ran, which the
child may already be using; `crashed` records a use of a raw or null hat.
**CycleService** is what a caller of `BlockingCycle` relies on, as an atomic
service; until somebody posts an event `Pi3HatTransport` implements it under the
mapping `Service`.

**KickerFirmware** – the sketch: `setup` in three steps (load the latch, make the
pin an output, attach the ESC) because the order is what keeps the solenoid at
rest, then `loop`, with a pulse as two steps (the sketch is in `delay` between
them while time passes and bytes queue). `millis` counts modulo `Wrap` and the
difference wraps with it. `Reset` may happen at any time; it keeps `since`, the
time since the solenoid was energised, because the solenoid does not forget.
**KickPath** composes the board with the robot's Arduino timer while the
operator holds the kick; it extends KickerFirmware, uses its `Sketch`, `Receive`
and `Tick`, and adds the age of the robot's tick.

**ArduinoLink** – class `Arduino` with the board at one of the ports: the search opens
each port in turn and holds it for two seconds, so a device may be pulled out
meanwhile; `connect`, `sendCommand` and `disconnect` fail where a dead port makes
them, and a live port may refuse the settings made after `Open` or the flush (`TestFails`,
`Settle`), which leaves it open. Opening the board's port resets it (`Touch`). **MCArduino** puts the board in
either surrounding: behind this link, or on a port that stays open while the
operator holds the kick.

**Logger** – the files, buffers and disk contents of each key (component, or
component and sub-component). An entry is the number of the call that logged
it: the properties ask which entries are where, not what they say. Keys in `Bad`
may fail to open and fail in writing, after any part of the buffer. `Exit` is
`std::exit`, a signal or a crash: no destructor writes the buffers.
**LogContract** is the promise to a program that logs, and `Logger` implements
it on the keys that do not fail.

**Pi3Hat** – one `Cycle` of the hat as the child calls it: the flush that reads
what waits in the processors, the sending, reading rounds per processor until
the store is full, every expected reply is in, or the time is over, and what
`Telemetry::cycle` makes of it. A reply carries an age, the number of cycles
begun since the command it answers; `shown` is the age of what telemetry last
reported of a motor. Losing a reply and returning before one arrives each cost
one of `MaxDisruptions`. The replies of a robot that was restarted may still be
on the bus at `Init`.

**TimeoutTransport** – one call of `Cycle` as its thread carries it out. Two queues are
the line to the device and the line back; motors answer in any order. `kind` is the
adapter, the UART or the socket, as the options and `DetectIsFdcanusb` choose;
`demanding` is a device that refuses lines without checksum; `device` says whether
answers can miss their time. A read of the serial line takes all that has come.
The replies handed to the caller are a set: each is told apart by its call, frame and
motor, and nothing after the transport asks for their order.

**Multiplex**, **MoteusProtocol**, **MoteusFrames** – the first is
`moteus_multiplex.h` as operators on sequences of bytes: framing by runs of one
resolution, values with saturation and NaN, integers clamped by `WriteInt` (what the
conversion of a double without an `int32_t` comes to is one of `Undefined`, fixed by the
input), and `next()` as a function of the bytes
and the parser's place: instead of its loop over operations, the model chooses the first
that has registers, the end of the frame, or a byte it does not know (`NextCommand`). The second holds each `Make` of `moteus_protocol.h` as data:
which field goes to which register with which writer, and the tables `Query::Parse`
and `ParseGeneric` read with. The third runs them: a frame is built one `MaybeWrite`
at a time, the motor controller (external) carries it out operation by operation and
answers, and the reply is parsed register by register.

**MoteusController** – a client's calls, each one cycle after another. Every cycle
loses the request, loses the reply, or delivers it, perhaps with a frame of another
board. The board (external) produces the output of a command bit by bit and answers
polls of either protocol, or does not know the flow-controlled one. The text is cut
into pieces that know which command's output they are; `said` and `got` record them.
The frames of a cycle are a set too, of at most one answer and the frames that are
`Noise`: the target answers a request once.

**MC modules** give the constants values where a `.cfg` cannot: `MCRobotLoop`
(velocities, speeds, a text for each effect of decoding), `MCLogger` (argument
lists of `initialize`), `MCPi3Hat` (two motors sharing a processor),
`MCTimeoutTransport` (lists of frames), `MCMoteusFrames` (commands, formats, replies).

Definitions marked "Variant" are plausible faulty forms of the definition that
follows them: a late comparison, a missing reset, a dropped test. Nothing uses
them; they are there to be put in a definition's place, to see that the
properties notice.

## 3 The runs

| Run | Configuration | States | Shows |
|---|---|---|---|
| `drive` | `RobotDrive.cfg`: 2 motors, capped mode, 2 queued datagrams, receiver every 2, motors every 3, iterations of 1 or 2 | 4 120 000 | **SilenceStopsWheels**: the last frame demands no motion once `WheelDeadline` has passed since the last command; **NoTimerStarves**; **PatientWatchdog**: the watchdog overrides only after three full polling intervals; **WheelsKeepLimits**: no wheel is told to turn faster than some velocity within the limits makes it, whatever a datagram cut short leaves in the decoder; **HaltIsFinal**: after an overcurrent or on a way out only stop frames; **ParkedAtEnd**: no ending leaves a motor under a position command |
| `shutdown` | `RobotShutdown.cfg`: 1 motor, fairness of `main` | 214 000 | **StopEndsProcess**, given a camera that answers; **StopReachesMotors** and the board released even if it hangs |
| `report_address` | `RobotReport.cfg` | violation | see section 6 |
| `transport_calls` | `TransportRobot.cfg`: 3 calls, 2 events between, during and after them | 2 418 | **CallbackAlive**; **ServiceUntilPosted**: the threads are CycleService until the first event; **NoLostWakeup**, **CallsReturn**; **DestructorEnds**; **EventsInOrder**, **EventsRun** |
| `transport_members` | `TransportMembers.cfg` | violation | see section 6 |
| `arduino_link` | `ArduinoBoard.cfg`: 3 ports, one locked, 2 pluggings; the old active-LOW board, timeout 3, pulse 1, clock modulo 6 | 1 511 000 | **LeakMeansError** of the link: a port stays open without a connection only after an error met with it; **NoTwitch**: not at boot, not after a reset; **KickGap** through wraps, resets and queued bytes; **HeldKickIsNotStarved**: refused kicks do not push the next one away |
| `log_contract` | `LogHealthy.cfg`: 2 keys, one may fail, `BUFFER_SIZE` 3, 4 entries each | 8 492 | **NothingLost**, **FlushedIsWritten**, **ImplementsContract** on the sound key, whatever the other does |
| `log_reinitialize` | `LogReinit.cfg` | violation | see section 6 |
| `hat_stale` | `HatStale.cfg`: 3 motors on 2 processors, 2 lost or late replies | 167 936 | **RoomRespected**, **NoStepBack**, **NewestReported**, **FreshAgain**: once the buses are quiet every cycle reports its own replies |
| `moteus_cycle` | `TimeoutTransport.cfg`: 3 kinds of device, 2 motors, 2 calls, one loss, one retry, 2 lines behind | 1 157 583 | **RepliesAreCurrent**: with a late device, only what was on the way when the flush ended; **AckMeansRan**, **UartDelivers** on a UART; **EarlyEndIsComplete**, **TimeoutMeansLoss**: the two ways a wait ends; **CallsEnd** with a silent device too |
| `register_frames` | `MoteusFrames.cfg`: every run of resolutions in every command and query, values beyond the range, replies cut, padded, or any bytes | 245 057 | **CommandLands**: each field in its register, at its scale, saturated with its sign, or clamped where an integer is written; **QueryFillsResult**: asked for, and returned, just what the caller named; **ReplySizeExact**; **ParserStaysInFrame** |
| `moteus_controller` | `MoteusController.cfg`: 2 calls of 5 kinds, boards with, without and deaf to flow control, packet numbers modulo 3 | 341 233 | **StreamInOrder**, **OwnOutput** under losses and a stranger's frames; **MoveDone**; **CallsEnd** |

The bounds, and why they suffice:

* `MaxQueue` (datagrams between two polls): a drain looks at the last datagram
  only, so two queued ones show every case; a longer queue adds none.
* `MaxIter` (length of an iteration): 2 gives an iteration on time and a late one;
  intervals 2 and 3 make polls and motor cycles drift against each other through
  every phase, as 20 ms and 20 ms with jitter do. The theorems hold for all values.
* `MessageHorizon` caps the age of the last command, which the code only compares
  with 500 ms and to no effect (`RobotFramework.cpp:335`, its body is commented
  out): the properties alone read it. With 12 it lies above `WheelDeadline` (11), so
  the cap hides nothing; the configured values give a deadline of 80 ms and three
  times the jitter. In `shutdown`, which asks nothing about that age, it is 1.
* `N`: 2 motors tell "the rest of the sweep" from "the first"; proved for all.
* The six members of `MCText` are one for each thing a token can do to the decoder;
  limits of 2 and 3 are exceeded on one axis, on two, and not at all. `WheelsKeepLimits`
  is proved for all limits and velocities.
* `MaxCalls` 3 covers first, later and last call; nothing but `calls` and the
  history `exchanged` tells the calls apart. `MaxPosts` 2 is the least number
  of events that can be reordered.
* `Wrap` 6 exceeds timeout and pulse as 2^32 ms exceeds 5 s; the sketch takes
  every position of a kick relative to the wrap. `Horizon` only has to exceed
  the largest time a property names.
* `MaxEntries` 4 with `BUFFER_SIZE` 3 fills a buffer and starts the next.
* `Batch` 2, `MinRoom` 4 and 3 motors let stale and current replies compete for
  the store. Age 3 stands for "older than anything a cycle could return".
  `MaxDisruptions` makes the disturbances end, which is what `FreshAgain` needs:
  it speaks about what happens after the last one.

`hat_stale` needs `MinRoom` above the number of motors: if the store can hold
just the replies of one cycle, one stale reply displaces a current one, which is
the stale reply of the next cycle, and telemetry stays a cycle behind for ever.
`pi3hat_moteus_transport.h` makes room for at least 5 frames and twice those
sent; the robot has four motors.

* `TimeoutTransport`: two calls, because what one leaves behind can only harm the
  next; `max_pipeline` 1 and no limit are the two ways to cut a call into chunks; one
  loss and one retry meet in every order. The flush may end with anything still on the
  way (`FlushOver`): the history variable `overdue` records it, and `RepliesAreCurrent`
  lets just that come back from a device that answers late. `MaxBehind` 2 bounds how far
  such a device is behind when a wait runs out: two lines or answers can be reordered
  with the next call's own.
* `hat_stale`: `Forced` has both processors, those of buses 1 to 4 which the constructor's
  forced check reads and which carry the robot's motors; the proofs leave it open, so that
  the aux bus, which that check leaves out, may be one of `Proc` too.
* `register_frames`: a field's bytes depend on its own resolution and on whether its
  neighbours share it, so all stripes of two resolutions reach every framing;
  five bytes of nine telling values reach every branch of `next()`, counts
  beyond 127 and unfinished numbers included.
* `moteus_controller`: a command of two chunks, output of at most three pieces and two
  to a packet make a line split over packets, and two commands share one. `PacketModulus`
  3 stands for 256: at most one packet is unacknowledged, so two numbers and one that is
  neither suffice. `FlushReads` 2 stands for the time a flush may take.

No run disables the search for deadlocks: where the program ends, the models
stutter explicitly (`Over`).

## 4 Fairness

Safety is checked without fairness, except where a run shares a specification
with a liveness property.

* `RobotLoop`: weak fairness of `main`'s steps. The loop never blocks: the socket
  is non-blocking and a CAN cycle ends by its own timeouts. `sendCommand` waits in
  `DrainWriteBuffer` until one byte has left the port (`arduino.cpp:127`); that the
  port accepts a byte, or fails, is assumed. The camera thread gets none: `cv::VideoCapture` may
  hang. That it does not is a hypothesis of `StopEndsProcess` alone
  (`CameraFairness => ...`), and `StopReachesMotors` does without.
  The operator and the network owe nothing.
* `Pi3HatTransport`: weak fairness of both threads, once the client has begun a
  call; it need not make another or destroy the transport. Acquiring
  `BlockingCallback::mutex_` is strongly fair (a mutex that is freed again and
  again is got in the end). A thread that waits on a condition is not assumed to
  wake without a notification, so a lost wake-up would be found.
* `Pi3Hat`: the thread runs and replies on the bus arrive (weak), and a cycle
  that can return again and again does: its reading rounds are bounded by the
  clock (`timeout_ns`), which is not in the model (strong fairness of `Returns`).
* `TimeoutTransport`: weak fairness of the thread and of the device, which handles a line
  that came and passes on an answer that is there. A silent or losing device does
  nothing it could be forced to.
* `MoteusController`: weak fairness of the call under way, of the board's output and of
  its control loop; strong fairness of an answered poll: a link that loses every
  answer is not a link, and `CallsEnd` asks what happens on one that works now and then.
* `KickPath` uses none: its deadline is a safety property, time being bounded by
  the robot's tick.

## 5 Proofs

Eight modules hold theorems, checked by TLAPS for every value of the constants
that meets the named assumptions (`SizeAssumption`, `DataAssumption`,
`BoundsAssumption`, `FirmwareAssumption`, `PathAssumption`, `LoggerAssumption`,
`HatAssumption`, `LinkAssumption`, `LimitAssumption`, `DriveAssumption`,
`TransportAssumption`, `MoteusControllerAssumption`, `InputsAssumption`,
`CommandsAssumption`).

**RobotDrive_proofs** – of the loop, for any decoder and kinematics: `TypeCorrect`, `Punctual`, `WheelsStop`, `Parked`, `Patient`,
`Final`. The properties are not inductive. `IInv` adds
`TimerInv` (a timer just served or passed over is younger than its interval, and
any is at most an iteration late), `SilenceInv` (after k missed polls the silence is
at most k gaps and the current age of the receiver's timer; after three the map
stands still; a wheel turns at most a motor cycle longer), `PatienceInv` (its lower
bound), `SweepInv` (how far a `SetStop` loop has come, and where it must have
ended) and `EmergencyInv` (after an overcurrent, `main` is in the blocks that send
no frames, or on its way out). `WheelsStop` follows by adding `TimerInv` for the
motor timer. `Patient` assumes `MessageHorizon` not to be
below `TIMEOUT_LIMIT` polling intervals: beyond it the age says nothing.

With the robot's decoder and kinematics, `SpeedsKeepLimits`: in safe and capped mode, for any integers as
velocity and limits. The least of three ratios brings every axis within its limit
(`ScaleBrings`), and a wheel's speed is a sum in which each axis may then be replaced
by its limit. `LimitsKept` carries it through the loop: a wheel
stands still or turns as calculated from a velocity the decoder can hold (`SpeedInv`),
which RobotLoop's type invariant makes one of `Velocity`.

**Pi3HatTransport_proofs** – `TypeCorrect`; for any calls and events `NeverRefusedCorrect`,
`CallbackAliveCorrect`, `EventsRunInOrder` and `NobodyOversleeps` (no thread waits for a
notification that was sent before it slept); `UntilPosted` (initial state to initial
state, every step to a step or a stutter of CycleService) until the first event is posted,
and `Implements`, the full refinement for a program that posts none, as the robot. `IInv`
ties the child's position to the client's: whose `BlockingCallback` exists and who holds
its mutex (`ClientInv`), that a request is pending or its callback under way or the client
told (`RequestInv`), that queue and event in hand are what was posted and not yet run
(`QueueInv`). These hold whatever wakes the child. With events it may wake without a
request and see part of one, so only while nobody posts (`Quiet`) does it work on the
client's current request, seen as it was written (`ChildInv`), with one exchange for each
call (`ResultInv`) and no client kept waiting for nothing (`Live`); these three stop at
`crashed` too, the outcome of the race of section 6 at construction.

**MCArduino_proofs** – `BoardInvariance`, `BoardType`, `BoardRests`, `BoardGap` for the
board alone under any bytes and resets; `HeldKick` for the board under a robot that
keeps asking. The sketch compares a difference of two wrapping counters: `Counted` says
it never exceeds the true time since the last pulse – it may be less, after a reset or a
full turn – which is why the gap is safe; `Exact` says that with a robot that
keeps asking, and a timeout well below the wrap, it equals that time, which is
why the kick is not late. `LinkKnowsItsPort` and `ConnectWorks` (`ConnectOpens` and `LeakIsForEver`, which no run
checks: TLC found them true, and the proof now stands for them) hold of the link for any
ports, any plugging and any refused settings: a port is leaked only by an error, unless
one is leaked `connect` reaches its `Open`, and a leak is never undone; the missing fact is what holds during the two seconds of
`connect` (`Settling`): the port is open and the flag is down. `BoardBehindLink` shows
that the link only resets the board and sends it bytes. The specification TLC checks is
the board in either surrounding, and `Surrounded` is its invariant: the board's and the
link's always, and the robot's (`HeldInv`) while the operator holds the kick. From it
follow `HeldKickServed`, `SolenoidInBoth` and `LinkInBoth`.

**Logger_proofs** – `TypeCorrect`, `Invariance`, `Complete`, `Flushed`, `Implements`, all but
the first under `Reinitialize = FALSE`: `initialize` is not called for a file that
is already open, as in `main`, which calls it once. Without that the run
`log_reinitialize` refutes them. `KeyInv` adds that a sound key's stream is absent
or open, and that an absent one has an empty buffer: both `initialize` and
`ensureOpen` reset buffers, and lose nothing for this reason.

**Pi3Hat_proofs** – `Invariance`, `TypeCorrect`, `RoomIsRespected`, for any wiring, batch and
number of motors; the invariant is inductive with the types alone. `NeverBack`
(`NoStepBack`) and `NewestShown` (`NewestReported`) rest on `OrderInv`: a frame passes
from the bus to its processor's queue, to the store, to what is shown, and along this
path the ages of one motor's frames fall, except those at `MaxAge`, which are not told
apart. `NoneFresh` adds that before the cycle's own frames are sent no reply is of this
cycle. Neither property is inductive alone: both need the order in places the property
does not mention.

**TimeoutTransport_proofs** – `RepliesOfThisCall`, `AckRan`, `UartGetsThrough`,
`WaitEndsComplete`, `TimeoutAfterLoss`, for any list of frames and options, any number of
calls, losses and retries. Once the flush is over, the line to the device, the bus and
the line back hold what this call sent and asked for, and what was on the way when the
flush ended (`LinesInv`). That a prompt device has nothing on the way then takes the whole
invariant: a wait on an adapter or a socket ends with nothing left in the line
(`ChunkInv`), a UART goes on to the next frame with no line and no answer under way
(`SettledInv`). A frame that was carried out has its answer in one of four
places, or it is lost (`Traced`). On a UART one attempt is under way at a time, and it is
on the way, granted, refused or failed; each attempt so far is paid for by a loss
or by the one demand for checksums (`UartInv`), which bounds the attempts by
`max_retries` and keeps an OK from standing for another attempt. On the other devices
the counters are those of the lines: what is still expected of a motor is the number of
frames of the chunk it owes an answer to, and OKs counted, OKs read and lines not
taken add up to the chunk (`ChunkInv`). `CountReplies` would count an answer twice if
one came twice, so that each is in one place only (`Once`) is part of the invariant.

**MoteusController_proofs** – `StreamOrdered`, `OwnOutputs`, `MoveIsDone`, for any number of
calls, chunks and retries, and any packet modulus above one. The board's output is at all
times in four places one after the other: with the client, coming (the packet not yet
acknowledged, or the frame that arrived), ready on the board, still to be printed.
Every step moves the head of one to the end of the one before, or loses it;
so all of them together stay in order (`OrderInv`), and while flow control is in use or
may still come to be, nothing is lost (`FlowInv`). The invariant has to speak of the
time before the probe is answered, since the probe itself takes output. `ReplyInv` ties a frame that arrived to what
is pending: it is this that makes a number acknowledged twice harmless. For `OwnOutput`,
`CommandInv` says what the three later places hold as long as no call failed: the
rest of the output of the command under way, in step with the line and the output the
client has put together (`Progress`), and nothing between commands. `OkProgress` and
`SingleProgress` take the client through every way in which packets may cut that output.
For `MoveDone`, `MoveInv` says that a reply passed over belongs to a request the board has
heard, so that the next one shows this move.

**MoteusFrames_proofs** – `OperationReadBack` and `ValueReadBack`: what the encoder writes,
the decoder reads, for every count up to 255, every register number of 14 bits and every
value of `Given`, scaled or as an integer, whatever an undefined conversion gives. `CommandAlwaysLands`, `ReplySizeAlwaysExact` and `ParserAlwaysInFrame`,
for any set of inputs that meets two assumptions: each piece of a frame is a whole write or
a block of at most 255 registers (`InputsAssumption`), and a command that writes fields is
one of the seven Makes that do, with a resolution for each field of its own Format
(`CommandsAssumption`). The properties say nothing of a frame half made; `IInv` does. The
frame is laid out as operations (`LaidOut`), each whole but the last, which still lacks the
values of the run it announced (`RunOpen`); what they say is what the fields passed so far
say (`Says`), and what they owe of the reply is what `expected` counts, modulo 256 (`Sized`).
The controller stands between two of these operations, with the registers the
earlier ones set and the reply they owed (`Served`). Two things make this hard: a
framing announces a run before its values are there, so that the last operation has to
be tied to the fields still to come; and the registers a frame sets are compared with the
command's table only at the end (`Placed`), where each field lies at its own register, is
read in the unit it was written in, and has no name twice. `ParserAlwaysInFrame` needs of a
reply only that it is a sequence of bytes.

Only model-checked: every liveness property (`CallsEnd`, `CallsReturn`, `DestructorEnds`,
`EventsRun`, `FreshAgain`, `StopEndsProcess`, `StopReachesMotors`: fairness and ENABLED are
outside the prover), and `QueryFillsResult`: which registers a query's items spread to is
computed by a recursive function over a list the caller gives, and what a recursive
definition computes for every input cannot be proved with the installed provers. What the
proofs give of it is that each operation of the reply is decoded as it was encoded
(`OperationReadBack`), each value too, and that nothing is read past the end.

## 6 Where code and comments part

Shown by a run:

* **A report goes to the previous correspondent** (`report_address`).
  `UDP::send` calls `sendto` with `target_addr` and assigns `client_addr` to it
  afterwards (`UDP.cpp:80-87`); the comment says "Copy the IP from the sender". The
  first report goes to an address never set, and a new operator gets none
  until the second.
* **The thread starts before its members** (`transport_members`). `thread_` is
  started in the initialiser list, before `pi3hat_`, `tx_can_` and `rx_can_` are
  initialised, which are declared after it; the comment at `:252` says they are
  "only used from within the child thread".
* **A second `initialize` drops buffered entries** (`log_reinitialize`).
  `Logger.cpp:40` says repeated calls preserve the existing buffers; `:76` empties them,
  and `open` on an open stream sets its fail bit. The run's property speaks of a logger
  that is initialised already; in its trace `initialize`, an entry, and `initialize` again.

Met while reading, without a run:

* `RobotFramework.cpp:375` averages four voltage slots of which only those of the
  motors that answered were written; more than four motors would write past them.
* `RobotFramework.cpp:271` calls three polls "3 x 20ms = 60ms grace"; the fallback
  value of the receiver's interval is 5 ms, which makes it 15.
* `RobotFramework.cpp:335` compares the silence with 500 ms and does nothing: stopping
  rests on the count of missed polls alone.
* `Arduino.ino:56` refuses kicks for the first five seconds after a reset, which
  every opening of the port causes: `pervious_time` starts at 0.
* `Logger.h:33` promises that a flush writes the buffered entries; `flush` clears a
  buffer whose writing failed.
* `pi3hat.cc` `ReadCanFrames`: its loop repeats only while `any_read`, which nothing
  sets; it reads one batch per call.
* `RobotFramework.cpp:286`: a STOP that a newer datagram follows within the same drain
  is never seen.
* `pi3hat_moteus_transport.h:232` says a block of variables is "all controlled by the
  mutex"; `active_` is tested and `cycle_data_` copied after it was released (`:142`, `:165`).
  A call that comes in while the child is awake for an event races with it: this is
  why `ServiceUntilPosted` ends with the first event. The robot posts none.
* `wheel_math.h:18`: wheel 3 sits mirrored to wheel 2, whose angle is -45 degrees; its own
  is -130 and not -135. The model has the code's angles.
* `moteus_transport.h:434` says that a wait with all answers in may "return immediately";
  on a UART an answer read together with its OK is not counted, and the whole
  `min_rcv_wait_ns` passes (`VainReply` in `TimeoutMeansLoss`). A CAN socket waits in vain
  for frames that ask for no answer (`VainSocket`).
* A late OK of an earlier attempt is taken for that of the frame in hand: `AckMeansRan`
  holds of devices that answer in time, and is proved of those.
* `moteus_transport.h:336` lets the flush "drop bytes left over from a previous cycle"; it lasts
  for 50 us without input, and an answer that comes later is returned with those of the
  call that follows (the second half of `RepliesAreCurrent`).
* `moteus.h:1148` ends a command after five empty replies with the words "We will call this
  a timeout."; a board that does not reply at all is polled for ever. `CallsEnd` assumes
  a link that answers now and then.
* `moteus.h:1351` copies the default query behind the command without a test of the
  64 bytes: a PositionMode with all fields as floats has 62. The model ends such a frame in the
  phase `overrun`.
* `moteus.h:1347`: the size of a query's reply replaces what the command itself asks for,
  so the size is too small for GpioRead and GenericQuery sent with a query; with
  `default_query` off, they ask for no reply at all.
* `moteus.h:1190` keeps a pointer into a result whose scope ends before the bytes are
  used; the model takes them to be there.
* `moteus.h:668`: flow control counts as probed before the answer is in, and a lost answer
  turns it off for good; the first `DiagnosticRead` of an idle board that has flow
  control reports ETIMEDOUT, since the probe's answer is empty.
* `AsyncVerifySchemaVersion` throws in the transport's thread when no reply comes.
* `moteus_protocol.h`: `kTheta` divides by pi, but a float is written and read as it stands;
  `ParseGeneric`'s table lacks the two duty cycles of the PWM inputs (115, 117), which
  `Query::Parse` reads as such.
* `pi3hat.cc:1575`: a reported size below 5 makes `size - 5` negative; no well-formed
  answer of a processor does.
* `STARTUP.sh:292` restarts on failure only: an overcurrent or a STOP ends with status 0 and
  the robot stays down.

## 7 What is not modelled

* **Rounding**: WheelMath is exact over the geometry in thousandths, and values in Multiplex
  are whole multiples of their scale. What `double` rounds stays out of TLC's reach, and so
  does that `Saturate` truncates what it has divided (0.29 at a scale of 0.01 goes out as 28).
* **Numbers of a datagram**: velocities are integers. The doubles of `decode.h:11-13` are
  uninitialised before the first datagram, and one that is not a number passes every
  comparison of `wheel_math.cpp:36-61`; `WheelsKeepLimits` says nothing of either.
* **Negative values** of a moteus field but for the large one: -128, which a GPIO field can
  hold, goes out as -127 at 8 bits. A query or generic query whose items span more than 512
  registers aborts (`moteus_protocol.h:462`, `:833`); `Spread` does not.
* **The Arduino in RobotLoop**: RobotLoop connects once, may fail to, and may fail
  to send; ArduinoLink has the details, and the two are not composed.
* **Moteus controller**: the wrappers that choose a command (`SetPosition`, `SetBrake`, ...)
  all go through `MakeFrame`. `SetPositionWaitComplete` ends at `kPositionTimeout` as it
  does at a fault, and the model has one `fault` for both. The command-line arguments, `VerifySchemaVersion`, and the
  asynchronous variants' bookkeeping are left out. In RobotLoop and Pi3Hat frames are the
  values "stopped" and "position" with a speed.
* **The end of a device** in `moteus_transport.h`: a read error is thrown in the child thread,
  where nothing catches it, and at a hang-up `read` returns 0 and `poll` returns at once,
  for ever (`:789-811`). A part of a line kept in `line_buffer_` counts as still on the way.
* **ThreadedEventLoop**, the factories and the opening of devices in `moteus_transport.h`,
  the text of fdcanusb's lines and its checksum: strings and system calls.
* **Hat details**: attitude, radio, lock file, register access, and the bit times
  from which timeouts are computed. A timeout may happen whenever a reply is missing.
* **Configuration**: values of the constants; parsing YAML keeps no state.
* **Start-up service**: a shell script around systemd and `nmcli`, whose states are those of
  the system. **Installer, build files, `pi3hat_tool`, hand-run
  checks, vendored tests**: no state of the robot.
* **BallDetection**: OpenCV; an observation is an arbitrary value.
* In RobotLoop the log calls and the contents of reports, except the observation.

## 8 Plan

Order of work; what is done is marked.

1. [done] `RobotLoop`: the robot's own behaviour, with proofs.
2. [done] `Pi3HatTransport` with the abstract `CycleService`, refinement proved, events
   included up to the first one.
3. [done] `KickerFirmware`, its composition `KickPath`, and `ArduinoLink`, with proofs.
4. [done] `Logger` with the abstract `LogContract`, refinement proved.
5. [done] `Pi3Hat`: stale and lost replies, with `RoomRespected`, `NoStepBack` and
   `NewestReported` proved.
6. [done] `CommandDecoder`, `WheelMath` and `RobotDrive`, with the limits proved.
7. [done] `TimeoutTransport` over its three devices, with its safety proved.
8. [done] `Multiplex`, `MoteusProtocol`, `MoteusFrames`, with `CommandLands`,
   `ReplySizeExact` and `ParserStaysInFrame` proved.
9. [done] `MoteusController`, with its safety proved.
10. `DriveContract`: what an operator relies on, as an abstract specification that
    `RobotLoop` implements.
11. `ThreadedEventLoop`; the hat's attitude and register access.

Runs are kept to one for each question.
