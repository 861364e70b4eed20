--------------------------- MODULE MoteusProtocol ---------------------------
(* The commands of moteus_protocol.h as data: which registers exist, which  *)
(* fields a command writes or asks for and in what order, and what a reply  *)
(* means to Query and GenericQuery.                                         *)
(*                                                                          *)
(* What a Make method does to the frame is a sequence of pieces, each       *)
(*   [base     |-> 0 for a write, kReadBase for a question,                 *)
(*    start    |-> the register of the first field,                         *)
(*    fields   |-> the fields, in register order]                           *)
(* for one WriteCombiner, or [bytes |-> ...] for what it writes literally.  *)
(* A field is <<name, writer>>; a Format gives its resolution.              *)
EXTENDS Multiplex, TLC

Register ==
    [kMode |-> 0, kPosition |-> 1, kVelocity |-> 2, kTorque |-> 3, kQCurrent |-> 4,
     kDCurrent |-> 5, kAbsPosition |-> 6, kPower |-> 7, kMotorTemperature |-> 10,
     kTrajectoryComplete |-> 11, kHomeState |-> 12, kVoltage |-> 13,
     kTemperature |-> 14, kFault |-> 15, kPwmPhaseA |-> 16, kVoltagePhaseA |-> 20,
     kVFocTheta |-> 24, kVFocVoltage |-> 25, kCommandQCurrent |-> 28,
     kCommandDCurrent |-> 29, kCommandPosition |-> 32, kCommandVelocity |-> 33,
     kCommandFeedforwardTorque |-> 34, kCommandKpScale |-> 35, kCommandKdScale |-> 36,
     kCommandPositionMaxTorque |-> 37, kCommandStopPosition |-> 38,
     kCommandTimeout |-> 39, kCommandVelocityLimit |-> 40, kCommandAccelLimit |-> 41,
     kCommandFixedVoltageOverride |-> 42, kCommandIlimitScale |-> 43,
     kCommandFixedCurrentOverride |-> 44, kCommandIgnorePositionBounds |-> 45,
     kPositionKp |-> 48, kControlPosition |-> 56, kControlVelocity |-> 57,
     kControlTorque |-> 58, kControlPositionError |-> 59, kControlVelocityError |-> 60,
     kControlTorqueError |-> 61, kCommandStayWithinLowerBound |-> 64,
     kCommandStayWithinUpperBound |-> 65, kCommandStayWithinFeedforwardTorque |-> 66,
     kCommandStayWithinKpScale |-> 67, kCommandStayWithinKdScale |-> 68,
     kCommandStayWithinPositionMaxTorque |-> 69, kCommandStayWithinTimeout |-> 70,
     kCommandStayWithinIlimitScale |-> 71, kCommandStayWithinIgnorePositionBounds |-> 72,
     kEncoder0Position |-> 80, kEncoder0Velocity |-> 81, kEncoder1Position |-> 82,
     kEncoder1Velocity |-> 83, kEncoder2Position |-> 84, kEncoder2Velocity |-> 85,
     kEncoderValidity |-> 88, kAux1GpioCommand |-> 92, kAux2GpioCommand |-> 93,
     kAux1GpioStatus |-> 94, kAux2GpioStatus |-> 95, kAux1AnalogIn1 |-> 96,
     kAux2AnalogIn1 |-> 104, kMillisecondCounter |-> 112, kClockTrim |-> 113,
     kAux1PwmInputPeriod |-> 114, kAux1PwmInputDutyCycle |-> 115,
     kAux2PwmInputPeriod |-> 116, kAux2PwmInputDutyCycle |-> 117, kAux1Pwm1 |-> 118,
     kAux1Pwm2 |-> 119, kAux1Pwm3 |-> 120, kAux1Pwm4 |-> 121, kAux1Pwm5 |-> 122,
     kAux2Pwm1 |-> 123, kAux2Pwm2 |-> 124, kAux2Pwm3 |-> 125, kAux2Pwm4 |-> 126,
     kAux2Pwm5 |-> 127, kRegisterMapVersion |-> 258, kSerialNumber1 |-> 288,
     kSetOutputNearest |-> 304, kSetOutputExact |-> 305, kRequireReindex |-> 306,
     kRecapturePositionVelocity |-> 307, kDriverFault1 |-> 320]

Mode == [kStopped |-> 0, kVoltageFoc |-> 7, kCurrent |-> 9, kPosition |-> 10,
         kZeroVelocity |-> 12, kStayWithin |-> 13, kBrake |-> 15]

-----------------------------------------------------------------------------
(* The commands.                                                            *)

Block(base, start, fields) ==
    [base |-> base, start |-> Register[start], fields |-> fields]

Literal(bytes) == [bytes |-> bytes]

SetMode(mode) == Literal(<<1, Register.kMode, Mode[mode]>>)

(* A field of no command: its register is passed over.                      *)
Gap == <<"gap", "WriteInt">>

EmptyMode == << >>

PositionMode ==
  << SetMode("kPosition"),
     Block(0, "kCommandPosition",
       << <<"position", "WritePosition">>, <<"velocity", "WriteVelocity">>,
          <<"feedforward_torque", "WriteTorque">>, <<"kp_scale", "WritePwm">>,
          <<"kd_scale", "WritePwm">>, <<"maximum_torque", "WriteTorque">>,
          <<"stop_position", "WritePosition">>, <<"watchdog_timeout", "WriteTime">>,
          <<"velocity_limit", "WriteVelocity">>, <<"accel_limit", "WriteAccel">>,
          <<"fixed_voltage_override", "WriteVoltage">>, <<"ilimit_scale", "WritePwm">>,
          <<"fixed_current_override", "WriteCurrent">>,
          <<"ignore_position_bounds", "WriteInt">> >>) >>

(* theta_rad / pi goes out as a duty cycle, theta_rad_rate / pi as a speed. *)
VFOCMode ==
  << SetMode("kVoltageFoc"),
     Block(0, "kVFocTheta",
       << <<"theta_rad", "WritePwm">>, <<"voltage", "WriteVoltage">>, Gap, Gap, Gap, Gap,
          <<"theta_rad_rate", "WriteVelocity">> >>) >>

(* Variant: the two currents are written in the order of the struct.        *)
CurrentSwapped ==
  << SetMode("kCurrent"),
     Block(0, "kCommandQCurrent",
       << <<"d_A", "WriteCurrent">>, <<"q_A", "WriteCurrent">> >>) >>

CurrentMode ==
  << SetMode("kCurrent"),
     Block(0, "kCommandQCurrent",
       << <<"q_A", "WriteCurrent">>, <<"d_A", "WriteCurrent">> >>) >>

StayWithinMode ==
  << SetMode("kStayWithin"),
     Block(0, "kCommandStayWithinLowerBound",
       << <<"lower_bound", "WritePosition">>, <<"upper_bound", "WritePosition">>,
          <<"feedforward_torque", "WriteTorque">>, <<"kp_scale", "WritePwm">>,
          <<"kd_scale", "WritePwm">>, <<"maximum_torque", "WriteTorque">>,
          <<"watchdog_timeout", "WriteTime">>, <<"ilimit_scale", "WritePwm">>,
          <<"ignore_position_bounds", "WriteInt">> >>) >>

BrakeMode == << SetMode("kBrake") >>

StopMode == << SetMode("kStopped") >>

ZeroVelocityMode ==
  << SetMode("kZeroVelocity"),
     Block(0, "kCommandKdScale", << <<"kd_scale", "WritePwm">> >>) >>

GpioWrite ==
  << Block(0, "kAux1GpioCommand", << <<"aux1", "WriteInt">>, <<"aux2", "WriteInt">> >>) >>

GpioRead ==
  << Block(kReadBase, "kAux1GpioStatus",
       << <<"aux1", "WriteInt">>, <<"aux2", "WriteInt">> >>) >>

(* A position written as one float.                                         *)
WriteFloat(register, value) ==
    Literal(<<13>> \o WriteVaruint(Register[register]) \o FloatBytes(value))

OutputNearest(value) == << WriteFloat("kSetOutputNearest", value) >>
OutputExact(value) == << WriteFloat("kSetOutputExact", value) >>

WriteOne(register) == Literal(<<1>> \o WriteVaruint(Register[register]) \o <<1>>)

RequireReindex == << WriteOne("kRequireReindex") >>
RecapturePositionVelocity == << WriteOne("kRecapturePositionVelocity") >>

ClockTrim(trim) ==
  << Literal(<<9>> \o WriteVaruint(Register.kClockTrim) \o LittleEndian(trim, 4)) >>

AuxPwmWrite ==
  << Block(0, "kAux1Pwm1",
       [i \in 1..10 |->
          << <<"aux1_pwm1", "aux1_pwm2", "aux1_pwm3", "aux1_pwm4", "aux1_pwm5",
               "aux2_pwm1", "aux2_pwm2", "aux2_pwm3", "aux2_pwm4", "aux2_pwm5">>[i],
             "WritePwm">>]) >>

-----------------------------------------------------------------------------
(* The questions.                                                           *)

Asked(names) == [i \in 1..Len(names) |-> <<names[i], "WriteInt">>]

(* Variant: the items are taken to follow one another without gaps.         *)
Packed(items) == [k \in DOMAIN items |-> items[k].resolution]

(* The registers from the first to the last of `items`, a sequence of       *)
(* [register, resolution]: one index walks the list while the registers     *)
(* count up, so that a register out of order stops it.                      *)
Spread(items) ==
    LET first == items[1].register
        index[r \in first..items[Len(items)].register] ==
            IF r = first THEN 1
            ELSE index[r - 1] + (IF items[index[r - 1]].register = r - 1 THEN 1 ELSE 0)
    IN [k \in 1..(items[Len(items)].register - first + 1) |->
           LET i == index[first + k - 1]
           IN IF items[i].register = first + k - 1 THEN items[i].resolution ELSE "kIgnore"]

(* The combiner over such a list, which fills its resolutions itself.       *)
ItemBlock(items) ==
    IF items = << >> THEN << >>
    ELSE << [base |-> kReadBase, start |-> items[1].register, resolutions |-> Spread(items)] >>

QueryBlocks ==
  << Block(kReadBase, "kMode",
           Asked(<<"mode", "position", "velocity", "torque", "q_current", "d_current",
                   "abs_position", "power">>)),
     Block(kReadBase, "kMotorTemperature",
           Asked(<<"motor_temperature", "trajectory_complete", "home_state", "voltage",
                   "temperature", "fault">>)),
     Block(kReadBase, "kAux1GpioStatus", Asked(<<"aux1_gpio", "aux2_gpio">>)),
     Block(kReadBase, "kAux1PwmInputPeriod",
           Asked(<<"aux1_pwm_input_period_us", "aux1_pwm_input_duty_cycle",
                   "aux2_pwm_input_period_us", "aux2_pwm_input_duty_cycle">>)) >>

Query(extra) == QueryBlocks \o ItemBlock(extra)

GenericQuery(values) == ItemBlock(values)

(* The struct Query::Format as it is constructed.                           *)
DefaultQueryFormat ==
    [name \in {"mode", "voltage", "temperature", "fault"} |-> "kInt8"] @@
    [name \in {"position", "velocity", "torque"} |-> "kFloat"]

kMaxExtra == 16
kMaxItems == 64

-----------------------------------------------------------------------------
(* The replies.                                                             *)

(* The register of each field Query::Parse knows, and the concrete type it  *)
(* reads it with.                                                           *)
QuerySwitch ==
    [kMode |-> <<"mode", "kInt">>, kPosition |-> <<"position", "kPosition">>,
     kVelocity |-> <<"velocity", "kVelocity">>, kTorque |-> <<"torque", "kTorque">>,
     kQCurrent |-> <<"q_current", "kCurrent">>, kDCurrent |-> <<"d_current", "kCurrent">>,
     kAbsPosition |-> <<"abs_position", "kPosition">>, kPower |-> <<"power", "kPower">>,
     kMotorTemperature |-> <<"motor_temperature", "kTemperature">>,
     kTrajectoryComplete |-> <<"trajectory_complete", "kInt">>,
     kHomeState |-> <<"home_state", "kInt">>, kVoltage |-> <<"voltage", "kVoltage">>,
     kTemperature |-> <<"temperature", "kTemperature">>, kFault |-> <<"fault", "kInt">>,
     kAux1GpioStatus |-> <<"aux1_gpio", "kInt">>, kAux2GpioStatus |-> <<"aux2_gpio", "kInt">>,
     kAux1PwmInputPeriod |-> <<"aux1_pwm_input_period_us", "kInt">>,
     kAux1PwmInputDutyCycle |-> <<"aux1_pwm_input_duty_cycle", "kPwm">>,
     kAux2PwmInputPeriod |-> <<"aux2_pwm_input_period_us", "kInt">>,
     kAux2PwmInputDutyCycle |-> <<"aux2_pwm_input_duty_cycle", "kPwm">>]

(* ParseGeneric's table: <<first register, block size, concrete type>>.     *)
kRegisterDefinitions ==
  { <<"kMode", 1, "kInt">>, <<"kPosition", 1, "kPosition">>, <<"kVelocity", 1, "kVelocity">>,
    <<"kTorque", 1, "kTorque">>, <<"kQCurrent", 2, "kCurrent">>,
    <<"kAbsPosition", 1, "kPosition">>, <<"kPower", 1, "kPower">>,
    <<"kMotorTemperature", 1, "kTemperature">>, <<"kTrajectoryComplete", 2, "kInt">>,
    <<"kVoltage", 1, "kVoltage">>, <<"kTemperature", 1, "kTemperature">>,
    <<"kFault", 1, "kInt">>, <<"kPwmPhaseA", 3, "kPwm">>, <<"kVoltagePhaseA", 3, "kVoltage">>,
    <<"kVFocTheta", 1, "kTheta">>, <<"kVFocVoltage", 3, "kVoltage">>,
    <<"kCommandQCurrent", 2, "kCurrent">>, <<"kCommandPosition", 1, "kPosition">>,
    <<"kCommandVelocity", 1, "kVelocity">>, <<"kCommandFeedforwardTorque", 1, "kTorque">>,
    <<"kCommandKpScale", 2, "kPwm">>, <<"kCommandPositionMaxTorque", 1, "kTorque">>,
    <<"kCommandStopPosition", 1, "kPosition">>, <<"kCommandTimeout", 1, "kTime">>,
    <<"kCommandVelocityLimit", 1, "kVelocity">>, <<"kCommandAccelLimit", 1, "kAcceleration">>,
    <<"kCommandFixedVoltageOverride", 1, "kVoltage">>, <<"kCommandIlimitScale", 1, "kPwm">>,
    <<"kCommandFixedCurrentOverride", 1, "kCurrent">>,
    <<"kCommandIgnorePositionBounds", 1, "kInt">>, <<"kPositionKp", 5, "kTorque">>,
    <<"kControlPosition", 1, "kPosition">>, <<"kControlVelocity", 1, "kVelocity">>,
    <<"kControlTorque", 1, "kTorque">>, <<"kControlPositionError", 1, "kPosition">>,
    <<"kControlVelocityError", 1, "kVelocity">>, <<"kControlTorqueError", 1, "kTorque">>,
    <<"kCommandStayWithinLowerBound", 2, "kPosition">>,
    <<"kCommandStayWithinFeedforwardTorque", 1, "kTorque">>,
    <<"kCommandStayWithinKpScale", 2, "kPwm">>,
    <<"kCommandStayWithinPositionMaxTorque", 1, "kTorque">>,
    <<"kCommandStayWithinTimeout", 1, "kTime">>, <<"kCommandStayWithinIlimitScale", 1, "kPwm">>,
    <<"kCommandStayWithinIgnorePositionBounds", 1, "kInt">>,
    <<"kEncoder0Position", 1, "kPosition">>, <<"kEncoder0Velocity", 1, "kVelocity">>,
    <<"kEncoder1Position", 1, "kPosition">>, <<"kEncoder1Velocity", 1, "kVelocity">>,
    <<"kEncoder2Position", 1, "kPosition">>, <<"kEncoder2Velocity", 1, "kVelocity">>,
    <<"kEncoderValidity", 1, "kInt">>, <<"kAux1GpioCommand", 4, "kInt">>,
    <<"kAux1AnalogIn1", 5, "kPwm">>, <<"kAux2AnalogIn1", 5, "kPwm">>,
    <<"kMillisecondCounter", 2, "kInt">>, <<"kAux1Pwm1", 10, "kPwm">>,
    <<"kRegisterMapVersion", 1, "kInt">>, <<"kSerialNumber1", 3, "kInt">>,
    <<"kSetOutputNearest", 3, "kInt">>, <<"kDriverFault1", 2, "kInt">> }

(* The concrete type a register number is read with; no entry means ReadInt.*)
Concrete(register) ==
    LET entries == {d \in kRegisterDefinitions :
                       register \in Register[d[1]]..(Register[d[1]] + d[2] - 1)}
    IN IF entries = {} THEN "kInt" ELSE (CHOOSE d \in entries : TRUE)[3]

(* What ParseGeneric makes of a register: the value and its unit.           *)
ParseGeneric(register, res, value) ==
    [value |-> value, scale |-> kMappingValues[Concrete(register)][ScaleIndex[res]]]

(* Where Query::Parse puts a register: the field of that name, or the next  *)
(* of the extra slots while there are any.                                  *)
QueryField(register) ==
    LET names == {n \in DOMAIN QuerySwitch : Register[n] = register}
    IN IF names = {} THEN << >> ELSE QuerySwitch[CHOOSE n \in names : TRUE]
=============================================================================
