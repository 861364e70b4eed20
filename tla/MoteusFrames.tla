---------------------------- MODULE MoteusFrames ----------------------------
(* One command of a Controller, from its fields to the controller's         *)
(* registers and back: Controller::MakeFrame writes the frame one           *)
(* MaybeWrite at a time, the motor controller carries it out operation by   *)
(* operation and answers, and Query::Parse or GenericQuery::Parse takes the *)
(* reply apart one next() at a time.  A reply may lose its end, gain        *)
(* padding, or be any bytes at all.                                         *)
EXTENDS MoteusProtocol, FiniteSets

(* What is asked of the machine: the pieces of a command with its Format    *)
(* and values by field name; the query sent along, "none", "override" or    *)
(* "default", with its Format and extra items; the items the command asks   *)
(* for; how many bytes the reply loses and how much padding it gains; the   *)
(* parser; for a reply from nowhere, its bytes; and what the conversion of  *)
(* a double without an int32_t gives on this machine.                       *)
CONSTANT Inputs

VARIABLES input, todo, index, current, frame, expected, phase,
          deviceOffset, registers, reply, answers, parser, fields, extra

making == <<todo, index, current, frame, expected>>
device == <<deviceOffset, registers, reply, answers>>
parsing == <<parser, fields, extra>>
vars == <<input, making, phase, device, parsing>>

Lookup(format, name, default) == IF name \in DOMAIN format THEN format[name] ELSE default

(* A duty cycle that is not finite is not written.                          *)
AuxFields == {AuxPwmWrite[1].fields[i][1] : i \in 1..10}

FieldResolution(in, name, format) ==
    IF name \in AuxFields /\ in.values[name] \in {nan, inf}
    THEN "kIgnore" ELSE Lookup(format, name, "kIgnore")

Resolved(in, piece, format, query) ==
    CASE "bytes" \in DOMAIN piece -> piece
      [] "resolutions" \in DOMAIN piece ->
            [base |-> piece.base, start |-> piece.start, query |-> query,
             resolutions |-> piece.resolutions]
      [] OTHER ->
            [base |-> piece.base, start |-> piece.start, query |-> query,
             fields |-> piece.fields,
             resolutions |-> [i \in DOMAIN piece.fields |->
                                 FieldResolution(in, piece.fields[i][1], format)]]

ResolvedAll(in, pieces, format, query) ==
    [i \in DOMAIN pieces |-> Resolved(in, pieces[i], format, query)]

(* ZeroVelocityMode::Make and the Makes with a Format of one resolution     *)
(* write no piece without one: a combiner of ignored registers writes       *)
(* nothing either.                                                          *)
MakeFrame(in) ==
    ResolvedAll(in, in.command, in.format, FALSE) \o
    (IF in.query = "none" THEN << >>
     ELSE ResolvedAll(in, Query(in.extra), in.queryFormat, TRUE))

(* What a byte, the count of an operation and a register's number may be.   *)
Byte == 0..255
Counts == 1..255
Numbers == 0..16383

(* The bytes a Make spells out: a whole write of one register.              *)
WholeWrite(bytes) ==
    /\ bytes \in Seq(Byte)
    /\ \E res \in Resolutions, register \in Numbers :
           LET framing == Framing(0, res, 1, register)
           IN /\ Len(bytes) = Len(framing) + ResolutionSize(res)
              /\ SubSeq(bytes, 1, Len(framing)) = framing

(* A piece a WriteCombiner takes, and the values a caller gives it: small   *)
(* numbers and the cases that stand for the others; inf stands for a double *)
(* beyond an int32_t too, where the field is written as an integer.         *)
Given == {nan, inf, above, below} \cup 0..126

Combinable(in, piece) ==
    /\ piece.base \in {0, kReadBase} /\ piece.query \in BOOLEAN
    /\ piece.resolutions \in Seq(Resolutions \cup {"kIgnore"})
    /\ Len(piece.resolutions) \in Counts
    /\ piece.start \in Numbers
    /\ \A i \in DOMAIN piece.resolutions : piece.start + i - 1 \in Numbers
    /\ piece.base = 0 =>
          \A i \in DOMAIN piece.resolutions :
             piece.resolutions[i] # "kIgnore" => in.values[piece.fields[i][1]] \in Given

ASSUME InputsAssumption ==
    \A in \in Inputs :
        /\ in.cut \in Nat /\ in.pad \in Nat /\ in.raw \in Seq(Byte)
        /\ in.undefined \in Undefined
        /\ in.command \in Seq({in.command[i] : i \in DOMAIN in.command})
        /\ \A i \in DOMAIN in.command :
              DOMAIN in.command[i] \in {{"bytes"}, {"base", "start", "fields"},
                                       {"base", "start", "resolutions"}}
        /\ \A i \in DOMAIN MakeFrame(in) :
              LET piece == MakeFrame(in)[i]
              IN IF "bytes" \in DOMAIN piece THEN WholeWrite(piece.bytes)
                                             ELSE Combinable(in, piece)

(* The commands that write fields: a Format has a resolution for each.      *)
WritingCommands == {PositionMode, VFOCMode, CurrentMode, StayWithinMode, ZeroVelocityMode,
                    GpioWrite, AuxPwmWrite}

FieldNames(command) ==
    LET block == command[Len(command)]
    IN {block.fields[j][1] : j \in DOMAIN block.fields} \ {Gap[1]}

WritesFields(in) ==
    \E i \in DOMAIN in.command : "base" \in DOMAIN in.command[i] /\ in.command[i].base = 0

ASSUME CommandsAssumption ==
    \A in \in Inputs : WritesFields(in) =>
        /\ in.command \in WritingCommands
        /\ in.format \in [FieldNames(in.command) -> Resolutions \cup {"kIgnore"}]

Init ==
    /\ input \in Inputs
    /\ todo = MakeFrame(input)
    /\ index = 1
    /\ current = "kIgnore"
    /\ frame = << >>
    /\ expected = 0
    /\ phase = IF input.raw = << >> THEN "make" ELSE "parse"
    /\ deviceOffset = 0
    /\ registers = << >>
    /\ reply = input.raw
    /\ answers = << >>
    /\ parser = Fresh
    /\ fields = << >>
    /\ extra = << >>

-----------------------------------------------------------------------------
(* Controller::MakeFrame.  The default query was made at construction and   *)
(* is copied behind the command with no check of the room left; everything  *)
(* else goes through WriteCanData::Write, which aborts past 64 bytes.       *)

Copied(piece) == input.query = "default" /\ "query" \in DOMAIN piece /\ piece.query

Append64(piece, bytes) ==
    IF Len(frame) + Len(bytes) > MaxSize /\ ~Copied(piece)
    THEN phase' = "full" /\ UNCHANGED frame
    ELSE frame' = frame \o bytes /\ UNCHANGED phase

(* The size Make returns is an uint8_t; that of the query replaces that of  *)
(* the command.                                                             *)
StartsQuery(piece) ==
    /\ piece.query /\ index = 1
    /\ "fields" \in DOMAIN piece /\ piece.start = Register.kMode

WriteLiteral ==
    /\ phase = "make" /\ todo # << >>
    /\ "bytes" \in DOMAIN Head(todo)
    /\ Append64(Head(todo), Head(todo).bytes)
    /\ todo' = Tail(todo)
    /\ UNCHANGED <<input, index, current, expected, device, parsing>>

(* What an operation makes the reply grow by: its framing and its values.   *)
(* Variant: one value is counted for the operation.                         *)
OwedOne(framing, count, res) == Len(framing) + ResolutionSize(res)
Owed(framing, count, res) == Len(framing) + count * ResolutionSize(res)

FieldBytes(in, field, res) == Write(field[2], in.values[field[1]], res, in.undefined)

(* MaybeWrite, and the value behind it when the field is written.           *)
MaybeWrite ==
    /\ phase = "make" /\ todo # << >>
    /\ "base" \in DOMAIN Head(todo)
    /\ LET piece   == Head(todo)
           res     == piece.resolutions[index]
           framing == MaybeFrame(piece.base, piece.start, piece.resolutions, index, current)
           value   == IF piece.base = 0 /\ res # "kIgnore"
                      THEN FieldBytes(input, piece.fields[index], res)
                      ELSE << >>
           size    == IF framing = << >> THEN 0
                      ELSE Owed(framing, RunLength(piece.resolutions, index), res)
           last    == index = Len(piece.resolutions)
       IN /\ Append64(piece, framing \o value)
          /\ expected' = ((IF StartsQuery(piece) THEN 0 ELSE expected)
                             + (IF piece.base = kReadBase THEN size ELSE 0)) % 256
          /\ index' = IF last THEN 1 ELSE index + 1
          /\ current' = IF last THEN "kIgnore" ELSE res
          /\ todo' = IF last THEN Tail(todo) ELSE todo
    /\ UNCHANGED <<input, device, parsing>>

Send ==
    /\ phase = "make" /\ todo = << >>
    /\ phase' = IF Len(frame) > MaxSize THEN "overrun" ELSE "device"
    /\ UNCHANGED <<input, making, device, parsing>>

-----------------------------------------------------------------------------
(* The motor controller (external): it reads the operations one after       *)
(* another, sets the registers of the writes and answers the questions with *)
(* the framing they came in.  It replies to a frame with the reply bit, the *)
(* one DefaultFrame sets for a frame with a query; a reply holds 64 bytes.  *)

(* What a register holds; neighbours differ.                                *)
Held(register) == (register % 100) + 1

Values(first, count, res) ==
    [k \in 1..(count * ResolutionSize(res)) |->
        LET j == (k - 1) \div ResolutionSize(res)
        IN WriteMapped(Held(first + j), res)[((k - 1) % ResolutionSize(res)) + 1]]

Serve ==
    /\ phase = "device" /\ deviceOffset < Len(frame)
    /\ LET cmd   == frame[deviceOffset + 1]
           res   == CodedResolution(cmd)
           long  == cmd % 4 = 0
           count == IF long THEN frame[deviceOffset + 2] ELSE cmd % 4
           at    == deviceOffset + (IF long THEN 2 ELSE 1)
           first == Varuint(frame, at)
           data  == VaruintEnd(frame, at)
           size  == ResolutionSize(res)
           head  == Framing(kReplyBase, res, count, first)
       IN \/ /\ cmd < kReadBase
             /\ registers' = registers \o
                    [j \in 1..count |->
                        [register |-> first + j - 1, res |-> res,
                         bytes |-> SubSeq(frame, data + (j - 1) * size + 1, data + j * size)]]
             /\ deviceOffset' = data + count * size
             /\ UNCHANGED <<reply, answers>>
          \/ /\ cmd >= kReadBase
             /\ reply' = reply \o head \o Values(first, count, res)
             /\ answers' = answers \o
                    [j \in 1..count |-> [register |-> first + j - 1, res |-> res,
                                         end |-> Len(reply) + Len(head) + j * size]]
             /\ deviceOffset' = data
             /\ UNCHANGED registers
    /\ UNCHANGED <<input, making, phase, parsing>>

Smaller(a, b) == IF a < b THEN a ELSE b

Answer ==
    /\ phase = "device" /\ deviceOffset = Len(frame)
    /\ LET kept == Smaller(Len(reply), MaxSize) - input.cut
       IN reply' = IF input.query = "none" THEN << >>
                   ELSE SubSeq(reply, 1, kept) \o [k \in 1..input.pad |-> kNop]
    /\ phase' = "parse"
    /\ UNCHANGED <<input, making, deviceOffset, registers, answers, parsing>>

-----------------------------------------------------------------------------
(* Query::Parse and GenericQuery::Parse: one next() and what it reads.      *)

Read(r) == ReadValue(ReadBytes(reply, [r.parser EXCEPT !.res = r.res]), r.res)

ParseDone ==
    /\ phase = "parse"
    /\ \/ next(reply, parser).done
       \/ input.parse = "GenericQuery" /\ Len(extra) = kMaxItems
    /\ phase' = "done"
    /\ UNCHANGED <<input, making, device, parsing>>

ParseRegister ==
    /\ phase = "parse"
    /\ ~(input.parse = "GenericQuery" /\ Len(extra) = kMaxItems)
    /\ LET r == next(reply, parser)
       IN /\ ~r.done
          /\ IF ReadAborts(reply, r.parser)
             THEN phase' = "aborted" /\ UNCHANGED parsing
             ELSE LET field == QueryField(r.register)
                      slot  == [register |-> r.register] @@
                               ParseGeneric(r.register, r.res, Read(r))
                  IN /\ parser' = AfterRead(r.parser)
                     /\ CASE input.parse = "Query" /\ field # << >> ->
                               /\ fields' = (field[1] :>
                                     [value |-> Read(r),
                                      scale |-> kMappingValues[field[2]][ScaleIndex[r.res]]])
                                     @@ fields
                               /\ UNCHANGED extra
                          [] input.parse = "Query" /\ field = << >> /\ Len(extra) = kMaxExtra ->
                               UNCHANGED <<fields, extra>>
                          [] OTHER ->
                               extra' = Append(extra, slot) /\ UNCHANGED fields
                     /\ UNCHANGED phase
    /\ UNCHANGED <<input, making, device>>

Rest == phase \in {"done", "full", "overrun", "aborted"} /\ UNCHANGED vars

Next == WriteLiteral \/ MaybeWrite \/ Send \/ Serve \/ Answer
            \/ ParseRegister \/ ParseDone \/ Rest

Spec == Init /\ [][Next]_vars

-----------------------------------------------------------------------------
(* The register each field of a command is named after.                     *)
NamedAfter ==
    [position |-> "kCommandPosition", velocity |-> "kCommandVelocity",
     feedforward_torque |-> "kCommandFeedforwardTorque", kp_scale |-> "kCommandKpScale",
     kd_scale |-> "kCommandKdScale", maximum_torque |-> "kCommandPositionMaxTorque",
     stop_position |-> "kCommandStopPosition", watchdog_timeout |-> "kCommandTimeout",
     velocity_limit |-> "kCommandVelocityLimit", accel_limit |-> "kCommandAccelLimit",
     fixed_voltage_override |-> "kCommandFixedVoltageOverride",
     ilimit_scale |-> "kCommandIlimitScale",
     fixed_current_override |-> "kCommandFixedCurrentOverride",
     ignore_position_bounds |-> "kCommandIgnorePositionBounds",
     theta_rad |-> "kVFocTheta", voltage |-> "kVFocVoltage",
     q_A |-> "kCommandQCurrent", d_A |-> "kCommandDCurrent",
     aux1 |-> "kAux1GpioCommand", aux2 |-> "kAux2GpioCommand"]

StayWithinNamedAfter ==
    [lower_bound |-> "kCommandStayWithinLowerBound",
     upper_bound |-> "kCommandStayWithinUpperBound",
     feedforward_torque |-> "kCommandStayWithinFeedforwardTorque",
     kp_scale |-> "kCommandStayWithinKpScale", kd_scale |-> "kCommandStayWithinKdScale",
     maximum_torque |-> "kCommandStayWithinPositionMaxTorque",
     watchdog_timeout |-> "kCommandStayWithinTimeout",
     ilimit_scale |-> "kCommandStayWithinIlimitScale",
     ignore_position_bounds |-> "kCommandStayWithinIgnorePositionBounds"]

(* theta_rad_rate goes to a register the enumeration does not name, and the *)
(* ten duty cycles to kAux1Pwm1 and the nine after it.                      *)
Home(in, name) ==
    LET named == IF "lower_bound" \in DOMAIN in.format THEN StayWithinNamedAfter ELSE NamedAfter
    IN CASE name = "theta_rad_rate" -> 30
         [] name \in AuxFields ->
               117 + (CHOOSE i \in 1..10 : AuxPwmWrite[1].fields[i][1] = name)
         [] OTHER -> Register[named[name]]

(* The value a controller reads: what does not fit an integer goes to the   *)
(* end of the range it lies at, and only what is not finite becomes NaN.    *)
Meant(value, res) ==
    IF res = "kFloat" THEN value
    ELSE CASE value = above -> largest
           [] value = below -> smallest
           [] value \in {nan, inf} -> nan
           [] OTHER -> value

(* The values it may read.  An integer is clamped at 8 and 16 bits and fits *)
(* 32; a double without an integer reads as zero or as an end of the range, *)
(* as NaN at 32 bits alone.                                                 *)
MayRead(writer, value, res) ==
    CASE writer = "WriteInt" /\ value \in {nan, inf} ->
            {0, largest, IF res = "kInt32" THEN nan ELSE smallest}
      [] writer = "WriteInt" /\ value \notin {nan, inf} /\ res = "kInt32" -> {value}
      [] OTHER -> {Meant(value, res)}

(* The fields of the command that are written.                              *)
Wanted(in) == {name \in DOMAIN in.format : FieldResolution(in, name, in.format) # "kIgnore"}

WriterOf(in, name) ==
    CHOOSE w \in DOMAIN WriteScale :
        \E k \in DOMAIN in.command[Len(in.command)].fields :
            in.command[Len(in.command)].fields[k] = <<name, w>>

(* CommandLands: when the frame has been carried out, every field with a    *)
(* resolution stands in the register it is named after, with the value it   *)
(* was given, saturated with its sign and never turned into NaN, at the     *)
(* scale ParseGeneric reads that register back with; besides them only the  *)
(* mode is written.  A field that is written as an integer but was given a  *)
(* double without one holds zero or an end of the range, and NaN at 32 bits *)
(* only.  (The two fields of VFOCMode in radians are divided by pi first,   *)
(* and are left out of the comparison of scales.)                           *)
CommandLands ==
    (phase \in {"parse", "done"} /\ input.raw = << >> /\ WritesFields(input)) =>
        LET written == {registers[k] : k \in DOMAIN registers}
            value(w) == ReadValue(w.bytes, w.res)
        IN /\ \A name \in Wanted(input) :
                 LET res == input.format[name]
                 IN /\ \E w \in written :
                          /\ w.register = Home(input, name) /\ w.res = res
                          /\ value(w) \in
                                MayRead(WriterOf(input, name), input.values[name], res)
                    /\ name \notin {"theta_rad", "theta_rad_rate"} =>
                          WriteScale[WriterOf(input, name)][ScaleIndex[res]] =
                             kMappingValues[Concrete(Home(input, name))][ScaleIndex[res]]
           /\ \A w \in written : \/ w.register = Register.kMode
                                  \/ \E name \in Wanted(input) : w.register = Home(input, name)

(* What reached the parser whole.                                           *)
Arrived == {answers[k] : k \in {j \in DOMAIN answers :
                answers[j].end <= Smaller(Len(reply) - input.pad, MaxSize)}}

ItemsOf(in) == {(in.extra \o in.items)[k] : k \in DOMAIN (in.extra \o in.items)}

(* What the caller asked for: the fields its Format names, and the items.   *)
Requested ==
    {<<Register[n], input.queryFormat[QuerySwitch[n][1]]>> :
        n \in {m \in DOMAIN QuerySwitch :
                 Lookup(input.queryFormat, QuerySwitch[m][1], "kIgnore") # "kIgnore"}}
    \cup {<<item.register, item.resolution>> : item \in ItemsOf(input)}

(* QueryFillsResult: the controller is asked for the registers the caller   *)
(* named and no other, each at its resolution; and when its reply has been  *)
(* parsed, the result holds exactly those that arrived whole: each named    *)
(* field its own register's value, everything else in an extra slot under   *)
(* its own number, in order (the first 16 of them, with Query), and nothing *)
(* from padding or from the end a short frame lost.  Both parsers give a    *)
(* register the same unit (but for the two duty cycles of the PWM inputs,   *)
(* which ParseGeneric's table does not know).                               *)
QueryFillsResult ==
    (phase = "done" /\ input.raw = << >> /\ input.query # "none") =>
        LET named == {a \in Arrived : input.parse = "Query" /\ QueryField(a.register) # << >>}
            rest  == {a \in Arrived \ named : \/ input.parse = "GenericQuery"
                         \/ Cardinality({b \in Arrived \ named : b.register < a.register})
                               < kMaxExtra}
        IN /\ {<<answers[k].register, answers[k].res>> : k \in DOMAIN answers} = Requested
           /\ DOMAIN fields = {QueryField(a.register)[1] : a \in named}
           /\ \A a \in named :
                 LET got == fields[QueryField(a.register)[1]]
                 IN /\ got.value = Held(a.register)
                    /\ a.register \notin {115, 117} =>
                          got.scale = kMappingValues[Concrete(a.register)][ScaleIndex[a.res]]
           /\ {<<extra[k].register, extra[k].value>> : k \in DOMAIN extra} =
                 {<<a.register, Held(a.register)>> : a \in rest}
           /\ \A k \in 2..Len(extra) : extra[k - 1].register < extra[k].register

(* ReplySizeExact: the reply size the transport plans its waiting with is   *)
(* the size of the reply the controller sends, for a command that asks for  *)
(* nothing of its own and a reply that fits a frame.                        *)
ReplySizeExact ==
    (phase = "device" /\ deviceOffset = Len(frame) /\ input.query # "none"
        /\ \A i \in DOMAIN input.command :
              "base" \in DOMAIN input.command[i] => input.command[i].base = 0)
    => (Len(reply) <= MaxSize => expected = Len(reply))

(* ParserStaysInFrame: whatever the bytes of a reply, a register next()     *)
(* announces is there to be read: the parser never reaches the abort() of   *)
(* Read, and never leaves the frame.                                        *)
ParserStaysInFrame ==
    /\ parser.offset <= Len(reply)
    /\ phase # "aborted"
=============================================================================
