----------------------------- MODULE Multiplex -----------------------------
(* The register encoding of moteus_multiplex.h: how a run of registers is   *)
(* framed (WriteCombiner), how a value becomes bytes (WriteCanData) and how *)
(* a frame is read back (MultiplexParser).  A frame is a sequence of bytes. *)
(*                                                                          *)
(* A value is a small natural number, a whole multiple of the scale of the  *)
(* resolution it is written at, or one of the cases the encoding tells      *)
(* apart: what is not finite, and a large number either side of zero, which *)
(* fits an int32_t and, divided by a scale below one, no longer does.       *)
EXTENDS Integers, Sequences

nan == -1
inf == -2
above == 1073741824
below == -1073741824
largest == -5                \* read back: the largest integer
smallest == -6               \* and its negation

MaxSize == 64                                      \* CanData::data

Resolutions == {"kInt8", "kInt16", "kInt32", "kFloat"}

ResolutionSize(res) == CASE res \in {"kInt32", "kFloat"} -> 4
                         [] res = "kInt16" -> 2
                         [] OTHER -> 1

ResolutionCode == [kInt8 |-> 0, kInt16 |-> 4, kInt32 |-> 8, kFloat |-> 12]

CodedResolution(cmd) ==
    CHOOSE res \in Resolutions : ResolutionCode[res] = 4 * ((cmd \div 4) % 4)

kNop == 80
kReplyBase == 32
kReadBase == 16

-----------------------------------------------------------------------------
(* Values.                                                                  *)

(* memcpy of a little-endian integer; \div and % make it two's complement.  *)
LittleEndian(v, size) ==
    [i \in 1..size |-> (v \div <<1, 256, 65536, 16777216>>[i]) % 256]

MaxOf(res) == [kInt8 |-> 127, kInt16 |-> 32767, kInt32 |-> 2147483647][res]

(* The least integer is the code of NaN.                                    *)
MinOf(res) == -MaxOf(res) - 1

Saturate(value, res) == CASE value \in {nan, inf} -> MinOf(res)
                          [] value = above -> MaxOf(res)
                          [] value = below -> -MaxOf(res)
                          [] OTHER -> value

FloatBytes(value) == CASE value = nan -> <<0, 0, 192, 127>>
                       [] value = inf -> <<0, 0, 128, 127>>
                       [] value = above -> <<0, 0, 128, 78>>
                       [] value = below -> <<0, 0, 128, 206>>
                       [] value = MaxOf("kInt32") -> <<0, 0, 0, 79>>
                       [] value = MinOf("kInt32") -> <<0, 0, 0, 207>>
                       [] OTHER -> <<0, 0, value, 67>>

WriteMapped(value, res) ==
    IF res = "kFloat" THEN FloatBytes(value)
                      ELSE LittleEndian(Saturate(value, res), ResolutionSize(res))

(* WriteInt takes an int32_t.  A double that has none is converted all the  *)
(* same, which is undefined: the processors give zero or one of the ends.   *)
Undefined == {0, MaxOf("kInt32"), MinOf("kInt32")}

Int32(value, undefined) == IF value \in {nan, inf} THEN undefined ELSE value

(* 32 bits take the integer as it is, the least one, the code of NaN, too.  *)
Clamped(n, res) == CASE res = "kInt32" -> n
                     [] res # "kInt32" /\ n > MaxOf(res) -> MaxOf(res)
                     [] res # "kInt32" /\ n < -MaxOf(res) -> -MaxOf(res)
                     [] OTHER -> n

WriteInt(n, res) ==
    IF res = "kFloat" THEN FloatBytes(n)
                      ELSE LittleEndian(Clamped(n, res), ResolutionSize(res))

(* What the writer of a field does with its value.                          *)
Write(writer, value, res, undefined) ==
    IF writer = "WriteInt" THEN WriteInt(Int32(value, undefined), res)
                           ELSE WriteMapped(value, res)

(* What the bytes mean to ReadConcrete, before it multiplies by the scale.  *)
ReadValue(bytes, res) ==
    IF res = "kFloat"
    THEN CASE bytes = FloatBytes(nan) -> nan
           [] bytes = FloatBytes(inf) -> inf
           [] bytes = FloatBytes(above) -> above
           [] bytes = FloatBytes(below) -> below
           [] bytes = FloatBytes(MaxOf("kInt32")) -> largest
           [] bytes = FloatBytes(MinOf("kInt32")) -> smallest
           [] OTHER -> bytes[3]
    ELSE CASE bytes = LittleEndian(MinOf(res), ResolutionSize(res)) -> nan
           [] bytes = LittleEndian(MaxOf(res), ResolutionSize(res)) -> largest
           [] bytes = LittleEndian(-MaxOf(res), ResolutionSize(res)) -> smallest
           [] res = "kInt32" /\ bytes = LittleEndian(above, 4) -> above
           [] res = "kInt32" /\ bytes = LittleEndian(below, 4) -> below
           [] OTHER -> bytes[1]

(* The factor of each resolution, by the writer's name and by the concrete  *)
(* type of the parser's table.  A float is written and read as it stands.   *)
Pwm == <<"1/127", "1/32767", "1/2147483647", "1">>

WriteScale ==
    [WritePosition    |-> <<"0.01", "0.0001", "0.00001", "1">>,
     WriteVelocity    |-> <<"0.1", "0.00025", "0.00001", "1">>,
     WriteAccel       |-> <<"0.05", "0.001", "0.00001", "1">>,
     WriteTorque      |-> <<"0.5", "0.01", "0.001", "1">>,
     WritePwm         |-> Pwm,
     WriteVoltage     |-> <<"0.5", "0.1", "0.001", "1">>,
     WriteTemperature |-> <<"1", "0.1", "0.001", "1">>,
     WriteTime        |-> <<"0.01", "0.001", "0.000001", "1">>,
     WriteCurrent     |-> <<"1", "0.1", "0.001", "1">>,
     WriteInt         |-> <<"1", "1", "1", "1">>]

kMappingValues ==
    [kInt          |-> <<"1", "1", "1", "1">>,
     kPosition     |-> <<"0.01", "0.0001", "0.00001", "1">>,
     kVelocity     |-> <<"0.1", "0.00025", "0.00001", "1">>,
     kTorque       |-> <<"0.5", "0.01", "0.001", "1">>,
     kPwm          |-> Pwm,
     kVoltage      |-> <<"0.5", "0.1", "0.001", "1">>,
     kTemperature  |-> <<"1", "0.1", "0.001", "1">>,
     kTime         |-> <<"0.01", "0.001", "0.000001", "1">>,
     kCurrent      |-> <<"1", "0.1", "0.001", "1">>,
     kTheta        |-> <<"pi/127", "pi/32767", "pi/2147483647", "1">>,
     kPower        |-> <<"10", "0.05", "0.0001", "1">>,
     kAcceleration |-> <<"0.05", "0.001", "0.00001", "1">>]

ScaleIndex == [kInt8 |-> 1, kInt16 |-> 2, kInt32 |-> 3, kFloat |-> 4]

-----------------------------------------------------------------------------
(* WriteCombiner.                                                           *)

(* A register number has at most 14 bits.                                   *)
WriteVaruint(n) == IF n < 128 THEN <<n>> ELSE <<(n % 128) + 128, n \div 128>>

(* How many registers from the i-th on share its resolution.                *)
RunLength(resolutions, i) ==
    CHOOSE n \in 1..(Len(resolutions) - i + 1) :
        /\ \A k \in i..(i + n - 1) : resolutions[k] = resolutions[i]
        /\ i + n <= Len(resolutions) => resolutions[i + n] # resolutions[i]

(* The operation before the register `first` and the count - 1 after it.    *)
Framing(base, res, count, first) ==
    (IF count <= 3 THEN <<base + ResolutionCode[res] + count>>
                   ELSE <<base + ResolutionCode[res], count>>)
        \o WriteVaruint(first)

(* MaybeWrite at the i-th register: the framing it writes.  The resolution  *)
(* of the register before says whether an operation already covers it.      *)
MaybeFrame(base, start, resolutions, i, current) ==
    IF resolutions[i] \in {current, "kIgnore"}
    THEN << >>
    ELSE Framing(base, resolutions[i], RunLength(resolutions, i), start + i - 1)

-----------------------------------------------------------------------------
(* MultiplexParser.  The state of one is a record: the offset of the next   *)
(* byte, the registers left of the operation it is in, their resolution and *)
(* the number of the next one.                                              *)

Fresh == [offset |-> 0, remaining |-> 0, res |-> "kIgnore", register |-> 0]

(* Where ReadVaruint stops: at a byte without the top bit, at the fifth, or *)
(* at the end of the frame.                                                 *)
VaruintEnd(data, offset) ==
    IF offset = Len(data)
    THEN offset
    ELSE CHOOSE e \in (offset + 1)..Len(data) :
            /\ e = offset + 5 \/ e = Len(data) \/ data[e] < 128
            /\ \A k \in (offset + 1)..(e - 1) : data[k] >= 128 /\ k < offset + 5

(* The uint16_t it returns: the fourth and fifth bytes are shifted out.     *)
Varuint(data, offset) ==
    LET septet(k) == IF offset + k <= VaruintEnd(data, offset)
                     THEN data[offset + k] % 128 ELSE 0
    IN (septet(1) + 128 * septet(2) + 16384 * septet(3)) % 65536

(* Nothing stands between two offsets but padding and empty operations, a   *)
(* reply's head and a count of zero: a zero is never a command and a head   *)
(* never a count, so neither can be taken for the other.                    *)
EmptyHeads == {kReplyBase + ResolutionCode[res] : res \in Resolutions}

Skipped(data, from, to) ==
    \A k \in (from + 1)..to :
        \/ data[k] = kNop
        \/ data[k] \in EmptyHeads /\ k < to /\ data[k + 1] = 0
        \/ data[k] = 0 /\ k > from + 1 /\ data[k - 1] \in EmptyHeads

(* Where the loop of next() stops looking: at the first byte that is not    *)
(* passed over, or the end.                                                 *)
NextCommand(data, offset) ==
    CHOOSE o \in offset..Len(data) :
        /\ Skipped(data, offset, o)
        /\ \A e \in (o + 1)..Len(data) : ~Skipped(data, offset, e)

Done(p) == [done |-> TRUE, parser |-> p]

Found(p) == [done |-> FALSE, parser |-> [p EXCEPT !.register = (@ + 1) % 65536],
             register |-> p.register, res |-> p.res]

(* Variant: the register is announced without its bytes.                    *)
EnoughAlways(data, p) == TRUE
Enough(data, p) == p.offset + ResolutionSize(p.res) <= Len(data)

Int8(n) == ((n + 128) % 256) - 128

(* next().  Inside an operation the next register follows; an operation's   *)
(* count is an int8_t, and any value but zero goes on with it.  Otherwise   *)
(* the next command is looked for: padding and empty operations are passed  *)
(* over (of an empty one its count alone: the register after it is taken    *)
(* for a command), and anything that is not a reply ends the frame.         *)
next(data, p) ==
    LET r     == [p EXCEPT !.remaining = Int8(@ - 1)]
        o     == NextCommand(data, p.offset)
        cmd   == data[o + 1]
        long  == cmd % 4 = 0
        at    == IF long THEN o + 2 ELSE o + 1
        count == IF long THEN data[at] ELSE cmd % 4
        q     == [offset |-> VaruintEnd(data, at), remaining |-> Int8(count - 1),
                  res |-> CodedResolution(cmd), register |-> Varuint(data, at)]
        end   == [p EXCEPT !.offset = Len(data)]
        found == /\ o + 1 < Len(data)
                 /\ cmd \in kReplyBase..(kReplyBase + 15)
                 /\ at < Len(data)
        offer(s) == IF Enough(data, s) THEN Found(s) ELSE Done(s)
    IN IF p.offset >= Len(data) THEN Done(p)
       ELSE IF p.remaining # 0 THEN offer(r)
       ELSE IF found THEN offer(q) ELSE Done(end)

(* Read<T> of the register next() returned, which aborts past the end.      *)
ReadAborts(data, p) == p.offset + ResolutionSize(p.res) > Len(data)

ReadBytes(data, p) == SubSeq(data, p.offset + 1, p.offset + ResolutionSize(p.res))

AfterRead(p) == [p EXCEPT !.offset = @ + ResolutionSize(p.res)]
=============================================================================
