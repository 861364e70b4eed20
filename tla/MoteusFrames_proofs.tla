------------------------- MODULE MoteusFrames_proofs -------------------------
(* What holds of a frame for every command and query: the encoding and the  *)
(* decoding of an operation are inverse to each other, the fields of a      *)
(* command land in their registers, the reply has the size the machine was  *)
(* told, and the parser stays inside the frame.                             *)
EXTENDS MoteusFrames, WellFoundedInduction, TLAPS

-----------------------------------------------------------------------------
(* The encoding of an operation and its decoding.                           *)

LEMMA Sizes ==
    ASSUME NEW res \in Resolutions
    PROVE  /\ ResolutionSize(res) \in {1, 2, 4}
           /\ ResolutionCode[res] \in {0, 4, 8, 12}
  BY DEF Resolutions, ResolutionSize, ResolutionCode

(* The first byte of an operation tells its resolution, what kind it is,    *)
(* and how many registers it takes when they are at most three.             *)
LEMMA CommandByte ==
    ASSUME NEW res \in Resolutions, NEW base \in {0, kReadBase, kReplyBase}, NEW c \in 0..3,
           NEW cmd, cmd = base + ResolutionCode[res] + c
    PROVE  /\ CodedResolution(cmd) = res
           /\ cmd % 4 = c
           /\ cmd \in Byte
           /\ base = 0 <=> cmd < kReadBase
  <1>1. \A r, s \in Resolutions : ResolutionCode[r] = ResolutionCode[s] => r = s
    BY DEF Resolutions, ResolutionCode
  <1>2. PICK i \in 0..3, b \in {0, 4, 8} : ResolutionCode[res] = 4 * i /\ base = 4 * b
    BY Sizes DEF kReadBase, kReplyBase
  <1>a. cmd = 4 * (b + i) + c
    BY <1>2
  <1>b. cmd \div 4 = b + i /\ cmd % 4 = c
    BY <1>a
  <1>c. (b + i) % 4 = i
    OBVIOUS
  <1>3. cmd \in Byte /\ (base = 0 <=> cmd < kReadBase)
    BY Sizes DEF Byte, kReadBase, kReplyBase
  <1> QED
    BY <1>1, <1>2, <1>b, <1>c, <1>3 DEF CodedResolution

LEMMA Bounds ==
    /\ \A n \in Numbers : n \in Nat /\ n < 16384
    /\ \A c \in Counts : c \in Nat /\ c >= 1 /\ c < 256
  BY DEF Numbers, Counts

LEMMA Septets ==
    ASSUME NEW n \in Numbers
    PROVE  n \div 128 \in 0..127 /\ n % 128 \in 0..127 /\ n = (n % 128) + 128 * (n \div 128)
  <1> n \in Nat /\ n < 16384
    BY Bounds
  <1> QED
    OBVIOUS

LEMMA VaruintBytes ==
    ASSUME NEW n \in Numbers
    PROVE  /\ WriteVaruint(n) \in Seq(Byte)
           /\ Len(WriteVaruint(n)) = IF n < 128 THEN 1 ELSE 2
           /\ n < 128 => WriteVaruint(n)[1] = n
           /\ n >= 128 => /\ WriteVaruint(n)[1] = (n % 128) + 128
                          /\ WriteVaruint(n)[2] = n \div 128
  <1> n \in Nat /\ n < 16384
    BY Bounds
  <1>1. CASE n < 128
    <2>1. WriteVaruint(n) = <<n>> /\ n \in Byte
      BY <1>1 DEF WriteVaruint, Byte
    <2> QED
      BY <1>1, <2>1
  <1>2. CASE n >= 128
    <2> DEFINE low == (n % 128) + 128
               high == n \div 128
    <2>1. low \in Byte /\ high \in Byte
      BY Septets DEF Byte
    <2>2. WriteVaruint(n) = <<low, high>>
      BY <1>2 DEF WriteVaruint
    <2> HIDE DEF low, high
    <2>3. /\ WriteVaruint(n) \in Seq(Byte) /\ Len(WriteVaruint(n)) = 2
          /\ WriteVaruint(n)[1] = low /\ WriteVaruint(n)[2] = high
      BY <2>1, <2>2
    <2> USE DEF low, high
    <2> QED
      BY <1>2, <2>3
  <1> QED
    BY <1>1, <1>2

(* ReadVaruint reads the number WriteVaruint wrote, and stops behind it.    *)
LEMMA VaruintRead ==
    ASSUME NEW data \in Seq(Byte), NEW offset \in Nat, NEW n \in Numbers,
           offset + Len(WriteVaruint(n)) <= Len(data),
           \A j \in 1..Len(WriteVaruint(n)) : data[offset + j] = WriteVaruint(n)[j]
    PROVE  /\ VaruintEnd(data, offset) = offset + Len(WriteVaruint(n))
           /\ Varuint(data, offset) = n
  <1> n \in Nat /\ n < 16384
    BY Bounds
  <1> DEFINE end == offset + Len(WriteVaruint(n))
             Stops(e) == /\ e = offset + 5 \/ e = Len(data) \/ data[e] < 128
                         /\ \A k \in (offset + 1)..(e - 1) : data[k] >= 128 /\ k < offset + 5
  <1>1. VaruintEnd(data, offset) = CHOOSE e \in (offset + 1)..Len(data) : Stops(e)
    <2>1. offset # Len(data)
      BY VaruintBytes
    <2> QED
      BY <2>1, SMTT(30) DEF VaruintEnd
  <1>2. CASE n < 128
    <2>1. end = offset + 1 /\ data[offset + 1] = n
      BY <1>2, VaruintBytes
    <2>2. Stops(offset + 1) /\ \A e \in (offset + 1)..Len(data) : Stops(e) => e = offset + 1
      BY <1>2, <2>1
    <2> HIDE DEF Stops
    <2>3. VaruintEnd(data, offset) = offset + 1
      BY <1>1, <2>1, <2>2
    <2> QED
      BY <1>2, <2>1, <2>3 DEF Varuint
  <1>3. CASE n >= 128
    <2>1. /\ end = offset + 2
          /\ data[offset + 1] = (n % 128) + 128 /\ data[offset + 2] = n \div 128
      <3>1. /\ Len(WriteVaruint(n)) = 2
            /\ WriteVaruint(n)[1] = (n % 128) + 128 /\ WriteVaruint(n)[2] = n \div 128
        BY <1>3, VaruintBytes
      <3>2. data[offset + 1] = WriteVaruint(n)[1] /\ data[offset + 2] = WriteVaruint(n)[2]
        BY <3>1
      <3> QED
        BY <3>1, <3>2
    <2>2. n \div 128 \in 0..127 /\ n % 128 \in 0..127 /\ n = (n % 128) + 128 * (n \div 128)
      BY Septets
    <2>3. Stops(offset + 2) /\ \A e \in (offset + 1)..Len(data) : Stops(e) => e = offset + 2
      BY <2>1, <2>2
    <2> HIDE DEF Stops
    <2>4. VaruintEnd(data, offset) = offset + 2
      BY <1>1, <2>1, <2>3
    <2>5. ((n % 128) + 128) % 128 = n % 128 /\ (n \div 128) % 128 = n \div 128
      BY <2>2
    <2> QED
      BY <2>1, <2>2, <2>4, <2>5, SMTT(30) DEF Varuint
  <1> QED
    BY <1>2, <1>3

(* The bytes of an operation's framing: the command, the count when it does *)
(* not fit the command, and the register.                                   *)
Lead(count) == IF count <= 3 THEN 1 ELSE 2

Framed(framing, base, res, count, first) ==
    LET number == WriteVaruint(first)
    IN /\ framing \in Seq(Byte)
       /\ Len(framing) = Lead(count) + Len(number)
       /\ framing[1] = base + ResolutionCode[res] + (IF count <= 3 THEN count ELSE 0)
       /\ count > 3 => framing[2] = count
       /\ \A j \in 1..Len(number) : framing[Lead(count) + j] = number[j]

LEMMA FramingBytes ==
    ASSUME NEW base \in {0, kReadBase, kReplyBase}, NEW res \in Resolutions,
           NEW count \in Counts, NEW first \in Numbers
    PROVE  Framed(Framing(base, res, count, first), base, res, count, first)
  <1> count \in Nat /\ count >= 1 /\ count < 256
    BY Bounds
  <1> DEFINE number == WriteVaruint(first)
             cmd(c) == base + ResolutionCode[res] + c
  <1>1. number \in Seq(Byte) /\ Len(number) \in {1, 2}
    BY VaruintBytes
  <1>2. \A c \in 0..3 : cmd(c) \in Byte
    BY CommandByte
  <1> HIDE DEF number, cmd
  <1>3. CASE count <= 3
    <2>1. Framing(base, res, count, first) = <<cmd(count)>> \o number
      BY <1>3 DEF Framing, number, cmd
    <2>2. cmd(count) \in Byte
      BY <1>2, <1>3
    <2> DEFINE whole == <<cmd(count)>> \o number
    <2>3. /\ whole \in Seq(Byte) /\ Len(whole) = 1 + Len(number) /\ whole[1] = cmd(count)
          /\ \A j \in 1..Len(number) : whole[1 + j] = number[j]
      BY <1>1, <2>2
    <2> QED
      BY <1>3, <2>1, <2>3 DEF Framed, Lead, number, cmd
  <1>4. CASE count > 3
    <2>1. Framing(base, res, count, first) = <<cmd(0), count>> \o number
      <3>1. cmd(0) = base + ResolutionCode[res]
        BY Sizes DEF cmd, kReadBase, kReplyBase
      <3> QED
        BY <1>4, <3>1 DEF Framing, number
    <2>2. cmd(0) \in Byte /\ count \in Byte
      BY <1>2 DEF Byte
    <2> DEFINE whole == <<cmd(0), count>> \o number
    <2>3. /\ whole \in Seq(Byte) /\ Len(whole) = 2 + Len(number)
          /\ whole[1] = cmd(0) /\ whole[2] = count
          /\ \A j \in 1..Len(number) : whole[2 + j] = number[j]
      BY <1>1, <2>2
    <2> QED
      BY <1>4, <2>1, <2>3 DEF Framed, Lead, number, cmd
  <1> QED
    BY <1>3, <1>4

(* Where a framing stands in a sequence of bytes.                           *)
StandsAt(data, at, framing) ==
    /\ at + Len(framing) <= Len(data)
    /\ \A j \in 1..Len(framing) : data[at + j] = framing[j]

(* What the framing of an operation says is read back as it was written:    *)
(* its resolution, its count, its register, and where its values begin.     *)
THEOREM OperationReadBack ==
    ASSUME NEW base \in {0, kReadBase, kReplyBase}, NEW res \in Resolutions,
           NEW count \in Counts, NEW first \in Numbers,
           NEW data \in Seq(Byte), NEW at \in Nat,
           StandsAt(data, at, Framing(base, res, count, first))
    PROVE  LET cmd    == data[at + 1]
               long   == cmd % 4 = 0
               number == at + (IF long THEN 2 ELSE 1)
           IN /\ at < Len(data)
              /\ base = 0 <=> cmd < kReadBase
              /\ CodedResolution(cmd) = res
              /\ count = IF long THEN data[at + 2] ELSE cmd % 4
              /\ Varuint(data, number) = first
              /\ VaruintEnd(data, number) = at + Len(Framing(base, res, count, first))
  <1>0. Framed(Framing(base, res, count, first), base, res, count, first)
    BY FramingBytes
  <1> count \in Nat /\ count >= 1 /\ count < 256
    BY Bounds
  <1> DEFINE framing == Framing(base, res, count, first)
             written == WriteVaruint(first)
             cmd == data[at + 1]
             c == IF count <= 3 THEN count ELSE 0
             number == at + Lead(count)
  <1>1. /\ Len(framing) = Lead(count) + Len(written)
        /\ framing[1] = base + ResolutionCode[res] + c
        /\ count > 3 => framing[2] = count
        /\ \A j \in 1..Len(written) : framing[Lead(count) + j] = written[j]
    BY <1>0 DEF Framed
  <1>2. Len(written) \in {1, 2} /\ Lead(count) \in {1, 2} /\ (count > 3 => Lead(count) = 2)
    BY VaruintBytes DEF Lead
  <1>3. /\ at + Len(framing) <= Len(data)
        /\ \A j \in 1..Len(framing) : data[at + j] = framing[j]
    BY DEF StandsAt
  <1> HIDE DEF framing, written
  <1>4. cmd = base + ResolutionCode[res] + c /\ c \in 0..3
    BY <1>1, <1>2, <1>3, SMTT(30)
  <1>5. CodedResolution(cmd) = res /\ cmd % 4 = c /\ (base = 0 <=> cmd < kReadBase)
    BY <1>4, CommandByte, SMTT(30)
  <1>6. count > 3 => data[at + 2] = count
    BY <1>1, <1>2, <1>3
  <1>7. number \in Nat /\ number + Len(written) <= Len(data)
    BY <1>1, <1>2, <1>3, SMTT(30)
  <1>8. \A j \in 1..Len(written) : data[number + j] = written[j]
    <2> TAKE j \in 1..Len(written)
    <2>1. Lead(count) + j \in 1..Len(framing)
      BY <1>1, <1>2
    <2>2. number + j = at + (Lead(count) + j)
      BY <1>2
    <2> QED
      BY <1>1, <1>3, <2>1, <2>2
  <1>9. VaruintEnd(data, number) = number + Len(written) /\ Varuint(data, number) = first
    <2> HIDE DEF number
    <2> QED
      BY <1>7, <1>8, VaruintRead DEF written
  <1>10. number = at + (IF cmd % 4 = 0 THEN 2 ELSE 1)
    BY <1>5 DEF Lead
  <1>11. count = IF cmd % 4 = 0 THEN data[at + 2] ELSE cmd % 4
    BY <1>5, <1>6
  <1>12. at < Len(data) /\ number + Len(written) = at + Len(framing)
    BY <1>1, <1>2, <1>3
  <1>13. VaruintEnd(data, number) = at + Len(framing)
    BY <1>9, <1>12
  <1> HIDE DEF number
  <1> QED
    BY <1>5, <1>9, <1>10, <1>11, <1>12, <1>13 DEF framing

-----------------------------------------------------------------------------
(* The bytes of a value.                                                    *)

Place == <<1, 256, 65536, 16777216>>

LEMMA Little ==
    ASSUME NEW v \in Int, NEW size \in {1, 2, 4}
    PROVE  /\ LittleEndian(v, size) \in Seq(Byte)
           /\ Len(LittleEndian(v, size)) = size
           /\ \A i \in 1..size : LittleEndian(v, size)[i] = (v \div Place[i]) % 256
  <1> DEFINE byte(i) == (v \div Place[i]) % 256
  <1>1. LittleEndian(v, size) = [i \in 1..size |-> byte(i)]
    BY DEF LittleEndian, Place
  <1>2. ASSUME NEW i \in 1..size PROVE byte(i) \in Byte
    <2>1. Place[i] \in Nat /\ Place[i] > 0
      BY DEF Place
    <2>2. \A n \in Int : n % 256 \in Byte
      BY DEF Byte
    <2> QED
      BY <2>1, <2>2
  <1>3. \A i \in 1..size : LittleEndian(v, size)[i] = byte(i)
    BY <1>1
  <1>4. LittleEndian(v, size) \in Seq(Byte) /\ Len(LittleEndian(v, size)) = size
    <2> HIDE DEF byte
    <2> QED
      BY <1>1, <1>2
  <1> QED
    BY <1>3, <1>4

(* The doubles and integers a float stands for: the numbers, and the codes. *)
FloatCodes == {nan, inf, above, below, MaxOf("kInt32"), MinOf("kInt32")}

LEMMA Ends == MaxOf("kInt32") = 2147483647 /\ MinOf("kInt32") = -2147483647 - 1
  BY DEF MaxOf, MinOf

LEMMA FloatIs ==
    ASSUME NEW v \in FloatCodes \cup 0..126
    PROVE  FloatBytes(v) \in Seq(Byte) /\ Len(FloatBytes(v)) = 4
  <1>1. CASE v \in FloatCodes
    <2>1. {0, 78, 79, 127, 128, 192, 206, 207} \subseteq Byte
      BY DEF Byte
    <2>2. \E a, b, c, d \in Byte : FloatBytes(v) = <<a, b, c, d>>
      BY <1>1, <2>1, Ends DEF FloatBytes, FloatCodes, nan, inf, above, below
    <2> QED
      BY <2>2
  <1>2. CASE v \in 0..126
    <2>1. FloatBytes(v) = <<0, 0, v, 67>>
      BY <1>2, Ends DEF FloatBytes, nan, inf, above, below
    <2>2. {0, v, 67} \subseteq Byte
      BY <1>2 DEF Byte
    <2> QED
      BY <2>1, <2>2
  <1> QED
    BY <1>1, <1>2

(* A float is read back as it was written; the two ends of the integers     *)
(* under the names they have at every resolution.                           *)
LEMMA FloatRead ==
    ASSUME NEW v \in FloatCodes \cup 0..126
    PROVE  ReadValue(FloatBytes(v), "kFloat") =
              CASE v = MaxOf("kInt32") -> largest
                [] v = MinOf("kInt32") -> smallest
                [] OTHER -> v
  <1> DEFINE most == MaxOf("kInt32")
             least == MinOf("kInt32")
  <1>1. /\ FloatBytes(nan) = <<0, 0, 192, 127>> /\ FloatBytes(inf) = <<0, 0, 128, 127>>
        /\ FloatBytes(above) = <<0, 0, 128, 78>> /\ FloatBytes(below) = <<0, 0, 128, 206>>
        /\ FloatBytes(most) = <<0, 0, 0, 79>> /\ FloatBytes(least) = <<0, 0, 0, 207>>
    BY Ends DEF FloatBytes, nan, inf, above, below
  <1>2. v \in 0..126 => FloatBytes(v) = <<0, 0, v, 67>>
    BY Ends DEF FloatBytes, nan, inf, above, below
  <1>3. /\ most \notin {nan, inf, above, below, least} /\ least \notin {nan, inf, above, below}
        /\ \A n \in 0..126 : n \notin {nan, inf, above, below, most, least}
    BY Ends DEF nan, inf, above, below
  <1>4. \A bytes : ReadValue(bytes, "kFloat") =
           CASE bytes = FloatBytes(nan) -> nan
             [] bytes = FloatBytes(inf) -> inf
             [] bytes = FloatBytes(above) -> above
             [] bytes = FloatBytes(below) -> below
             [] bytes = FloatBytes(most) -> largest
             [] bytes = FloatBytes(least) -> smallest
             [] OTHER -> bytes[3]
    BY DEF ReadValue
  <1> HIDE DEF most, least
  <1>5. CASE v \in 0..126
    <2>1. FloatBytes(v)[4] = 67 /\ FloatBytes(v)[3] = v
      BY <1>2, <1>5
    <2>2. FloatBytes(v) \notin {FloatBytes(nan), FloatBytes(inf), FloatBytes(above),
                                FloatBytes(below), FloatBytes(most), FloatBytes(least)}
      BY <1>1, <2>1
    <2>3. ReadValue(FloatBytes(v), "kFloat") = FloatBytes(v)[3]
      BY <1>4, <2>2
    <2> QED
      BY <1>3, <1>5, <2>1, <2>3 DEF most, least
  <1>6. CASE v \in {nan, inf, above, below, most, least}
    <2>1. /\ FloatBytes(inf) # FloatBytes(nan)
          /\ FloatBytes(above) \notin {FloatBytes(nan), FloatBytes(inf)}
          /\ FloatBytes(below) \notin {FloatBytes(nan), FloatBytes(inf), FloatBytes(above)}
          /\ FloatBytes(most) \notin {FloatBytes(nan), FloatBytes(inf), FloatBytes(above),
                                       FloatBytes(below)}
          /\ FloatBytes(least) \notin {FloatBytes(nan), FloatBytes(inf), FloatBytes(above),
                                        FloatBytes(below), FloatBytes(most)}
      BY <1>1
    <2>2. /\ v = nan => ReadValue(FloatBytes(v), "kFloat") = nan
          /\ v = inf => ReadValue(FloatBytes(v), "kFloat") = inf
          /\ v = above => ReadValue(FloatBytes(v), "kFloat") = above
          /\ v = below => ReadValue(FloatBytes(v), "kFloat") = below
          /\ v = most => ReadValue(FloatBytes(v), "kFloat") = largest
          /\ v = least => ReadValue(FloatBytes(v), "kFloat") = smallest
      BY <1>4, <2>1
    <2> QED
      BY <1>3, <1>6, <2>2 DEF most, least
  <1> QED
    BY <1>5, <1>6 DEF FloatCodes, most, least

(* Every value a caller gives takes the bytes of its resolution.            *)
LEMMA MappedBytes ==
    ASSUME NEW v \in Given, NEW res \in Resolutions
    PROVE  /\ WriteMapped(v, res) \in Seq(Byte)
           /\ Len(WriteMapped(v, res)) = ResolutionSize(res)
  <1>1. CASE res = "kFloat"
    BY <1>1, FloatIs DEF WriteMapped, ResolutionSize, Given, FloatCodes
  <1>2. CASE res # "kFloat"
    <2>1. MaxOf(res) \in Int
      BY <1>2 DEF Resolutions, MaxOf
    <2>2. v \in Int
      BY DEF Given, nan, inf, above, below
    <2>3. Saturate(v, res) \in Int
      BY <2>1, <2>2 DEF Saturate, MinOf
    <2> DEFINE size == ResolutionSize(res)
               number == Saturate(v, res)
    <2>4. WriteMapped(v, res) = LittleEndian(number, size)
      BY <1>2 DEF WriteMapped
    <2>5. size \in {1, 2, 4}
      BY Sizes
    <2> HIDE DEF size, number
    <2>6. LittleEndian(number, size) \in Seq(Byte) /\ Len(LittleEndian(number, size)) = size
      BY <2>3, <2>5, Little, ZenonT(60) DEF number
    <2> QED
      BY <2>4, <2>6 DEF size
  <1> QED
    BY <1>1, <1>2

(* So does what is written as an integer.                                   *)
LEMMA IntegerBytes ==
    ASSUME NEW n \in Undefined \cup {above, below} \cup 0..126, NEW res \in Resolutions
    PROVE  /\ WriteInt(n, res) \in Seq(Byte)
           /\ Len(WriteInt(n, res)) = ResolutionSize(res)
  <1>1. CASE res = "kFloat"
    <2>1. n \in FloatCodes \cup 0..126
      BY DEF Undefined, FloatCodes
    <2>2. WriteInt(n, res) = FloatBytes(n) /\ ResolutionSize(res) = 4
      BY <1>1 DEF WriteInt, ResolutionSize
    <2> QED
      BY <2>1, <2>2, FloatIs
  <1>2. CASE res # "kFloat"
    <2>1. MaxOf(res) \in Int
      BY <1>2 DEF Resolutions, MaxOf
    <2>2. n \in Int
      BY Ends DEF Undefined, above, below
    <2>3. Clamped(n, res) \in Int
      BY <2>1, <2>2 DEF Clamped
    <2> DEFINE size == ResolutionSize(res)
               number == Clamped(n, res)
    <2>4. WriteInt(n, res) = LittleEndian(number, size)
      BY <1>2 DEF WriteInt
    <2>5. size \in {1, 2, 4}
      BY Sizes
    <2> HIDE DEF size, number
    <2>6. LittleEndian(number, size) \in Seq(Byte) /\ Len(LittleEndian(number, size)) = size
      BY <2>3, <2>5, Little, ZenonT(60) DEF number
    <2> QED
      BY <2>4, <2>6 DEF size
  <1> QED
    BY <1>1, <1>2

(* What a field is written as takes the bytes of its resolution.            *)
LEMMA WriteBytes ==
    ASSUME NEW writer, NEW v \in Given, NEW res \in Resolutions, NEW u \in Undefined
    PROVE  /\ Write(writer, v, res, u) \in Seq(Byte)
           /\ Len(Write(writer, v, res, u)) = ResolutionSize(res)
  <1>1. Int32(v, u) \in Undefined \cup {above, below} \cup 0..126
    BY DEF Int32, Given
  <1>2. CASE writer = "WriteInt"
    BY <1>1, <1>2, IntegerBytes DEF Write
  <1>3. CASE writer # "WriteInt"
    BY <1>3, MappedBytes DEF Write
  <1> QED
    BY <1>2, <1>3

LEMMA Remainder ==
    ASSUME NEW a \in Int, NEW r \in Byte, \E q \in Int : a = 256 * q + r
    PROVE  a % 256 = r
  BY SMT DEF Byte

LEMMA TopByte ==
    ASSUME NEW a \in Int, NEW p \in {256, 16777216},
           \E s \in Int : a = s - 128 * p /\ 0 <= s /\ s < p
    PROVE  (a \div p) % 256 = 128
  <1>1. a \div p \in Int /\ a \div p = 0 - 128
    BY SMT
  <1>2. 0 - 128 = 256 * (0 - 1) + 128
    BY SMT
  <1>3. 128 \in Byte /\ \E q \in Int : a \div p = 256 * q + 128
    BY <1>1, <1>2 DEF Byte
  <1> QED
    BY ONLY Remainder, <1>1, <1>3

(* The lowest and the highest byte of an integer: those of the three codes  *)
(* differ from each other, and from those of a small number.                *)
Low(v, res) == LittleEndian(v, ResolutionSize(res))[1]
High(v, res) == LittleEndian(v, ResolutionSize(res))[ResolutionSize(res)]

LEMMA LowHigh ==
    ASSUME NEW res \in Resolutions, NEW v \in Int
    PROVE  /\ Low(v, res) = v % 256
           /\ High(v, res) = (v \div Place[ResolutionSize(res)]) % 256
  <1> DEFINE size == ResolutionSize(res)
  <1>1. size \in {1, 2, 4}
    BY Sizes
  <1>2. v \div Place[1] = v
    BY DEF Place
  <1> HIDE DEF size
  <1>3. \A i \in 1..size : LittleEndian(v, size)[i] = (v \div Place[i]) % 256
    BY <1>1, Little, SMTT(30)
  <1> QED
    BY <1>1, <1>2, <1>3 DEF Low, High, size

LEMMA CodeBytes ==
    ASSUME NEW res \in Resolutions, res # "kFloat"
    PROVE  /\ MaxOf(res) \in Int /\ MinOf(res) \in Int
           /\ Low(MinOf(res), res) = (IF res = "kInt8" THEN 128 ELSE 0)
           /\ Low(MaxOf(res), res) = (IF res = "kInt8" THEN 127 ELSE 255)
           /\ Low(-MaxOf(res), res) = (IF res = "kInt8" THEN 129 ELSE 1)
           /\ res # "kInt8" => High(MinOf(res), res) = 128
           /\ res # "kInt8" => High(-MaxOf(res), res) = 128
           /\ res # "kInt8" => High(MaxOf(res), res) = 127
  <1> DEFINE least == MinOf(res)
             most == MaxOf(res)
             negated == -MaxOf(res)
  <1>1. least \in Int /\ most \in Int /\ negated \in Int
    BY DEF Resolutions, MinOf, MaxOf
  <1>2. {0, 1, 127, 128, 129, 255} \subseteq Byte
    BY DEF Byte
  <1>3. CASE res = "kInt8"
    <2>1. least = 256 * (0 - 1) + 128 /\ most = 256 * 0 + 127 /\ negated = 256 * (0 - 1) + 129
      BY <1>3 DEF MinOf, MaxOf
    <2> HIDE DEF least, most, negated
    <2>2. /\ \E q \in Int : least = 256 * q + 128
          /\ \E q \in Int : most = 256 * q + 127
          /\ \E q \in Int : negated = 256 * q + 129
      BY <2>1
    <2>3. least % 256 = 128 /\ most % 256 = 127 /\ negated % 256 = 129
      BY ONLY <1>1, <1>2, <2>2, Remainder
    <2> QED
      BY <1>1, <1>3, <2>3, LowHigh DEF least, most, negated
  <1>4. CASE res \in {"kInt16", "kInt32"}
    <2> DEFINE p == IF res = "kInt16" THEN 256 ELSE 16777216
               half == IF res = "kInt16" THEN 128 ELSE 8388608
    <2>1. /\ least = 256 * (0 - half) + 0 /\ most = 256 * (half - 1) + 255
          /\ negated = 256 * (0 - half) + 1
          /\ least = 0 - 128 * p /\ negated = 1 - 128 * p /\ most = 127 * p + (p - 1)
      BY <1>4 DEF MinOf, MaxOf
    <2>2. p = Place[ResolutionSize(res)] /\ p \in {256, 16777216} /\ half \in Int
      BY <1>4 DEF Place, ResolutionSize
    <2> HIDE DEF least, most, negated, p, half
    <2>3. /\ \E q \in Int : least = 256 * q + 0
          /\ \E q \in Int : most = 256 * q + 255
          /\ \E q \in Int : negated = 256 * q + 1
      BY <2>1, <2>2
    <2>4. least % 256 = 0 /\ most % 256 = 255 /\ negated % 256 = 1
      BY ONLY <1>1, <1>2, <2>3, Remainder
    <2>5. /\ \E s \in Int : least = s - 128 * p /\ 0 <= s /\ s < p
          /\ \E s \in Int : negated = s - 128 * p /\ 0 <= s /\ s < p
      BY <2>1, <2>2
    <2>6. (least \div p) % 256 = 128 /\ (negated \div p) % 256 = 128
      BY ONLY <1>1, <2>2, <2>5, TopByte
    <2>7. (most \div p) % 256 = 127
      <3>1. most \div p = 127
        BY <2>1, <2>2
      <3>2. 127 \in Byte /\ \E q \in Int : most \div p = 256 * q + 127
        BY <1>2, <3>1
      <3> QED
        BY <3>1, <3>2, Remainder
    <2> QED
      BY <1>1, <1>4, <2>2, <2>4, <2>6, <2>7, LowHigh DEF least, most, negated
  <1> QED
    BY <1>3, <1>4 DEF Resolutions

(* At 32 bits, the large integers have a highest byte of their own.         *)
LEMMA LargeBytes ==
    /\ above \in Int /\ High(above, "kInt32") = 64
    /\ below \in Int /\ High(below, "kInt32") = 192
  <1>1. /\ above \in Int /\ above = 64 * 16777216 /\ below \in Int /\ below = (0 - 64) * 16777216
    BY DEF above, below
  <1>2. "kInt32" \in Resolutions /\ Place[ResolutionSize("kInt32")] = 16777216
    BY DEF Resolutions, Place, ResolutionSize
  <1>3. above \div 16777216 = 64 /\ below \div 16777216 = 0 - 64
    BY <1>1
  <1>4. (above \div 16777216) % 256 = 64 /\ (below \div 16777216) % 256 = 192
    <2>1. 64 \in Byte /\ 192 \in Byte
      BY DEF Byte
    <2>2. /\ \E q \in Int : above \div 16777216 = 256 * q + 64
          /\ \E q \in Int : below \div 16777216 = 256 * q + 192
      <3>1. above \div 16777216 = 256 * 0 + 64 /\ below \div 16777216 = 256 * (0 - 1) + 192
        BY <1>3
      <3> DEFINE a == above \div 16777216
                 b == below \div 16777216
      <3> HIDE DEF a, b
      <3>2. a = 256 * 0 + 64 /\ b = 256 * (0 - 1) + 192
        BY <3>1 DEF a, b
      <3>3. (\E q \in Int : a = 256 * q + 64) /\ (\E q \in Int : b = 256 * q + 192)
        BY <3>2
      <3> QED
        BY <3>3 DEF a, b
    <2>3. above \div 16777216 \in Int /\ below \div 16777216 \in Int
      BY <1>3
    <2> QED
      BY ONLY <2>1, <2>2, <2>3, Remainder
  <1> QED
    BY <1>1, <1>2, <1>4, LowHigh

(* What the bytes of an integer are read as.                                *)
Code(n, res) == LittleEndian(n, ResolutionSize(res))

LEMMA IntegerRead ==
    ASSUME NEW res \in Resolutions, res # "kFloat"
    PROVE  /\ ReadValue(Code(MinOf(res), res), res) = nan
           /\ ReadValue(Code(MaxOf(res), res), res) = largest
           /\ ReadValue(Code(-MaxOf(res), res), res) = smallest
           /\ \A v \in 0..126 : ReadValue(Code(v, res), res) = v
           /\ res = "kInt32" => /\ ReadValue(Code(above, res), res) = above
                                /\ ReadValue(Code(below, res), res) = below
  <1> DEFINE code(n) == Code(n, res)
             least == MinOf(res)
             most == MaxOf(res)
             negated == -MaxOf(res)
  <1>1. \A bytes : ReadValue(bytes, res) =
           CASE bytes = code(least) -> nan
             [] bytes = code(most) -> largest
             [] bytes = code(negated) -> smallest
             [] res = "kInt32" /\ bytes = code(above) -> above
             [] res = "kInt32" /\ bytes = code(below) -> below
             [] OTHER -> bytes[1]
    <2>1. res = "kInt32" => ResolutionSize(res) = 4
      BY DEF ResolutionSize
    <2> QED
      BY <2>1 DEF ReadValue, Code
  <1>2. /\ Low(least, res) = (IF res = "kInt8" THEN 128 ELSE 0)
        /\ Low(most, res) = (IF res = "kInt8" THEN 127 ELSE 255)
        /\ Low(negated, res) = (IF res = "kInt8" THEN 129 ELSE 1)
        /\ res # "kInt8" => High(least, res) = 128
        /\ res # "kInt8" => High(negated, res) = 128
        /\ res # "kInt8" => High(most, res) = 127
    BY CodeBytes
  <1>3. \A m, n : code(m) = code(n) => Low(m, res) = Low(n, res) /\ High(m, res) = High(n, res)
    BY DEF Low, High, Code
  <1>4. res = "kInt32" => High(above, res) = 64 /\ High(below, res) = 192
    BY LargeBytes
  <1> HIDE DEF least, most, negated, code
  <1>5. /\ code(most) # code(least) /\ code(negated) \notin {code(least), code(most)}
        /\ res = "kInt32" => /\ code(above) \notin {code(least), code(most), code(negated)}
                             /\ code(below) \notin {code(least), code(most), code(negated), code(above)}
    BY <1>2, <1>3, <1>4
  <1>6. ASSUME NEW v \in 0..126 PROVE ReadValue(code(v), res) = v
    <2>1. Low(v, res) = v
      BY LowHigh
    <2>2. res # "kInt8" => High(v, res) = 0
      <3>1. SUFFICES ASSUME res # "kInt8" PROVE High(v, res) = 0
        OBVIOUS
      <3> DEFINE p == Place[ResolutionSize(res)]
      <3>2. p \in {256, 16777216}
        BY <3>1 DEF Resolutions, ResolutionSize, Place
      <3>3. v \div p = 0
        BY <3>2
      <3> QED
        BY <3>3, LowHigh
    <2>3. code(v) \notin {code(least), code(most), code(negated)}
      BY <1>2, <1>3, <2>1, <2>2
    <2>4. res = "kInt32" => code(v) \notin {code(above), code(below)}
      BY <1>3, <1>4, <2>2
    <2>5. ReadValue(code(v), res) = code(v)[1]
      BY <1>1, <2>3, <2>4
    <2> QED
      BY <2>1, <2>5 DEF Low, code, Code
  <1>7. /\ ReadValue(code(least), res) = nan
        /\ ReadValue(code(most), res) = largest
        /\ ReadValue(code(negated), res) = smallest
    BY <1>1, <1>5
  <1>8. res = "kInt32" => /\ ReadValue(code(above), res) = above
                         /\ ReadValue(code(below), res) = below
    BY <1>1, <1>5
  <1> QED
    BY <1>6, <1>7, <1>8 DEF code, least, most, negated

(* A value written by its scale is read back as it was given: saturated     *)
(* with its sign when it does not fit, and NaN only when it is not finite.  *)
LEMMA MappedReadBack ==
    ASSUME NEW v \in Given, NEW res \in Resolutions
    PROVE  ReadValue(WriteMapped(v, res), res) = Meant(v, res)
  <1>1. CASE res = "kFloat"
    <2>1. v \in FloatCodes \cup 0..126 /\ v # MaxOf("kInt32") /\ v # MinOf("kInt32")
      BY Ends DEF Given, FloatCodes, nan, inf, above, below
    <2> QED
      BY <1>1, <2>1, FloatRead DEF WriteMapped, Meant
  <1>2. CASE res # "kFloat"
    <2>1. WriteMapped(v, res) = Code(Saturate(v, res), res)
      BY <1>2 DEF WriteMapped, Code
    <2>2. CASE v \in 0..126
      <3>1. Saturate(v, res) = v /\ Meant(v, res) = v
        BY <1>2, <2>2 DEF Saturate, Meant, nan, inf, above, below
      <3> QED
        BY <1>2, <2>1, <2>2, <3>1, IntegerRead
    <2>3. CASE v \in {nan, inf}
      <3>1. Saturate(v, res) = MinOf(res) /\ Meant(v, res) = nan
        BY <1>2, <2>3 DEF Saturate, Meant, nan, inf, above, below
      <3> QED
        BY <1>2, <2>1, <3>1, IntegerRead
    <2>4. CASE v = above
      <3>1. Saturate(v, res) = MaxOf(res) /\ Meant(v, res) = largest
        BY <1>2, <2>4 DEF Saturate, Meant, nan, inf, above, below
      <3> QED
        BY <1>2, <2>1, <3>1, IntegerRead
    <2>5. CASE v = below
      <3>1. Saturate(v, res) = -MaxOf(res) /\ Meant(v, res) = smallest
        BY <1>2, <2>5 DEF Saturate, Meant, nan, inf, above, below
      <3> QED
        BY <1>2, <2>1, <3>1, IntegerRead
    <2> QED
      BY <2>2, <2>3, <2>4, <2>5 DEF Given
  <1> QED
    BY <1>1, <1>2

(* An integer is clamped at 8 and 16 bits, and is itself at 32 and as a     *)
(* float.                                                                   *)
LEMMA ClampedIs ==
    ASSUME NEW res \in {"kInt8", "kInt16"}
    PROVE  /\ \A n \in 0..126 : Clamped(n, res) = n
           /\ Clamped(above, res) = MaxOf(res) /\ Clamped(below, res) = -MaxOf(res)
           /\ Clamped(MaxOf("kInt32"), res) = MaxOf(res)
           /\ Clamped(MinOf("kInt32"), res) = -MaxOf(res)
  <1>1. MaxOf(res) \in {127, 32767} /\ res # "kInt32"
    BY DEF MaxOf
  <1> DEFINE m == MaxOf(res)
  <1>2. \A n : Clamped(n, res) = CASE n > m -> m [] n < -m -> -m [] OTHER -> n
    BY <1>1 DEF Clamped
  <1> HIDE DEF m
  <1>3. m \in {127, 32767}
    BY <1>1 DEF m
  <1>4. \A n \in 0..126 : ~(n > m) /\ ~(n < -m)
    BY <1>3
  <1>5. \A n \in {above, MaxOf("kInt32")} : n > m /\ ~(n < -m)
    BY <1>3, Ends DEF above
  <1>6. \A n \in {below, MinOf("kInt32")} : n < -m /\ ~(n > m)
    BY <1>3, Ends DEF below
  <1>7. /\ \A n \in 0..126 : Clamped(n, res) = n
        /\ \A n \in {above, MaxOf("kInt32")} : Clamped(n, res) = m
        /\ \A n \in {below, MinOf("kInt32")} : Clamped(n, res) = -m
    BY <1>2, <1>4, <1>5, <1>6
  <1> QED
    BY <1>7 DEF m

LEMMA IntegerReadBack ==
    ASSUME NEW v \in Given, NEW res \in Resolutions, NEW u \in Undefined
    PROVE  ReadValue(WriteInt(Int32(v, u), res), res) \in MayRead("WriteInt", v, res)
  <1> DEFINE n == Int32(v, u)
             most == MaxOf("kInt32")
             least == MinOf("kInt32")
             read == ReadValue(WriteInt(n, res), res)
  <1>0. /\ v \in {nan, inf} => n \in {0, most, least}
        /\ v \notin {nan, inf} => n = v /\ v \in {above, below} \cup 0..126
    BY DEF Int32, Undefined, Given
  <1>1. /\ v \in {nan, inf} => MayRead("WriteInt", v, res) =
                                  {0, largest, IF res = "kInt32" THEN nan ELSE smallest}
        /\ v \notin {nan, inf} /\ res = "kInt32" => MayRead("WriteInt", v, res) = {v}
        /\ v \notin {nan, inf} /\ res # "kInt32" => MayRead("WriteInt", v, res) = {Meant(v, res)}
    BY DEF MayRead
  <1>2. /\ most # least /\ most \notin {nan, inf, above, below} /\ least \notin {nan, inf, above, below}
        /\ \A k \in 0..126 : k \notin {nan, inf, above, below, most, least}
        /\ above # below /\ above \notin {nan, inf} /\ below \notin {nan, inf} /\ 0 \in 0..126
    BY Ends DEF nan, inf, above, below
  <1>3. CASE res = "kFloat"
    <2>1. WriteInt(n, res) = FloatBytes(n)
      BY <1>3 DEF WriteInt
    <2>2. n \in FloatCodes \cup 0..126
      BY <1>0, <1>2 DEF FloatCodes
    <2>3. read = CASE n = most -> largest [] n = least -> smallest [] OTHER -> n
      BY <1>3, <2>1, <2>2, FloatRead
    <2>4. v \notin {nan, inf} => Meant(v, res) = v
      BY <1>3 DEF Meant
    <2> HIDE DEF n, most, least, read
    <2>5. CASE v \in {nan, inf}
      <3>1. read \in {0, largest, smallest}
        BY <1>0, <1>2, <2>3, <2>5
      <3> QED
        BY <1>1, <1>3, <2>5, <3>1 DEF read, n
    <2>6. CASE v \notin {nan, inf}
      <3>1. n = v /\ n # most /\ n # least
        BY <1>0, <1>2, <2>6
      <3>2. read = v
        BY <2>3, <3>1
      <3> QED
        BY <1>1, <1>3, <2>4, <2>6, <3>2 DEF read, n
    <2> QED
      BY <2>5, <2>6
  <1>4. CASE res = "kInt32"
    <2>1. WriteInt(n, res) = Code(n, res)
      BY <1>4 DEF WriteInt, Clamped, Code
    <2>2. /\ ReadValue(Code(least, res), res) = nan
          /\ ReadValue(Code(most, res), res) = largest
          /\ \A k \in 0..126 : ReadValue(Code(k, res), res) = k
          /\ ReadValue(Code(above, res), res) = above
          /\ ReadValue(Code(below, res), res) = below
      BY <1>4, IntegerRead
    <2>3. read = ReadValue(Code(n, res), res)
      BY <2>1
    <2> HIDE DEF n, most, least, read
    <2>5. CASE v \in {nan, inf}
      <3>1. read \in {0, largest, nan}
        BY <1>0, <1>2, <2>2, <2>3, <2>5
      <3> QED
        BY <1>1, <1>4, <2>5, <3>1 DEF read, n
    <2>6. CASE v \notin {nan, inf}
      <3>1. read = v
        BY <1>0, <2>2, <2>3, <2>6
      <3> QED
        BY <1>1, <1>4, <2>6, <3>1 DEF read, n
    <2> QED
      BY <2>5, <2>6
  <1>5. CASE res \in {"kInt8", "kInt16"}
    <2>1. read = ReadValue(Code(Clamped(n, res), res), res) /\ res # "kFloat" /\ res # "kInt32"
      BY <1>5 DEF WriteInt, Code
    <2>2. /\ ReadValue(Code(MaxOf(res), res), res) = largest
          /\ ReadValue(Code(-MaxOf(res), res), res) = smallest
          /\ \A k \in 0..126 : ReadValue(Code(k, res), res) = k
      BY <2>1, IntegerRead
    <2>3. /\ \A k \in 0..126 : Clamped(k, res) = k
          /\ Clamped(above, res) = MaxOf(res) /\ Clamped(below, res) = -MaxOf(res)
          /\ Clamped(most, res) = MaxOf(res) /\ Clamped(least, res) = -MaxOf(res)
      BY <1>5, ClampedIs
    <2>4. /\ v = above => Meant(v, res) = largest
          /\ v = below => Meant(v, res) = smallest
          /\ v \in 0..126 => Meant(v, res) = v
      BY <1>2, <2>1 DEF Meant
    <2> HIDE DEF n, most, least, read
    <2>5. CASE v \in {nan, inf}
      <3>1. read \in {0, largest, smallest}
        BY <1>0, <1>2, <2>1, <2>2, <2>3, <2>5
      <3> QED
        BY <1>1, <2>1, <2>5, <3>1 DEF read, n
    <2>6. CASE v \notin {nan, inf}
      <3>1. read = Meant(v, res)
        BY <1>0, <2>1, <2>2, <2>3, <2>4, <2>6
      <3> QED
        BY <1>1, <2>1, <2>6, <3>1 DEF read, n
    <2> QED
      BY <2>5, <2>6
  <1> QED
    BY <1>3, <1>4, <1>5 DEF Resolutions

(* What the controller reads in a field's register is what the field was    *)
(* given.  By its scale: saturated with its sign when it does not fit, and  *)
(* NaN only when it is not finite.  As an integer: clamped at 8 and 16      *)
(* bits, itself at 32; and of a double that has no integer, zero or an end. *)
THEOREM ValueReadBack ==
    ASSUME NEW writer, NEW v \in Given, NEW res \in Resolutions, NEW u \in Undefined
    PROVE  ReadValue(Write(writer, v, res, u), res) \in MayRead(writer, v, res)
  <1>1. CASE writer = "WriteInt"
    <2>1. Write(writer, v, res, u) = WriteInt(Int32(v, u), res)
      BY <1>1 DEF Write
    <2>2. MayRead(writer, v, res) = MayRead("WriteInt", v, res)
      BY <1>1
    <2> QED
      BY <2>1, <2>2, IntegerReadBack
  <1>2. CASE writer # "WriteInt"
    <2>1. Write(writer, v, res, u) = WriteMapped(v, res)
      BY <1>2 DEF Write
    <2>2. MayRead(writer, v, res) = {Meant(v, res)}
      BY <1>2 DEF MayRead
    <2> QED
      BY <2>1, <2>2, MappedReadBack
  <1> QED
    BY <1>1, <1>2

-----------------------------------------------------------------------------
(* The runs of a combiner.                                                  *)

Run(r, i, n) ==
    /\ n \in 1..(Len(r) - i + 1)
    /\ \A k \in i..(i + n - 1) : r[k] = r[i]
    /\ i + n <= Len(r) => r[i + n] # r[i]

LEMMA RunExists ==
    ASSUME NEW S, NEW r \in Seq(S), NEW i \in 1..Len(r)
    PROVE  Run(r, i, RunLength(r, i))
  <1> DEFINE Breaks == {n \in 1..(Len(r) - i + 1) : i + n <= Len(r) => r[i + n] # r[i]}
  <1>1. Len(r) - i + 1 \in Breaks /\ Breaks \in SUBSET Nat
    OBVIOUS
  <1>2. PICK n \in Breaks : \A m \in Breaks : n <= m
    <2> HIDE DEF Breaks
    <2>1. PICK n \in Breaks : \A m \in Breaks : ~(<<m, n>> \in OpToRel(<, Nat))
      BY <1>1, NatLessThanWellFounded, WFMin
    <2>2. \A m \in Breaks : ~(m < n)
      BY <1>1, <2>1 DEF OpToRel
    <2> QED
      BY <1>1, <2>2
  <1>3. ASSUME NEW k \in i..(i + n - 1), r[k] # r[i] PROVE FALSE
    <2>1. k - i \in Breaks /\ k - i < n /\ k - i \in Nat /\ n \in Nat
      BY <1>3
    <2> HIDE DEF Breaks
    <2>2. n <= k - i
      BY <1>2, <2>1
    <2> QED
      BY <2>1, <2>2
  <1>4. Run(r, i, n)
    BY <1>2, <1>3 DEF Run
  <1> QED
    BY <1>4 DEF Run, RunLength

LEMMA RunUnique ==
    ASSUME NEW S, NEW r \in Seq(S), NEW i \in 1..Len(r), NEW m, NEW n,
           Run(r, i, m), Run(r, i, n)
    PROVE  m = n
  <1>1. m \in Nat /\ n \in Nat
    BY DEF Run
  <1>2. ~(m < n)
    <2>1. SUFFICES ASSUME m < n PROVE FALSE
      OBVIOUS
    <2>2. i + m \in i..(i + n - 1) /\ i + m <= Len(r)
      BY <1>1, <2>1 DEF Run
    <2> QED
      BY <2>2 DEF Run
  <1>3. ~(n < m)
    <2>1. SUFFICES ASSUME n < m PROVE FALSE
      OBVIOUS
    <2>2. i + n \in i..(i + m - 1) /\ i + n <= Len(r)
      BY <1>1, <2>1 DEF Run
    <2> QED
      BY <2>2 DEF Run
  <1> QED
    BY <1>1, <1>2, <1>3

(* Inside a run one register fewer is left; a run of one ends with it.      *)
LEMMA RunNext ==
    ASSUME NEW S, NEW r \in Seq(S), NEW i \in 1..Len(r)
    PROVE  /\ RunLength(r, i) \in 1..(Len(r) - i + 1)
           /\ i < Len(r) /\ r[i + 1] = r[i] => RunLength(r, i) = RunLength(r, i + 1) + 1
           /\ ~(i < Len(r) /\ r[i + 1] = r[i]) => RunLength(r, i) = 1
  <1>1. Run(r, i, RunLength(r, i))
    BY RunExists
  <1>2. ASSUME i < Len(r), r[i + 1] = r[i] PROVE RunLength(r, i) = RunLength(r, i + 1) + 1
    <2> DEFINE n == RunLength(r, i + 1)
    <2>1. i + 1 \in 1..Len(r)
      BY <1>2
    <2>2. Run(r, i + 1, n)
      BY <2>1, RunExists
    <2> HIDE DEF n
    <2>3. Run(r, i, n + 1)
      BY <1>2, <2>1, <2>2 DEF Run
    <2> QED
      BY <1>1, <2>3, RunUnique DEF n
  <1>3. ASSUME ~(i < Len(r) /\ r[i + 1] = r[i]) PROVE RunLength(r, i) = 1
    <2>1. Run(r, i, 1)
      BY <1>3 DEF Run
    <2> QED
      BY <1>1, <2>1, RunUnique
  <1>4. RunLength(r, i) \in 1..(Len(r) - i + 1)
    BY <1>1 DEF Run
  <1> QED
    BY <1>2, <1>3, <1>4

-----------------------------------------------------------------------------
(* A frame is a sequence of operations.  One of them is its framing and,    *)
(* for a write, the words of the values written so far.  `cuts` says where  *)
(* each ends in the frame, `sums` by how much the reply has grown by then.  *)

Operation == [base : {0, kReadBase}, res : Resolutions, count : Counts, first : Numbers,
              words : Seq(Seq(Byte))]

FramingOf(op) == Framing(op.base, op.res, op.count, op.first)

Length(op) == Len(FramingOf(op)) + Len(op.words) * ResolutionSize(op.res)

OwedFor(op) == IF op.base = kReadBase THEN Owed(FramingOf(op), op.count, op.res) ELSE 0

Stands(data, at, op) ==
    /\ StandsAt(data, at, FramingOf(op))
    /\ op.base = kReadBase => op.words = << >>
    /\ \A m \in 1..Len(op.words) :
          /\ Len(op.words[m]) = ResolutionSize(op.res)
          /\ StandsAt(data, at + Len(FramingOf(op)) + (m - 1) * ResolutionSize(op.res),
                      op.words[m])

LaidOut(data, ops, cuts, sums) ==
    /\ ops \in Seq(Operation)
    /\ cuts \in [0..Len(ops) -> Nat] /\ sums \in [0..Len(ops) -> Nat]
    /\ cuts[0] = 0 /\ sums[0] = 0 /\ cuts[Len(ops)] = Len(data)
    /\ \A k \in 1..Len(ops) :
          /\ cuts[k] = cuts[k - 1] + Length(ops[k])
          /\ sums[k] = sums[k - 1] + OwedFor(ops[k])
          /\ Stands(data, cuts[k - 1], ops[k])

LEMMA OperationSizes ==
    ASSUME NEW op \in Operation
    PROVE  /\ FramingOf(op) \in Seq(Byte) /\ Len(FramingOf(op)) \in Nat \ {0}
           /\ ResolutionSize(op.res) \in {1, 2, 4}
           /\ Length(op) \in Nat \ {0} /\ OwedFor(op) \in Nat
  <1> DEFINE size == ResolutionSize(op.res)
             framing == FramingOf(op)
  <1>1. /\ op.base \in {0, kReadBase, kReplyBase} /\ op.res \in Resolutions
        /\ op.count \in Counts /\ op.first \in Numbers /\ op.words \in Seq(Seq(Byte))
    BY DEF Operation
  <1>2. Framed(framing, op.base, op.res, op.count, op.first)
    BY <1>1, FramingBytes DEF FramingOf
  <1>3. size \in {1, 2, 4}
    BY <1>1, Sizes
  <1>4. Len(WriteVaruint(op.first)) \in {1, 2}
    BY <1>1, VaruintBytes
  <1> HIDE DEF framing, size
  <1>5. framing \in Seq(Byte) /\ Len(framing) \in Nat \ {0}
    BY <1>2, <1>4 DEF Framed, Lead
  <1>6. Len(op.words) \in Nat /\ op.count \in Nat
    BY <1>1, Bounds
  <1>7. Len(op.words) * size \in Nat /\ op.count * size \in Nat
    BY <1>3, <1>6
  <1> QED
    BY <1>3, <1>5, <1>7 DEF Length, OwedFor, Owed, framing, size

LEMMA StandsStill ==
    ASSUME NEW data \in Seq(Byte), NEW more \in Seq(Byte), NEW at \in Nat, NEW x \in Seq(Byte),
           StandsAt(data, at, x)
    PROVE  StandsAt(data \o more, at, x)
  BY DEF StandsAt

LEMMA StandsAtEnd ==
    ASSUME NEW data \in Seq(Byte), NEW x \in Seq(Byte)
    PROVE  StandsAt(data \o x, Len(data), x)
  BY DEF StandsAt

LEMMA OperationStill ==
    ASSUME NEW data \in Seq(Byte), NEW more \in Seq(Byte), NEW at \in Nat, NEW op \in Operation,
           Stands(data, at, op)
    PROVE  Stands(data \o more, at, op)
  <1> DEFINE size == ResolutionSize(op.res)
             framing == FramingOf(op)
  <1>1. framing \in Seq(Byte) /\ Len(framing) \in Nat /\ size \in {1, 2, 4}
    BY OperationSizes
  <1>2. StandsAt(data \o more, at, framing)
    BY <1>1, StandsStill DEF Stands
  <1>3. ASSUME NEW m \in 1..Len(op.words)
        PROVE  StandsAt(data \o more, at + Len(framing) + (m - 1) * size, op.words[m])
    <2>1. op.words[m] \in Seq(Byte) /\ m \in Nat /\ m >= 1
      BY DEF Operation
    <2> HIDE DEF framing, size
    <2>2. at + Len(framing) + (m - 1) * size \in Nat
      BY <1>1, <2>1
    <2> USE DEF framing, size
    <2>3. StandsAt(data, at + Len(framing) + (m - 1) * size, op.words[m])
      BY DEF Stands
    <2> QED
      BY <2>1, <2>2, <2>3, StandsStill
  <1> QED
    BY <1>2, <1>3 DEF Stands

(* One more operation at the end of a frame.                                *)
LEMMA Extended ==
    ASSUME NEW data \in Seq(Byte), NEW ops, NEW cuts, NEW sums, LaidOut(data, ops, cuts, sums),
           NEW op \in Operation, NEW more \in Seq(Byte), Len(more) = Length(op),
           Stands(data \o more, Len(data), op)
    PROVE  \E c, s : /\ LaidOut(data \o more, Append(ops, op), c, s)
                     /\ s[Len(ops) + 1] = sums[Len(ops)] + OwedFor(op)
  <1> DEFINE n == Len(ops)
             wider == Append(ops, op)
             c == [k \in 0..(n + 1) |-> IF k <= n THEN cuts[k] ELSE cuts[n] + Length(op)]
             s == [k \in 0..(n + 1) |-> IF k <= n THEN sums[k] ELSE sums[n] + OwedFor(op)]
  <1>1. /\ ops \in Seq(Operation) /\ n \in Nat
        /\ cuts \in [0..n -> Nat] /\ sums \in [0..n -> Nat]
        /\ cuts[0] = 0 /\ sums[0] = 0 /\ cuts[n] = Len(data)
    BY DEF LaidOut
  <1>2. /\ wider \in Seq(Operation) /\ Len(wider) = n + 1 /\ wider[n + 1] = op
        /\ \A k \in 1..n : wider[k] = ops[k]
    BY <1>1
  <1>3. Length(op) \in Nat /\ OwedFor(op) \in Nat
    BY OperationSizes
  <1>4. c \in [0..(n + 1) -> Nat] /\ s \in [0..(n + 1) -> Nat]
    <2>1. cuts[n] + Length(op) \in Nat /\ sums[n] + OwedFor(op) \in Nat
      <3>1. n \in 0..n
        BY <1>1
      <3>2. cuts[n] \in Nat /\ sums[n] \in Nat
        BY <1>1, <3>1
      <3> QED
        BY <1>3, <3>2, SMTT(30)
    <2>2. \A k \in 0..(n + 1) : k <= n => cuts[k] \in Nat /\ sums[k] \in Nat
      BY <1>1
    <2> HIDE DEF n
    <2> QED
      BY <2>1, <2>2
  <1>5. /\ \A k \in 0..n : c[k] = cuts[k] /\ s[k] = sums[k]
        /\ c[n + 1] = Len(data) + Length(op) /\ s[n + 1] = sums[n] + OwedFor(op)
    BY <1>1
  <1> HIDE DEF wider, c, s
  <1>6. Len(data \o more) = c[n + 1]
    <2>1. Len(data \o more) = Len(data) + Len(more)
      OBVIOUS
    <2> QED
      BY <1>5, <2>1
  <1>7. ASSUME NEW k \in 1..(n + 1)
        PROVE  /\ c[k] = c[k - 1] + Length(wider[k])
               /\ s[k] = s[k - 1] + OwedFor(wider[k])
               /\ Stands(data \o more, c[k - 1], wider[k])
    <2>1. CASE k = n + 1
      <3>1. n \in 0..n /\ k - 1 = n
        BY <1>1, <2>1
      <3> HIDE DEF n
      <3>2. c[n] = cuts[n] /\ s[n] = sums[n]
        BY <1>5, <3>1
      <3>3. c[k - 1] = Len(data) /\ s[k - 1] = sums[n] /\ wider[k] = op
        BY <1>1, <1>2, <2>1, <3>1, <3>2
      <3>4. Stands(data \o more, c[k - 1], wider[k])
        BY <3>3
      <3> QED
        BY <1>5, <2>1, <3>3, <3>4
    <2>2. CASE k \in 1..n
      <3>1. /\ cuts[k] = cuts[k - 1] + Length(ops[k])
            /\ sums[k] = sums[k - 1] + OwedFor(ops[k])
            /\ Stands(data, cuts[k - 1], ops[k])
        BY <2>2 DEF LaidOut
      <3>2. /\ c[k] = cuts[k] /\ s[k] = sums[k] /\ c[k - 1] = cuts[k - 1] /\ s[k - 1] = sums[k - 1]
            /\ wider[k] = ops[k] /\ ops[k] \in Operation /\ cuts[k - 1] \in Nat
        <4>1. k \in 0..n /\ k - 1 \in 0..n
          BY <1>1, <2>2
        <4>2. ops[k] \in Operation
          BY <1>1, <2>2
        <4> HIDE DEF n
        <4> QED
          BY <1>1, <1>2, <1>5, <2>2, <4>1, <4>2
      <3>3. Stands(data \o more, cuts[k - 1], ops[k])
        BY <3>1, <3>2, OperationStill
      <3> QED
        BY <3>1, <3>2, <3>3
    <2> QED
      BY <1>1, <2>1, <2>2
  <1>8. c[0] = 0 /\ s[0] = 0
    BY <1>1, <1>5
  <1>9. LaidOut(data \o more, wider, c, s)
    BY <1>2, <1>4, <1>6, <1>7, <1>8 DEF LaidOut
  <1> QED
    BY <1>5, <1>9 DEF wider

(* One more value of the write at the end of a frame.                       *)
Grow(ops, word) ==
    [ops EXCEPT ![Len(ops)] = [ops[Len(ops)] EXCEPT !.words = Append(ops[Len(ops)].words, word)]]

LEMMA Grown ==
    ASSUME NEW data \in Seq(Byte), NEW ops, NEW cuts, NEW sums, LaidOut(data, ops, cuts, sums),
           Len(ops) > 0, ops[Len(ops)].base = 0,
           NEW word \in Seq(Byte), Len(word) = ResolutionSize(ops[Len(ops)].res)
    PROVE  \E c : LaidOut(data \o word, Grow(ops, word), c, sums)
  <1> DEFINE n == Len(ops)
             op == ops[n]
             words == Append(op.words, word)
             longer == [op EXCEPT !.words = words]
             grown == Grow(ops, word)
             size == ResolutionSize(op.res)
             c == [cuts EXCEPT ![n] = cuts[n] + size]
  <1>1. /\ ops \in Seq(Operation) /\ n \in Nat /\ op \in Operation
        /\ cuts \in [0..n -> Nat] /\ sums \in [0..n -> Nat]
        /\ cuts[0] = 0 /\ sums[0] = 0 /\ cuts[n] = Len(data)
    BY DEF LaidOut
  <1>2. /\ op.words \in Seq(Seq(Byte)) /\ words \in Seq(Seq(Byte))
        /\ Len(words) = Len(op.words) + 1 /\ words[Len(words)] = word
        /\ \A m \in 1..Len(op.words) : words[m] = op.words[m]
    BY <1>1 DEF Operation
  <1> HIDE DEF words
  <1>3. /\ longer \in Operation /\ longer.words = words /\ longer.base = 0
        /\ longer.base = op.base /\ longer.res = op.res
        /\ longer.count = op.count /\ longer.first = op.first
    BY <1>1, <1>2 DEF Operation
  <1> HIDE DEF longer
  <1>4. /\ grown \in Seq(Operation) /\ Len(grown) = n /\ grown[n] = longer
        /\ \A k \in 1..(n - 1) : grown[k] = ops[k]
    <2>1. grown = [ops EXCEPT ![n] = longer]
      BY DEF Grow, longer, words
    <2> HIDE DEF grown, n
    <2>2. n \in 1..n /\ n = Len(ops) /\ longer \in Operation
      BY <1>1, <1>3 DEF n
    <2> QED
      BY <1>1, <2>1, <2>2
  <1>5. /\ FramingOf(longer) = FramingOf(op) /\ OwedFor(longer) = OwedFor(op)
        /\ FramingOf(op) \in Seq(Byte) /\ Len(FramingOf(op)) \in Nat /\ size \in {1, 2, 4}
    BY <1>1, <1>3, OperationSizes DEF FramingOf, OwedFor
  <1> HIDE DEF grown, size, op
  <1>6. Length(longer) = Length(op) + size /\ Length(op) \in Nat
    <2> DEFINE product == Len(op.words) * size
    <2>1. (Len(op.words) + 1) * size = product + size /\ product \in Nat
      BY <1>2, <1>5
    <2>2. Length(longer) = Len(FramingOf(op)) + (Len(op.words) + 1) * size
      BY <1>2, <1>3, <1>5 DEF Length, size
    <2>3. Length(op) = Len(FramingOf(op)) + product
      BY DEF Length, size
    <2> HIDE DEF product
    <2> QED
      BY <1>5, <2>1, <2>2, <2>3, SMTT(30)
  <1>7. /\ c \in [0..n -> Nat] /\ c[n] = cuts[n] + size
        /\ \A k \in 0..(n - 1) : c[k] = cuts[k]
    BY <1>1, <1>5
  <1> HIDE DEF c
  <1>8. Len(data \o word) = c[n]
    BY <1>1, <1>7 DEF size, op
  <1>9. /\ n \in 1..n /\ n - 1 \in 0..(n - 1)
        /\ cuts[n] = cuts[n - 1] + Length(op) /\ sums[n] = sums[n - 1] + OwedFor(op)
        /\ Stands(data, cuts[n - 1], op) /\ cuts[n - 1] \in Nat
    BY <1>1, SMTT(30) DEF LaidOut, op
  <1>10. Stands(data \o word, c[n - 1], longer)
    <2> DEFINE at == cuts[n - 1] + Len(FramingOf(op))
    <2>1. Stands(data \o word, cuts[n - 1], op)
      BY <1>1, <1>9, OperationStill
    <2>2. StandsAt(data \o word, cuts[n - 1], FramingOf(longer))
      BY <1>5, <2>1 DEF Stands
    <2>3. at + Len(op.words) * size = Len(data)
      <3>1. cuts[n] = cuts[n - 1] + (Len(FramingOf(op)) + Len(op.words) * size)
        BY <1>9 DEF Length, size
      <3>2. Len(op.words) * size \in Nat
        BY <1>2, <1>5
      <3> QED
        BY <1>1, <1>5, <1>9, <3>1, <3>2
    <2>4. ASSUME NEW m \in 1..Len(words)
          PROVE  Len(words[m]) = size /\ StandsAt(data \o word, at + (m - 1) * size, words[m])
      <3>1. CASE m = Len(words)
        <4>1. m - 1 = Len(op.words) /\ words[m] = word
          BY <1>2, <3>1
        <4>2. at + (m - 1) * size = Len(data)
          BY <2>3, <4>1
        <4> HIDE DEF at
        <4> QED
          BY <4>1, <4>2, StandsAtEnd DEF size, op
      <3>2. CASE m \in 1..Len(op.words)
        BY <1>2, <2>1, <3>2 DEF Stands, size
      <3> QED
        BY <1>2, <3>1, <3>2, SMTT(30)
    <2> HIDE DEF at
    <2>5. longer.base # kReadBase /\ c[n - 1] = cuts[n - 1]
      BY <1>3, <1>7, <1>9 DEF kReadBase
    <2> QED
      BY <1>3, <1>5, <2>2, <2>4, <2>5 DEF Stands, size, at
  <1>11. ASSUME NEW k \in 1..n
         PROVE  /\ c[k] = c[k - 1] + Length(grown[k])
                /\ sums[k] = sums[k - 1] + OwedFor(grown[k])
                /\ Stands(data \o word, c[k - 1], grown[k])
    <2>1. CASE k = n
      <3> HIDE DEF n
      <3>1. grown[k] = longer /\ Stands(data \o word, c[k - 1], grown[k])
        BY <1>4, <1>10, <2>1
      <3>2. sums[k] = sums[k - 1] + OwedFor(grown[k])
        BY <1>5, <1>9, <2>1, <3>1
      <3>3. c[n - 1] = cuts[n - 1] /\ Length(grown[k]) = Length(op) + size
        BY <1>6, <1>7, <1>9, <3>1
      <3>4. c[k] = cuts[n - 1] + Length(op) + size
        BY <1>7, <1>9, <2>1
      <3>5. c[k] = c[k - 1] + Length(grown[k])
        BY <1>5, <1>6, <1>9, <2>1, <3>3, <3>4
      <3> QED
        BY <3>1, <3>2, <3>5
    <2>2. CASE k \in 1..(n - 1)
      <3>1. /\ cuts[k] = cuts[k - 1] + Length(ops[k])
            /\ sums[k] = sums[k - 1] + OwedFor(ops[k])
            /\ Stands(data, cuts[k - 1], ops[k])
        BY <2>2 DEF LaidOut
      <3>2. /\ c[k] = cuts[k] /\ c[k - 1] = cuts[k - 1]
            /\ grown[k] = ops[k] /\ ops[k] \in Operation /\ cuts[k - 1] \in Nat
        <4>1. k \in 0..(n - 1) /\ k - 1 \in 0..(n - 1) /\ k \in 1..n /\ k - 1 \in 0..n
          BY <1>1, <2>2
        <4>2. ops[k] \in Operation
          BY <1>1, <2>2
        <4>3. cuts[k - 1] \in Nat
          BY <1>1, <4>1
        <4> HIDE DEF n
        <4> QED
          BY <1>4, <1>7, <2>2, <4>1, <4>2, <4>3
      <3>3. Stands(data \o word, cuts[k - 1], ops[k])
        BY <3>1, <3>2, OperationStill
      <3> QED
        BY <3>1, <3>2, <3>3
    <2> QED
      BY <1>1, <2>1, <2>2
  <1>12. c[0] = 0
    BY <1>1, <1>7, <1>9
  <1>13. LaidOut(data \o word, grown, c, sums)
    BY <1>1, <1>4, <1>7, <1>8, <1>11, <1>12 DEF LaidOut
  <1> QED
    BY <1>13 DEF grown

-----------------------------------------------------------------------------
(* What a command and its query are made of.                                *)

(* A combiner's piece of a frame, and one that is spelled out.              *)
Combined(piece) == "base" \in DOMAIN piece /\ "bytes" \notin DOMAIN piece
SpelledOut(piece) == "bytes" \in DOMAIN piece /\ "base" \notin DOMAIN piece

LEMMA StartsOfQuery ==
    /\ Register["kMode"] = 0 /\ Register["kMotorTemperature"] # 0
    /\ Register["kAux1GpioStatus"] # 0 /\ Register["kAux1PwmInputPeriod"] # 0
    /\ Register.kMode = 0
  BY DEF Register

(* The pieces of a query all ask, and only the first starts at the mode.    *)
LEMMA QueryPieces ==
    ASSUME NEW items
    PROVE  /\ Query(items) \in Seq({Query(items)[i] : i \in 1..Len(Query(items))})
           /\ \A i \in 1..Len(Query(items)) :
                 LET piece == Query(items)[i]
                 IN /\ DOMAIN piece \in {{"base", "start", "fields"},
                                       {"base", "start", "resolutions"}}
                    /\ piece.base = kReadBase
                    /\ "fields" \in DOMAIN piece /\ piece.start = Register.kMode => i = 1
  <1> DEFINE four == QueryBlocks
             e == [base |-> kReadBase, start |-> items[1].register,
                   resolutions |-> Spread(items)]
  <1>1. Len(four) = 4 /\ DOMAIN four = 1..4
    BY DEF QueryBlocks
  <1>2. four \in Seq({four[i] : i \in 1..4})
    <2>1. four = [i \in 1..4 |-> four[i]]
      BY DEF QueryBlocks
    <2> HIDE DEF four
    <2> QED
      BY <2>1
  <1>3. \A i \in 1..4 : /\ DOMAIN four[i] = {"base", "start", "fields"}
                        /\ four[i].base = kReadBase
                        /\ four[i].start = Register.kMode => i = 1
    BY StartsOfQuery DEF QueryBlocks, Block
  <1>4. /\ ItemBlock(items) = << >> \/ ItemBlock(items) = <<e>>
        /\ DOMAIN e = {"base", "start", "resolutions"} /\ e.base = kReadBase
        /\ "fields" \notin DOMAIN e
    BY DEF ItemBlock
  <1>5. Query(items) = four \o ItemBlock(items)
    BY DEF Query
  <1> HIDE DEF four, e
  <1>6. CASE ItemBlock(items) = << >>
    <2>1. Query(items) = four
      BY <1>2, <1>5, <1>6
    <2> QED
      BY <1>1, <1>2, <1>3, <2>1
  <1>7. CASE ItemBlock(items) = <<e>>
    <2> DEFINE pieces == {four[i] : i \in 1..4} \cup {e}
               last == <<e>>
               five == four \o last
    <2>1. /\ four \in Seq(pieces)
          /\ last \in Seq(pieces) /\ Len(last) = 1 /\ last[1] = e
      BY <1>2
    <2> HIDE DEF pieces, last
    <2>2. /\ five \in Seq(pieces) /\ Len(five) = 5 /\ five[5] = e
          /\ \A i \in 1..4 : five[i] = four[i]
      <3>1. five \in Seq(pieces) /\ Len(five) = Len(four) + Len(last)
        BY <2>1, SMTT(30)
      <3>2. \A i \in 1..Len(four) : five[i] = four[i]
        BY <2>1
      <3>3. \A i \in 1..Len(last) : five[Len(four) + i] = last[i]
        BY <2>1
      <3> HIDE DEF five
      <3> QED
        BY <1>1, <2>1, <3>1, <3>2, <3>3
    <2> HIDE DEF five
    <2>3. five \in Seq({five[i] : i \in 1..5})
      <3>1. five = [i \in 1..5 |-> five[i]]
        BY <2>2
      <3> QED
        BY <3>1
    <2>4. Query(items) = five
      BY <1>5, <1>7 DEF five, last
    <2>5. \A i \in 1..5 : /\ DOMAIN five[i] \in {{"base", "start", "fields"},
                                                {"base", "start", "resolutions"}}
                          /\ five[i].base = kReadBase
                          /\ "fields" \in DOMAIN five[i] /\ five[i].start = Register.kMode => i = 1
      <3>1. ASSUME NEW i \in 1..5, i # 5
            PROVE  /\ DOMAIN five[i] = {"base", "start", "fields"}
                   /\ five[i].base = kReadBase
                   /\ five[i].start = Register.kMode => i = 1
        <4>1. i \in 1..4 /\ five[i] = four[i]
          BY <2>2, <3>1
        <4> QED
          BY <1>3, <4>1
      <3>2. five[5] = e
        BY <2>2
      <3> QED
        BY <1>4, <3>1, <3>2
    <2> QED
      BY <2>2, <2>3, <2>4, <2>5
  <1> QED
    BY <1>4, <1>6, <1>7

(* A frame is the pieces of its command and behind them those of its query. *)
LEMMA FrameMade ==
    ASSUME NEW in \in Inputs
    PROVE  LET M == MakeFrame(in)
               c == Len(in.command)
           IN /\ M \in Seq({M[i] : i \in 1..Len(M)})
              /\ c \in Nat /\ c <= Len(M)
              /\ \A i \in 1..c : M[i] = Resolved(in, in.command[i], in.format, FALSE)
              /\ \A i \in (c + 1)..Len(M) :
                    /\ in.query # "none"
                    /\ i - c \in 1..Len(Query(in.extra))
                    /\ M[i] = Resolved(in, Query(in.extra)[i - c], in.queryFormat, TRUE)
  <1> DEFINE told == ResolvedAll(in, in.command, in.format, FALSE)
             asked == IF in.query = "none" THEN << >>
                      ELSE ResolvedAll(in, Query(in.extra), in.queryFormat, TRUE)
             c == Len(in.command)
             q == Len(Query(in.extra))
             pieces == {told[i] : i \in DOMAIN told} \cup {asked[i] : i \in DOMAIN asked}
             M == MakeFrame(in)
  <1>1. DOMAIN in.command = 1..c /\ c \in Nat
    BY InputsAssumption
  <1>2. DOMAIN Query(in.extra) = 1..q /\ q \in Nat
    BY QueryPieces
  <1>3. /\ told = [i \in 1..c |-> Resolved(in, in.command[i], in.format, FALSE)]
        /\ in.query # "none" =>
              asked = [i \in 1..q |-> Resolved(in, Query(in.extra)[i], in.queryFormat, TRUE)]
        /\ in.query = "none" => asked = << >>
    BY <1>1, <1>2 DEF ResolvedAll
  <1>4. M = told \o asked
    BY DEF MakeFrame
  <1> HIDE DEF told, asked, c, q, M
  <1>5. /\ told \in Seq(pieces) /\ Len(told) = c
        /\ \A i \in 1..c : told[i] = Resolved(in, in.command[i], in.format, FALSE)
    <2>1. DOMAIN told = 1..c /\ \A i \in 1..c : told[i] \in pieces
      BY <1>1, <1>3
    <2>2. \A i \in 1..c : told[i] = Resolved(in, in.command[i], in.format, FALSE)
      BY <1>3
    <2>3. told = [i \in 1..c |-> told[i]]
      BY <1>3
    <2> HIDE DEF pieces
    <2>4. told \in Seq(pieces) /\ Len(told) = c
      BY ONLY <1>1, <2>1, <2>3
    <2> QED
      BY <2>2, <2>4
  <1>6. /\ asked \in Seq(pieces)
        /\ \A i \in 1..Len(asked) :
              /\ in.query # "none" /\ i \in 1..q
              /\ asked[i] = Resolved(in, Query(in.extra)[i], in.queryFormat, TRUE)
    <2>1. CASE in.query = "none"
      BY <1>3, <2>1
    <2>2. CASE in.query # "none"
      <3>1. DOMAIN asked = 1..q /\ \A i \in 1..q : asked[i] \in pieces
        BY <1>2, <1>3, <2>2
      <3>2. \A i \in 1..q : asked[i] = Resolved(in, Query(in.extra)[i], in.queryFormat, TRUE)
        BY <1>3, <2>2
      <3>3. asked = [i \in 1..q |-> asked[i]]
        BY <1>3, <2>2
      <3> HIDE DEF pieces
      <3>4. asked \in Seq(pieces) /\ Len(asked) = q
        BY ONLY <1>2, <3>1, <3>3
      <3> QED
        BY <2>2, <3>2, <3>4
    <2> QED
      BY <2>1, <2>2
  <1> HIDE DEF pieces
  <1>7. M \in Seq(pieces) /\ Len(M) = c + Len(asked)
    <2>1. told \in Seq(pieces) /\ asked \in Seq(pieces) /\ Len(told) = c
      BY <1>5, <1>6
    <2>2. told \o asked \in Seq(pieces) /\ Len(told \o asked) = Len(told) + Len(asked)
      BY ONLY <2>1
    <2> QED
      BY <1>4, <2>1, <2>2
  <1>8. \A i \in 1..c : M[i] = told[i]
    BY <1>4, <1>5, <1>6
  <1>9. \A i \in 1..Len(asked) : M[c + i] = asked[i]
    BY <1>4, <1>5, <1>6, SMTT(30)
  <1>10. M \in Seq({M[i] : i \in 1..Len(M)})
    BY <1>7
  <1>11. ASSUME NEW i \in (c + 1)..Len(M)
         PROVE  /\ in.query # "none" /\ i - c \in 1..q
                /\ M[i] = Resolved(in, Query(in.extra)[i - c], in.queryFormat, TRUE)
    <2>1. i - c \in 1..Len(asked) /\ c + (i - c) = i
      BY <1>1, <1>6, <1>7
    <2> QED
      BY <1>6, <1>9, <2>1
  <1>12. c <= Len(M)
    BY <1>1, <1>6, <1>7
  <1> QED
    BY <1>1, <1>5, <1>8, <1>10, <1>11, <1>12 DEF M, c, q

CommandPiece == {{"base", "start", "fields"}, {"base", "start", "resolutions"}}

ResolvedFrom(r, a, query) ==
    /\ Combined(r) /\ r.base = a.base /\ r.query = query /\ r.start = a.start
    /\ "fields" \in DOMAIN r => "fields" \in DOMAIN a

LEMMA ResolvedPiece ==
    ASSUME NEW in, NEW a, NEW format, NEW query, DOMAIN a \in CommandPiece
    PROVE  ResolvedFrom(Resolved(in, a, format, query), a, query)
  <1>1. CASE DOMAIN a = {"base", "start", "fields"}
    BY <1>1 DEF Resolved, ResolvedFrom, Combined
  <1>2. CASE DOMAIN a = {"base", "start", "resolutions"}
    BY <1>2 DEF Resolved, ResolvedFrom, Combined
  <1> QED
    BY <1>1, <1>2 DEF CommandPiece

(* Each is well formed, and which of them ask.                              *)
LEMMA PiecesMade ==
    ASSUME NEW in \in Inputs, NEW i \in 1..Len(MakeFrame(in))
    PROVE  LET piece == MakeFrame(in)[i]
               c     == Len(in.command)
           IN /\ \/ SpelledOut(piece) /\ WholeWrite(piece.bytes)
                 \/ Combined(piece) /\ Combinable(in, piece)
              /\ i <= c /\ Combined(piece) =>
                    /\ in.command[i].base = piece.base /\ piece.query = FALSE
                    /\ "base" \in DOMAIN in.command[i]
              /\ i > c => /\ Combined(piece)
                          /\ piece.base = kReadBase /\ piece.query = TRUE
                          /\ "fields" \in DOMAIN piece /\ piece.start = Register.kMode => i = c + 1
  <1> DEFINE piece == MakeFrame(in)[i]
             c == Len(in.command)
             M == MakeFrame(in)
  <1>1. /\ M \in Seq({M[k] : k \in 1..Len(M)}) /\ c \in Nat
        /\ \A k \in 1..c : M[k] = Resolved(in, in.command[k], in.format, FALSE)
        /\ \A k \in (c + 1)..Len(M) :
              /\ k - c \in 1..Len(Query(in.extra))
              /\ M[k] = Resolved(in, Query(in.extra)[k - c], in.queryFormat, TRUE)
    BY FrameMade
  <1>2. IF "bytes" \in DOMAIN piece THEN WholeWrite(piece.bytes) ELSE Combinable(in, piece)
    <2>1. i \in DOMAIN M
      BY <1>1
    <2> QED
      BY <2>1, InputsAssumption
  <1>3. DOMAIN in.command = 1..c /\ i \in Nat /\ i >= 1 /\ i <= Len(M)
    BY InputsAssumption
  <1> HIDE DEF c, M
  <1>4. CASE i <= c
    <2>1. i \in 1..c
      BY <1>1, <1>3, <1>4
    <2>a. piece = Resolved(in, in.command[i], in.format, FALSE)
      BY <1>1, <2>1 DEF M
    <2>2. DOMAIN in.command[i] \in {{"bytes"}} \cup CommandPiece
      <3>1. DOMAIN in.command[i] \in {{"bytes"}, {"base", "start", "fields"},
                                       {"base", "start", "resolutions"}}
        BY <1>3, <2>1, InputsAssumption
      <3> QED
        BY <3>1 DEF CommandPiece
    <2> HIDE DEF piece
    <2>3. CASE DOMAIN in.command[i] = {"bytes"}
      <3>1. piece = in.command[i]
        BY <2>a, <2>3 DEF Resolved
      <3>2. SpelledOut(piece) /\ ~Combined(piece)
        BY <2>3, <3>1 DEF SpelledOut, Combined
      <3>3. WholeWrite(piece.bytes)
        BY <1>2, <3>2 DEF SpelledOut
      <3> QED
        BY <1>1, <1>4, <3>2, <3>3 DEF piece, c
    <2>4. CASE DOMAIN in.command[i] \in CommandPiece
      <3>1. Combined(piece) /\ piece.base = in.command[i].base /\ piece.query = FALSE
        <4>1. ResolvedFrom(Resolved(in, in.command[i], in.format, FALSE), in.command[i], FALSE)
          BY ONLY <2>4, ResolvedPiece
        <4> QED
          BY <2>a, <4>1 DEF ResolvedFrom
      <3>2. "base" \in DOMAIN in.command[i]
        BY <2>4 DEF CommandPiece
      <3>3. Combinable(in, piece)
        BY <1>2, <3>1 DEF Combined
      <3> QED
        BY <1>1, <1>4, <3>1, <3>2, <3>3 DEF piece, c
    <2> QED
      BY <2>2, <2>3, <2>4
  <1>5. CASE i > c
    <2> DEFINE a == Query(in.extra)[i - c]
    <2>1. i \in (c + 1)..Len(M)
      BY <1>1, <1>3, <1>5
    <2>2. piece = Resolved(in, a, in.queryFormat, TRUE) /\ i - c \in 1..Len(Query(in.extra))
      BY <1>1, <2>1 DEF M
    <2>3. /\ DOMAIN a \in CommandPiece
          /\ a.base = kReadBase
          /\ "fields" \in DOMAIN a /\ a.start = Register.kMode => i - c = 1
      BY <2>2, QueryPieces DEF CommandPiece
    <2> HIDE DEF a, piece
    <2>4. /\ Combined(piece) /\ piece.base = a.base /\ piece.query = TRUE
          /\ piece.start = a.start
          /\ "fields" \in DOMAIN piece => "fields" \in DOMAIN a
      <3>1. ResolvedFrom(Resolved(in, a, in.queryFormat, TRUE), a, TRUE)
        BY ONLY <2>3, ResolvedPiece
      <3> QED
        BY <2>2, <3>1 DEF ResolvedFrom
    <2>5. i - c = 1 => i = c + 1
      BY <1>1
    <2>6. Combinable(in, piece)
      BY <1>2, <2>4 DEF Combined
    <2>7. ~(i <= c)
      BY <1>1, <1>5
    <2> QED
      BY <2>3, <2>4, <2>5, <2>6, <2>7 DEF piece, c
  <1>6. i <= c \/ i > c
    BY <1>1, <1>3
  <1> QED
    BY <1>4, <1>5, <1>6

-----------------------------------------------------------------------------
(* The making of a frame, as far as the p-th piece and its i-th field.      *)

At(in, rest, i, cur, p) ==
    LET M == MakeFrame(in)
    IN /\ p \in 1..(Len(M) + 1)
       /\ rest \in Seq({M[k] : k \in 1..Len(M)}) /\ Len(rest) = Len(M) - p + 1
       /\ \A k \in 1..Len(rest) : rest[k] = M[p + k - 1]
       /\ i \in Nat \ {0}
       /\ i # 1 => p <= Len(M) /\ Combined(M[p]) /\ i <= Len(M[p].resolutions)
       /\ cur = IF i = 1 THEN "kIgnore" ELSE M[p].resolutions[i - 1]

(* A write of which some values are still to come.                          *)
InRun(in, i, cur, p) ==
    LET piece == MakeFrame(in)[p]
    IN /\ p <= Len(MakeFrame(in)) /\ Combined(piece) /\ piece.base = 0
       /\ cur # "kIgnore" /\ piece.resolutions[i] = cur

RunOpen(in, i, cur, p, op) ==
    LET piece == MakeFrame(in)[p]
    IN /\ op.base = 0 /\ op.res = cur
       /\ Len(op.words) + RunLength(piece.resolutions, i) = op.count
       /\ op.first + Len(op.words) = piece.start + i - 1

Complete(op) == op.base = 0 => Len(op.words) = op.count

(* What a frame tells the controller: the first n operations of it; the     *)
(* fields before the i-th of the p-th piece; the pieces spelled out.        *)
Entry(register, res, bytes) == [register |-> register, res |-> res, bytes |-> bytes]

OpSays(op, e) ==
    \E m \in 1..Len(op.words) : e = Entry(op.first + m - 1, op.res, op.words[m])

Carries(ops, n, e) == \E k \in 1..n : OpSays(ops[k], e)

FieldSays(in, piece, j, e) ==
    /\ Combined(piece) /\ piece.base = 0 /\ j \in 1..Len(piece.resolutions)
    /\ piece.resolutions[j] # "kIgnore"
    /\ e = Entry(piece.start + j - 1, piece.resolutions[j],
                 FieldBytes(in, piece.fields[j], piece.resolutions[j]))

Told(in, p, i, e) ==
    \E q \in 1..Len(MakeFrame(in)), j \in Nat :
        /\ q < p \/ (q = p /\ j < i)
        /\ FieldSays(in, MakeFrame(in)[q], j, e)

LiteralSays(bytes, e) ==
    \E res \in Resolutions, register \in Numbers :
        LET framing == Framing(0, res, 1, register)
        IN /\ Len(bytes) = Len(framing) + ResolutionSize(res)
           /\ SubSeq(bytes, 1, Len(framing)) = framing
           /\ e = Entry(register, res, SubSeq(bytes, Len(framing) + 1, Len(bytes)))

Spelled(in, p, e) ==
    \E q \in 1..Len(MakeFrame(in)) :
        /\ q < p /\ SpelledOut(MakeFrame(in)[q])
        /\ LiteralSays(MakeFrame(in)[q].bytes, e)

(* A command that asks for nothing of its own, and a query with it.         *)
Quiet(in) ==
    /\ in.query # "none"
    /\ \A i \in DOMAIN in.command : "base" \in DOMAIN in.command[i] => in.command[i].base = 0

(* Nothing has been asked yet.                                              *)
Before(in, p, i) == p <= Len(in.command) \/ (p = Len(in.command) + 1 /\ i = 1)

(* Every operation has the values its framing announces, but the last while *)
(* its run goes on.                                                         *)
Whole(in, i, cur, p, ops) ==
    /\ \A k \in 1..Len(ops) : k < Len(ops) \/ ~InRun(in, i, cur, p) => Complete(ops[k])
    /\ InRun(in, i, cur, p) => Len(ops) > 0 /\ RunOpen(in, i, cur, p, ops[Len(ops)])

(* The frame carries every field so far, and nothing else but what is       *)
(* spelled out.                                                             *)
Says(in, i, p, ops) ==
    /\ \A e : Carries(ops, Len(ops), e) => Told(in, p, i, e) \/ Spelled(in, p, e)
    /\ \A e : Told(in, p, i, e) => Carries(ops, Len(ops), e)

Sized(in, i, p, size, sum) ==
    Quiet(in) => /\ size = sum % 256
                 /\ Before(in, p, i) => sum = 0

Making(in, rest, i, cur, data, size, p, ops, cuts, sums) ==
    /\ At(in, rest, i, cur, p)
    /\ LaidOut(data, ops, cuts, sums)
    /\ Whole(in, i, cur, p, ops)
    /\ Says(in, i, p, ops)
    /\ Sized(in, i, p, size, sums[Len(ops)])

(* The piece at hand, and what is left behind it.                           *)
LEMMA AtHead ==
    ASSUME NEW in \in Inputs, NEW rest, NEW i, NEW cur, NEW p, At(in, rest, i, cur, p),
           rest # << >>
    PROVE  /\ p \in 1..Len(MakeFrame(in)) /\ Head(rest) = MakeFrame(in)[p]
           /\ At(in, Tail(rest), 1, "kIgnore", p + 1)
  <1> DEFINE M == MakeFrame(in)
             pieces == {M[k] : k \in 1..Len(M)}
  <1>1. M \in Seq(pieces)
    BY FrameMade
  <1> HIDE DEF M, pieces
  <1>2. /\ p \in 1..(Len(M) + 1)
        /\ rest \in Seq(pieces) /\ Len(rest) = Len(M) - p + 1
        /\ \A k \in 1..Len(rest) : rest[k] = M[p + k - 1]
    BY DEF At, M, pieces
  <1>3. Len(rest) >= 1 /\ Len(M) \in Nat
    BY <1>1, <1>2
  <1>4. p \in 1..Len(M) /\ Head(rest) = M[p]
    <2>1. rest[1] = M[p + 1 - 1] /\ p + 1 - 1 = p
      BY <1>2, <1>3
    <2> QED
      BY <1>2, <1>3, <2>1
  <1>5. /\ Tail(rest) \in Seq(pieces) /\ Len(Tail(rest)) = Len(M) - (p + 1) + 1
    BY <1>2, <1>3
  <1>6. ASSUME NEW k \in 1..Len(Tail(rest)) PROVE Tail(rest)[k] = M[(p + 1) + k - 1]
    <2>1. Tail(rest)[k] = rest[k + 1] /\ k + 1 \in 1..Len(rest)
      BY <1>2, <1>3
    <2>2. p + (k + 1) - 1 = (p + 1) + k - 1
      BY <1>2
    <2> QED
      BY <1>2, <2>1, <2>2
  <1>7. p + 1 \in 1..(Len(M) + 1)
    BY <1>3, <1>4
  <1> QED
    BY <1>4, <1>5, <1>6, <1>7 DEF At, M, pieces

(* The place after the i-th field of the p-th piece.                        *)
LastField(in, p, i) == i = Len(MakeFrame(in)[p].resolutions)
NextPiece(in, p, i) == IF LastField(in, p, i) THEN p + 1 ELSE p
NextField(in, p, i) == IF LastField(in, p, i) THEN 1 ELSE i + 1
NextRes(in, p, i) == IF LastField(in, p, i) THEN "kIgnore" ELSE MakeFrame(in)[p].resolutions[i]
NextRest(in, rest, p, i) == IF LastField(in, p, i) THEN Tail(rest) ELSE rest

LEMMA FieldAt ==
    ASSUME NEW in \in Inputs, NEW rest, NEW i, NEW cur, NEW p, At(in, rest, i, cur, p),
           p \in 1..Len(MakeFrame(in)), Combined(MakeFrame(in)[p])
    PROVE  LET piece == MakeFrame(in)[p]
           IN /\ piece.resolutions \in Seq(Resolutions \cup {"kIgnore"})
              /\ Len(piece.resolutions) \in Nat \ {0}
              /\ i \in 1..Len(piece.resolutions)
              /\ piece.resolutions[i] \in Resolutions \cup {"kIgnore"}
              /\ piece.start \in Numbers /\ piece.start + i - 1 \in Numbers
              /\ piece.base \in {0, kReadBase}
              /\ piece.base = 0 /\ piece.resolutions[i] # "kIgnore" =>
                    in.values[piece.fields[i][1]] \in Given
  <1> DEFINE piece == MakeFrame(in)[p]
             r == piece.resolutions
  <1>1. Combinable(in, piece)
    BY PiecesMade DEF Combined, SpelledOut
  <1>2. /\ r \in Seq(Resolutions \cup {"kIgnore"}) /\ Len(r) \in Counts
        /\ piece.start \in Numbers /\ \A k \in DOMAIN r : piece.start + k - 1 \in Numbers
        /\ piece.base \in {0, kReadBase}
        /\ piece.base = 0 =>
              \A k \in DOMAIN r : r[k] # "kIgnore" => in.values[piece.fields[k][1]] \in Given
    BY <1>1 DEF Combinable
  <1>3. Len(r) \in Nat \ {0} /\ DOMAIN r = 1..Len(r)
    BY <1>2, Bounds
  <1>4. i \in Nat \ {0} /\ (i # 1 => i <= Len(r))
    BY DEF At
  <1>5. i \in 1..Len(r)
    BY <1>3, <1>4
  <1>6. r[i] \in Resolutions \cup {"kIgnore"}
    BY <1>2, <1>5
  <1> HIDE DEF piece
  <1> QED
    BY <1>2, <1>3, <1>5, <1>6 DEF piece

LEMMA Advance ==
    ASSUME NEW in \in Inputs, NEW rest, NEW i, NEW cur, NEW p, At(in, rest, i, cur, p),
           p \in 1..Len(MakeFrame(in)), Combined(MakeFrame(in)[p])
    PROVE  /\ rest # << >>
           /\ At(in, NextRest(in, rest, p, i), NextField(in, p, i), NextRes(in, p, i),
                 NextPiece(in, p, i))
  <1> DEFINE M == MakeFrame(in)
             r == M[p].resolutions
             pieces == {M[k] : k \in 1..Len(M)}
  <1>1. /\ p \in 1..(Len(M) + 1)
        /\ rest \in Seq(pieces) /\ Len(rest) = Len(M) - p + 1
        /\ \A k \in 1..Len(rest) : rest[k] = M[p + k - 1]
    BY DEF At
  <1>2. M \in Seq(pieces)
    BY FrameMade
  <1>3. i \in 1..Len(r) /\ Len(r) \in Nat
    BY FieldAt
  <1>4. rest # << >>
    <2> HIDE DEF M, pieces
    <2>1. Len(rest) >= 1
      BY <1>1, <1>2 DEF M
    <2> QED
      BY <2>1
  <1>5. CASE i = Len(r)
    BY <1>4, <1>5, AtHead DEF NextRest, NextField, NextRes, NextPiece, LastField
  <1>6. CASE i # Len(r)
    <2>1. i + 1 \in Nat \ {0} /\ i + 1 # 1 /\ i + 1 <= Len(r) /\ i + 1 - 1 = i
      BY <1>3, <1>6
    <2>2. p <= Len(M)
      BY <1>2
    <2> HIDE DEF M, r, pieces
    <2>3. At(in, rest, i + 1, r[i], p)
      BY <1>1, <2>1, <2>2 DEF At, M, r, pieces
    <2>4. ~LastField(in, p, i)
      BY <1>6 DEF LastField, M, r
    <2> QED
      BY <1>4, <2>3, <2>4 DEF NextRest, NextField, NextRes, NextPiece, M, r
  <1> QED
    BY <1>5, <1>6

LEMMA Onward ==
    ASSUME NEW in \in Inputs, NEW rest, NEW i, NEW cur, NEW p, At(in, rest, i, cur, p),
           p \in 1..Len(MakeFrame(in)), Combined(MakeFrame(in)[p])
    PROVE  LET p2 == NextPiece(in, p, i)
               i2 == NextField(in, p, i)
               piece == MakeFrame(in)[p]
           IN /\ \A e : Told(in, p2, i2, e) <=> Told(in, p, i, e) \/ FieldSays(in, piece, i, e)
              /\ \A e : Spelled(in, p2, e) <=> Spelled(in, p, e)
              /\ InRun(in, i2, NextRes(in, p, i), p2) <=>
                    /\ piece.base = 0 /\ piece.resolutions[i] # "kIgnore"
                    /\ i < Len(piece.resolutions)
                    /\ piece.resolutions[i + 1] = piece.resolutions[i]
              /\ Before(in, p2, i2) => p <= Len(in.command)
  <1> DEFINE M == MakeFrame(in)
             r == M[p].resolutions
             p2 == NextPiece(in, p, i)
             i2 == NextField(in, p, i)
  <1>1. i \in 1..Len(r) /\ Len(r) \in Nat /\ p \in Nat /\ Len(M) \in Nat /\ p <= Len(M)
    BY FieldAt, FrameMade
  <1>2. /\ LastField(in, p, i) <=> i = Len(r)
        /\ i = Len(r) => p2 = p + 1 /\ i2 = 1
        /\ i # Len(r) => p2 = p /\ i2 = i + 1
    BY DEF LastField, NextPiece, NextField
  <1> HIDE DEF p2, i2
  <1>3. ASSUME NEW e PROVE Told(in, p2, i2, e) <=> Told(in, p, i, e) \/ FieldSays(in, M[p], i, e)
    <2>1. \A q \in 1..Len(M), j \in Nat : FieldSays(in, M[q], j, e) => j >= 1 /\ j <= Len(M[q].resolutions)
      <3>1. \A q \in 1..Len(M), j \in Nat : FieldSays(in, M[q], j, e) => j \in 1..Len(M[q].resolutions)
        BY DEF FieldSays
      <3> QED
        BY <3>1
    <2> DEFINE says(q, j) == FieldSays(in, M[q], j, e)
    <2>2. Told(in, p2, i2, e) <=>
             \E q \in 1..Len(M), j \in Nat : (q < p2 \/ (q = p2 /\ j < i2)) /\ says(q, j)
      BY DEF Told
    <2>3. Told(in, p, i, e) <=>
             \E q \in 1..Len(M), j \in Nat : (q < p \/ (q = p /\ j < i)) /\ says(q, j)
      BY DEF Told
    <2> HIDE DEF says, M, r
    <2>4. \A q \in 1..Len(M), j \in Nat : says(q, j) =>
             ((q < p2 \/ (q = p2 /\ j < i2)) <=> (q < p \/ (q = p /\ j < i) \/ (q = p /\ j = i)))
      <3>1. TAKE q \in 1..Len(M), j \in Nat
      <3>2. HAVE says(q, j)
      <3>3. j >= 1 /\ (q = p => j <= Len(r))
        BY <2>1, <3>2 DEF says, M, r
      <3> QED
        BY <1>1, <1>2, <3>3
    <2>5. p \in 1..Len(M) /\ i \in Nat
      BY <1>1
    <2>6. (\E q \in 1..Len(M), j \in Nat : (q = p /\ j = i) /\ says(q, j)) <=> says(p, i)
      BY <2>5
    <2>7. Told(in, p2, i2, e) <=> Told(in, p, i, e) \/ says(p, i)
      BY <2>2, <2>3, <2>4, <2>6
    <2> QED
      BY <2>7 DEF says, M
  <1>4. ASSUME NEW e PROVE Spelled(in, p2, e) <=> Spelled(in, p, e)
    <2>1. \A q \in 1..Len(M) : SpelledOut(M[q]) => (q < p2 <=> q < p)
      <3>1. TAKE q \in 1..Len(M)
      <3>2. HAVE SpelledOut(M[q])
      <3>3. q # p
        BY <3>2 DEF SpelledOut, Combined
      <3> HIDE DEF M, r
      <3> QED
        BY <1>1, <1>2, <3>3
    <2> HIDE DEF p2
    <2> QED
      BY <2>1 DEF Spelled
  <1>5. InRun(in, i2, NextRes(in, p, i), p2) <=>
           M[p].base = 0 /\ r[i] # "kIgnore" /\ i < Len(r) /\ r[i + 1] = r[i]
    <2>1. CASE i = Len(r)
      BY <1>1, <1>2, <2>1 DEF InRun, NextRes
    <2>2. CASE i # Len(r)
      <3>1. i < Len(r) /\ NextRes(in, p, i) = r[i] /\ i2 = i + 1 /\ p2 = p
        BY <1>1, <1>2, <2>2 DEF NextRes
      <3> QED
        BY <1>1, <3>1 DEF InRun
    <2> QED
      BY <2>1, <2>2
  <1>6. Before(in, p2, i2) => p <= Len(in.command)
    <2>1. Len(in.command) \in Nat
      BY FrameMade
    <2> HIDE DEF M, r
    <2>2. i # Len(r) => i2 # 1
      BY <1>1, <1>2
    <2> QED
      BY <1>1, <1>2, <2>1, <2>2 DEF Before
  <1> QED
    BY <1>3, <1>4, <1>5, <1>6 DEF p2, i2

(* What an operation at the end, or a value in it, adds to what is carried. *)
LEMMA CarriesAppend ==
    ASSUME NEW ops \in Seq(Operation), NEW op \in Operation, NEW e
    PROVE  Carries(Append(ops, op), Len(ops) + 1, e) <=> Carries(ops, Len(ops), e) \/ OpSays(op, e)
  <1> DEFINE wider == Append(ops, op)
             n == Len(ops)
  <1>1. n \in Nat /\ wider[n + 1] = op /\ \A k \in 1..n : wider[k] = ops[k]
    OBVIOUS
  <1> HIDE DEF wider, n
  <1>2. Carries(wider, n + 1, e) <=> Carries(ops, n, e) \/ OpSays(op, e)
    BY <1>1 DEF Carries
  <1> QED
    BY <1>2 DEF wider, n

LEMMA GrowIs ==
    ASSUME NEW ops \in Seq(Operation), Len(ops) > 0, NEW word \in Seq(Byte)
    PROVE  LET n  == Len(ops)
               op == ops[n]
               longer == Grow(ops, word)[n]
           IN /\ op \in Operation /\ Len(Grow(ops, word)) = n
              /\ \A k \in 1..(n - 1) : Grow(ops, word)[k] = ops[k]
              /\ longer.base = op.base /\ longer.res = op.res
              /\ longer.count = op.count /\ longer.first = op.first
              /\ longer.words = Append(op.words, word)
              /\ Len(longer.words) = Len(op.words) + 1 /\ Len(op.words) \in Nat
              /\ longer.words[Len(op.words) + 1] = word
              /\ \A m \in 1..Len(op.words) : longer.words[m] = op.words[m]
  <1> DEFINE n == Len(ops)
             op == ops[n]
             words == Append(op.words, word)
             longer == [op EXCEPT !.words = words]
  <1>1. n \in 1..n /\ op \in Operation
    OBVIOUS
  <1>2. op.words \in Seq(Seq(Byte))
    BY <1>1 DEF Operation
  <1>3. /\ Len(words) = Len(op.words) + 1 /\ words[Len(op.words) + 1] = word
        /\ Len(op.words) \in Nat
        /\ \A m \in 1..Len(op.words) : words[m] = op.words[m]
    BY <1>2
  <1> HIDE DEF words
  <1>4. /\ longer.base = op.base /\ longer.res = op.res /\ longer.words = words
        /\ longer.count = op.count /\ longer.first = op.first
    BY <1>1 DEF Operation
  <1>5. Grow(ops, word) = [ops EXCEPT ![n] = longer]
    BY DEF Grow, words
  <1> HIDE DEF longer
  <1>6. /\ Grow(ops, word)[n] = longer /\ Len(Grow(ops, word)) = n
        /\ \A k \in 1..(n - 1) : Grow(ops, word)[k] = ops[k]
    BY <1>1, <1>5
  <1> QED
    BY <1>1, <1>3, <1>4, <1>6 DEF words

LEMMA CarriesGrow ==
    ASSUME NEW ops \in Seq(Operation), Len(ops) > 0, NEW word \in Seq(Byte), NEW e
    PROVE  LET op == ops[Len(ops)]
           IN Carries(Grow(ops, word), Len(ops), e) <=>
                 \/ Carries(ops, Len(ops), e)
                 \/ e = Entry(op.first + Len(op.words), op.res, word)
  <1> DEFINE n == Len(ops)
             op == ops[n]
             grown == Grow(ops, word)
             w == Len(op.words)
  <1>1. /\ n \in Nat \ {0} /\ w \in Nat /\ op \in Operation
        /\ \A k \in 1..(n - 1) : grown[k] = ops[k]
        /\ grown[n].first = op.first /\ grown[n].res = op.res
        /\ Len(grown[n].words) = w + 1 /\ grown[n].words[w + 1] = word
        /\ \A m \in 1..w : grown[n].words[m] = op.words[m]
    BY GrowIs
  <1>2. OpSays(grown[n], e) <=> OpSays(op, e) \/ e = Entry(op.first + w, op.res, word)
    <2> DEFINE entry(m) == Entry(op.first + m - 1, op.res, op.words[m])
    <2>1. op.first + (w + 1) - 1 = op.first + w
      BY <1>1, Bounds DEF Operation
    <2>2. OpSays(grown[n], e) <=> \E m \in 1..(w + 1) :
                                     e = Entry(op.first + m - 1, op.res, grown[n].words[m])
      BY <1>1 DEF OpSays
    <2>3. OpSays(op, e) <=> \E m \in 1..w : e = entry(m)
      BY DEF OpSays
    <2>4. \A m \in 1..w : Entry(op.first + m - 1, op.res, grown[n].words[m]) = entry(m)
      BY <1>1
    <2>5. Entry(op.first + (w + 1) - 1, op.res, grown[n].words[w + 1]) = Entry(op.first + w, op.res, word)
      BY <1>1, <2>1
    <2> HIDE DEF op, grown, w, n, entry
    <2>6. \A m : m \in 1..(w + 1) <=> m \in 1..w \/ m = w + 1
      BY <1>1
    <2> QED
      BY <2>2, <2>3, <2>4, <2>5, <2>6
  <1> HIDE DEF n, op, grown, w
  <1>3. Carries(grown, n, e) <=> Carries(ops, n, e) \/ e = Entry(op.first + w, op.res, word)
    <2>1. \A k : k \in 1..n <=> k \in 1..(n - 1) \/ k = n
      BY <1>1
    <2> QED
      BY <1>1, <1>2, <2>1 DEF op, Carries
  <1> QED
    BY <1>3 DEF n, op, grown, w

(* What one MaybeWrite does.                                                *)
FramingAt(in, p, i, cur) ==
    LET piece == MakeFrame(in)[p]
    IN MaybeFrame(piece.base, piece.start, piece.resolutions, i, cur)

ValueAt(in, p, i) ==
    LET piece == MakeFrame(in)[p]
        res   == piece.resolutions[i]
    IN IF piece.base = 0 /\ res # "kIgnore"
       THEN FieldBytes(in, piece.fields[i], res) ELSE << >>

SizeAt(in, p, i, cur) ==
    LET piece == MakeFrame(in)[p]
    IN IF FramingAt(in, p, i, cur) = << >> THEN 0
       ELSE Owed(FramingAt(in, p, i, cur), RunLength(piece.resolutions, i), piece.resolutions[i])

AskedAt(in, p, i, cur) ==
    IF MakeFrame(in)[p].base = kReadBase THEN SizeAt(in, p, i, cur) ELSE 0

StartsAt(in, p, i) ==
    LET piece == MakeFrame(in)[p]
    IN piece.query /\ i = 1 /\ "fields" \in DOMAIN piece /\ piece.start = Register.kMode

NextSize(in, p, i, cur, size) ==
    ((IF StartsAt(in, p, i) THEN 0 ELSE size) + AskedAt(in, p, i, cur)) % 256

LEMMA SizedNext ==
    ASSUME NEW in \in Inputs, NEW rest, NEW i, NEW cur, NEW p, At(in, rest, i, cur, p),
           p \in 1..Len(MakeFrame(in)), Combined(MakeFrame(in)[p]),
           NEW size, NEW sum \in Nat, Sized(in, i, p, size, sum), NEW more \in Nat,
           MakeFrame(in)[p].base # kReadBase => more = 0
    PROVE  Sized(in, NextField(in, p, i), NextPiece(in, p, i),
                 ((IF StartsAt(in, p, i) THEN 0 ELSE size) + more) % 256, sum + more)
  <1> SUFFICES ASSUME Quiet(in)
               PROVE  /\ ((IF StartsAt(in, p, i) THEN 0 ELSE size) + more) % 256 = (sum + more) % 256
                      /\ Before(in, NextPiece(in, p, i), NextField(in, p, i)) => sum + more = 0
    BY DEF Sized
  <1> DEFINE M == MakeFrame(in)
             c == Len(in.command)
             starts == StartsAt(in, p, i)
  <1>1. size = sum % 256 /\ (Before(in, p, i) => sum = 0)
    BY DEF Sized
  <1>2. c \in Nat /\ p \in Nat /\ p >= 1 /\ Len(M) \in Nat /\ DOMAIN in.command = 1..c
    BY FrameMade, InputsAssumption
  <1>3. p <= c => more = 0 /\ sum = 0 /\ starts = FALSE
    <2>1. SUFFICES ASSUME p <= c PROVE more = 0 /\ sum = 0 /\ starts = FALSE
      OBVIOUS
    <2>2. in.command[p].base = M[p].base /\ M[p].query = FALSE /\ "base" \in DOMAIN in.command[p]
      BY <2>1, PiecesMade
    <2>3. p \in DOMAIN in.command
      BY <1>2, <2>1
    <2>4. M[p].base = 0
      BY <2>2, <2>3 DEF Quiet
    <2> QED
      BY <1>1, <2>1, <2>2, <2>4 DEF StartsAt, Before, kReadBase
  <1>4. starts => sum = 0
    <2>1. SUFFICES ASSUME starts PROVE sum = 0
      OBVIOUS
    <2>2. "fields" \in DOMAIN M[p] /\ M[p].start = Register.kMode /\ i = 1
      BY <2>1 DEF StartsAt
    <2>3. p <= c \/ p = c + 1
      <3>1. p > c => p = c + 1
        BY <2>2, PiecesMade
      <3> HIDE DEF c
      <3> QED
        BY <1>2, <3>1
    <2> QED
      BY <1>1, <2>2, <2>3 DEF Before
  <1>5. \A a, b \in Nat : ((a % 256) + b) % 256 = (a + b) % 256
    BY SMT
  <1>6. Before(in, NextPiece(in, p, i), NextField(in, p, i)) => p <= c
    BY Onward
  <1> HIDE DEF starts
  <1>7. ((IF starts THEN 0 ELSE size) + more) % 256 = (sum + more) % 256
    <2>1. CASE starts
      BY <1>4, <2>1
    <2>2. CASE ~starts
      BY <1>1, <1>5, <2>2
    <2> QED
      BY <2>1, <2>2
  <1> QED
    BY <1>3, <1>6, <1>7 DEF starts

LEMMA PassesBy ==
    ASSUME NEW in \in Inputs, NEW rest, NEW i, NEW cur, NEW data \in Seq(Byte), NEW size,
           NEW p \in 1..Len(MakeFrame(in)), NEW ops, NEW cuts, NEW sums,
           Making(in, rest, i, cur, data, size, p, ops, cuts, sums), Combined(MakeFrame(in)[p]),
           LET piece == MakeFrame(in)[p]
           IN \/ piece.resolutions[i] = "kIgnore"
              \/ piece.resolutions[i] = cur /\ piece.base = kReadBase
    PROVE  Making(in, NextRest(in, rest, p, i), NextField(in, p, i), NextRes(in, p, i),
                  data \o (FramingAt(in, p, i, cur) \o ValueAt(in, p, i)),
                  NextSize(in, p, i, cur, size), NextPiece(in, p, i), ops, cuts, sums)
  <1> DEFINE piece == MakeFrame(in)[p]
             res == piece.resolutions[i]
             p2 == NextPiece(in, p, i)
             i2 == NextField(in, p, i)
             cur2 == NextRes(in, p, i)
  <1>1. /\ At(in, rest, i, cur, p) /\ LaidOut(data, ops, cuts, sums)
        /\ Whole(in, i, cur, p, ops) /\ Says(in, i, p, ops)
        /\ Sized(in, i, p, size, sums[Len(ops)])
    BY DEF Making
  <1>2. FramingAt(in, p, i, cur) = << >> /\ ValueAt(in, p, i) = << >>
    BY DEF FramingAt, ValueAt, MaybeFrame, kReadBase
  <1>3. data \o (FramingAt(in, p, i, cur) \o ValueAt(in, p, i)) = data
    BY <1>2
  <1>4. ~InRun(in, i, cur, p) /\ ~InRun(in, i2, cur2, p2)
    <2>1. ~InRun(in, i, cur, p)
      BY DEF InRun, kReadBase
    <2>2. ~InRun(in, i2, cur2, p2)
      BY <1>1, Onward DEF kReadBase
    <2> QED
      BY <2>1, <2>2
  <1>5. Whole(in, i2, cur2, p2, ops)
    BY <1>1, <1>4 DEF Whole
  <1>6. Says(in, i2, p2, ops)
    <2>1. \A e : ~FieldSays(in, piece, i, e)
      BY DEF FieldSays, kReadBase
    <2>2. \A e : /\ Told(in, p2, i2, e) <=> Told(in, p, i, e)
                 /\ Spelled(in, p2, e) <=> Spelled(in, p, e)
      BY <1>1, <2>1, Onward
    <2> QED
      BY <1>1, <2>2 DEF Says
  <1>7. Sized(in, i2, p2, NextSize(in, p, i, cur, size), sums[Len(ops)])
    <2>1. AskedAt(in, p, i, cur) = 0
      BY <1>2 DEF AskedAt, SizeAt
    <2>2. sums[Len(ops)] \in Nat
      BY <1>1 DEF LaidOut
    <2>3. Sized(in, i2, p2, ((IF StartsAt(in, p, i) THEN 0 ELSE size) + 0) % 256,
                sums[Len(ops)] + 0)
      BY <1>1, <2>2, SizedNext
    <2>4. sums[Len(ops)] + 0 = sums[Len(ops)]
      BY <2>2
    <2> QED
      BY <2>1, <2>3, <2>4 DEF NextSize
  <1>8. At(in, NextRest(in, rest, p, i), i2, cur2, p2)
    BY <1>1, Advance
  <1> QED
    BY <1>1, <1>3, <1>5, <1>6, <1>7, <1>8 DEF Making

(* The operation that begins at a field.                                    *)
OpAt(in, p, i) ==
    LET piece == MakeFrame(in)[p]
    IN [base |-> piece.base, res |-> piece.resolutions[i],
        count |-> RunLength(piece.resolutions, i), first |-> piece.start + i - 1,
        words |-> IF piece.base = 0 THEN <<ValueAt(in, p, i)>> ELSE << >>]

Valued(in, p, i) ==
    LET piece == MakeFrame(in)[p]
    IN /\ ValueAt(in, p, i) \in Seq(Byte)
       /\ piece.base = 0 => Len(ValueAt(in, p, i)) = ResolutionSize(piece.resolutions[i])
       /\ piece.base # 0 => ValueAt(in, p, i) = << >>
       /\ \A e : FieldSays(in, piece, i, e) <=>
                    /\ piece.base = 0
                    /\ e = Entry(piece.start + i - 1, piece.resolutions[i], ValueAt(in, p, i))

LEMMA ValueMade ==
    ASSUME NEW in \in Inputs, NEW rest, NEW i, NEW cur, NEW p, At(in, rest, i, cur, p),
           p \in 1..Len(MakeFrame(in)), Combined(MakeFrame(in)[p]),
           MakeFrame(in)[p].resolutions[i] # "kIgnore"
    PROVE  Valued(in, p, i)
  <1> DEFINE piece == MakeFrame(in)[p]
             res == piece.resolutions[i]
             field == piece.fields[i]
             v == in.values[field[1]]
  <1>1. /\ res \in Resolutions /\ i \in 1..Len(piece.resolutions)
        /\ piece.base = 0 => v \in Given
    BY FieldAt
  <1>2. ValueAt(in, p, i) = IF piece.base = 0 THEN FieldBytes(in, field, res) ELSE << >>
    BY DEF ValueAt
  <1>3. piece.base = 0 => /\ FieldBytes(in, field, res) \in Seq(Byte)
                          /\ Len(FieldBytes(in, field, res)) = ResolutionSize(res)
    <2>1. SUFFICES ASSUME piece.base = 0 PROVE /\ FieldBytes(in, field, res) \in Seq(Byte)
                          /\ Len(FieldBytes(in, field, res)) = ResolutionSize(res)
      OBVIOUS
    <2>2. v \in Given /\ res \in Resolutions
      BY <1>1, <2>1
    <2>3. FieldBytes(in, field, res) = Write(field[2], v, res, in.undefined)
      BY DEF FieldBytes
    <2>4. in.undefined \in Undefined
      BY InputsAssumption
    <2> HIDE DEF v, res, field
    <2> QED
      BY <2>2, <2>3, <2>4, WriteBytes
  <1>4. \A e : FieldSays(in, piece, i, e) <=>
                  piece.base = 0 /\ e = Entry(piece.start + i - 1, res, FieldBytes(in, field, res))
    BY <1>1 DEF FieldSays
  <1> HIDE DEF v, res, field, piece
  <1>5. \A e : FieldSays(in, piece, i, e) <=>
                  piece.base = 0 /\ e = Entry(piece.start + i - 1, res, ValueAt(in, p, i))
    BY <1>2, <1>4
  <1>6. ValueAt(in, p, i) \in Seq(Byte)
    BY <1>2, <1>3
  <1> QED
    BY <1>2, <1>3, <1>5, <1>6 DEF piece, res, Valued

LEMMA OpMade ==
    ASSUME NEW in \in Inputs, NEW rest, NEW i, NEW cur, NEW p, At(in, rest, i, cur, p),
           p \in 1..Len(MakeFrame(in)), Combined(MakeFrame(in)[p]),
           MakeFrame(in)[p].resolutions[i] \notin {cur, "kIgnore"}
    PROVE  LET op == OpAt(in, p, i)
           IN /\ op \in Operation
              /\ FramingAt(in, p, i, cur) = FramingOf(op)
              /\ AskedAt(in, p, i, cur) = OwedFor(op)
  <1> DEFINE piece == MakeFrame(in)[p]
             r == piece.resolutions
             op == OpAt(in, p, i)
  <1>1. /\ r \in Seq(Resolutions \cup {"kIgnore"}) /\ Len(r) \in Nat \ {0}
        /\ i \in 1..Len(r) /\ r[i] \in Resolutions /\ piece.start + i - 1 \in Numbers
        /\ piece.base \in {0, kReadBase}
    BY FieldAt
  <1>2. RunLength(r, i) \in Counts
    <2>1. RunLength(r, i) \in 1..(Len(r) - i + 1)
      BY <1>1, RunNext
    <2>2. Len(r) \in Counts
      <3>1. Combinable(in, piece)
        BY PiecesMade DEF Combined, SpelledOut
      <3> QED
        BY <3>1 DEF Combinable
    <2> DEFINE n == RunLength(r, i)
               l == Len(r)
    <2>3. n \in 1..(l - i + 1) /\ l \in Counts /\ i \in 1..l
      BY <1>1, <2>1, <2>2
    <2> HIDE DEF n, l
    <2>4. n \in Counts
      BY ONLY <2>3 DEF Counts
    <2> QED
      BY <2>4 DEF n
  <1>3. (IF piece.base = 0 THEN <<ValueAt(in, p, i)>> ELSE << >>) \in Seq(Seq(Byte))
    <2>1. ValueAt(in, p, i) \in Seq(Byte)
      BY ValueMade DEF Valued
    <2> QED
      BY <2>1
  <1>4. op \in Operation
    BY <1>1, <1>2, <1>3 DEF OpAt, Operation
  <1>5. FramingAt(in, p, i, cur) = FramingOf(op)
    BY DEF FramingAt, MaybeFrame, FramingOf, OpAt
  <1>6. FramingAt(in, p, i, cur) # << >>
    BY <1>4, <1>5, OperationSizes
  <1>7. AskedAt(in, p, i, cur) = OwedFor(op)
    BY <1>5, <1>6 DEF AskedAt, SizeAt, OwedFor, OpAt
  <1> QED
    BY <1>4, <1>5, <1>7

(* A field that begins an operation.                                        *)
LEMMA OpStands ==
    ASSUME NEW data \in Seq(Byte), NEW op \in Operation, NEW value \in Seq(Byte),
           op.words = (IF op.base = 0 THEN <<value>> ELSE << >>),
           op.base = 0 => Len(value) = ResolutionSize(op.res),
           op.base # 0 => value = << >>
    PROVE  /\ Len(FramingOf(op) \o value) = Length(op)
           /\ Stands(data \o (FramingOf(op) \o value), Len(data), op)
           /\ FramingOf(op) \o value \in Seq(Byte)
  <1> DEFINE framing == FramingOf(op)
             size == ResolutionSize(op.res)
             more == framing \o value
  <1>1. framing \in Seq(Byte) /\ Len(framing) \in Nat \ {0} /\ size \in {1, 2, 4}
    BY OperationSizes
  <1> HIDE DEF framing
  <1>2. /\ more \in Seq(Byte) /\ Len(more) = Len(framing) + Len(value)
        /\ data \o more = (data \o framing) \o value
        /\ data \o framing \in Seq(Byte) /\ Len(data \o framing) = Len(data) + Len(framing)
    <2>1. /\ more \in Seq(Byte) /\ Len(more) = Len(framing) + Len(value)
          /\ data \o framing \in Seq(Byte) /\ Len(data \o framing) = Len(data) + Len(framing)
      BY <1>1
    <2>2. data \o more = (data \o framing) \o value
      BY <1>1, SMTT(30)
    <2> QED
      BY <2>1, <2>2
  <1>3. StandsAt(data \o more, Len(data), framing)
    <2>1. StandsAt(data \o framing, Len(data), framing)
      BY <1>1, StandsAtEnd
    <2> DEFINE both == data \o framing
    <2>2. both \in Seq(Byte) /\ Len(data) \in Nat /\ framing \in Seq(Byte)
      BY <1>1, <1>2
    <2> HIDE DEF both
    <2>3. StandsAt(both \o value, Len(data), framing)
      BY <2>1, <2>2, StandsStill DEF both
    <2> QED
      BY <1>2, <2>3 DEF both
  <1>4. StandsAt(data \o more, Len(data) + Len(framing), value)
    BY <1>2, StandsAtEnd
  <1>5. CASE op.base = 0
    <2>1. Len(op.words) = 1 /\ op.words[1] = value /\ op.base # kReadBase
      BY <1>5 DEF kReadBase
    <2> HIDE DEF size, more
    <2>2. \A m \in 1..Len(op.words) :
             /\ Len(op.words[m]) = size
             /\ StandsAt(data \o more, Len(data) + Len(framing) + (m - 1) * size, op.words[m])
      <3>1. TAKE m \in 1..Len(op.words)
      <3>2. m = 1
        BY <2>1
      <3>3. Len(data) + Len(framing) + (m - 1) * size = Len(data) + Len(framing)
        <4>1. size \in Int /\ Len(data) + Len(framing) \in Nat
          BY <1>1
        <4>2. (m - 1) * size = 0
          BY ONLY <3>2, <4>1
        <4> QED
          BY <4>1, <4>2
      <3>4. Len(value) = size
        BY <1>5 DEF size
      <3> QED
        BY <1>4, <2>1, <3>2, <3>3, <3>4
    <2>3. Len(more) = Len(framing) + Len(op.words) * size
      BY <1>1, <1>2, <1>5, <2>1 DEF size
    <2> QED
      BY <1>2, <1>3, <2>1, <2>2, <2>3 DEF Stands, Length, framing, size, more
  <1>6. CASE op.base # 0
    <2>1. op.words = << >> /\ value = << >>
      BY <1>6
    <2> QED
      BY <1>1, <1>2, <1>3, <2>1 DEF Stands, Length, framing
  <1> QED
    BY <1>5, <1>6

LEMMA Opens ==
    ASSUME NEW in \in Inputs, NEW rest, NEW i, NEW cur, NEW data \in Seq(Byte), NEW size,
           NEW p \in 1..Len(MakeFrame(in)), NEW ops, NEW cuts, NEW sums,
           Making(in, rest, i, cur, data, size, p, ops, cuts, sums), Combined(MakeFrame(in)[p]),
           MakeFrame(in)[p].resolutions[i] \notin {cur, "kIgnore"}
    PROVE  \E ops2, cuts2, sums2 :
              Making(in, NextRest(in, rest, p, i), NextField(in, p, i), NextRes(in, p, i),
                  data \o (FramingAt(in, p, i, cur) \o ValueAt(in, p, i)),
                  NextSize(in, p, i, cur, size), NextPiece(in, p, i), ops2, cuts2, sums2)
  <1> DEFINE piece == MakeFrame(in)[p]
             r == piece.resolutions
             res == r[i]
             p2 == NextPiece(in, p, i)
             i2 == NextField(in, p, i)
             cur2 == NextRes(in, p, i)
             op == OpAt(in, p, i)
             value == ValueAt(in, p, i)
             wider == Append(ops, op)
             n == Len(ops)
             more == FramingAt(in, p, i, cur) \o value
  <1>1. /\ At(in, rest, i, cur, p) /\ LaidOut(data, ops, cuts, sums)
        /\ Whole(in, i, cur, p, ops) /\ Says(in, i, p, ops)
        /\ Sized(in, i, p, size, sums[n])
    BY DEF Making
  <1>2. /\ op \in Operation /\ FramingAt(in, p, i, cur) = FramingOf(op)
        /\ AskedAt(in, p, i, cur) = OwedFor(op)
    BY <1>1, OpMade
  <1>3. /\ value \in Seq(Byte)
        /\ piece.base = 0 => Len(value) = ResolutionSize(res)
        /\ piece.base # 0 => value = << >>
        /\ \A e : FieldSays(in, piece, i, e) <=>
                     piece.base = 0 /\ e = Entry(piece.start + i - 1, res, value)
    BY <1>1, ValueMade, ZenonT(60) DEF Valued
  <1>4. /\ op.base = piece.base /\ op.res = res /\ op.count = RunLength(r, i)
        /\ op.first = piece.start + i - 1
        /\ op.words = IF piece.base = 0 THEN <<value>> ELSE << >>
    BY DEF OpAt
  <1>5. /\ Len(more) = Length(op) /\ Stands(data \o more, Len(data), op)
        /\ more \in Seq(Byte)
    BY <1>2, <1>3, <1>4, OpStands
  <1>6. PICK cuts2, sums2 : /\ LaidOut(data \o more, wider, cuts2, sums2)
                            /\ sums2[n + 1] = sums[n] + OwedFor(op)
    <2>1. op \in Operation
      BY <1>2
    <2> HIDE DEF op, more
    <2> QED
      BY <1>1, <1>5, <2>1, Extended
  <1>7. ops \in Seq(Operation) /\ n \in Nat /\ sums[n] \in Nat /\ OwedFor(op) \in Nat
    BY <1>1, <1>2, OperationSizes DEF LaidOut
  <1>8. /\ Len(wider) = n + 1 /\ wider[n + 1] = op /\ \A k \in 1..n : wider[k] = ops[k]
    BY <1>7
  <1>9. ~InRun(in, i, cur, p)
    BY DEF InRun
  <1>10. /\ r \in Seq(Resolutions \cup {"kIgnore"}) /\ i \in 1..Len(r) /\ Len(r) \in Nat
         /\ piece.start + i - 1 \in Numbers
    BY <1>1, FieldAt
  <1>11. Whole(in, i2, cur2, p2, wider)
    <2>1. \A k \in 1..n : Complete(wider[k])
      BY <1>1, <1>8, <1>9 DEF Whole
    <2>2. InRun(in, i2, cur2, p2) <=>
             piece.base = 0 /\ res # "kIgnore" /\ i < Len(r) /\ r[i + 1] = r[i]
      BY <1>1, Onward
    <2>3. ~InRun(in, i2, cur2, p2) => Complete(op)
      <3>1. SUFFICES ASSUME ~InRun(in, i2, cur2, p2), op.base = 0
                     PROVE  Len(op.words) = op.count
        BY DEF Complete
      <3>2. ~(i < Len(r) /\ r[i + 1] = r[i])
        BY <1>4, <2>2, <3>1
      <3> HIDE DEF r
      <3>3. RunLength(r, i) = 1
        BY <1>10, <3>2, RunNext
      <3>4. Len(op.words) = 1
        BY <1>4, <3>1
      <3> USE DEF r
      <3> QED
        BY <1>4, <3>3, <3>4
    <2>4. InRun(in, i2, cur2, p2) => RunOpen(in, i2, cur2, p2, op)
      <3>1. SUFFICES ASSUME InRun(in, i2, cur2, p2)
                     PROVE  RunOpen(in, i2, cur2, p2, op)
        OBVIOUS
      <3>2. piece.base = 0 /\ i < Len(r) /\ r[i + 1] = r[i]
        BY <2>2, <3>1
      <3>3. p2 = p /\ i2 = i + 1 /\ cur2 = res
        BY <1>10, <3>2 DEF NextPiece, NextField, NextRes, LastField
      <3>4. Len(op.words) = 1
        BY <1>4, <3>2
      <3>5. RunLength(r, i) = RunLength(r, i + 1) + 1 /\ RunLength(r, i + 1) \in Nat
        <4> HIDE DEF r
        <4>1. RunLength(r, i) = RunLength(r, i + 1) + 1
          BY <1>10, <3>2, RunNext
        <4>2. i + 1 \in 1..Len(r)
          BY <1>10, <3>2
        <4>3. RunLength(r, i + 1) \in 1..(Len(r) - (i + 1) + 1)
          BY <1>10, <4>2, RunNext
        <4> QED
          BY <4>1, <4>3
      <3>6. op.first + 1 = piece.start + (i + 1) - 1
        <4> DEFINE s == piece.start
        <4>1. s \in Int /\ i \in Int
          BY <1>1, <1>10, FieldAt, Bounds
        <4> HIDE DEF piece, s
        <4>2. (s + i - 1) + 1 = s + (i + 1) - 1
          BY <4>1
        <4> QED
          BY <1>4, <4>2 DEF piece, s
      <3>7. 1 + RunLength(r, i + 1) = op.count
        BY <1>4, <3>5
      <3> QED
        BY <1>4, <3>2, <3>3, <3>4, <3>6, <3>7 DEF RunOpen
    <2> HIDE DEF wider, n, op, i2, cur2, p2, piece, res, r
    <2>5. \A k \in 1..(n + 1) : k < n + 1 => k \in 1..n
      BY <1>7
    <2>6. \A k \in 1..(n + 1) : k < n + 1 \/ k = n + 1
      BY <1>7
    <2>7. \A k \in 1..(n + 1) : k < n + 1 \/ ~InRun(in, i2, cur2, p2) => Complete(wider[k])
      BY <1>8, <2>1, <2>3, <2>5, <2>6
    <2>8. n + 1 > 0
      BY <1>7
    <2> QED
      BY <1>8, <2>4, <2>7, <2>8 DEF Whole
  <1>12. Says(in, i2, p2, wider)
    <2>1. \A e : Carries(wider, n + 1, e) <=> Carries(ops, n, e) \/ FieldSays(in, piece, i, e)
      <3>1. TAKE e
      <3>2. OpSays(op, e) <=> FieldSays(in, piece, i, e)
        <4>1. CASE piece.base = 0
          <5>1. Len(op.words) = 1 /\ op.words[1] = value
            BY <1>4, <4>1
          <5>2. op.first + 1 - 1 = op.first
            BY <1>2, Bounds DEF Operation
          <5> HIDE DEF op
          <5> QED
            BY <1>3, <1>4, <4>1, <5>1, <5>2 DEF OpSays
        <4>2. CASE piece.base # 0
          <5>1. Len(op.words) = 0
            BY <1>4, <4>2
          <5> QED
            BY <1>3, <4>2, <5>1 DEF OpSays
        <4> QED
          BY <4>1, <4>2
      <3>3. Carries(wider, n + 1, e) <=> Carries(ops, n, e) \/ OpSays(op, e)
        BY <1>2, <1>7, CarriesAppend
      <3> QED
        BY <3>2, <3>3
    <2>2. \A e : /\ Told(in, p2, i2, e) <=> Told(in, p, i, e) \/ FieldSays(in, piece, i, e)
                 /\ Spelled(in, p2, e) <=> Spelled(in, p, e)
      BY <1>1, Onward
    <2> HIDE DEF wider, n, op, i2, cur2, p2, piece, res, r
    <2> QED
      BY <1>1, <1>8, <2>1, <2>2, ZenonT(60) DEF Says, n
  <1>13. Sized(in, i2, p2, NextSize(in, p, i, cur, size), sums2[Len(wider)])
    <2>1. piece.base # kReadBase => OwedFor(op) = 0
      BY <1>4 DEF OwedFor
    <2>2. Sized(in, i2, p2, ((IF StartsAt(in, p, i) THEN 0 ELSE size) + OwedFor(op)) % 256,
                sums[n] + OwedFor(op))
      BY <1>1, <1>7, <2>1, SizedNext, ZenonT(60)
    <2> QED
      BY <1>2, <1>6, <1>8, <2>2 DEF NextSize
  <1>14. At(in, NextRest(in, rest, p, i), i2, cur2, p2)
    BY <1>1, Advance
  <1>15. Making(in, NextRest(in, rest, p, i), i2, cur2, data \o more,
                NextSize(in, p, i, cur, size), p2, wider, cuts2, sums2)
    BY <1>6, <1>11, <1>12, <1>13, <1>14 DEF Making
  <1> QED
    BY <1>15

(* A field of a run that is open.                                           *)
LEMMA Grows ==
    ASSUME NEW in \in Inputs, NEW rest, NEW i, NEW cur, NEW data \in Seq(Byte), NEW size,
           NEW p \in 1..Len(MakeFrame(in)), NEW ops, NEW cuts, NEW sums,
           Making(in, rest, i, cur, data, size, p, ops, cuts, sums), Combined(MakeFrame(in)[p]),
           MakeFrame(in)[p].base = 0, MakeFrame(in)[p].resolutions[i] # "kIgnore",
           MakeFrame(in)[p].resolutions[i] = cur
    PROVE  \E ops2, cuts2, sums2 :
              Making(in, NextRest(in, rest, p, i), NextField(in, p, i), NextRes(in, p, i),
                  data \o (FramingAt(in, p, i, cur) \o ValueAt(in, p, i)),
                  NextSize(in, p, i, cur, size), NextPiece(in, p, i), ops2, cuts2, sums2)
  <1> DEFINE piece == MakeFrame(in)[p]
             r == piece.resolutions
             p2 == NextPiece(in, p, i)
             i2 == NextField(in, p, i)
             cur2 == NextRes(in, p, i)
             value == ValueAt(in, p, i)
             n == Len(ops)
             op == ops[n]
             w == Len(op.words)
             grown == Grow(ops, value)
  <1>1. /\ At(in, rest, i, cur, p) /\ LaidOut(data, ops, cuts, sums)
        /\ Whole(in, i, cur, p, ops) /\ Says(in, i, p, ops)
        /\ Sized(in, i, p, size, sums[n])
    BY DEF Making
  <1>2. InRun(in, i, cur, p)
    BY FrameMade DEF InRun
  <1>3. /\ n > 0 /\ op.base = 0 /\ op.res = cur
        /\ w + RunLength(r, i) = op.count /\ op.first + w = piece.start + i - 1
    BY <1>1, <1>2 DEF Whole, RunOpen
  <1>4. /\ value \in Seq(Byte) /\ Len(value) = ResolutionSize(cur)
        /\ \A e : FieldSays(in, piece, i, e) <=> e = Entry(piece.start + i - 1, cur, value)
    <2>1. Valued(in, p, i)
      BY <1>1, ValueMade
    <2>2. piece.base = 0 /\ r[i] = cur
      OBVIOUS
    <2> QED
      BY <2>1, <2>2 DEF Valued
  <1>5. FramingAt(in, p, i, cur) = << >>
    BY DEF FramingAt, MaybeFrame
  <1>6. data \o (FramingAt(in, p, i, cur) \o value) = data \o value
    <2> HIDE DEF value
    <2> QED
      BY <1>4, <1>5
  <1>7. ops \in Seq(Operation) /\ n \in Nat /\ sums[n] \in Nat
    BY <1>1, SMTT(30) DEF LaidOut
  <1>8. PICK cuts2 : LaidOut(data \o value, grown, cuts2, sums)
    <2> HIDE DEF value
    <2>1. Len(value) = ResolutionSize(ops[Len(ops)].res)
      BY <1>3, <1>4
    <2> QED
      BY <1>1, <1>3, <1>4, <2>1, Grown
  <1>9. /\ op \in Operation /\ Len(grown) = n /\ w \in Nat
        /\ \A k \in 1..(n - 1) : grown[k] = ops[k]
        /\ grown[n].base = op.base /\ grown[n].res = op.res
        /\ grown[n].count = op.count /\ grown[n].first = op.first
        /\ Len(grown[n].words) = w + 1
    <2> HIDE DEF value
    <2> QED
      BY <1>3, <1>4, <1>7, GrowIs
  <1>10. /\ r \in Seq(Resolutions \cup {"kIgnore"}) /\ i \in 1..Len(r) /\ Len(r) \in Nat
         /\ piece.start \in Numbers /\ r[i] = cur
    BY <1>1, FieldAt
  <1>11. Whole(in, i2, cur2, p2, grown)
    <2>1. InRun(in, i2, cur2, p2) <=> i < Len(r) /\ r[i + 1] = r[i]
      BY <1>1, Onward
    <2>2. ~InRun(in, i2, cur2, p2) => Complete(grown[n])
      <3>1. SUFFICES ASSUME ~InRun(in, i2, cur2, p2) PROVE Len(grown[n].words) = grown[n].count
        BY DEF Complete
      <3> HIDE DEF r
      <3>2. RunLength(r, i) = 1
        BY <1>10, <2>1, <3>1, RunNext
      <3> USE DEF r
      <3> QED
        BY <1>3, <1>9, <3>2
    <2>3. InRun(in, i2, cur2, p2) => RunOpen(in, i2, cur2, p2, grown[n])
      <3>1. SUFFICES ASSUME InRun(in, i2, cur2, p2)
                     PROVE  RunOpen(in, i2, cur2, p2, grown[n])
        OBVIOUS
      <3>2. i < Len(r) /\ r[i + 1] = r[i]
        BY <2>1, <3>1
      <3>3. p2 = p /\ i2 = i + 1 /\ cur2 = cur
        BY <1>10, <3>2 DEF NextPiece, NextField, NextRes, LastField
      <3> DEFINE l == RunLength(r, i + 1)
      <3>5. RunLength(r, i) = l + 1 /\ l \in Nat
        <4> HIDE DEF r
        <4>1. RunLength(r, i) = l + 1
          BY <1>10, <3>2, RunNext
        <4>2. i + 1 \in 1..Len(r)
          BY <1>10, <3>2
        <4>3. l \in 1..(Len(r) - (i + 1) + 1)
          BY <1>10, <4>2, RunNext
        <4> QED
          BY <4>1, <4>3
      <3> DEFINE s == piece.start
                 f == op.first
                 c == op.count
      <3>6. s \in Int /\ f \in Int /\ i \in Int /\ c \in Int /\ w \in Nat
        BY <1>9, <1>10, Bounds, SMTT(30) DEF Operation
      <3>7. f + w = s + i - 1 /\ w + (l + 1) = c
        BY <1>3, <3>5
      <3> HIDE DEF s, f, c, w, l
      <3>8. f + (w + 1) = s + (i + 1) - 1 /\ (w + 1) + l = c
        BY <3>5, <3>6, <3>7
      <3> HIDE DEF n, grown, piece
      <3> QED
        BY <1>3, <1>9, <3>3, <3>8 DEF RunOpen, s, f, c, l, r, piece
    <2>4. \A k \in 1..(n - 1) : Complete(grown[k])
      BY <1>1, <1>7, <1>9 DEF Whole
    <2> HIDE DEF grown, n, op, w, i2, cur2, p2, piece, r
    <2>5. \A k \in 1..n : k \in 1..(n - 1) \/ k = n
      BY <1>7
    <2>6. \A k \in 1..n : k < n => k # n
      BY <1>7
    <2>7. \A k \in 1..n : k < n \/ ~InRun(in, i2, cur2, p2) => Complete(grown[k])
      BY <2>2, <2>4, <2>5, <2>6
    <2> QED
      BY <1>3, <1>9, <2>3, <2>7 DEF Whole
  <1>12. Says(in, i2, p2, grown)
    <2>1. Entry(op.first + w, op.res, value) = Entry(piece.start + i - 1, cur, value)
      BY <1>3
    <2>2. \A e : Carries(grown, n, e) <=> Carries(ops, n, e) \/ e = Entry(op.first + w, op.res, value)
      <3> HIDE DEF value
      <3> QED
        BY <1>3, <1>4, <1>7, CarriesGrow
    <2>3. \A e : /\ Told(in, p2, i2, e) <=> Told(in, p, i, e) \/ FieldSays(in, piece, i, e)
                 /\ Spelled(in, p2, e) <=> Spelled(in, p, e)
      BY <1>1, Onward
    <2> HIDE DEF grown, n, op, w, i2, cur2, p2, piece, r
    <2> QED
      BY <1>1, <1>4, <1>9, <2>1, <2>2, <2>3 DEF Says, n
  <1>13. Sized(in, i2, p2, NextSize(in, p, i, cur, size), sums[Len(grown)])
    <2>1. AskedAt(in, p, i, cur) = 0
      BY DEF AskedAt, kReadBase
    <2>2. Sized(in, i2, p2, ((IF StartsAt(in, p, i) THEN 0 ELSE size) + 0) % 256, sums[n] + 0)
      BY <1>1, <1>7, SizedNext
    <2>3. sums[n] + 0 = sums[n]
      BY <1>7
    <2> QED
      BY <1>9, <2>1, <2>2, <2>3 DEF NextSize
  <1>14. At(in, NextRest(in, rest, p, i), i2, cur2, p2)
    BY <1>1, Advance
  <1>15. Making(in, NextRest(in, rest, p, i), i2, cur2, data \o value,
                NextSize(in, p, i, cur, size), p2, grown, cuts2, sums)
    BY <1>8, <1>11, <1>12, <1>13, <1>14 DEF Making
  <1> QED
    BY <1>6, <1>15

LEMMA MaybeStep ==
    ASSUME NEW in \in Inputs, NEW rest, NEW i, NEW cur, NEW data \in Seq(Byte), NEW size,
           NEW p \in 1..Len(MakeFrame(in)), NEW ops, NEW cuts, NEW sums,
           Making(in, rest, i, cur, data, size, p, ops, cuts, sums), Combined(MakeFrame(in)[p])
    PROVE  \E ops2, cuts2, sums2 :
              Making(in, NextRest(in, rest, p, i), NextField(in, p, i), NextRes(in, p, i),
                  data \o (FramingAt(in, p, i, cur) \o ValueAt(in, p, i)),
                  NextSize(in, p, i, cur, size), NextPiece(in, p, i), ops2, cuts2, sums2)
  <1> DEFINE piece == MakeFrame(in)[p]
             res == piece.resolutions[i]
  <1>1. At(in, rest, i, cur, p)
    BY DEF Making
  <1>2. piece.base \in {0, kReadBase}
    BY <1>1, FieldAt
  <1>3. CASE res = "kIgnore" \/ (res = cur /\ piece.base = kReadBase)
    BY <1>3, PassesBy
  <1>4. CASE res \notin {cur, "kIgnore"}
    BY <1>4, Opens
  <1>5. CASE res = cur /\ res # "kIgnore" /\ piece.base = 0
    BY <1>5, Grows
  <1> QED
    BY <1>2, <1>3, <1>4, <1>5

LEMMA Halves ==
    ASSUME NEW bytes \in Seq(Byte), NEW k \in Nat, k <= Len(bytes)
    PROVE  LET front == SubSeq(bytes, 1, k)
               back  == SubSeq(bytes, k + 1, Len(bytes))
           IN /\ front \in Seq(Byte) /\ back \in Seq(Byte)
              /\ Len(front) = k /\ Len(back) = Len(bytes) - k
              /\ bytes = front \o back
  <1> DEFINE front == SubSeq(bytes, 1, k)
             back == SubSeq(bytes, k + 1, Len(bytes))
             n == Len(bytes)
  <1>1. front \in Seq(Byte) /\ Len(front) = k /\ \A j \in 1..k : front[j] = bytes[j]
    OBVIOUS
  <1>2. back \in Seq(Byte) /\ Len(back) = n - k /\ \A j \in 1..(n - k) : back[j] = bytes[k + j]
    OBVIOUS
  <1> HIDE DEF front, back
  <1>3. /\ front \o back \in Seq(Byte) /\ Len(front \o back) = n
        /\ \A j \in 1..n : (front \o back)[j] = IF j <= k THEN front[j] ELSE back[j - k]
    BY <1>1, <1>2
  <1>4. \A j \in 1..n : (front \o back)[j] = bytes[j]
    BY <1>1, <1>2, <1>3
  <1> DEFINE both == front \o back
  <1>5. bytes = both
    <2>1. both \in Seq(Byte) /\ Len(both) = n /\ \A j \in 1..n : both[j] = bytes[j]
      BY <1>3, <1>4
    <2> HIDE DEF both
    <2>2. both = [j \in 1..n |-> both[j]] /\ bytes = [j \in 1..n |-> bytes[j]]
      BY <2>1
    <2> QED
      BY <2>1, <2>2
  <1> QED
    BY <1>1, <1>2, <1>5 DEF front, back

(* A piece that is spelled out is one operation.                            *)
LEMMA LiteralStep ==
    ASSUME NEW in \in Inputs, NEW rest, NEW i, NEW cur, NEW data \in Seq(Byte), NEW size,
           NEW p \in 1..Len(MakeFrame(in)), NEW ops, NEW cuts, NEW sums,
           Making(in, rest, i, cur, data, size, p, ops, cuts, sums), SpelledOut(MakeFrame(in)[p])
    PROVE  /\ MakeFrame(in)[p].bytes \in Seq(Byte)
           /\ \E ops2, cuts2, sums2 :
                 Making(in, Tail(rest), i, cur, data \o MakeFrame(in)[p].bytes, size, p + 1,
                        ops2, cuts2, sums2)
  <1> DEFINE M == MakeFrame(in)
             bytes == M[p].bytes
             n == Len(ops)
             c == Len(in.command)
  <1>1. /\ At(in, rest, i, cur, p) /\ LaidOut(data, ops, cuts, sums)
        /\ Whole(in, i, cur, p, ops) /\ Says(in, i, p, ops)
        /\ Sized(in, i, p, size, sums[n])
    BY DEF Making
  <1>2. i = 1 /\ cur = "kIgnore"
    BY <1>1 DEF At, SpelledOut, Combined
  <1>3. p \in Nat /\ Len(M) \in Nat /\ c \in Nat /\ p <= Len(M)
    BY FrameMade
  <1>4. WholeWrite(bytes)
    BY PiecesMade DEF SpelledOut, Combined
  <1>5. PICK res \in Resolutions, register \in Numbers :
           /\ bytes \in Seq(Byte)
           /\ Len(bytes) = Len(Framing(0, res, 1, register)) + ResolutionSize(res)
           /\ SubSeq(bytes, 1, Len(Framing(0, res, 1, register))) = Framing(0, res, 1, register)
    BY <1>4 DEF WholeWrite
  <1> DEFINE framing == Framing(0, res, 1, register)
             value == SubSeq(bytes, Len(framing) + 1, Len(bytes))
             op == [base |-> 0, res |-> res, count |-> 1, first |-> register, words |-> <<value>>]
             plain == [base |-> 0, res |-> res, count |-> 1, first |-> register, words |-> << >>]
             wider == Append(ops, op)
  <1>6. framing = FramingOf(plain) /\ framing = FramingOf(op)
    BY DEF FramingOf
  <1>7. framing \in Seq(Byte) /\ Len(framing) \in Nat /\ ResolutionSize(res) \in {1, 2, 4}
    <2>1. plain \in Operation
      BY DEF Operation, Counts
    <2> QED
      BY <1>6, <2>1, OperationSizes, Sizes
  <1>8. /\ value \in Seq(Byte) /\ Len(value) = ResolutionSize(res)
        /\ bytes = framing \o value
    <2> HIDE DEF framing, bytes
    <2>1. Len(framing) <= Len(bytes) /\ Len(bytes) = Len(framing) + ResolutionSize(res)
      BY <1>5, <1>7 DEF framing
    <2>2. SubSeq(bytes, 1, Len(framing)) = framing /\ bytes \in Seq(Byte)
      BY <1>5 DEF framing
    <2>3. /\ value \in Seq(Byte) /\ Len(value) = Len(bytes) - Len(framing)
          /\ bytes = SubSeq(bytes, 1, Len(framing)) \o value
      BY <1>7, <2>1, <2>2, Halves
    <2>4. Len(bytes) - Len(framing) = ResolutionSize(res)
      BY <1>7, <2>1
    <2> HIDE DEF value
    <2>5. bytes = framing \o value
      BY <2>2, <2>3
    <2> QED
      BY <2>3, <2>4, <2>5
  <1> HIDE DEF value, framing, bytes, plain
  <1>9. op \in Operation
    <2>1. <<value>> \in Seq(Seq(Byte)) /\ 1 \in Counts
      BY <1>8 DEF Counts
    <2> QED
      BY <2>1 DEF Operation
  <1>10. /\ op.base = 0 /\ op.words = <<value>> /\ op.count = 1 /\ op.first = register /\ op.res = res
    OBVIOUS
  <1> HIDE DEF op
  <1>11. /\ Len(bytes) = Length(op) /\ Stands(data \o bytes, Len(data), op)
    BY <1>6, <1>8, <1>9, <1>10, OpStands
  <1>12. PICK cuts2, sums2 : /\ LaidOut(data \o bytes, wider, cuts2, sums2)
                             /\ sums2[n + 1] = sums[n] + OwedFor(op)
    BY <1>1, <1>5, <1>9, <1>11, Extended DEF bytes
  <1>13. ops \in Seq(Operation) /\ n \in Nat /\ sums[n] \in Nat
    BY <1>1, SMTT(30) DEF LaidOut
  <1>14. /\ Len(wider) = n + 1 /\ wider[n + 1] = op /\ \A k \in 1..n : wider[k] = ops[k]
    BY <1>13
  <1>15. Whole(in, i, cur, p + 1, wider)
    <2>1. ~InRun(in, i, cur, p) /\ ~InRun(in, i, cur, p + 1)
      BY <1>2 DEF InRun
    <2>2. \A k \in 1..n : Complete(wider[k])
      BY <1>1, <1>14, <2>1 DEF Whole
    <2>3. Complete(op)
      BY <1>10 DEF Complete
    <2> HIDE DEF wider, n
    <2>4. \A k \in 1..(n + 1) : k \in 1..n \/ k = n + 1
      BY <1>13
    <2>5. \A k \in 1..(n + 1) : Complete(wider[k])
      BY <1>14, <2>2, <2>3, <2>4
    <2> QED
      BY <1>14, <2>1, <2>5 DEF Whole
  <1>16. Says(in, i, p + 1, wider)
    <2>1. \A e : Carries(wider, n + 1, e) <=> Carries(ops, n, e) \/ e = Entry(register, res, value)
      <3>1. TAKE e
      <3>2. Len(op.words) = 1 /\ op.words[1] = value /\ op.first + 1 - 1 = register
        BY <1>10, Bounds
      <3>3. Carries(wider, n + 1, e) <=> Carries(ops, n, e) \/ OpSays(op, e)
        BY <1>9, <1>13, CarriesAppend
      <3>4. OpSays(op, e) <=> e = Entry(register, res, value)
        BY <1>10, <3>2 DEF OpSays
      <3> QED
        BY <3>3, <3>4
    <2>2. LiteralSays(bytes, Entry(register, res, value))
      BY <1>5 DEF LiteralSays, framing, value
    <2>3. Spelled(in, p + 1, Entry(register, res, value))
      <3>1. p < p + 1
        BY <1>3
      <3> QED
        BY <2>2, <3>1 DEF Spelled, bytes
    <2>4. \A e : Spelled(in, p, e) => Spelled(in, p + 1, e)
      <3>1. \A q \in 1..Len(M) : q < p => q < p + 1
        BY <1>3
      <3> QED
        BY <3>1 DEF Spelled
    <2>5. \A e : Told(in, p + 1, i, e) <=> Told(in, p, i, e)
      <3>1. TAKE e
      <3> DEFINE says(q, j) == FieldSays(in, M[q], j, e)
      <3>2. \A q \in 1..Len(M), j \in Nat : says(q, j) => q # p /\ j >= 1
        <4>1. \A q \in 1..Len(M), j \in Nat : says(q, j) => Combined(M[q]) /\ j \in 1..Len(M[q].resolutions)
          BY DEF FieldSays
        <4>2. ~Combined(M[p])
          BY DEF SpelledOut, Combined
        <4> QED
          BY <4>1, <4>2
      <3>3. Told(in, p + 1, i, e) <=>
               \E q \in 1..Len(M), j \in Nat : (q < p + 1 \/ (q = p + 1 /\ j < i)) /\ says(q, j)
        BY DEF Told
      <3>4. Told(in, p, i, e) <=>
               \E q \in 1..Len(M), j \in Nat : (q < p \/ (q = p /\ j < i)) /\ says(q, j)
        BY DEF Told
      <3> HIDE DEF says, M
      <3>5. \A q \in 1..Len(M), j \in Nat : says(q, j) =>
               ((q < p + 1 \/ (q = p + 1 /\ j < i)) <=> (q < p \/ (q = p /\ j < i)))
        BY <1>2, <1>3, <3>2
      <3> QED
        BY <3>3, <3>4, <3>5
    <2> HIDE DEF wider, n
    <2> QED
      BY <1>1, <1>14, <2>1, <2>3, <2>4, <2>5 DEF Says, n
  <1>17. Sized(in, i, p + 1, size, sums2[Len(wider)])
    <2>1. OwedFor(op) = 0
      BY <1>10 DEF OwedFor, kReadBase
    <2>2. sums2[Len(wider)] = sums[n]
      BY <1>12, <1>13, <1>14, <2>1
    <2>3. Before(in, p + 1, i) => Before(in, p, i)
      BY <1>2, <1>3 DEF Before
    <2> QED
      BY <1>1, <2>2, <2>3 DEF Sized
  <1>18. At(in, Tail(rest), i, cur, p + 1)
    <2>1. rest # << >>
      <3>1. /\ rest \in Seq({M[k] : k \in 1..Len(M)}) /\ Len(rest) = Len(M) - p + 1
        BY <1>1 DEF At
      <3> HIDE DEF M
      <3>2. Len(rest) >= 1
        BY <1>3, <3>1
      <3> QED
        BY <3>2
    <2> QED
      BY <1>1, <1>2, <2>1, AtHead
  <1>19. Making(in, Tail(rest), i, cur, data \o bytes, size, p + 1, wider, cuts2, sums2)
    BY <1>12, <1>15, <1>16, <1>17, <1>18 DEF Making
  <1> QED
    BY <1>5, <1>19 DEF bytes

-----------------------------------------------------------------------------
(* The parser.                                                              *)

LEMMA Sized124 ==
    ASSUME NEW res
    PROVE  ResolutionSize(res) \in {1, 2, 4}
  BY DEF ResolutionSize

(* A set of places at or after one, of which the first is meant, or of      *)
(* those up to one, of which the last is.                                   *)
LEMMA FirstPlace ==
    ASSUME NEW S \in SUBSET Nat, NEW s \in S
    PROVE  \E n \in S : \A m \in S : n <= m
  <1>1. PICK n \in S : \A m \in S : ~(<<m, n>> \in OpToRel(<, Nat))
    BY NatLessThanWellFounded, WFMin
  <1>2. \A m \in S : ~(m < n)
    BY <1>1 DEF OpToRel
  <1> QED
    BY <1>2

LEMMA LastPlace ==
    ASSUME NEW bound \in Nat, NEW S \in SUBSET (0..bound), NEW s \in S
    PROVE  \E n \in S : \A m \in S : m <= n
  <1> DEFINE R == {bound - m : m \in S}
  <1>1. R \in SUBSET Nat /\ bound - s \in R
    OBVIOUS
  <1>2. PICK r \in R : \A t \in R : r <= t
    BY <1>1, FirstPlace
  <1>3. PICK n \in S : r = bound - n
    OBVIOUS
  <1>4. \A m \in S : bound - n <= bound - m
    BY <1>2, <1>3
  <1> QED
    BY <1>4

LEMMA VaruintStops ==
    ASSUME NEW data \in Seq(Byte), NEW offset \in Nat, offset <= Len(data)
    PROVE  VaruintEnd(data, offset) \in offset..Len(data)
  <1> DEFINE Stops(e) == e = offset + 5 \/ e = Len(data) \/ data[e] < 128
             S == {e \in (offset + 1)..Len(data) : Stops(e)}
  <1>1. CASE offset = Len(data)
    BY <1>1 DEF VaruintEnd
  <1>2. CASE offset # Len(data)
    <2>1. Len(data) \in S /\ S \in SUBSET Nat
      BY <1>2
    <2> HIDE DEF S
    <2>2. PICK n \in S : \A m \in S : n <= m
      BY <2>1, FirstPlace
    <2>3. n \in (offset + 1)..Len(data) /\ Stops(n)
      BY DEF S
    <2>4. ASSUME NEW k \in (offset + 1)..(n - 1)
          PROVE  data[k] >= 128 /\ k < offset + 5
      <3>1. k \in (offset + 1)..Len(data) /\ k < n
        BY <2>3
      <3>2. ~Stops(k)
        BY <2>2, <2>3, <3>1 DEF S
      <3>3. data[k] \in Byte
        BY <3>1
      <3> DEFINE b == data[k]
      <3>a. b \in Byte /\ ~(b < 128)
        BY <3>2, <3>3
      <3> HIDE DEF b
      <3>b. b >= 128
        BY ONLY <3>a DEF Byte
      <3>4. data[k] >= 128
        BY <3>b DEF b
      <3>5. k < offset + 5
        <4>1. offset + 5 # k
          BY <3>2
        <4>2. ~(offset + 5 < k)
          <5>1. SUFFICES ASSUME offset + 5 < k PROVE FALSE
            OBVIOUS
          <5>2. offset + 5 \in (offset + 1)..Len(data) /\ offset + 5 < n
            BY <2>3, <3>1, <5>1
          <5>3. offset + 5 \in S
            BY <5>2 DEF S
          <5> QED
            BY <2>2, <2>3, <5>2, <5>3
        <4> QED
          BY <3>1, <4>1, <4>2
      <3> QED
        BY <3>4, <3>5
    <2>5. \E e \in (offset + 1)..Len(data) :
             /\ e = offset + 5 \/ e = Len(data) \/ data[e] < 128
             /\ \A k \in (offset + 1)..(e - 1) : data[k] >= 128 /\ k < offset + 5
      BY <2>3, <2>4
    <2>6. VaruintEnd(data, offset) \in (offset + 1)..Len(data)
      BY <1>2, <2>5 DEF VaruintEnd
    <2> QED
      BY <2>6
  <1> QED
    BY <1>1, <1>2

LEMMA CommandFound ==
    ASSUME NEW data \in Seq(Byte), NEW offset \in Nat, offset <= Len(data)
    PROVE  NextCommand(data, offset) \in offset..Len(data)
  <1> DEFINE S == {o \in offset..Len(data) : Skipped(data, offset, o)}
  <1>1. offset \in S /\ S \in SUBSET (0..Len(data))
    BY DEF Skipped
  <1>2. PICK n \in S : \A m \in S : m <= n
    <2> HIDE DEF S
    <2>1. Len(data) \in Nat
      OBVIOUS
    <2> QED
      BY <1>1, <2>1, LastPlace
  <1>3. \A e \in (n + 1)..Len(data) : ~Skipped(data, offset, e)
    <2>1. \A e \in (n + 1)..Len(data) : e \in offset..Len(data) /\ ~(e <= n)
      OBVIOUS
    <2> QED
      BY <1>2, <2>1
  <1>4. \E o \in offset..Len(data) :
           /\ Skipped(data, offset, o)
           /\ \A e \in (o + 1)..Len(data) : ~Skipped(data, offset, e)
    BY <1>3
  <1> QED
    BY <1>4 DEF NextCommand

IsParser(p) ==
    \E offset \in Nat : \E remaining, res, register :
        p = [offset |-> offset, remaining |-> remaining, res |-> res, register |-> register]

(* A register next() announces has its bytes in front of it.                *)
LEMMA NextStays ==
    ASSUME NEW data \in Seq(Byte), NEW p, IsParser(p), p.offset <= Len(data),
           ~next(data, p).done
    PROVE  LET r == next(data, p).parser
           IN IsParser(r) /\ Enough(data, r)
  <1> DEFINE r == [p EXCEPT !.remaining = Int8(@ - 1)]
             o == NextCommand(data, p.offset)
             cmd == data[o + 1]
             long == cmd % 4 = 0
             at == IF long THEN o + 2 ELSE o + 1
             count == IF long THEN data[at] ELSE cmd % 4
             q == [offset |-> VaruintEnd(data, at), remaining |-> Int8(count - 1),
                   res |-> CodedResolution(cmd), register |-> Varuint(data, at)]
             end == [p EXCEPT !.offset = Len(data)]
             found == /\ o + 1 < Len(data)
                      /\ cmd \in kReplyBase..(kReplyBase + 15)
                      /\ at < Len(data)
             offer(s) == IF Enough(data, s) THEN Found(s) ELSE Done(s)
             n == next(data, p)
  <1>1. PICK offset \in Nat : \E remaining, res, register :
           p = [offset |-> offset, remaining |-> remaining, res |-> res, register |-> register]
    BY DEF IsParser
  <1>2. p.offset = offset
    BY <1>1
  <1>3. \A s : Done(s).done
    BY DEF Done
  <1>4. IsParser(r)
    <2>1. PICK remaining, res, register :
             p = [offset |-> offset, remaining |-> remaining, res |-> res, register |-> register]
      BY <1>1
    <2> DEFINE left == Int8(remaining - 1)
    <2>2. r = [offset |-> offset, remaining |-> left, res |-> res, register |-> register]
      BY <2>1
    <2> HIDE DEF left
    <2> QED
      BY <2>2 DEF IsParser
  <1>5. \A s : IsParser(s) => /\ IsParser(Found(s).parser)
                              /\ Found(s).parser.offset = s.offset
                              /\ Found(s).parser.res = s.res
    <2>1. TAKE s
    <2>2. HAVE IsParser(s)
    <2>3. PICK f \in Nat : \E remaining, res, register :
             s = [offset |-> f, remaining |-> remaining, res |-> res, register |-> register]
      BY <2>2 DEF IsParser
    <2>4. PICK remaining, res, register :
             s = [offset |-> f, remaining |-> remaining, res |-> res, register |-> register]
      BY <2>3
    <2> DEFINE next1 == (register + 1) % 65536
    <2>5. Found(s).parser = [offset |-> f, remaining |-> remaining, res |-> res, register |-> next1]
      BY <2>4 DEF Found
    <2> HIDE DEF next1
    <2>6. IsParser(Found(s).parser)
      BY <2>5 DEF IsParser
    <2>7. s.offset = f /\ s.res = res
      BY <2>4
    <2>8. Found(s).parser.offset = f /\ Found(s).parser.res = res
      BY <2>5
    <2> QED
      BY <2>6, <2>7, <2>8
  <1>6. n = IF p.offset >= Len(data) THEN Done(p)
            ELSE IF p.remaining # 0 THEN offer(r)
            ELSE IF found THEN offer(q) ELSE Done(end)
    BY DEF next
  <1>7. found => IsParser(q)
    <2>1. SUFFICES ASSUME o + 1 < Len(data), at < Len(data) PROVE IsParser(q)
      OBVIOUS
    <2>2. o \in offset..Len(data)
      BY <1>2, CommandFound
    <2>3. at \in Nat /\ at <= Len(data)
      BY <2>1, <2>2
    <2> HIDE DEF at, o, cmd
    <2>4. VaruintEnd(data, at) \in Nat
      BY <2>3, VaruintStops
    <2> QED
      BY <2>4 DEF IsParser
  <1> HIDE DEF r, q, o, cmd, at, end, n, found
  <1>8. ~n.done
    BY DEF n
  <1>9. \/ n = Found(r) /\ Enough(data, r)
        \/ n = Found(q) /\ Enough(data, q) /\ found
    BY <1>3, <1>6, <1>8
  <1>10. CASE n = Found(r) /\ Enough(data, r)
    BY <1>4, <1>5, <1>10 DEF n, Enough
  <1>11. CASE n = Found(q) /\ Enough(data, q) /\ found
    BY <1>5, <1>7, <1>11 DEF n, Enough
  <1> QED
    BY <1>9, <1>10, <1>11

-----------------------------------------------------------------------------
(* The motor controller at work.                                            *)

Written == [register : Nat, res : Resolutions, bytes : Seq(Byte)]

(* A frame as it is sent.                                                   *)
Laid(in, data, size, ops, cuts, sums) ==
    /\ LaidOut(data, ops, cuts, sums)
    /\ \A k \in 1..Len(ops) : Complete(ops[k])
    /\ Says(in, 1, Len(MakeFrame(in)) + 1, ops)
    /\ Quiet(in) => size = sums[Len(ops)] % 256

(* Its first k operations carried out.                                      *)
Served(at, regs, back, ops, cuts, sums, k) ==
    /\ k \in 0..Len(ops) /\ at = cuts[k]
    /\ back \in Seq(Byte) /\ Len(back) = sums[k]
    /\ regs \in Seq(Written)
    /\ \A e : (\E j \in 1..Len(regs) : regs[j] = e) <=> Carries(ops, k, e)

LEMMA SentWhole ==
    ASSUME NEW in \in Inputs, NEW i, NEW cur, NEW data \in Seq(Byte), NEW size,
           NEW p, NEW ops, NEW cuts, NEW sums,
           Making(in, << >>, i, cur, data, size, p, ops, cuts, sums)
    PROVE  Laid(in, data, size, ops, cuts, sums)
  <1> DEFINE M == MakeFrame(in)
  <1>1. /\ At(in, << >>, i, cur, p) /\ LaidOut(data, ops, cuts, sums)
        /\ Whole(in, i, cur, p, ops) /\ Says(in, i, p, ops)
        /\ Sized(in, i, p, size, sums[Len(ops)])
    BY DEF Making
  <1>2. Len(M) \in Nat
    BY FrameMade
  <1>3. p = Len(M) + 1 /\ ~(p <= Len(M))
    <2>1. p \in 1..(Len(M) + 1) /\ 0 = Len(M) - p + 1
      BY <1>1 DEF At
    <2> HIDE DEF M
    <2> QED
      BY <1>2, <2>1
  <1>4. i = 1
    BY <1>1, <1>3 DEF At
  <1>5. \A k \in 1..Len(ops) : Complete(ops[k])
    BY <1>1, <1>3 DEF Whole, InRun
  <1> QED
    BY <1>1, <1>3, <1>4, <1>5 DEF Laid, Sized

LEMMA NothingServed ==
    ASSUME NEW data, NEW ops, NEW cuts, NEW sums, LaidOut(data, ops, cuts, sums)
    PROVE  Served(0, << >>, << >>, ops, cuts, sums, 0)
  <1>1. 0 \in 0..Len(ops) /\ cuts[0] = 0 /\ sums[0] = 0
    BY DEF LaidOut
  <1>2. \A e : ~Carries(ops, 0, e)
    BY DEF Carries
  <1> QED
    BY <1>1, <1>2 DEF Served

(* The operation that comes next, and when none does.                       *)
LEMMA OperationNext ==
    ASSUME NEW data \in Seq(Byte), NEW ops, NEW cuts, NEW sums, LaidOut(data, ops, cuts, sums),
           NEW k \in 0..Len(ops)
    PROVE  /\ cuts[k] = Len(data) => k = Len(ops)
           /\ cuts[k] < Len(data) =>
                 LET op == ops[k + 1]
                 IN /\ k + 1 \in 0..Len(ops) /\ op \in Operation /\ cuts[k] \in Nat
                    /\ cuts[k + 1] = cuts[k] + Length(op)
                    /\ sums[k + 1] = sums[k] + OwedFor(op) /\ sums[k] \in Nat
                    /\ Stands(data, cuts[k], op)
  <1> DEFINE n == Len(ops)
             op == ops[k + 1]
  <1>1. /\ ops \in Seq(Operation) /\ n \in Nat /\ cuts[n] = Len(data)
        /\ cuts \in [0..n -> Nat] /\ sums \in [0..n -> Nat]
    BY DEF LaidOut
  <1>2. cuts[k] \in Nat /\ sums[k] \in Nat
    BY <1>1
  <1>3. k < n => /\ k + 1 \in 1..n /\ op \in Operation
                 /\ cuts[k + 1] = cuts[k] + Length(op)
                 /\ sums[k + 1] = sums[k] + OwedFor(op)
                 /\ Stands(data, cuts[k], op)
    <2>1. SUFFICES ASSUME k < n
                   PROVE  /\ k + 1 \in 1..n /\ op \in Operation
                          /\ cuts[k + 1] = cuts[k] + Length(op)
                          /\ sums[k + 1] = sums[k] + OwedFor(op)
                          /\ Stands(data, cuts[k], op)
      OBVIOUS
    <2>2. k + 1 \in 1..n /\ k + 1 - 1 = k
      BY <1>1, <2>1
    <2>3. op \in Operation
      BY <1>1, <2>2
    <2> QED
      BY <2>2, <2>3 DEF LaidOut
  <1>4. cuts[k] = Len(data) => k = n
    <2>1. SUFFICES ASSUME k < n, cuts[k] = Len(data) PROVE FALSE
      BY <1>1
    <2>2. op \in Operation /\ Stands(data, cuts[k], op)
      BY <1>3, <2>1
    <2>3. Len(FramingOf(op)) \in Nat \ {0}
      BY <2>2, OperationSizes
    <2>4. cuts[k] + Len(FramingOf(op)) <= Len(data)
      BY <2>2 DEF Stands, StandsAt
    <2> QED
      BY <1>2, <2>1, <2>3, <2>4
  <1>5. cuts[k] < Len(data) => k < n
    <2>1. SUFFICES ASSUME cuts[k] < Len(data) PROVE k # n
      BY <1>1
    <2> QED
      BY <1>1, <1>2, <2>1
  <1>6. k < n => k + 1 \in 0..n
    BY <1>1
  <1> QED
    BY <1>2, <1>3, <1>4, <1>5, <1>6

LEMMA HeldIs ==
    ASSUME NEW register \in Nat
    PROVE  Held(register) \in Given
  <1>1. Held(register) \in 1..100
    BY DEF Held
  <1> QED
    BY <1>1 DEF Given

LEMMA ValuesAre ==
    ASSUME NEW first \in Nat, NEW count \in Nat, NEW res \in Resolutions
    PROVE  /\ Values(first, count, res) \in Seq(Byte)
           /\ Len(Values(first, count, res)) = count * ResolutionSize(res)
  <1> DEFINE size == ResolutionSize(res)
             total == count * size
             byte(k) == WriteMapped(Held(first + (k - 1) \div size), res)[((k - 1) % size) + 1]
  <1>1. Values(first, count, res) = [k \in 1..total |-> byte(k)]
    BY DEF Values
  <1>2. size \in {1, 2, 4}
    BY Sizes
  <1>3. total \in Nat
    <2> HIDE DEF size
    <2> QED
      BY <1>2
  <1>4. ASSUME NEW k \in 1..total PROVE byte(k) \in Byte
    <2> DEFINE j == (k - 1) \div size
               m == ((k - 1) % size) + 1
    <2>1. k - 1 \in Nat
      <3> HIDE DEF total
      <3> QED
        BY <1>3
    <2>2. j \in Nat /\ m \in 1..size
      <3> HIDE DEF size
      <3> QED
        BY <1>2, <2>1
    <2> HIDE DEF j, m, size
    <2>3. Held(first + j) \in Given
      BY <2>2, HeldIs
    <2>4. /\ WriteMapped(Held(first + j), res) \in Seq(Byte)
          /\ Len(WriteMapped(Held(first + j), res)) = size
      BY <2>3, MappedBytes DEF size
    <2>5. WriteMapped(Held(first + j), res)[m] \in Byte
      BY <2>2, <2>4
    <2> QED
      BY <2>5 DEF j, m, size
  <1> HIDE DEF byte, total
  <1>5. Values(first, count, res) \in Seq(Byte) /\ Len(Values(first, count, res)) = total
    BY <1>1, <1>3, <1>4
  <1> QED
    BY <1>5 DEF total

LEMMA WordAt ==
    ASSUME NEW data \in Seq(Byte), NEW at \in Nat, NEW x \in Seq(Byte), StandsAt(data, at, x)
    PROVE  SubSeq(data, at + 1, at + Len(x)) = x
  <1> DEFINE part == SubSeq(data, at + 1, at + Len(x))
             n == Len(x)
  <1>1. n \in Nat /\ at + n <= Len(data) /\ \A j \in 1..n : data[at + j] = x[j]
    BY DEF StandsAt
  <1>2. part \in Seq(Byte) /\ Len(part) = n /\ \A j \in 1..n : part[j] = data[at + j]
    BY <1>1
  <1> HIDE DEF part
  <1>3. part = [j \in 1..n |-> part[j]] /\ x = [j \in 1..n |-> x[j]]
    BY <1>2
  <1>4. \A j \in 1..n : part[j] = x[j]
    BY <1>1, <1>2
  <1> HIDE DEF n
  <1>5. part = x
    BY <1>3, <1>4
  <1> QED
    BY <1>5 DEF part, n

LEMMA CarriesNext ==
    ASSUME NEW ops, NEW k \in Nat, NEW e
    PROVE  Carries(ops, k + 1, e) <=> Carries(ops, k, e) \/ OpSays(ops[k + 1], e)
  <1>1. \A j : j \in 1..(k + 1) <=> j \in 1..k \/ j = k + 1
    OBVIOUS
  <1> QED
    BY <1>1 DEF Carries

(* What a write sets, and what a question adds to the reply.                *)
Sets(data, begin, op) ==
    [j \in 1..op.count |->
        [register |-> op.first + j - 1, res |-> op.res,
         bytes |-> SubSeq(data, begin + (j - 1) * ResolutionSize(op.res) + 1,
                          begin + j * ResolutionSize(op.res))]]

LEMMA WriteServed ==
    ASSUME NEW data \in Seq(Byte), NEW ops, NEW cuts, NEW sums, LaidOut(data, ops, cuts, sums),
           NEW regs, NEW back, NEW k, NEW at,
           Served(at, regs, back, ops, cuts, sums, k), at < Len(data),
           Complete(ops[k + 1]), ops[k + 1].base = 0
    PROVE  LET op    == ops[k + 1]
               begin == at + Len(FramingOf(op))
           IN Served(begin + op.count * ResolutionSize(op.res), regs \o Sets(data, begin, op), back,
                     ops, cuts, sums, k + 1)
  <1> DEFINE op == ops[k + 1]
             size == ResolutionSize(op.res)
             begin == at + Len(FramingOf(op))
             count == op.count
             sets == Sets(data, begin, op)
  <1>1. /\ k \in 0..Len(ops) /\ at = cuts[k]
        /\ back \in Seq(Byte) /\ Len(back) = sums[k] /\ regs \in Seq(Written)
        /\ \A e : (\E j \in 1..Len(regs) : regs[j] = e) <=> Carries(ops, k, e)
    BY DEF Served
  <1>2. /\ k + 1 \in 0..Len(ops) /\ op \in Operation /\ cuts[k] \in Nat
        /\ cuts[k + 1] = cuts[k] + Length(op)
        /\ sums[k + 1] = sums[k] + OwedFor(op) /\ sums[k] \in Nat
        /\ Stands(data, cuts[k], op)
    BY <1>1, OperationNext
  <1>3. Len(FramingOf(op)) \in Nat /\ size \in {1, 2, 4}
    BY <1>2, OperationSizes
  <1>4. /\ op.words \in Seq(Seq(Byte)) /\ op.res \in Resolutions /\ op.first \in Nat
        /\ count \in Nat /\ Len(op.words) = count
    BY <1>2, Bounds, SMTT(30) DEF Operation, Complete
  <1>5. begin + count * size = cuts[k + 1]
    <2>1. Length(op) = Len(FramingOf(op)) + count * size
      BY <1>4 DEF Length
    <2> DEFINE t == count * size
    <2>2. t \in Nat
      <3> HIDE DEF count, size
      <3> QED
        BY <1>3, <1>4
    <2> HIDE DEF t
    <2> QED
      BY <1>1, <1>2, <1>3, <2>1, <2>2 DEF t
  <1>6. sums[k + 1] = sums[k]
    BY <1>2 DEF OwedFor, kReadBase
  <1>7. ASSUME NEW j \in 1..count
        PROVE  /\ SubSeq(data, begin + (j - 1) * size + 1, begin + j * size) = op.words[j]
               /\ op.words[j] \in Seq(Byte) /\ op.first + j - 1 \in Nat
    <2>1. Len(op.words[j]) = size /\ StandsAt(data, begin + (j - 1) * size, op.words[j])
      BY <1>1, <1>2, <1>4 DEF Stands
    <2>2. op.words[j] \in Seq(Byte) /\ op.first + j - 1 \in Nat
      BY <1>4, SMTT(30)
    <2> DEFINE place == begin + (j - 1) * size
    <2>3. place \in Nat /\ place + size = begin + j * size
      <3>1. begin \in Nat /\ j \in Nat /\ j >= 1
        BY <1>1, <1>2, <1>3, <1>4, SMTT(30)
      <3> HIDE DEF begin, size
      <3> QED
        BY <1>3, <3>1
    <2> HIDE DEF place, begin, size
    <2>4. SubSeq(data, place + 1, place + Len(op.words[j])) = op.words[j]
      BY <2>1, <2>2, <2>3, WordAt DEF place
    <2> QED
      BY <2>1, <2>2, <2>3, <2>4 DEF place
  <1>8. sets = [j \in 1..count |-> Entry(op.first + j - 1, op.res, op.words[j])]
    BY <1>7 DEF Sets, Entry
  <1>9. \A j \in 1..count : Entry(op.first + j - 1, op.res, op.words[j]) \in Written
    BY <1>4, <1>7 DEF Entry, Written
  <1> HIDE DEF sets, count, size, begin
  <1>10. /\ sets \in Seq(Written) /\ Len(sets) = count
         /\ \A j \in 1..count : sets[j] = Entry(op.first + j - 1, op.res, op.words[j])
    <2> DEFINE word(j) == Entry(op.first + j - 1, op.res, op.words[j])
    <2>1. count \in Nat /\ sets = [j \in 1..count |-> word(j)] /\ \A j \in 1..count : word(j) \in Written
      BY <1>4, <1>8, <1>9
    <2> HIDE DEF word
    <2>2. /\ sets \in Seq(Written) /\ Len(sets) = count
          /\ \A j \in 1..count : sets[j] = word(j)
      BY ONLY <2>1
    <2> QED
      BY <2>2 DEF word
  <1> DEFINE longer == regs \o sets
             m == Len(regs)
  <1>11. /\ longer \in Seq(Written) /\ Len(longer) = m + count /\ m \in Nat
         /\ \A j \in 1..m : longer[j] = regs[j]
         /\ \A j \in 1..count : longer[m + j] = sets[j]
    <2>1. regs \in Seq(Written) /\ sets \in Seq(Written) /\ Len(sets) = count
      BY <1>1, <1>10
    <2>2. longer \in Seq(Written) /\ Len(longer) = m + count /\ m \in Nat
      BY ONLY <2>1, SMTT(30) DEF longer, m
    <2>3. \A j \in 1..m : longer[j] = regs[j]
      BY ONLY <2>1 DEF longer, m
    <2>4. \A j \in 1..count : longer[m + j] = sets[j]
      BY ONLY <2>1 DEF longer, m
    <2> QED
      BY <2>2, <2>3, <2>4
  <1> HIDE DEF longer, m
  <1>12. ASSUME NEW e
         PROVE  (\E j \in 1..Len(longer) : longer[j] = e) <=> Carries(ops, k + 1, e)
    <2>1. Carries(ops, k + 1, e) <=>
             \/ Carries(ops, k, e)
             \/ \E j \in 1..count : e = Entry(op.first + j - 1, op.res, op.words[j])
      <3>1. k \in Nat
        BY <1>1
      <3>2. Carries(ops, k + 1, e) <=> Carries(ops, k, e) \/ OpSays(op, e)
        BY <3>1, CarriesNext
      <3>3. OpSays(op, e) <=> \E j \in 1..count : e = Entry(op.first + j - 1, op.res, op.words[j])
        <4>1. Len(op.words) = count
          BY <1>4
        <4> HIDE DEF op
        <4> QED
          BY <4>1 DEF OpSays
      <3> HIDE DEF op
      <3> QED
        BY <3>2, <3>3
    <2>2. \A j \in 1..(m + count) : j \in 1..m \/ \E x \in 1..count : j = m + x
      <3>1. \A j \in 1..(m + count) : ~(j \in 1..m) => j - m \in 1..count /\ j = m + (j - m)
        BY <1>4, <1>11
      <3> QED
        BY <3>1
    <2>3. /\ \A j \in 1..m : j \in 1..(m + count)
          /\ \A x \in 1..count : m + x \in 1..(m + count)
      BY <1>4, <1>11
    <2>4. (\E j \in 1..Len(longer) : longer[j] = e) <=>
             \/ \E j \in 1..m : regs[j] = e
             \/ \E j \in 1..count : sets[j] = e
      <3>1. Len(longer) = m + count
        BY <1>11
      <3>2. ASSUME NEW j \in 1..(m + count), longer[j] = e
            PROVE  (\E x \in 1..m : regs[x] = e) \/ (\E x \in 1..count : sets[x] = e)
        <4>1. CASE j \in 1..m
          BY <1>11, <3>2, <4>1
        <4>2. CASE \E x \in 1..count : j = m + x
          BY <1>11, <3>2, <4>2
        <4> QED
          BY <2>2, <4>1, <4>2
      <3>3. ASSUME NEW x \in 1..m, regs[x] = e
            PROVE  \E j \in 1..(m + count) : longer[j] = e
        BY <1>11, <2>3, <3>3
      <3>4. ASSUME NEW x \in 1..count, sets[x] = e
            PROVE  \E j \in 1..(m + count) : longer[j] = e
        BY <1>11, <2>3, <3>4
      <3> QED
        BY <3>1, <3>2, <3>3, <3>4
    <2>5. (\E j \in 1..m : regs[j] = e) <=> Carries(ops, k, e)
      BY <1>1 DEF m
    <2> QED
      BY <1>10, <2>1, <2>4, <2>5
  <1> QED
    BY <1>1, <1>2, <1>5, <1>6, <1>11, <1>12 DEF Served, longer, sets, begin, size, count

LEMMA ReadServed ==
    ASSUME NEW data \in Seq(Byte), NEW ops, NEW cuts, NEW sums, LaidOut(data, ops, cuts, sums),
           NEW regs, NEW back, NEW k, NEW at,
           Served(at, regs, back, ops, cuts, sums, k), at < Len(data),
           ops[k + 1].base # 0
    PROVE  LET op   == ops[k + 1]
               head == Framing(kReplyBase, op.res, op.count, op.first)
           IN Served(at + Len(FramingOf(op)), regs,
                     back \o head \o Values(op.first, op.count, op.res), ops, cuts, sums, k + 1)
  <1> DEFINE op == ops[k + 1]
             size == ResolutionSize(op.res)
             head == Framing(kReplyBase, op.res, op.count, op.first)
             values == Values(op.first, op.count, op.res)
             count == op.count
  <1>1. /\ k \in 0..Len(ops) /\ at = cuts[k]
        /\ back \in Seq(Byte) /\ Len(back) = sums[k] /\ regs \in Seq(Written)
        /\ \A e : (\E j \in 1..Len(regs) : regs[j] = e) <=> Carries(ops, k, e)
    BY DEF Served
  <1>2. /\ k + 1 \in 0..Len(ops) /\ op \in Operation /\ cuts[k] \in Nat
        /\ cuts[k + 1] = cuts[k] + Length(op)
        /\ sums[k + 1] = sums[k] + OwedFor(op) /\ sums[k] \in Nat
        /\ Stands(data, cuts[k], op)
    BY <1>1, OperationNext
  <1>3. op.base = kReadBase /\ op.words = << >>
    BY <1>2 DEF Operation, Stands
  <1>4. /\ op.res \in Resolutions /\ op.first \in Numbers /\ op.first \in Nat
        /\ count \in Counts /\ count \in Nat
    BY <1>2, Bounds, SMTT(30) DEF Operation
  <1>5. Len(FramingOf(op)) \in Nat /\ size \in {1, 2, 4}
    BY <1>2, OperationSizes
  <1>6. at + Len(FramingOf(op)) = cuts[k + 1]
    <2>1. Length(op) = Len(FramingOf(op)) + 0 * size
      BY <1>3 DEF Length
    <2> QED
      BY <1>1, <1>2, <1>5, <2>1, SMTT(30)
  <1>7. head \in Seq(Byte) /\ Len(head) = Len(FramingOf(op))
    <2>1. /\ Framed(head, kReplyBase, op.res, count, op.first)
          /\ Framed(FramingOf(op), kReadBase, op.res, count, op.first)
      BY <1>3, <1>4, FramingBytes DEF FramingOf
    <2> QED
      BY <2>1 DEF Framed
  <1>8. values \in Seq(Byte) /\ Len(values) = count * size
    BY <1>4, ValuesAre
  <1>9. sums[k + 1] = sums[k] + (Len(FramingOf(op)) + count * size)
    BY <1>2, <1>3 DEF OwedFor, Owed
  <1> HIDE DEF head, values
  <1> DEFINE answer == back \o head \o values
  <1>10. answer \in Seq(Byte) /\ Len(answer) = sums[k + 1]
    <2> DEFINE t == count * size
    <2>1. t \in Nat
      <3> HIDE DEF count, size
      <3> QED
        BY <1>4, <1>5
    <2> HIDE DEF t
    <2>a. back \in Seq(Byte) /\ head \in Seq(Byte) /\ values \in Seq(Byte)
      BY <1>1, <1>7, <1>8
    <2>2. answer \in Seq(Byte) /\ Len(answer) = Len(back) + Len(head) + Len(values)
      BY ONLY <2>a DEF answer
    <2>b. Len(back) = sums[k] /\ Len(head) = Len(FramingOf(op))
      BY <1>1, <1>7
    <2> DEFINE f == Len(FramingOf(op))
               s == sums[k]
               l == sums[k + 1]
    <2>c. f \in Nat /\ s \in Nat
      BY <1>2, <1>5
    <2>3. Len(values) = t /\ sums[k + 1] = sums[k] + (Len(FramingOf(op)) + t)
      BY <1>8, <1>9 DEF t
    <2>d. Len(answer) = s + f + t /\ l = s + (f + t)
      BY <2>2, <2>3, <2>b
    <2> HIDE DEF answer, f, s, l
    <2>e. Len(answer) = l
      BY ONLY <2>1, <2>c, <2>d
    <2> QED
      BY <2>2, <2>e DEF l
  <1> HIDE DEF answer
  <1>11. \A e : Carries(ops, k + 1, e) <=> Carries(ops, k, e)
    <2>1. TAKE e
    <2>2. k \in Nat /\ Len(op.words) = 0
      BY <1>1, <1>3
    <2>3. Carries(ops, k + 1, e) <=> Carries(ops, k, e) \/ OpSays(op, e)
      BY <2>2, CarriesNext
    <2>4. ~OpSays(op, e)
      BY <2>2 DEF OpSays
    <2> QED
      BY <2>3, <2>4
  <1> QED
    BY <1>1, <1>2, <1>6, <1>10, <1>11 DEF Served, answer, head, values

-----------------------------------------------------------------------------
(* The inductive invariant.  While a frame is made it is laid out in        *)
(* operations that say what the fields so far say; while it is carried out  *)
(* the registers hold what its first operations say and the reply has grown *)
(* by what they owe; afterwards the registers hold what all of them say.    *)
(* The parser stands inside the reply throughout.                           *)

FieldsSet(in, regs) ==
    LET end == Len(MakeFrame(in)) + 1
        set(e) == \E j \in 1..Len(regs) : regs[j] = e
    IN /\ \A e : set(e) => Told(in, end, 1, e) \/ Spelled(in, end, e)
       /\ \A e : Told(in, end, 1, e) => set(e)

MakeOK ==
    phase = "make" =>
        /\ frame \in Seq(Byte) /\ deviceOffset = 0 /\ registers = << >> /\ reply = << >>
        /\ \E p, ops, cuts, sums :
              Making(input, todo, index, current, frame, expected, p, ops, cuts, sums)

DeviceOK ==
    phase = "device" =>
        /\ frame \in Seq(Byte)
        /\ \E ops, cuts, sums, k :
              /\ Laid(input, frame, expected, ops, cuts, sums)
              /\ Served(deviceOffset, registers, reply, ops, cuts, sums, k)

ReplyOK ==
    /\ reply \in Seq(Byte)
    /\ IsParser(parser) /\ parser.offset <= Len(reply)
    /\ phase \in {"make", "device"} => parser = Fresh

LandOK ==
    phase \in {"parse", "done"} /\ input.raw = << >> =>
        registers \in Seq(Written) /\ FieldsSet(input, registers)

IInv ==
    /\ input \in Inputs
    /\ phase \in {"make", "full", "overrun", "device", "parse", "done"}
    /\ MakeOK /\ DeviceOK /\ ReplyOK /\ LandOK

LEMMA StartsOut ==
    ASSUME NEW in \in Inputs
    PROVE  \E p, ops, cuts, sums :
              Making(in, MakeFrame(in), 1, "kIgnore", << >>, 0, p, ops, cuts, sums)
  <1> DEFINE M == MakeFrame(in)
             zero == [k \in 0..0 |-> 0]
  <1>1. M \in Seq({M[k] : k \in 1..Len(M)}) /\ Len(M) \in Nat
    <2>1. M \in Seq({M[k] : k \in 1..Len(M)})
      BY FrameMade
    <2> DEFINE pieces == {M[k] : k \in 1..Len(M)}
    <2> HIDE DEF M, pieces
    <2>2. Len(M) \in Nat
      BY <2>1 DEF pieces
    <2> QED
      BY <2>1, <2>2
  <1>2. At(in, M, 1, "kIgnore", 1)
    <2>1. \A k \in 1..Len(M) : 1 + k - 1 = k
      OBVIOUS
    <2>2. 1 \in 1..(Len(M) + 1) /\ Len(M) = Len(M) - 1 + 1
      <3> HIDE DEF M
      <3> QED
        BY <1>1
    <2>3. \A k \in 1..Len(M) : M[k] = M[1 + k - 1]
      BY <2>1
    <2> QED
      BY <1>1, <2>2, <2>3 DEF At
  <1>3. LaidOut(<< >>, << >>, zero, zero)
    <2>1. zero \in [0..0 -> Nat] /\ zero[0] = 0
      OBVIOUS
    <2> HIDE DEF zero
    <2>2. << >> \in Seq(Operation) /\ Len(<< >>) = 0 /\ 1..0 = {}
      OBVIOUS
    <2> QED
      BY <2>1, <2>2 DEF LaidOut
  <1>4. Whole(in, 1, "kIgnore", 1, << >>)
    BY DEF Whole, InRun
  <1>5. Says(in, 1, 1, << >>)
    <2>1. \A e : ~Carries(<< >>, 0, e)
      BY DEF Carries
    <2>2. \A e : ~Told(in, 1, 1, e)
      <3>1. SUFFICES ASSUME NEW e, Told(in, 1, 1, e) PROVE FALSE
        OBVIOUS
      <3>2. PICK q \in 1..Len(M), j \in Nat : /\ q < 1 \/ (q = 1 /\ j < 1)
                                              /\ FieldSays(in, M[q], j, e)
        BY <3>1 DEF Told
      <3>3. j \in 1..Len(M[q].resolutions)
        BY <3>2 DEF FieldSays
      <3> HIDE DEF M
      <3> QED
        BY <3>2, <3>3
    <2> QED
      BY <2>1, <2>2 DEF Says
  <1>6. Sized(in, 1, 1, 0, zero[Len(<< >>)])
    BY DEF Sized
  <1> QED
    BY <1>2, <1>3, <1>4, <1>5, <1>6 DEF Making

LEMMA InitHolds == Init => IInv
  <1> SUFFICES ASSUME Init PROVE IInv
    OBVIOUS
  <1> USE DEF Init
  <1>1. /\ input \in Inputs /\ reply = input.raw /\ reply \in Seq(Byte)
        /\ phase = IF input.raw = << >> THEN "make" ELSE "parse"
        /\ frame = << >> /\ registers = << >> /\ deviceOffset = 0 /\ parser = Fresh
    BY InputsAssumption
  <1>2. MakeOK
    <2>1. \E p, ops, cuts, sums :
             Making(input, todo, index, current, frame, expected, p, ops, cuts, sums)
      BY <1>1, StartsOut
    <2> QED
      BY <1>1, <2>1 DEF MakeOK
  <1>3. IsParser(Fresh) /\ Fresh.offset = 0
    BY DEF IsParser, Fresh
  <1>4. ReplyOK
    BY <1>1, <1>3 DEF ReplyOK
  <1>5. DeviceOK /\ LandOK
    BY <1>1 DEF DeviceOK, LandOK
  <1> QED
    BY <1>1, <1>2, <1>4, <1>5 DEF IInv

LEMMA WritesBytes ==
    ASSUME NEW in \in Inputs, NEW rest, NEW i, NEW cur, NEW p, At(in, rest, i, cur, p),
           p \in 1..Len(MakeFrame(in)), Combined(MakeFrame(in)[p])
    PROVE  FramingAt(in, p, i, cur) \o ValueAt(in, p, i) \in Seq(Byte)
  <1> DEFINE res == MakeFrame(in)[p].resolutions[i]
             framing == FramingAt(in, p, i, cur)
             value == ValueAt(in, p, i)
  <1>1. framing \in Seq(Byte)
    <2>1. CASE res \in {cur, "kIgnore"}
      <3>1. framing = << >>
        BY <2>1 DEF FramingAt, MaybeFrame
      <3> QED
        BY <3>1
    <2>2. CASE res \notin {cur, "kIgnore"}
      BY <2>2, OpMade, OperationSizes
    <2> QED
      BY <2>1, <2>2
  <1>2. value \in Seq(Byte)
    <2>1. CASE res = "kIgnore"
      <3>1. value = << >>
        BY <2>1 DEF ValueAt
      <3> QED
        BY <3>1
    <2>2. CASE res # "kIgnore"
      <3>1. Valued(in, p, i)
        BY <2>2, ValueMade
      <3> QED
        BY <3>1 DEF Valued
    <2> QED
      BY <2>1, <2>2
  <1> HIDE DEF framing, value
  <1>3. framing \o value \in Seq(Byte)
    BY <1>1, <1>2
  <1> QED
    BY <1>3 DEF framing, value

LEMMA Kind ==
    ASSUME NEW in \in Inputs, NEW p \in 1..Len(MakeFrame(in))
    PROVE  /\ "bytes" \in DOMAIN MakeFrame(in)[p] => SpelledOut(MakeFrame(in)[p])
           /\ "base" \in DOMAIN MakeFrame(in)[p] => Combined(MakeFrame(in)[p])
  BY PiecesMade DEF SpelledOut, Combined

LEMMA WriteLiteralKeeps == IInv /\ WriteLiteral => IInv'
  <1> SUFFICES ASSUME IInv, WriteLiteral PROVE IInv'
    OBVIOUS
  <1>1. /\ input \in Inputs /\ phase = "make" /\ MakeOK /\ ReplyOK
        /\ todo # << >> /\ "bytes" \in DOMAIN Head(todo)
        /\ Append64(Head(todo), Head(todo).bytes) /\ todo' = Tail(todo)
        /\ UNCHANGED <<input, index, current, expected, device, parsing>>
    BY DEF IInv, WriteLiteral
  <1>2. /\ UNCHANGED <<input, index, current, expected, deviceOffset, registers, reply, parser>>
    BY <1>1 DEF device, parsing
  <1>3. ReplyOK' /\ LandOK' /\ DeviceOK' /\ input' \in Inputs /\ phase' \in {"make", "full"}
    <2>1. phase' \in {"make", "full"}
      BY <1>1 DEF Append64
    <2>2. ReplyOK'
      BY <1>1, <1>2, <2>1 DEF ReplyOK
    <2> QED
      BY <1>1, <1>2, <2>1, <2>2 DEF LandOK, DeviceOK
  <1>4. MakeOK'
    <2>1. SUFFICES ASSUME phase' = "make" PROVE MakeOK'
      BY DEF MakeOK
    <2>2. frame' = frame \o Head(todo).bytes
      BY <1>1, <2>1 DEF Append64
    <2>3. PICK p, ops, cuts, sums :
             Making(input, todo, index, current, frame, expected, p, ops, cuts, sums)
      BY <1>1 DEF MakeOK
    <2>4. frame \in Seq(Byte) /\ deviceOffset = 0 /\ registers = << >> /\ reply = << >>
      BY <1>1 DEF MakeOK
    <2>5. At(input, todo, index, current, p)
      BY <2>3 DEF Making
    <2>6. p \in 1..Len(MakeFrame(input)) /\ Head(todo) = MakeFrame(input)[p]
      BY <1>1, <2>5, AtHead
    <2>7. SpelledOut(MakeFrame(input)[p])
      BY <1>1, <2>6, Kind
    <2> DEFINE bytes == MakeFrame(input)[p].bytes
    <2>8. /\ bytes \in Seq(Byte)
          /\ \E ops2, cuts2, sums2 :
                Making(input, Tail(todo), index, current, frame \o bytes, expected, p + 1,
                       ops2, cuts2, sums2)
      BY <1>1, <2>3, <2>4, <2>6, <2>7, LiteralStep
    <2> HIDE DEF bytes
    <2>9. frame' = frame \o bytes
      BY <2>2, <2>6 DEF bytes
    <2>10. frame' \in Seq(Byte)
      BY <2>4, <2>8, <2>9
    <2>11. \E q, ops2, cuts2, sums2 :
              Making(input', todo', index', current', frame', expected', q, ops2, cuts2, sums2)
      BY <1>1, <1>2, <2>8, <2>9
    <2> QED
      BY <1>2, <2>4, <2>10, <2>11 DEF MakeOK
  <1> QED
    BY <1>3, <1>4 DEF IInv

LEMMA MaybeWriteKeeps == IInv /\ MaybeWrite => IInv'
  <1> SUFFICES ASSUME IInv, MaybeWrite PROVE IInv'
    BY ZenonT(60)
  <1> DEFINE piece == Head(todo)
             res == piece.resolutions[index]
             framing == MaybeFrame(piece.base, piece.start, piece.resolutions, index, current)
             value == IF piece.base = 0 /\ res # "kIgnore"
                      THEN FieldBytes(input, piece.fields[index], res)
                      ELSE << >>
             size == IF framing = << >> THEN 0
                     ELSE Owed(framing, RunLength(piece.resolutions, index), res)
             last == index = Len(piece.resolutions)
  <1>1. /\ input \in Inputs /\ phase = "make" /\ MakeOK /\ ReplyOK
        /\ todo # << >> /\ "base" \in DOMAIN piece
        /\ Append64(piece, framing \o value)
        /\ expected' = ((IF StartsQuery(piece) THEN 0 ELSE expected)
                           + (IF piece.base = kReadBase THEN size ELSE 0)) % 256
        /\ index' = IF last THEN 1 ELSE index + 1
        /\ current' = IF last THEN "kIgnore" ELSE res
        /\ todo' = IF last THEN Tail(todo) ELSE todo
        /\ UNCHANGED <<input, device, parsing>>
    BY DEF IInv, MaybeWrite
  <1> HIDE DEF piece, framing, value, size, last, res
  <1>2. UNCHANGED <<input, deviceOffset, registers, reply, parser>>
    BY <1>1 DEF device, parsing
  <1>3. ReplyOK' /\ LandOK' /\ DeviceOK' /\ input' \in Inputs /\ phase' \in {"make", "full"}
    <2>1. phase' \in {"make", "full"}
      BY <1>1 DEF Append64
    <2>2. ReplyOK'
      BY <1>1, <1>2, <2>1 DEF ReplyOK
    <2> QED
      BY <1>1, <1>2, <2>1, <2>2 DEF LandOK, DeviceOK
  <1>4. MakeOK'
    <2>1. SUFFICES ASSUME phase' = "make" PROVE MakeOK'
      BY DEF MakeOK
    <2>2. frame' = frame \o (framing \o value)
      BY <1>1, <2>1 DEF Append64
    <2>3. PICK p, ops, cuts, sums :
             Making(input, todo, index, current, frame, expected, p, ops, cuts, sums)
      BY <1>1 DEF MakeOK
    <2>4. frame \in Seq(Byte) /\ deviceOffset = 0 /\ registers = << >> /\ reply = << >>
      BY <1>1 DEF MakeOK
    <2>5. At(input, todo, index, current, p)
      BY <2>3 DEF Making
    <2>6. p \in 1..Len(MakeFrame(input)) /\ piece = MakeFrame(input)[p]
      BY <1>1, <2>5, AtHead DEF piece
    <2>7. Combined(MakeFrame(input)[p])
      BY <1>1, <2>6, Kind
    <2>8. /\ framing = FramingAt(input, p, index, current)
          /\ value = ValueAt(input, p, index)
          /\ res = MakeFrame(input)[p].resolutions[index]
          /\ last <=> LastField(input, p, index)
      BY <2>6 DEF FramingAt, ValueAt, LastField, framing, value, res, last
    <2>9. size = SizeAt(input, p, index, current)
      BY <2>6, <2>8 DEF size, SizeAt
    <2>10. expected' = NextSize(input, p, index, current, expected)
      <3>1. (IF piece.base = kReadBase THEN size ELSE 0) = AskedAt(input, p, index, current)
        BY <2>6, <2>9 DEF AskedAt
      <3>2. StartsQuery(piece) <=> StartsAt(input, p, index)
        BY <2>6 DEF StartsQuery, StartsAt
      <3> QED
        BY <1>1, <3>1, <3>2 DEF NextSize
    <2>11. /\ index' = NextField(input, p, index) /\ current' = NextRes(input, p, index)
           /\ todo' = NextRest(input, todo, p, index)
      BY <1>1, <2>8 DEF NextField, NextRes, NextRest
    <2>12. \E ops2, cuts2, sums2 :
              Making(input, todo', index', current', frame', expected', NextPiece(input, p, index),
                     ops2, cuts2, sums2)
      <3>1. \E ops2, cuts2, sums2 :
              Making(input, NextRest(input, todo, p, index), NextField(input, p, index),
                  NextRes(input, p, index),
                  frame \o (FramingAt(input, p, index, current) \o ValueAt(input, p, index)),
                  NextSize(input, p, index, current, expected), NextPiece(input, p, index),
                  ops2, cuts2, sums2)
        BY <1>1, <2>3, <2>4, <2>6, <2>7, MaybeStep
      <3> QED
        BY <2>2, <2>8, <2>10, <2>11, <3>1
    <2>13. frame' \in Seq(Byte)
      <3>1. framing \o value \in Seq(Byte)
        BY <1>1, <2>3, <2>5, <2>6, <2>7, <2>8, WritesBytes
      <3> DEFINE more == framing \o value
      <3> HIDE DEF more
      <3> QED
        BY <2>2, <2>4, <3>1 DEF more
    <2>14. \E q, ops2, cuts2, sums2 :
              Making(input', todo', index', current', frame', expected', q, ops2, cuts2, sums2)
      BY <1>2, <2>12
    <2> QED
      BY <1>2, <2>4, <2>13, <2>14 DEF MakeOK
  <1> QED
    BY <1>3, <1>4 DEF IInv

LEMMA SendKeeps == IInv /\ Send => IInv'
  <1> SUFFICES ASSUME IInv, Send PROVE IInv'
    OBVIOUS
  <1>1. /\ input \in Inputs /\ phase = "make" /\ MakeOK /\ ReplyOK /\ todo = << >>
        /\ phase' = IF Len(frame) > MaxSize THEN "overrun" ELSE "device"
        /\ UNCHANGED <<input, making, device, parsing>>
    BY DEF IInv, Send
  <1>2. UNCHANGED <<input, frame, expected, deviceOffset, registers, reply, parser>>
    BY <1>1 DEF making, device, parsing
  <1>3. /\ ReplyOK' /\ LandOK' /\ MakeOK' /\ input' \in Inputs
        /\ phase' \in {"overrun", "device"}
    BY <1>1, <1>2 DEF ReplyOK, LandOK, MakeOK
  <1>4. DeviceOK'
    <2>1. PICK p, ops, cuts, sums :
             Making(input, todo, index, current, frame, expected, p, ops, cuts, sums)
      BY <1>1 DEF MakeOK
    <2>2. frame \in Seq(Byte) /\ deviceOffset = 0 /\ registers = << >> /\ reply = << >>
      BY <1>1 DEF MakeOK
    <2>3. Laid(input, frame, expected, ops, cuts, sums)
      BY <1>1, <2>1, <2>2, SentWhole
    <2>4. Served(0, << >>, << >>, ops, cuts, sums, 0)
      BY <2>3, NothingServed DEF Laid
    <2>5. /\ deviceOffset' = 0 /\ registers' = << >> /\ reply' = << >>
          /\ frame' = frame /\ input' = input /\ expected' = expected
      BY <1>2, <2>2
    <2>6. /\ Laid(input', frame', expected', ops, cuts, sums)
          /\ Served(deviceOffset', registers', reply', ops, cuts, sums, 0)
      BY ONLY <2>3, <2>4, <2>5
    <2>7. frame' \in Seq(Byte)
      BY <2>2, <2>5
    <2> QED
      BY <2>6, <2>7 DEF DeviceOK
  <1> QED
    BY <1>3, <1>4 DEF IInv

LEMMA ServeKeeps == IInv /\ Serve => IInv'
  <1> SUFFICES ASSUME IInv, Serve PROVE IInv'
    BY ZenonT(60)
  <1> DEFINE cmd == frame[deviceOffset + 1]
             res == CodedResolution(cmd)
             long == cmd % 4 = 0
             count == IF long THEN frame[deviceOffset + 2] ELSE cmd % 4
             at == deviceOffset + (IF long THEN 2 ELSE 1)
             first == Varuint(frame, at)
             data == VaruintEnd(frame, at)
             size == ResolutionSize(res)
             head == Framing(kReplyBase, res, count, first)
             sets == [j \in 1..count |->
                        [register |-> first + j - 1, res |-> res,
                         bytes |-> SubSeq(frame, data + (j - 1) * size + 1, data + j * size)]]
  <1>1. /\ input \in Inputs /\ phase = "device" /\ DeviceOK /\ ReplyOK
        /\ deviceOffset < Len(frame) /\ UNCHANGED <<input, making, phase, parsing>>
    BY ZenonT(60) DEF IInv, Serve
  <1>2. \/ /\ cmd < kReadBase /\ registers' = registers \o sets
           /\ deviceOffset' = data + count * size /\ reply' = reply
        \/ /\ cmd >= kReadBase /\ reply' = reply \o head \o Values(first, count, res)
           /\ deviceOffset' = data /\ registers' = registers
    BY DEF Serve
  <1> HIDE DEF cmd, res, count, first, data, size, sets, head
  <1>3. PICK ops, cuts, sums, k :
           /\ Laid(input, frame, expected, ops, cuts, sums)
           /\ Served(deviceOffset, registers, reply, ops, cuts, sums, k)
    BY <1>1 DEF DeviceOK
  <1>4. frame \in Seq(Byte) /\ LaidOut(frame, ops, cuts, sums) /\ \A j \in 1..Len(ops) : Complete(ops[j])
    BY <1>1, <1>3 DEF DeviceOK, Laid
  <1>5. k \in 0..Len(ops) /\ deviceOffset = cuts[k] /\ reply \in Seq(Byte) /\ Len(reply) = sums[k]
    BY <1>3 DEF Served
  <1> DEFINE op == ops[k + 1]
  <1>6. /\ k + 1 \in 0..Len(ops) /\ op \in Operation /\ cuts[k] \in Nat
        /\ Stands(frame, cuts[k], op) /\ sums[k] \in Nat /\ sums[k + 1] = sums[k] + OwedFor(op)
    BY <1>1, <1>4, <1>5, OperationNext
  <1>7. /\ op.base \in {0, kReadBase} /\ op.res \in Resolutions
        /\ op.count \in Counts /\ op.first \in Numbers
    BY <1>6 DEF Operation
  <1> HIDE DEF op
  <1>8. /\ op.base = 0 <=> cmd < kReadBase
        /\ res = op.res /\ count = op.count /\ first = op.first
        /\ data = deviceOffset + Len(FramingOf(op))
    <2>1. StandsAt(frame, deviceOffset, Framing(op.base, op.res, op.count, op.first))
      BY <1>5, <1>6 DEF Stands, FramingOf
    <2>2. op.base \in {0, kReadBase, kReplyBase} /\ deviceOffset \in Nat
      BY <1>5, <1>6, <1>7
    <2> DEFINE b == op.base
               r == op.res
               c == op.count
               f == op.first
    <2>3. /\ b \in {0, kReadBase, kReplyBase} /\ r \in Resolutions /\ c \in Counts /\ f \in Numbers
          /\ StandsAt(frame, deviceOffset, Framing(b, r, c, f))
      BY <1>7, <2>1, <2>2
    <2> HIDE DEF b, r, c, f
    <2>4. /\ b = 0 <=> cmd < kReadBase
          /\ CodedResolution(cmd) = r
          /\ c = IF long THEN frame[deviceOffset + 2] ELSE cmd % 4
          /\ Varuint(frame, at) = f
          /\ VaruintEnd(frame, at) = deviceOffset + Len(Framing(b, r, c, f))
      BY <1>4, <2>2, <2>3, OperationReadBack, SMTT(30) DEF cmd
    <2> QED
      BY <2>4 DEF res, count, first, data, b, r, c, f, FramingOf
  <1>9. cmd < kReadBase /\ cmd >= kReadBase => FALSE
    <2>1. op.base = 0 \/ op.base = kReadBase
      BY <1>7
    <2>2. cmd \in Byte
      <3>1. deviceOffset + 1 \in 1..Len(frame)
        BY <1>1, <1>4, <1>5, <1>6
      <3> QED
        BY <1>4, <3>1 DEF cmd
    <2> QED
      BY <2>2 DEF Byte, kReadBase
  <1>10. /\ Served(deviceOffset', registers', reply', ops, cuts, sums, k + 1)
         /\ reply' \in Seq(Byte)
         /\ Len(reply') >= Len(reply)
    <2>1. CASE op.base = 0
      <3>1. /\ registers' = registers \o sets /\ deviceOffset' = data + count * size
            /\ reply' = reply
        BY <1>2, <1>8, <1>9, <2>1
      <3>2. Complete(op)
        <4>1. k + 1 \in 1..Len(ops)
          BY <1>5, <1>6
        <4> QED
          BY <1>4, <4>1 DEF op
      <3>3. sets = Sets(frame, data, op)
        BY <1>8 DEF sets, Sets, size
      <3>4. Served(data + op.count * ResolutionSize(op.res), registers \o Sets(frame, data, op),
                   reply, ops, cuts, sums, k + 1)
        BY <1>1, <1>3, <1>4, <1>8, <2>1, <3>2, WriteServed DEF op
      <3>5. Served(deviceOffset', registers', reply', ops, cuts, sums, k + 1)
        BY <1>8, <3>1, <3>3, <3>4 DEF size
      <3>6. Len(reply') >= Len(reply)
        BY <1>5, <3>1
      <3> QED
        BY <1>5, <3>1, <3>5, <3>6
    <2>2. CASE op.base # 0
      <3>1. /\ reply' = reply \o head \o Values(first, count, res) /\ deviceOffset' = data
            /\ registers' = registers
        BY <1>2, <1>8, <1>9, <2>2
      <3>2. Served(deviceOffset + Len(FramingOf(op)), registers,
                   reply \o Framing(kReplyBase, op.res, op.count, op.first)
                         \o Values(op.first, op.count, op.res),
                   ops, cuts, sums, k + 1)
        BY <1>1, <1>3, <1>4, <2>2, ReadServed DEF op
      <3>3. Served(deviceOffset', registers', reply', ops, cuts, sums, k + 1)
        BY <1>8, <3>1, <3>2 DEF head
      <3>4. reply' \in Seq(Byte) /\ Len(reply') = sums[k + 1]
        BY <3>3 DEF Served
      <3>5. OwedFor(op) \in Nat
        BY <1>6, OperationSizes DEF op
      <3>6. Len(reply') >= Len(reply)
        <4> DEFINE l == Len(reply')
                   l0 == Len(reply)
                   w == OwedFor(op)
        <4>1. l = l0 + w /\ l0 \in Nat /\ w \in Nat
          BY <1>5, <1>6, <3>4, <3>5 DEF op
        <4> HIDE DEF l, l0, w
        <4>2. l >= l0
          BY <4>1
        <4> QED
          BY <4>2 DEF l, l0
      <3> QED
        BY <3>3, <3>4, <3>6
    <2> QED
      BY <2>1, <2>2
  <1>11. UNCHANGED <<input, frame, expected, phase, parser>>
    BY <1>1 DEF making, parsing
  <1>12. DeviceOK'
    <2>1. Laid(input', frame', expected', ops, cuts, sums)
      BY <1>3, <1>11
    <2> QED
      BY <1>4, <1>10, <1>11, <2>1 DEF DeviceOK
  <1>13. ReplyOK'
    <2>1. parser = Fresh /\ IsParser(parser)
      BY <1>1 DEF ReplyOK
    <2>2. parser.offset <= Len(reply')
      <3>1. Fresh.offset = 0
        BY DEF Fresh
      <3>2. Len(reply') \in Nat
        BY <1>10
      <3> QED
        BY <2>1, <3>1, <3>2
    <2> QED
      BY <1>1, <1>10, <1>11, <2>1, <2>2 DEF ReplyOK
  <1> QED
    BY <1>1, <1>11, <1>12, <1>13 DEF IInv, MakeOK, LandOK

(* What is left of a reply, and what is put behind it, are bytes.           *)
LEMMA Cut ==
    ASSUME NEW bytes \in Seq(Byte), NEW kept \in Int, kept <= Len(bytes), NEW pad \in Nat
    PROVE  SubSeq(bytes, 1, kept) \o [k \in 1..pad |-> kNop] \in Seq(Byte)
  <1> DEFINE front == SubSeq(bytes, 1, kept)
             back == [k \in 1..pad |-> kNop]
  <1>1. front \in Seq(Byte)
    <2>1. CASE kept >= 1
      BY <2>1
    <2>2. CASE kept < 1
      <3>1. front = << >>
        BY <2>2
      <3> QED
        BY <3>1
    <2> QED
      BY <2>1, <2>2
  <1>2. back \in Seq(Byte)
    <2>1. kNop \in Byte
      BY DEF kNop, Byte
    <2> QED
      BY <2>1
  <1> HIDE DEF front, back
  <1>3. front \o back \in Seq(Byte)
    BY <1>1, <1>2
  <1> QED
    BY <1>3 DEF front, back

LEMMA AllServed ==
    ASSUME NEW in, NEW data \in Seq(Byte), NEW size, NEW ops, NEW cuts, NEW sums,
           Laid(in, data, size, ops, cuts, sums),
           NEW at, NEW regs, NEW back, NEW k,
           Served(at, regs, back, ops, cuts, sums, k), at = Len(data)
    PROVE  /\ FieldsSet(in, regs) /\ regs \in Seq(Written)
           /\ Quiet(in) => size = Len(back) % 256
  <1>1. LaidOut(data, ops, cuts, sums) /\ k \in 0..Len(ops) /\ cuts[k] = Len(data)
    BY DEF Laid, Served
  <1>2. k = Len(ops)
    BY <1>1, OperationNext
  <1>3. \A e : (\E j \in 1..Len(regs) : regs[j] = e) <=> Carries(ops, Len(ops), e)
    BY <1>2 DEF Served
  <1>4. Says(in, 1, Len(MakeFrame(in)) + 1, ops)
    BY DEF Laid
  <1>5. FieldsSet(in, regs)
    BY <1>3, <1>4 DEF FieldsSet, Says
  <1>6. Len(back) = sums[Len(ops)] /\ regs \in Seq(Written)
    BY <1>2 DEF Served
  <1> QED
    BY <1>5, <1>6 DEF Laid

LEMMA AnswerKeeps == IInv /\ Answer => IInv'
  <1> SUFFICES ASSUME IInv, Answer PROVE IInv'
    OBVIOUS
  <1> DEFINE kept == Smaller(Len(reply), MaxSize) - input.cut
  <1>1. /\ input \in Inputs /\ phase = "device" /\ DeviceOK /\ ReplyOK
        /\ deviceOffset = Len(frame) /\ phase' = "parse"
        /\ reply' = IF input.query = "none" THEN << >>
                    ELSE SubSeq(reply, 1, kept) \o [k \in 1..input.pad |-> kNop]
        /\ UNCHANGED <<input, making, deviceOffset, registers, answers, parsing>>
    BY DEF IInv, Answer
  <1>2. UNCHANGED <<input, registers, parser>>
    BY <1>1 DEF parsing
  <1>3. reply \in Seq(Byte) /\ parser = Fresh /\ IsParser(parser)
    BY <1>1 DEF ReplyOK
  <1>4. reply' \in Seq(Byte)
    <2>1. input.cut \in Nat /\ input.pad \in Nat
      BY <1>1, InputsAssumption
    <2>2. kept \in Int /\ kept <= Len(reply)
      <3>1. Len(reply) \in Nat
        BY <1>3
      <3> QED
        BY <2>1, <3>1 DEF Smaller, MaxSize
    <2> HIDE DEF kept
    <2>3. SubSeq(reply, 1, kept) \o [k \in 1..input.pad |-> kNop] \in Seq(Byte)
      BY <1>3, <2>1, <2>2, Cut
    <2> QED
      BY <1>1, <2>3
  <1>5. ReplyOK'
    <2>1. Fresh.offset = 0 /\ Len(reply') \in Nat
      BY <1>4 DEF Fresh
    <2>2. parser.offset <= Len(reply')
      BY <1>3, <2>1
    <2> QED
      BY <1>2, <1>3, <1>4, <2>2 DEF ReplyOK
  <1>6. FieldsSet(input, registers) /\ registers \in Seq(Written)
    <2>1. PICK ops, cuts, sums, k :
             /\ Laid(input, frame, expected, ops, cuts, sums)
             /\ Served(deviceOffset, registers, reply, ops, cuts, sums, k)
      BY <1>1 DEF DeviceOK
    <2>2. frame \in Seq(Byte)
      BY <1>1 DEF DeviceOK
    <2> QED
      BY <1>1, <2>1, <2>2, AllServed
  <1>7. LandOK' /\ MakeOK' /\ DeviceOK'
    BY <1>1, <1>2, <1>6 DEF LandOK, MakeOK, DeviceOK
  <1> QED
    BY <1>1, <1>5, <1>7 DEF IInv

LEMMA ParseKeeps == IInv /\ ParseRegister => IInv'
  <1> SUFFICES ASSUME IInv, ParseRegister PROVE IInv'
    OBVIOUS
  <1> DEFINE r == next(reply, parser)
  <1>1. /\ input \in Inputs /\ phase = "parse" /\ ReplyOK /\ LandOK
        /\ ~r.done
        /\ ~ReadAborts(reply, r.parser) => parser' = AfterRead(r.parser) /\ UNCHANGED phase
        /\ ReadAborts(reply, r.parser) => phase' = "aborted"
        /\ UNCHANGED <<input, making, device>>
    BY DEF IInv, ParseRegister
  <1>2. reply \in Seq(Byte) /\ IsParser(parser) /\ parser.offset <= Len(reply)
    BY <1>1 DEF ReplyOK
  <1>3. IsParser(r.parser) /\ Enough(reply, r.parser)
    BY <1>1, <1>2, NextStays
  <1> HIDE DEF r
  <1>4. PICK offset \in Nat : \E remaining, res, register :
           r.parser = [offset |-> offset, remaining |-> remaining, res |-> res, register |-> register]
    BY <1>3 DEF IsParser
  <1>5. PICK remaining, res, register :
           r.parser = [offset |-> offset, remaining |-> remaining, res |-> res, register |-> register]
    BY <1>4
  <1> DEFINE size == ResolutionSize(res)
  <1>6. size \in {1, 2, 4} /\ Len(reply) \in Nat
    BY <1>2, Sized124
  <1>7. r.parser.offset = offset /\ r.parser.res = res
    BY <1>5
  <1>8. offset + size <= Len(reply)
    BY <1>3, <1>7 DEF Enough
  <1>9. ~ReadAborts(reply, r.parser)
    <2> HIDE DEF size
    <2>1. ~(offset + size > Len(reply))
      BY <1>6, <1>8
    <2> QED
      BY <1>7, <2>1 DEF ReadAborts, size
  <1> DEFINE after == offset + size
  <1>10. parser' = [offset |-> after, remaining |-> remaining, res |-> res, register |-> register]
    <2>1. parser' = AfterRead(r.parser)
      BY <1>1, <1>9
    <2> HIDE DEF size
    <2>2. AfterRead(r.parser) =
             [offset |-> offset + size, remaining |-> remaining, res |-> res, register |-> register]
      BY <1>5 DEF AfterRead, size
    <2> QED
      BY <2>1, <2>2
  <1>11. after \in Nat /\ after <= Len(reply)
    <2> HIDE DEF size
    <2> QED
      BY <1>6, <1>8
  <1> HIDE DEF after
  <1>12. IsParser(parser') /\ parser'.offset = after
    BY <1>10, <1>11 DEF IsParser
  <1>13. UNCHANGED <<input, reply, registers, phase>>
    BY <1>1, <1>9 DEF device
  <1>14. ReplyOK'
    BY <1>1, <1>2, <1>11, <1>12, <1>13 DEF ReplyOK
  <1>15. LandOK' /\ MakeOK' /\ DeviceOK'
    BY <1>1, <1>13 DEF LandOK, MakeOK, DeviceOK
  <1> QED
    BY <1>1, <1>13, <1>14, <1>15 DEF IInv

LEMMA RestKeeps == IInv /\ (ParseDone \/ Rest \/ UNCHANGED vars) => IInv'
  <1>1. IInv /\ ParseDone => IInv'
    <2> SUFFICES ASSUME IInv, ParseDone PROVE IInv'
      OBVIOUS
    <2>1. /\ phase = "parse" /\ phase' = "done"
          /\ UNCHANGED <<input, reply, registers, parser>>
      BY DEF ParseDone, device, parsing
    <2> QED
      BY <2>1 DEF IInv, MakeOK, DeviceOK, ReplyOK, LandOK
  <1>2. IInv /\ UNCHANGED vars => IInv'
    BY DEF vars, making, device, parsing, IInv, MakeOK, DeviceOK, ReplyOK, LandOK
  <1> QED
    BY <1>1, <1>2 DEF Rest

(* While the frame is made, carried out and answered, it is laid out as     *)
(* whole operations that say what the fields passed so far say.             *)
THEOREM Invariance == Spec => []IInv
  <1>1. IInv /\ [Next]_vars => IInv'
    BY WriteLiteralKeeps, MaybeWriteKeeps, SendKeeps, ServeKeeps, AnswerKeeps, ParseKeeps, RestKeeps
       DEF Next
  <1> QED
    BY InitHolds, <1>1, PTL DEF Spec

(* Whatever the bytes of a reply, a register next() announces is there to   *)
(* be read: Read never aborts, and the parser never leaves the frame.       *)
THEOREM ParserAlwaysInFrame == Spec => []ParserStaysInFrame
  <1>1. IInv => ParserStaysInFrame
    BY DEF IInv, ReplyOK, ParserStaysInFrame
  <1> QED
    BY <1>1, Invariance, PTL

(* The reply size the machine was told when a command asks for nothing of   *)
(* its own is the size of the reply, whatever the command and its query.    *)
THEOREM ReplySizeAlwaysExact == Spec => []ReplySizeExact
  <1>1. IInv => ReplySizeExact
    <2> SUFFICES ASSUME IInv, phase = "device", deviceOffset = Len(frame), Quiet(input),
                        Len(reply) <= MaxSize
                 PROVE  expected = Len(reply)
      BY DEF ReplySizeExact, Quiet
    <2>1. DeviceOK /\ reply \in Seq(Byte)
      BY DEF IInv, ReplyOK
    <2>2. PICK ops, cuts, sums, k :
             /\ Laid(input, frame, expected, ops, cuts, sums)
             /\ Served(deviceOffset, registers, reply, ops, cuts, sums, k)
      BY <2>1 DEF DeviceOK
    <2>3. frame \in Seq(Byte)
      BY <2>1 DEF DeviceOK
    <2>4. expected = Len(reply) % 256
      BY <2>2, <2>3, AllServed
    <2> DEFINE n == Len(reply)
    <2>5. n \in Nat /\ n <= 64
      BY <2>1 DEF MaxSize
    <2> HIDE DEF n
    <2>6. n % 256 = n
      BY <2>5
    <2> QED
      BY <2>4, <2>6 DEF n
  <1> QED
    BY <1>1, Invariance, PTL

-----------------------------------------------------------------------------
(* The registers of a command's fields, and the units they are read in.     *)

(* The registers an entry of ParseGeneric's table covers: no register is    *)
(* given two types.                                                         *)
Span(d) == Register[d[1]]..(Register[d[1]] + d[2] - 1)

LEMMA NoOverlap ==
    ASSUME NEW d \in kRegisterDefinitions, NEW e \in kRegisterDefinitions,
           NEW r \in Nat, r \in Span(d), r \in Span(e)
    PROVE  d[3] = e[3]
  <1>1. \A a \in kRegisterDefinitions : Register[a[1]] \in Nat /\ a[2] \in Nat
    BY DEF kRegisterDefinitions, Register
  <1>2. /\ Register[d[1]] <= r /\ r < Register[d[1]] + d[2]
        /\ Register[e[1]] <= r /\ r < Register[e[1]] + e[2]
    BY <1>1 DEF Span
  <1> QED
    BY <1>2, SMTT(30) DEF kRegisterDefinitions, Register

LEMMA ConcreteOf ==
    ASSUME NEW d \in kRegisterDefinitions, NEW r \in Nat, r \in Span(d)
    PROVE  Concrete(r) = d[3]
  <1> DEFINE entries == {e \in kRegisterDefinitions : r \in Span(e)}
  <1>1. Concrete(r) = IF entries = {} THEN "kInt" ELSE (CHOOSE e \in entries : TRUE)[3]
    BY DEF Concrete, Span
  <1>2. d \in entries
    OBVIOUS
  <1>3. \A e \in entries : e[3] = d[3]
    BY NoOverlap
  <1> QED
    BY <1>1, <1>2, <1>3

(* The writers and the parser's types that go by the same unit.             *)
LEMMA SameScales ==
    /\ WriteScale["WritePosition"] = kMappingValues["kPosition"]
    /\ WriteScale["WriteVelocity"] = kMappingValues["kVelocity"]
    /\ WriteScale["WriteAccel"] = kMappingValues["kAcceleration"]
    /\ WriteScale["WriteTorque"] = kMappingValues["kTorque"]
    /\ WriteScale["WritePwm"] = kMappingValues["kPwm"]
    /\ WriteScale["WriteVoltage"] = kMappingValues["kVoltage"]
    /\ WriteScale["WriteTime"] = kMappingValues["kTime"]
    /\ WriteScale["WriteCurrent"] = kMappingValues["kCurrent"]
    /\ WriteScale["WriteInt"] = kMappingValues["kInt"]
  BY SMTT(60) DEF WriteScale, kMappingValues

(* A field whose register has an entry in the table that reads it in the    *)
(* unit it is written in; and a command that writes fields: a block of them *)
(* from `start` on, each with a name of its own, and no more than a mode    *)
(* before it.                                                               *)
Radians == {"theta_rad", "theta_rad_rate"}

ReadAlike(field, register, d) ==
    /\ field = <<field[1], field[2]>>
    /\ field[1] # Gap[1] /\ field[2] \in DOMAIN WriteScale
    /\ field[1] \notin Radians => /\ d \in kRegisterDefinitions /\ register \in Span(d)
                                  /\ WriteScale[field[2]] = kMappingValues[d[3]]

Tabled(command, b, start, n, entries) ==
    LET block == command[b]
        list  == block.fields
    IN /\ Len(command) = b /\ DOMAIN command = 1..b
       /\ b = 2 => \E mode : command[1] = [bytes |-> <<1, 0, mode>>]
       /\ DOMAIN block = {"base", "start", "fields"}
       /\ block.base = 0 /\ block.start = start
       /\ DOMAIN list = 1..n
       /\ \A j \in 1..n : list[j] # Gap =>
             /\ ReadAlike(list[j], start + j - 1, entries[j])
             /\ \A k \in 1..n : list[k][1] = list[j][1] => k = j

(* The entries the fields of each command are read with, in their order.    *)
PositionEntries ==
    << <<"kCommandPosition", 1, "kPosition">>,
       <<"kCommandVelocity", 1, "kVelocity">>,
       <<"kCommandFeedforwardTorque", 1, "kTorque">>,
       <<"kCommandKpScale", 2, "kPwm">>, <<"kCommandKpScale", 2, "kPwm">>,
       <<"kCommandPositionMaxTorque", 1, "kTorque">>,
       <<"kCommandStopPosition", 1, "kPosition">>,
       <<"kCommandTimeout", 1, "kTime">>,
       <<"kCommandVelocityLimit", 1, "kVelocity">>,
       <<"kCommandAccelLimit", 1, "kAcceleration">>,
       <<"kCommandFixedVoltageOverride", 1, "kVoltage">>,
       <<"kCommandIlimitScale", 1, "kPwm">>,
       <<"kCommandFixedCurrentOverride", 1, "kCurrent">>,
       <<"kCommandIgnorePositionBounds", 1, "kInt">> >>

LEMMA PositionTabled == Tabled(PositionMode, 2, 32, 14, PositionEntries)
  <1> DEFINE list == PositionMode[2].fields
  <1>1. /\ Len(PositionMode) = 2 /\ DOMAIN PositionMode = 1..2
        /\ PositionMode[1] = [bytes |-> <<1, 0, 10>>]
        /\ PositionMode[2].base = 0 /\ PositionMode[2].start = 32
        /\ DOMAIN PositionMode[2] = {"base", "start", "fields"}
        /\ DOMAIN list = 1..14
    BY DEF PositionMode, Block, SetMode, Literal, Mode, Register
  <1>2. \A j \in 1..14 : PositionEntries[j] \in kRegisterDefinitions
    BY SMTT(30) DEF PositionEntries, kRegisterDefinitions
  <1>3. \A j \in 1..14 : /\ 32 + j - 1 \in Span(PositionEntries[j])
                         /\ WriteScale[list[j][2]] = kMappingValues[PositionEntries[j][3]]
    BY SameScales, SMTT(30) DEF PositionEntries, PositionMode, Block, Register, Span
  <1>4. \A j \in 1..14 : /\ list[j] = <<list[j][1], list[j][2]>>
                         /\ list[j][1] # Gap[1] /\ list[j][2] \in DOMAIN WriteScale
    BY DEF PositionMode, Block, Gap, WriteScale
  <1>5. \A j, k \in 1..14 : list[k][1] = list[j][1] => k = j
    BY DEF PositionMode, Block
  <1> HIDE DEF list
  <1>6. \A j \in 1..14 : ReadAlike(list[j], 32 + j - 1, PositionEntries[j])
    BY <1>2, <1>3, <1>4 DEF ReadAlike
  <1>7. \E mode : PositionMode[1] = [bytes |-> <<1, 0, mode>>]
    BY <1>1
  <1> QED
    BY <1>1, <1>5, <1>6, <1>7, ZenonT(60) DEF Tabled, list

VFOCEntries == [j \in 1..7 |-> <<"kVFocVoltage", 3, "kVoltage">>]

LEMMA VFOCTabled == Tabled(VFOCMode, 2, 24, 7, VFOCEntries)
  <1> DEFINE list == VFOCMode[2].fields
  <1>1. /\ Len(VFOCMode) = 2 /\ DOMAIN VFOCMode = 1..2
        /\ VFOCMode[1] = [bytes |-> <<1, 0, 7>>]
        /\ VFOCMode[2].base = 0 /\ VFOCMode[2].start = 24
        /\ DOMAIN VFOCMode[2] = {"base", "start", "fields"}
        /\ DOMAIN list = 1..7
    BY DEF VFOCMode, Block, SetMode, Literal, Mode, Register
  <1>2. \A j \in 1..7 : VFOCEntries[j] \in kRegisterDefinitions
    BY DEF VFOCEntries, kRegisterDefinitions
  <1>3. \A j \in 1..7 : list[j][1] \notin Radians /\ list[j] # Gap =>
           /\ 24 + j - 1 \in Span(VFOCEntries[j])
           /\ WriteScale[list[j][2]] = kMappingValues[VFOCEntries[j][3]]
    BY SameScales DEF VFOCEntries, VFOCMode, Block, Radians, Gap, Register, Span
  <1>4. \A j \in 1..7 : list[j] # Gap => /\ list[j] = <<list[j][1], list[j][2]>>
                                         /\ list[j][1] # Gap[1] /\ list[j][2] \in DOMAIN WriteScale
    BY DEF VFOCMode, Block, Gap, WriteScale
  <1>5. \A j, k \in 1..7 : list[j] # Gap /\ list[k][1] = list[j][1] => k = j
    BY DEF VFOCMode, Block, Gap
  <1> HIDE DEF list
  <1>6. \A j \in 1..7 : list[j] # Gap => ReadAlike(list[j], 24 + j - 1, VFOCEntries[j])
    BY <1>2, <1>3, <1>4 DEF ReadAlike
  <1>7. \E mode : VFOCMode[1] = [bytes |-> <<1, 0, mode>>]
    BY <1>1
  <1> QED
    BY <1>1, <1>5, <1>6, <1>7, ZenonT(60) DEF Tabled, list

CurrentEntries == [j \in 1..2 |-> <<"kCommandQCurrent", 2, "kCurrent">>]

LEMMA CurrentTabled == Tabled(CurrentMode, 2, 28, 2, CurrentEntries)
  <1> DEFINE list == CurrentMode[2].fields
  <1>1. /\ Len(CurrentMode) = 2 /\ DOMAIN CurrentMode = 1..2
        /\ CurrentMode[1] = [bytes |-> <<1, 0, 9>>]
        /\ CurrentMode[2].base = 0 /\ CurrentMode[2].start = 28
        /\ DOMAIN CurrentMode[2] = {"base", "start", "fields"}
        /\ DOMAIN list = 1..2
    BY DEF CurrentMode, Block, SetMode, Literal, Mode, Register
  <1>2. \A j \in 1..2 : CurrentEntries[j] \in kRegisterDefinitions
    BY DEF CurrentEntries, kRegisterDefinitions
  <1>3. \A j \in 1..2 : /\ 28 + j - 1 \in Span(CurrentEntries[j])
                         /\ WriteScale[list[j][2]] = kMappingValues[CurrentEntries[j][3]]
    BY SameScales DEF CurrentEntries, CurrentMode, Block, Register, Span
  <1>4. \A j \in 1..2 : /\ list[j] = <<list[j][1], list[j][2]>>
                         /\ list[j][1] # Gap[1] /\ list[j][2] \in DOMAIN WriteScale
    BY DEF CurrentMode, Block, Gap, WriteScale
  <1>5. \A j, k \in 1..2 : list[k][1] = list[j][1] => k = j
    BY DEF CurrentMode, Block
  <1> HIDE DEF list
  <1>6. \A j \in 1..2 : ReadAlike(list[j], 28 + j - 1, CurrentEntries[j])
    BY <1>2, <1>3, <1>4 DEF ReadAlike
  <1>7. \E mode : CurrentMode[1] = [bytes |-> <<1, 0, mode>>]
    BY <1>1
  <1> QED
    BY <1>1, <1>5, <1>6, <1>7, ZenonT(60) DEF Tabled, list

StayWithinEntries ==
    << <<"kCommandStayWithinLowerBound", 2, "kPosition">>,
       <<"kCommandStayWithinLowerBound", 2, "kPosition">>,
       <<"kCommandStayWithinFeedforwardTorque", 1, "kTorque">>,
       <<"kCommandStayWithinKpScale", 2, "kPwm">>,
       <<"kCommandStayWithinKpScale", 2, "kPwm">>,
       <<"kCommandStayWithinPositionMaxTorque", 1, "kTorque">>,
       <<"kCommandStayWithinTimeout", 1, "kTime">>,
       <<"kCommandStayWithinIlimitScale", 1, "kPwm">>,
       <<"kCommandStayWithinIgnorePositionBounds", 1, "kInt">> >>

LEMMA StayWithinTabled == Tabled(StayWithinMode, 2, 64, 9, StayWithinEntries)
  <1> DEFINE list == StayWithinMode[2].fields
  <1>1. /\ Len(StayWithinMode) = 2 /\ DOMAIN StayWithinMode = 1..2
        /\ StayWithinMode[1] = [bytes |-> <<1, 0, 13>>]
        /\ StayWithinMode[2].base = 0 /\ StayWithinMode[2].start = 64
        /\ DOMAIN StayWithinMode[2] = {"base", "start", "fields"}
        /\ DOMAIN list = 1..9
    BY DEF StayWithinMode, Block, SetMode, Literal, Mode, Register
  <1>2. \A j \in 1..9 : StayWithinEntries[j] \in kRegisterDefinitions
    BY SMTT(30) DEF StayWithinEntries, kRegisterDefinitions
  <1>3. \A j \in 1..9 : /\ 64 + j - 1 \in Span(StayWithinEntries[j])
                         /\ WriteScale[list[j][2]] = kMappingValues[StayWithinEntries[j][3]]
    BY SameScales DEF StayWithinEntries, StayWithinMode, Block, Register, Span
  <1>4. \A j \in 1..9 : /\ list[j] = <<list[j][1], list[j][2]>>
                         /\ list[j][1] # Gap[1] /\ list[j][2] \in DOMAIN WriteScale
    BY DEF StayWithinMode, Block, Gap, WriteScale
  <1>5. \A j, k \in 1..9 : list[k][1] = list[j][1] => k = j
    BY DEF StayWithinMode, Block
  <1> HIDE DEF list
  <1>6. \A j \in 1..9 : ReadAlike(list[j], 64 + j - 1, StayWithinEntries[j])
    BY <1>2, <1>3, <1>4 DEF ReadAlike
  <1>7. \E mode : StayWithinMode[1] = [bytes |-> <<1, 0, mode>>]
    BY <1>1
  <1> QED
    BY <1>1, <1>5, <1>6, <1>7, ZenonT(60) DEF Tabled, list

ZeroVelocityEntries == [j \in 1..1 |-> <<"kCommandKpScale", 2, "kPwm">>]

LEMMA ZeroVelocityTabled == Tabled(ZeroVelocityMode, 2, 36, 1, ZeroVelocityEntries)
  <1> DEFINE list == ZeroVelocityMode[2].fields
  <1>1. /\ Len(ZeroVelocityMode) = 2 /\ DOMAIN ZeroVelocityMode = 1..2
        /\ ZeroVelocityMode[1] = [bytes |-> <<1, 0, 12>>]
        /\ ZeroVelocityMode[2].base = 0 /\ ZeroVelocityMode[2].start = 36
        /\ DOMAIN ZeroVelocityMode[2] = {"base", "start", "fields"}
        /\ DOMAIN list = 1..1
    BY DEF ZeroVelocityMode, Block, SetMode, Literal, Mode, Register
  <1>2. \A j \in 1..1 : ZeroVelocityEntries[j] \in kRegisterDefinitions
    BY DEF ZeroVelocityEntries, kRegisterDefinitions
  <1>3. \A j \in 1..1 : /\ 36 + j - 1 \in Span(ZeroVelocityEntries[j])
                         /\ WriteScale[list[j][2]] = kMappingValues[ZeroVelocityEntries[j][3]]
    BY SameScales DEF ZeroVelocityEntries, ZeroVelocityMode, Block, Register, Span
  <1>4. \A j \in 1..1 : /\ list[j] = <<list[j][1], list[j][2]>>
                         /\ list[j][1] # Gap[1] /\ list[j][2] \in DOMAIN WriteScale
    BY DEF ZeroVelocityMode, Block, Gap, WriteScale
  <1>5. \A j, k \in 1..1 : list[k][1] = list[j][1] => k = j
    BY DEF ZeroVelocityMode, Block
  <1> HIDE DEF list
  <1>6. \A j \in 1..1 : ReadAlike(list[j], 36 + j - 1, ZeroVelocityEntries[j])
    BY <1>2, <1>3, <1>4 DEF ReadAlike
  <1>7. \E mode : ZeroVelocityMode[1] = [bytes |-> <<1, 0, mode>>]
    BY <1>1
  <1> QED
    BY <1>1, <1>5, <1>6, <1>7, ZenonT(60) DEF Tabled, list

GpioEntries == [j \in 1..2 |-> <<"kAux1GpioCommand", 4, "kInt">>]

LEMMA GpioTabled == Tabled(GpioWrite, 1, 92, 2, GpioEntries)
  <1> DEFINE list == GpioWrite[1].fields
  <1>1. /\ Len(GpioWrite) = 1 /\ DOMAIN GpioWrite = 1..1
        /\ GpioWrite[1].base = 0 /\ GpioWrite[1].start = 92
        /\ DOMAIN GpioWrite[1] = {"base", "start", "fields"}
        /\ DOMAIN list = 1..2
    BY DEF GpioWrite, Block, Register
  <1>2. \A j \in 1..2 : GpioEntries[j] \in kRegisterDefinitions
    BY DEF GpioEntries, kRegisterDefinitions
  <1>3. \A j \in 1..2 : /\ 92 + j - 1 \in Span(GpioEntries[j])
                         /\ WriteScale[list[j][2]] = kMappingValues[GpioEntries[j][3]]
    BY SameScales DEF GpioEntries, GpioWrite, Block, Register, Span
  <1>4. \A j \in 1..2 : /\ list[j] = <<list[j][1], list[j][2]>>
                         /\ list[j][1] # Gap[1] /\ list[j][2] \in DOMAIN WriteScale
    BY DEF GpioWrite, Block, Gap, WriteScale
  <1>5. \A j, k \in 1..2 : list[k][1] = list[j][1] => k = j
    BY DEF GpioWrite, Block
  <1> HIDE DEF list
  <1>6. \A j \in 1..2 : ReadAlike(list[j], 92 + j - 1, GpioEntries[j])
    BY <1>2, <1>3, <1>4, SMTT(60) DEF ReadAlike
  <1>7. 1 = 2 => \E mode : GpioWrite[1] = [bytes |-> <<1, 0, mode>>]
    OBVIOUS
  <1> QED
    BY <1>1, <1>5, <1>6, <1>7, ZenonT(60) DEF Tabled, list

AuxPwmEntries == [j \in 1..10 |-> <<"kAux1Pwm1", 10, "kPwm">>]

LEMMA AuxPwmTabled == Tabled(AuxPwmWrite, 1, 118, 10, AuxPwmEntries)
  <1> DEFINE list == AuxPwmWrite[1].fields
  <1>1. /\ Len(AuxPwmWrite) = 1 /\ DOMAIN AuxPwmWrite = 1..1
        /\ AuxPwmWrite[1].base = 0 /\ AuxPwmWrite[1].start = 118
        /\ DOMAIN AuxPwmWrite[1] = {"base", "start", "fields"}
        /\ DOMAIN list = 1..10
    BY DEF AuxPwmWrite, Block, Register
  <1>2. \A j \in 1..10 : AuxPwmEntries[j] \in kRegisterDefinitions
    BY DEF AuxPwmEntries, kRegisterDefinitions
  <1>3. \A j \in 1..10 : /\ 118 + j - 1 \in Span(AuxPwmEntries[j])
                         /\ WriteScale[list[j][2]] = kMappingValues[AuxPwmEntries[j][3]]
    BY SameScales DEF AuxPwmEntries, AuxPwmWrite, Block, Register, Span
  <1>4. \A j \in 1..10 : /\ list[j] = <<list[j][1], list[j][2]>>
                         /\ list[j][1] # Gap[1] /\ list[j][2] \in DOMAIN WriteScale
    BY DEF AuxPwmWrite, Block, Gap, WriteScale
  <1>5. \A j, k \in 1..10 : list[k][1] = list[j][1] => k = j
    BY DEF AuxPwmWrite, Block
  <1> HIDE DEF list
  <1>6. \A j \in 1..10 : ReadAlike(list[j], 118 + j - 1, AuxPwmEntries[j])
    BY <1>2, <1>3, <1>4 DEF ReadAlike
  <1>7. 1 = 2 => \E mode : AuxPwmWrite[1] = [bytes |-> <<1, 0, mode>>]
    OBVIOUS
  <1> QED
    BY <1>1, <1>5, <1>6, <1>7, ZenonT(60) DEF Tabled, list


(* The register a field is named after, for a field that is no duty cycle.  *)
LEMMA HomeNamed ==
    ASSUME NEW in, NEW name, name # "theta_rad_rate", name \notin AuxFields
    PROVE  /\ "lower_bound" \in DOMAIN in.format =>
                 Home(in, name) = Register[StayWithinNamedAfter[name]]
           /\ "lower_bound" \notin DOMAIN in.format => Home(in, name) = Register[NamedAfter[name]]
  BY DEF Home

LEMMA AuxNames ==
    AuxFields = {"aux1_pwm1", "aux1_pwm2", "aux1_pwm3", "aux1_pwm4", "aux1_pwm5",
                 "aux2_pwm1", "aux2_pwm2", "aux2_pwm3", "aux2_pwm4", "aux2_pwm5"}
  BY DEF AuxFields, AuxPwmWrite, Block

(* Every field of a command that is given a Format lies where it is named.  *)
Formatted(in, command) == in.format \in [FieldNames(command) -> Resolutions \cup {"kIgnore"}]

AtHome(in, command, b, start, n) ==
    \A j \in 1..n : command[b].fields[j] # Gap =>
        Home(in, command[b].fields[j][1]) = start + j - 1

(* Only the Format of StayWithinMode has bounds.                            *)
LEMMA Bounded ==
    ASSUME NEW in, NEW command, NEW b, NEW start, NEW n, NEW entries,
           Tabled(command, b, start, n, entries), Formatted(in, command)
    PROVE  "lower_bound" \in DOMAIN in.format <=>
              \E j \in 1..n : command[b].fields[j][1] = "lower_bound"
  <1>1. Len(command) = b /\ DOMAIN command[b].fields = 1..n
    BY DEF Tabled
  <1>2. FieldNames(command) = {command[b].fields[j][1] : j \in 1..n} \ {Gap[1]}
    BY <1>1 DEF FieldNames
  <1>3. Gap[1] # "lower_bound"
    BY DEF Gap
  <1>4. DOMAIN in.format = FieldNames(command)
    BY SMTT(30) DEF Formatted
  <1> QED
    BY <1>2, <1>3, <1>4

LEMMA PositionAtHome ==
    ASSUME NEW in, Formatted(in, PositionMode)
    PROVE  AtHome(in, PositionMode, 2, 32, 14)
  <1> DEFINE list == PositionMode[2].fields
  <1>1. "lower_bound" \notin DOMAIN in.format
    <2>1. \A j \in 1..14 : list[j][1] # "lower_bound"
      BY DEF PositionMode, Block, Gap
    <2> HIDE DEF list
    <2> QED
      BY <2>1, PositionTabled, Bounded DEF list
  <1>2. \A j \in 1..14 : list[j][1] \notin AuxFields /\ list[j][1] # "theta_rad_rate"
    BY AuxNames, SMTT(30) DEF PositionMode, Block
  <1>3. \A j \in 1..14 : Register[NamedAfter[list[j][1]]] = 32 + j - 1
    BY DEF PositionMode, Block, Register, NamedAfter
  <1> HIDE DEF list
  <1> QED
    BY <1>1, <1>2, <1>3, HomeNamed, SMTT(30) DEF AtHome, list

LEMMA VFOCAtHome ==
    ASSUME NEW in, Formatted(in, VFOCMode)
    PROVE  AtHome(in, VFOCMode, 2, 24, 7)
  <1> DEFINE list == VFOCMode[2].fields
  <1>1. "lower_bound" \notin DOMAIN in.format
    <2>1. \A j \in 1..7 : list[j][1] # "lower_bound"
      BY DEF VFOCMode, Block, Gap
    <2> HIDE DEF list
    <2> QED
      BY <2>1, VFOCTabled, Bounded DEF list
  <1>2. Home(in, list[7][1]) = 30
    <2>1. list[7][1] = "theta_rad_rate"
      BY DEF VFOCMode, Block
    <2>2. "theta_rad_rate" \notin AuxFields
      BY AuxNames
    <2> HIDE DEF list
    <2> QED
      BY <2>1, <2>2 DEF Home
  <1>3. \A j \in 1..7 : list[j] # Gap => j \in {1, 2, 7}
    BY DEF VFOCMode, Block
  <1>4. \A j \in 1..2 : list[j][1] \notin AuxFields /\ list[j][1] # "theta_rad_rate"
    BY AuxNames, SMTT(30) DEF VFOCMode, Block
  <1>5. \A j \in 1..2 : Register[NamedAfter[list[j][1]]] = 24 + j - 1
    BY DEF VFOCMode, Block, Register, NamedAfter
  <1> HIDE DEF list
  <1> QED
    BY <1>1, <1>2, <1>3, <1>4, <1>5, HomeNamed DEF AtHome, list

LEMMA CurrentAtHome ==
    ASSUME NEW in, Formatted(in, CurrentMode)
    PROVE  AtHome(in, CurrentMode, 2, 28, 2)
  <1> DEFINE list == CurrentMode[2].fields
  <1>1. "lower_bound" \notin DOMAIN in.format
    <2>1. \A j \in 1..2 : list[j][1] # "lower_bound"
      BY DEF CurrentMode, Block, Gap
    <2> HIDE DEF list
    <2> QED
      BY <2>1, CurrentTabled, Bounded DEF list
  <1>2. \A j \in 1..2 : list[j][1] \notin AuxFields /\ list[j][1] # "theta_rad_rate"
    BY AuxNames, SMTT(30) DEF CurrentMode, Block
  <1>3. \A j \in 1..2 : Register[NamedAfter[list[j][1]]] = 28 + j - 1
    BY SMTT(30) DEF CurrentMode, Block, Register, NamedAfter
  <1> HIDE DEF list
  <1> QED
    BY <1>1, <1>2, <1>3, HomeNamed DEF AtHome, list

LEMMA StayWithinAtHome ==
    ASSUME NEW in, Formatted(in, StayWithinMode)
    PROVE  AtHome(in, StayWithinMode, 2, 64, 9)
  <1> DEFINE list == StayWithinMode[2].fields
  <1>1. "lower_bound" \in DOMAIN in.format
    <2>1. list[1][1] = "lower_bound" /\ 1 \in 1..9
      BY DEF StayWithinMode, Block
    <2> QED
      BY <2>1, StayWithinTabled, Bounded
  <1>2. \A j \in 1..9 : list[j][1] \notin AuxFields /\ list[j][1] # "theta_rad_rate"
    BY AuxNames, SMTT(30) DEF StayWithinMode, Block
  <1>3. \A j \in 1..9 : Register[StayWithinNamedAfter[list[j][1]]] = 64 + j - 1
    BY DEF StayWithinMode, Block, Register, StayWithinNamedAfter
  <1> HIDE DEF list
  <1> QED
    BY <1>1, <1>2, <1>3, HomeNamed DEF AtHome, list

LEMMA ZeroVelocityAtHome ==
    ASSUME NEW in, Formatted(in, ZeroVelocityMode)
    PROVE  AtHome(in, ZeroVelocityMode, 2, 36, 1)
  <1> DEFINE list == ZeroVelocityMode[2].fields
  <1>1. "lower_bound" \notin DOMAIN in.format
    <2>1. \A j \in 1..1 : list[j][1] # "lower_bound"
      BY DEF ZeroVelocityMode, Block, Gap
    <2> HIDE DEF list
    <2> QED
      BY <2>1, ZeroVelocityTabled, Bounded DEF list
  <1>2. \A j \in 1..1 : list[j][1] \notin AuxFields /\ list[j][1] # "theta_rad_rate"
    BY AuxNames, SMTT(30) DEF ZeroVelocityMode, Block
  <1>3. \A j \in 1..1 : Register[NamedAfter[list[j][1]]] = 36 + j - 1
    BY DEF ZeroVelocityMode, Block, Register, NamedAfter
  <1> HIDE DEF list
  <1> QED
    BY <1>1, <1>2, <1>3, HomeNamed DEF AtHome, list

LEMMA GpioAtHome ==
    ASSUME NEW in, Formatted(in, GpioWrite)
    PROVE  AtHome(in, GpioWrite, 1, 92, 2)
  <1> DEFINE list == GpioWrite[1].fields
  <1>1. "lower_bound" \notin DOMAIN in.format
    <2>1. \A j \in 1..2 : list[j][1] # "lower_bound"
      BY DEF GpioWrite, Block, Gap
    <2> HIDE DEF list
    <2> QED
      BY <2>1, GpioTabled, Bounded DEF list
  <1>2. \A j \in 1..2 : list[j][1] \notin AuxFields /\ list[j][1] # "theta_rad_rate"
    BY AuxNames, SMTT(30) DEF GpioWrite, Block
  <1>3. \A j \in 1..2 : Register[NamedAfter[list[j][1]]] = 92 + j - 1
    BY DEF GpioWrite, Block, Register, NamedAfter
  <1> HIDE DEF list
  <1> QED
    BY <1>1, <1>2, <1>3, HomeNamed DEF AtHome, list

LEMMA AuxPwmAtHome ==
    ASSUME NEW in, Formatted(in, AuxPwmWrite)
    PROVE  AtHome(in, AuxPwmWrite, 1, 118, 10)
  <1> DEFINE list == AuxPwmWrite[1].fields
  <1>1. ASSUME NEW j \in 1..10 PROVE Home(in, list[j][1]) = 117 + j
    <2>1. list[j][1] \in AuxFields /\ list[j][1] # "theta_rad_rate"
      BY AuxNames DEF AuxFields, AuxPwmWrite, Block
    <2>2. Home(in, list[j][1]) = 117 + (CHOOSE i \in 1..10 : list[i][1] = list[j][1])
      BY <2>1 DEF Home
    <2>3. \A i \in 1..10 : list[i][1] = list[j][1] => i = j
      BY DEF AuxPwmWrite, Block
    <2> HIDE DEF list
    <2>4. (CHOOSE i \in 1..10 : list[i][1] = list[j][1]) = j
      BY <2>3
    <2> QED
      BY <2>2, <2>4
  <1> QED
    BY <1>1 DEF AtHome

(* A command that writes fields: each lies in the register it is named      *)
(* after and is read back in its unit, and the Format has a resolution for  *)
(* each and for no other.                                                   *)
FieldPlaced(in, name, register) ==
    /\ name \in DOMAIN in.format
    /\ Home(in, name) = register
    /\ name \notin Radians =>
          WriteScale[WriterOf(in, name)] = kMappingValues[Concrete(register)]

Placed(in, b, start, n) ==
    LET block == in.command[b]
        list  == block.fields
    IN /\ b \in {1, 2} /\ start \in Nat /\ n \in Nat
       /\ Len(in.command) = b /\ DOMAIN in.command = 1..b
       /\ b = 2 => \E mode : in.command[1] = [bytes |-> <<1, 0, mode>>]
       /\ DOMAIN block = {"base", "start", "fields"}
       /\ block.base = 0 /\ block.start = start
       /\ DOMAIN list = 1..n
       /\ \A j \in 1..n : IF list[j] = Gap THEN list[j][1] \notin DOMAIN in.format
                                           ELSE FieldPlaced(in, list[j][1], start + j - 1)
       /\ \A j \in 1..n : list[j] # Gap => WriterOf(in, list[j][1]) = list[j][2]
       /\ \A name \in DOMAIN in.format : \E j \in 1..n : list[j] # Gap /\ list[j][1] = name

LEMMA PlacedWhen ==
    ASSUME NEW in, NEW b \in {1, 2}, NEW start \in Nat, NEW n \in Nat, NEW entries,
           Tabled(in.command, b, start, n, entries), Formatted(in, in.command),
           AtHome(in, in.command, b, start, n)
    PROVE  Placed(in, b, start, n)
  <1> DEFINE block == in.command[b]
             list == block.fields
  <1>1. /\ Len(in.command) = b /\ DOMAIN in.command = 1..b
        /\ b = 2 => \E mode : in.command[1] = [bytes |-> <<1, 0, mode>>]
        /\ DOMAIN block = {"base", "start", "fields"}
        /\ block.base = 0 /\ block.start = start
        /\ DOMAIN list = 1..n
        /\ \A j \in 1..n : list[j] # Gap =>
              /\ ReadAlike(list[j], start + j - 1, entries[j])
              /\ \A k \in 1..n : list[k][1] = list[j][1] => k = j
    BY DEF Tabled
  <1>2. DOMAIN in.format = {list[j][1] : j \in 1..n} \ {Gap[1]}
    <2>1. FieldNames(in.command) = {list[j][1] : j \in 1..n} \ {Gap[1]}
      BY <1>1 DEF FieldNames
    <2> QED
      BY <2>1 DEF Formatted
  <1>3. ASSUME NEW j \in 1..n, list[j] # Gap
        PROVE  FieldPlaced(in, list[j][1], start + j - 1) /\ WriterOf(in, list[j][1]) = list[j][2]
    <2> DEFINE name == list[j][1]
               register == start + j - 1
    <2>1. ReadAlike(list[j], register, entries[j])
      BY <1>1, <1>3
    <2>2. /\ list[j] = <<name, list[j][2]>> /\ name # Gap[1] /\ list[j][2] \in DOMAIN WriteScale
          /\ name \notin Radians => /\ entries[j] \in kRegisterDefinitions
                                    /\ register \in Span(entries[j])
                                    /\ WriteScale[list[j][2]] = kMappingValues[entries[j][3]]
      BY <2>1, SMTT(30) DEF ReadAlike
    <2>3. name \in DOMAIN in.format
      BY <1>2, <2>2
    <2>4. Home(in, name) = register
      BY <1>3 DEF AtHome
    <2>5. WriterOf(in, name) = list[j][2]
      <3>1. WriterOf(in, name) = CHOOSE w \in DOMAIN WriteScale : \E k \in 1..n : list[k] = <<name, w>>
        BY <1>1 DEF WriterOf
      <3>2. ASSUME NEW w \in DOMAIN WriteScale, NEW k \in 1..n, list[k] = <<name, w>>
            PROVE  w = list[j][2]
        <4>1. list[k][1] = name /\ list[k][2] = w
          BY <3>2
        <4>2. k = j
          BY <1>1, <1>3, <4>1
        <4> QED
          BY <4>1, <4>2
      <3> HIDE DEF list, name
      <3>3. \A w \in DOMAIN WriteScale : (\E k \in 1..n : list[k] = <<name, w>>) <=> w = list[j][2]
        BY <2>2, <3>2
      <3> QED
        BY <2>2, <3>1, <3>3
    <2>6. name \notin Radians => WriteScale[WriterOf(in, name)] = kMappingValues[Concrete(register)]
      <3>1. register \in Nat
        OBVIOUS
      <3> HIDE DEF name, register, list
      <3> QED
        BY <2>2, <2>5, <3>1, ConcreteOf
    <2> QED
      BY <2>3, <2>4, <2>5, <2>6 DEF FieldPlaced
  <1>4. \A j \in 1..n : list[j] = Gap => list[j][1] \notin DOMAIN in.format
    BY <1>2
  <1>5. \A name \in DOMAIN in.format : \E j \in 1..n : list[j] # Gap /\ list[j][1] = name
    BY <1>2
  <1> QED
    BY <1>1, <1>3, <1>4, <1>5 DEF Placed

LEMMA CommandPlaced ==
    ASSUME NEW in \in Inputs, WritesFields(in)
    PROVE  \E b, start, n : Placed(in, b, start, n)
  <1>1. Formatted(in, in.command)
    BY CommandsAssumption DEF Formatted
  <1>2. CASE in.command = PositionMode
    <2>1. Placed(in, 2, 32, 14)
      BY <1>1, <1>2, PositionTabled, PositionAtHome, PlacedWhen
    <2> QED
      BY <2>1
  <1>3. CASE in.command = VFOCMode
    <2>1. Placed(in, 2, 24, 7)
      BY <1>1, <1>3, VFOCTabled, VFOCAtHome, PlacedWhen
    <2> QED
      BY <2>1
  <1>4. CASE in.command = CurrentMode
    <2>1. Placed(in, 2, 28, 2)
      BY <1>1, <1>4, CurrentTabled, CurrentAtHome, PlacedWhen
    <2> QED
      BY <2>1
  <1>5. CASE in.command = StayWithinMode
    <2>1. Placed(in, 2, 64, 9)
      BY <1>1, <1>5, StayWithinTabled, StayWithinAtHome, PlacedWhen
    <2> QED
      BY <2>1
  <1>6. CASE in.command = ZeroVelocityMode
    <2>1. Placed(in, 2, 36, 1)
      BY <1>1, <1>6, ZeroVelocityTabled, ZeroVelocityAtHome, PlacedWhen
    <2> QED
      BY <2>1
  <1>7. CASE in.command = GpioWrite
    <2>1. Placed(in, 1, 92, 2)
      BY <1>1, <1>7, GpioTabled, GpioAtHome, PlacedWhen
    <2> QED
      BY <2>1
  <1>8. CASE in.command = AuxPwmWrite
    <2>1. Placed(in, 1, 118, 10)
      BY <1>1, <1>8, AuxPwmTabled, AuxPwmAtHome, PlacedWhen
    <2> QED
      BY <2>1
  <1> QED
    BY <1>2, <1>3, <1>4, <1>5, <1>6, <1>7, <1>8, CommandsAssumption DEF WritingCommands

(* Of the pieces of such a command, only the block of fields writes them;   *)
(* what is spelled out before it writes the mode.                           *)
LEMMA BlockMade ==
    ASSUME NEW in \in Inputs, NEW b, NEW start, NEW n, Placed(in, b, start, n)
    PROVE  LET piece == MakeFrame(in)[b]
           IN /\ b \in 1..Len(MakeFrame(in))
              /\ Combined(piece) /\ piece.base = 0 /\ piece.start = start
              /\ piece.fields = in.command[b].fields
              /\ piece.resolutions =
                    [j \in 1..n |-> FieldResolution(in, in.command[b].fields[j][1], in.format)]
              /\ Len(piece.resolutions) = n /\ DOMAIN piece.resolutions = 1..n
  <1> DEFINE piece == MakeFrame(in)[b]
             block == in.command[b]
             L == Len(MakeFrame(in))
  <1>1. /\ b \in {1, 2} /\ Len(in.command) = b /\ n \in Nat
        /\ DOMAIN block = {"base", "start", "fields"}
        /\ block.base = 0 /\ block.start = start /\ DOMAIN block.fields = 1..n
    BY DEF Placed
  <1>2. /\ b <= L
        /\ \A i \in 1..b : MakeFrame(in)[i] = Resolved(in, in.command[i], in.format, FALSE)
    BY <1>1, FrameMade
  <1>3. b \in 1..b
    BY <1>1
  <1>4. piece = Resolved(in, block, in.format, FALSE)
    BY <1>2, <1>3
  <1>5. L \in Nat
    BY FrameMade
  <1>6. b \in 1..L
    <2> HIDE DEF L
    <2> QED
      BY <1>1, <1>2, <1>5
  <1> HIDE DEF piece, block, L
  <1>7. piece = [base |-> 0, start |-> start, query |-> FALSE, fields |-> block.fields,
                 resolutions |-> [j \in 1..n |->
                                     FieldResolution(in, block.fields[j][1], in.format)]]
    BY <1>1, <1>4 DEF Resolved
  <1>8. Len(piece.resolutions) = n /\ DOMAIN piece.resolutions = 1..n
    <2> DEFINE r(j) == FieldResolution(in, block.fields[j][1], in.format)
    <2>1. piece.resolutions = [j \in 1..n |-> r(j)]
      BY <1>7
    <2> HIDE DEF r
    <2> QED
      BY <1>1, <2>1
  <1>9. /\ Combined(piece) /\ piece.base = 0 /\ piece.start = start
        /\ piece.fields = block.fields
        /\ piece.resolutions = [j \in 1..n |-> FieldResolution(in, block.fields[j][1], in.format)]
    BY <1>7 DEF Combined
  <1> QED
    BY <1>6, <1>8, <1>9 DEF piece, block, L

LEMMA OtherPieces ==
    ASSUME NEW in \in Inputs, NEW b, NEW start, NEW n, Placed(in, b, start, n),
           NEW q \in 1..Len(MakeFrame(in))
    PROVE  LET piece == MakeFrame(in)[q]
           IN /\ Combined(piece) /\ piece.base = 0 => q = b
              /\ SpelledOut(piece) => \E mode : piece.bytes = <<1, 0, mode>>
  <1> DEFINE piece == MakeFrame(in)[q]
  <1>1. /\ b \in {1, 2} /\ Len(in.command) = b
        /\ b = 2 => \E mode : in.command[1] = [bytes |-> <<1, 0, mode>>]
    BY DEF Placed
  <1>2. CASE q = b
    <2>1. Combined(piece)
      BY <1>2, BlockMade
    <2> QED
      BY <1>2, <2>1 DEF Combined, SpelledOut
  <1>3. CASE q > b
    <2>1. Combined(piece) /\ piece.base = kReadBase
      BY <1>1, <1>3, PiecesMade
    <2> QED
      BY <2>1 DEF Combined, SpelledOut, kReadBase
  <1>4. CASE q = 1 /\ b = 2
    <2>1. piece = Resolved(in, in.command[1], in.format, FALSE)
      <3>1. q \in 1..Len(in.command)
        BY <1>1, <1>4
      <3>2. piece = Resolved(in, in.command[q], in.format, FALSE)
        BY <3>1, FrameMade
      <3> QED
        BY <1>4, <3>2
    <2>2. PICK mode : in.command[1] = [bytes |-> <<1, 0, mode>>]
      BY <1>1, <1>4
    <2>3. piece = [bytes |-> <<1, 0, mode>>]
      BY <2>1, <2>2 DEF Resolved
    <2> HIDE DEF piece
    <2> QED
      BY <2>3 DEF Combined, SpelledOut, piece
  <1>5. q = b \/ q > b \/ (q = 1 /\ b = 2)
    <2>1. q \in Nat /\ q >= 1
      OBVIOUS
    <2> QED
      BY <1>1, <2>1
  <1> QED
    BY <1>2, <1>3, <1>4, <1>5

LEMMA ModeOnly ==
    ASSUME NEW mode, NEW e, LiteralSays(<<1, 0, mode>>, e)
    PROVE  e.register = 0
  <1> DEFINE bytes == <<1, 0, mode>>
  <1>1. PICK res \in Resolutions, register \in Numbers :
           LET framing == Framing(0, res, 1, register)
           IN /\ Len(bytes) = Len(framing) + ResolutionSize(res)
              /\ SubSeq(bytes, 1, Len(framing)) = framing
              /\ e = Entry(register, res, SubSeq(bytes, Len(framing) + 1, Len(bytes)))
    BY DEF LiteralSays
  <1> DEFINE framing == Framing(0, res, 1, register)
             number == WriteVaruint(register)
  <1>2. Framed(framing, 0, res, 1, register)
    BY FramingBytes DEF Counts
  <1>3. /\ framing \in Seq(Byte) /\ Len(framing) = 1 + Len(number)
        /\ \A j \in 1..Len(number) : framing[1 + j] = number[j]
    BY <1>2 DEF Framed, Lead
  <1>4. Len(number) \in {1, 2}
    BY VaruintBytes
  <1>5. SubSeq(bytes, 1, Len(framing)) = framing /\ Len(bytes) = 3 /\ bytes[2] = 0
    BY <1>1
  <1>6. e.register = register
    BY <1>1 DEF Entry
  <1>7. Len(framing) <= 3
    <2>1. Len(bytes) = Len(framing) + ResolutionSize(res)
      BY <1>1
    <2> HIDE DEF framing, bytes
    <2> QED
      BY <1>3, <1>5, <2>1, Sizes
  <1>8. framing[2] = number[1]
    <2> HIDE DEF framing, number
    <2> QED
      BY <1>3, <1>4
  <1>9. framing[2] = bytes[2]
    <2> HIDE DEF framing, number
    <2>a. Len(framing) = 1 + Len(number)
      BY <1>3
    <2> DEFINE k == Len(number)
    <2>b. k \in {1, 2} /\ Len(framing) = 1 + k
      BY <1>4, <2>a
    <2> HIDE DEF k
    <2>1. Len(framing) \in {2, 3}
      BY <2>b
    <2>2. SubSeq(bytes, 1, Len(framing))[2] = bytes[2]
      BY <2>1
    <2> QED
      BY <1>5, <2>2
  <1>10. number[1] = 0
    BY <1>5, <1>8, <1>9
  <1>11. register \in Nat /\ (register < 128 => number[1] = register)
         /\ (register >= 128 => number[1] = (register % 128) + 128)
    BY VaruintBytes, Bounds
  <1>12. register % 128 \in 0..127
    BY Septets, SMTT(30)
  <1> HIDE DEF number
  <1> QED
    BY <1>6, <1>10, <1>11, <1>12

(* What the frame tells: the fields of the block that have a resolution,    *)
(* and the mode.                                                            *)
FieldEntry(in, b, start, j) ==
    LET name == in.command[b].fields[j][1]
        res  == in.format[name]
    IN Entry(start + j - 1, res, FieldBytes(in, in.command[b].fields[j], res))

LEMMA FieldTold ==
    ASSUME NEW in \in Inputs, NEW b, NEW start, NEW n, Placed(in, b, start, n),
           NEW j \in 1..n, in.command[b].fields[j][1] \in Wanted(in)
    PROVE  LET name == in.command[b].fields[j][1]
           IN /\ Told(in, Len(MakeFrame(in)) + 1, 1, FieldEntry(in, b, start, j))
              /\ in.format[name] \in Resolutions /\ in.values[name] \in Given
  <1> DEFINE name == in.command[b].fields[j][1]
             piece == MakeFrame(in)[b]
             res == in.format[name]
  <1>1. /\ b \in 1..Len(MakeFrame(in))
        /\ Combined(piece) /\ piece.base = 0 /\ piece.start = start
        /\ piece.fields = in.command[b].fields
        /\ piece.resolutions =
              [i \in 1..n |-> FieldResolution(in, in.command[b].fields[i][1], in.format)]
        /\ Len(piece.resolutions) = n /\ DOMAIN piece.resolutions = 1..n
    BY BlockMade
  <1>2. name \in DOMAIN in.format /\ FieldResolution(in, name, in.format) # "kIgnore"
    BY SMTT(30) DEF Wanted
  <1>3. FieldResolution(in, name, in.format) = res
    BY <1>2, SMTT(30) DEF FieldResolution, Lookup
  <1>4. piece.resolutions[j] = res /\ res # "kIgnore"
    BY <1>1, <1>2, <1>3
  <1>5. Combinable(in, piece)
    BY <1>1, PiecesMade DEF Combined, SpelledOut
  <1>6. in.values[piece.fields[j][1]] \in Given /\ piece.resolutions \in Seq(Resolutions \cup {"kIgnore"})
    BY <1>1, <1>4, <1>5 DEF Combinable
  <1> HIDE DEF piece, res
  <1>7. piece.resolutions[j] \in Resolutions \cup {"kIgnore"}
    <2> DEFINE r == piece.resolutions
    <2>1. r \in Seq(Resolutions \cup {"kIgnore"}) /\ j \in 1..Len(r)
      BY <1>1, <1>6
    <2> HIDE DEF r
    <2>2. r[j] \in Resolutions \cup {"kIgnore"}
      BY <2>1
    <2> QED
      BY <2>2 DEF r
  <1>8. FieldSays(in, piece, j, FieldEntry(in, b, start, j))
    BY <1>1, <1>4 DEF FieldSays, FieldEntry, res
  <1>9. b < Len(MakeFrame(in)) + 1 /\ j \in Nat
    <2> DEFINE L == Len(MakeFrame(in))
    <2>1. b \in 1..L /\ L \in Nat
      BY <1>1, FrameMade
    <2> HIDE DEF L
    <2>2. b < L + 1
      BY <2>1
    <2> QED
      BY <2>2 DEF L
  <1>10. Told(in, Len(MakeFrame(in)) + 1, 1, FieldEntry(in, b, start, j))
    BY <1>1, <1>8, <1>9 DEF Told, piece
  <1> QED
    BY <1>1, <1>4, <1>6, <1>7, <1>10 DEF res

LEMMA OnlyWanted ==
    ASSUME NEW in \in Inputs, NEW b, NEW start, NEW n, Placed(in, b, start, n),
           NEW e, Told(in, Len(MakeFrame(in)) + 1, 1, e)
    PROVE  \E name \in Wanted(in) : e.register = Home(in, name)
  <1> DEFINE list == in.command[b].fields
             M == MakeFrame(in)
  <1>1. PICK q \in 1..Len(M), j \in Nat : FieldSays(in, M[q], j, e)
    BY SMTT(30) DEF Told
  <1>2. q = b
    BY <1>1, OtherPieces DEF FieldSays
  <1>3. /\ M[b].start = start /\ Len(M[b].resolutions) = n
        /\ M[b].resolutions = [i \in 1..n |-> FieldResolution(in, list[i][1], in.format)]
    BY BlockMade
  <1> HIDE DEF M, list
  <1>4. /\ j \in 1..n /\ M[b].resolutions[j] # "kIgnore" /\ e.register = start + j - 1
    BY <1>1, <1>2, <1>3 DEF FieldSays, Entry
  <1>5. FieldResolution(in, list[j][1], in.format) # "kIgnore"
    BY <1>3, <1>4
  <1>6. list[j][1] \in DOMAIN in.format
    BY <1>5 DEF FieldResolution, Lookup
  <1>7. FieldPlaced(in, list[j][1], start + j - 1)
    BY <1>4, <1>6 DEF Placed, list
  <1>8. list[j][1] \in Wanted(in)
    BY <1>5, <1>6 DEF Wanted
  <1> QED
    BY <1>4, <1>7, <1>8 DEF FieldPlaced

LEMMA OnlyMode ==
    ASSUME NEW in \in Inputs, NEW b, NEW start, NEW n, Placed(in, b, start, n),
           NEW e, Spelled(in, Len(MakeFrame(in)) + 1, e)
    PROVE  e.register = Register.kMode
  <1>1. PICK q \in 1..Len(MakeFrame(in)) :
           SpelledOut(MakeFrame(in)[q]) /\ LiteralSays(MakeFrame(in)[q].bytes, e)
    BY DEF Spelled
  <1>2. PICK mode : MakeFrame(in)[q].bytes = <<1, 0, mode>>
    BY <1>1, OtherPieces
  <1>3. e.register = 0
    BY <1>1, <1>2, ModeOnly
  <1> QED
    BY <1>3 DEF Register

(* Whatever the Format and the values given, each field that has a          *)
(* resolution arrives in the register it is named after, at that resolution *)
(* and with the value it was given: by its scale, saturated with its sign   *)
(* and not turned into NaN; as an integer, clamped at 8 and 16 bits and as  *)
(* it is at 32, where a double without an integer may read as NaN.  It is   *)
(* read back in the unit it was written in; nothing else is written but the *)
(* mode.                                                                    *)
THEOREM CommandAlwaysLands == Spec => []CommandLands
  <1>1. IInv => CommandLands
    <2> SUFFICES ASSUME IInv, phase \in {"parse", "done"}, input.raw = << >>, WritesFields(input)
                 PROVE  LET written == {registers[k] : k \in DOMAIN registers}
                            value(w) == ReadValue(w.bytes, w.res)
                        IN /\ \A name \in Wanted(input) :
                                 LET res == input.format[name]
                                 IN /\ \E w \in written :
                                          /\ w.register = Home(input, name) /\ w.res = res
                                          /\ value(w) \in
                                                MayRead(WriterOf(input, name), input.values[name], res)
                                    /\ name \notin Radians =>
                                          WriteScale[WriterOf(input, name)][ScaleIndex[res]] =
                                             kMappingValues[Concrete(Home(input, name))][ScaleIndex[res]]
                           /\ \A w \in written : \/ w.register = Register.kMode
                                                  \/ \E name \in Wanted(input) :
                                                        w.register = Home(input, name)
      BY DEF CommandLands, Radians
    <2> DEFINE written == {registers[k] : k \in DOMAIN registers}
               end == Len(MakeFrame(input)) + 1
    <2>1. input \in Inputs /\ registers \in Seq(Written) /\ FieldsSet(input, registers)
      BY DEF IInv, LandOK
    <2>2. PICK b, start, n : Placed(input, b, start, n)
      BY <2>1, CommandPlaced
    <2>3. DOMAIN registers = 1..Len(registers)
      BY <2>1
    <2>4. /\ \A e \in written : Told(input, end, 1, e) \/ Spelled(input, end, e)
          /\ \A e : Told(input, end, 1, e) => e \in written
      BY <2>1, <2>3 DEF FieldsSet
    <2> HIDE DEF written
    <2>5. ASSUME NEW name \in Wanted(input)
          PROVE  /\ \E w \in written :
                       /\ w.register = Home(input, name) /\ w.res = input.format[name]
                       /\ ReadValue(w.bytes, w.res) \in
                             MayRead(WriterOf(input, name), input.values[name], input.format[name])
                 /\ name \notin Radians =>
                       WriteScale[WriterOf(input, name)] = kMappingValues[Concrete(Home(input, name))]
      <3> DEFINE res == input.format[name]
                 v == input.values[name]
      <3>1. PICK j \in 1..n : input.command[b].fields[j] # Gap /\ input.command[b].fields[j][1] = name
        BY <2>2 DEF Wanted, Placed
      <3>2. FieldPlaced(input, name, start + j - 1)
        BY <2>2, <3>1 DEF Placed
      <3>3. /\ Told(input, end, 1, FieldEntry(input, b, start, j))
            /\ res \in Resolutions /\ v \in Given
        BY <2>1, <2>2, <3>1, FieldTold
      <3> DEFINE field == input.command[b].fields[j]
                 bytes == FieldBytes(input, field, res)
                 writer == WriterOf(input, name)
      <3>4. FieldEntry(input, b, start, j) = Entry(start + j - 1, res, bytes)
        BY <3>1 DEF FieldEntry
      <3> DEFINE w == Entry(start + j - 1, res, bytes)
      <3>5. w \in written
        BY <2>4, <3>3, <3>4
      <3>6. bytes = Write(writer, v, res, input.undefined)
        <4>1. writer = field[2]
          BY <2>2, <3>1 DEF Placed
        <4> QED
          BY <3>1, <4>1 DEF FieldBytes
      <3>7. input.undefined \in Undefined
        BY <2>1, InputsAssumption
      <3> HIDE DEF res, v, bytes, writer, field
      <3>8. w.register = start + j - 1 /\ w.res = res /\ w.bytes = bytes
        BY DEF Entry
      <3>9. ReadValue(w.bytes, w.res) \in MayRead(writer, v, res)
        BY <3>3, <3>6, <3>7, <3>8, ValueReadBack
      <3> HIDE DEF w
      <3>10. Home(input, name) = start + j - 1
        BY <3>2 DEF FieldPlaced
      <3> QED
        BY <3>2, <3>5, <3>8, <3>9, <3>10 DEF FieldPlaced, res, v, writer
    <2>6. ASSUME NEW w \in written
          PROVE  w.register = Register.kMode \/ \E name \in Wanted(input) : w.register = Home(input, name)
      BY <2>1, <2>2, <2>4, OnlyWanted, OnlyMode
    <2> QED
      BY <2>5, <2>6 DEF written
  <1> QED
    BY <1>1, Invariance, PTL
=============================================================================
