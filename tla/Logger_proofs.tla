--------------------------- MODULE Logger_proofs ---------------------------
(***************************************************************************)
(* Proofs about the logger, for a program that does not call initialize    *)
(* again for a file that is open.  A sound key's stream is then absent or  *)
(* open, never broken, and an absent one has an empty buffer: this is what *)
(* makes initialize and ensureOpen, which both reset a buffer, lose        *)
(* nothing.                                                                *)
(***************************************************************************)
EXTENDS Logger, SequenceTheorems, TLAPS

KeyInv(k) ==
    /\ files[k] \in {"absent", "open"}
    /\ files[k] = "absent" => buffers[k] = <<>>
    /\ Len(buffers[k]) < BUFFER_SIZE
    /\ disk[k] \o buffers[k] = Sent(k)

IInv == TypeOK /\ (up => \A k \in Sound : KeyInv(k))

----------------------------------------------------------------------------
(* Sequences. *)

(* The first entries are a sequence of numbers; one more comes at its end. *)
LEMMA OneMore ==
    ASSUME NEW n \in Nat
    PROVE  /\ [i \in 1..n |-> i] \in Seq(Nat)
           /\ Len([i \in 1..n |-> i]) = n
           /\ Append([i \in 1..n |-> i], n + 1) = [i \in 1..(n + 1) |-> i]
<1> DEFINE s == [i \in 1..n |-> i]
           t == [i \in 1..(n + 1) |-> i]
<1>1. s \in Seq(Nat) /\ Len(s) = n /\ t \in Seq(Nat) /\ Len(t) = n + 1
    OBVIOUS
<1>2. Append(s, n + 1) \in Seq(Nat) /\ Len(Append(s, n + 1)) = n + 1
    BY <1>1, AppendProperties
<1>3. ASSUME NEW i \in 1..(n + 1) PROVE Append(s, n + 1)[i] = t[i]
    <2>1. CASE i \in 1..n
        BY <1>1, <2>1, AppendProperties
    <2>2. CASE i = n + 1
        BY <1>1, <2>2, AppendProperties
    <2> QED
        BY <2>1, <2>2
<1>4. Append(s, n + 1) = t
    BY <1>1, <1>2, <1>3, SeqEqual
<1> QED
    BY <1>1, <1>4

(* A whole buffer goes to the file. *)
LEMMA Moved ==
    ASSUME NEW d \in Seq(Nat), NEW b \in Seq(Nat)
    PROVE  /\ SubSeq(b, 1, Len(b)) = b
           /\ d \o <<>> = d
           /\ \A m \in 0..Len(b) : SubSeq(b, 1, m) \in Seq(Nat) /\ d \o SubSeq(b, 1, m) \in Seq(Nat)
           /\ SubSeq(b, 1, 0) = <<>>
           /\ \A e \in Nat : d \o Append(b, e) = Append(d \o b, e)
<1>1. SubSeq(b, 1, Len(b)) = b /\ d \o <<>> = d /\ SubSeq(b, 1, 0) = <<>>
    BY SubSeqFull, ConcatEmptySeq, SubSeqEmpty
<1>2. ASSUME NEW m \in 0..Len(b)
      PROVE  SubSeq(b, 1, m) \in Seq(Nat) /\ d \o SubSeq(b, 1, m) \in Seq(Nat)
    <2>1. Len(b) \in Nat /\ \A i \in 1..m : b[i] \in Nat
        BY LenProperties, ElementOfSeq
    <2>2. SubSeq(b, 1, m) \in Seq(Nat)
        BY <2>1, SubSeqProperties
    <2> QED
        BY <2>2, ConcatProperties
<1>3. ASSUME NEW e \in Nat PROVE d \o Append(b, e) = Append(d \o b, e)
    <2>1. Append(b, e) = b \o <<e>> /\ <<e>> \in Seq(Nat) /\ d \o b \in Seq(Nat)
        BY AppendIsConcat, ConcatProperties
    <2>2. Append(d \o b, e) = (d \o b) \o <<e>>
        BY <2>1, AppendIsConcat
    <2> QED
        BY <2>1, <2>2, ConcatAssociative
<1> QED
    BY <1>1, <1>2, <1>3

----------------------------------------------------------------------------
(* Types. *)

LEMMA InitInv == Init => IInv
<1> SUFFICES ASSUME Init PROVE IInv
    OBVIOUS
<1>1. <<>> \in Seq(Nat) /\ Len(<<>>) = 0
    BY EmptySeq
<1>2. TypeOK
    BY <1>1 DEF Init, TypeOK, Stream
<1>3. ASSUME NEW k \in Sound PROVE KeyInv(k)
    <2>1. Sent(k) = <<>> /\ <<>> \o <<>> = <<>>
        BY <1>1, ConcatEmptySeq, LoggerAssumption DEF Init, Sent, Sound
    <2> QED
        BY <1>1, <2>1, LoggerAssumption DEF Init, KeyInv, Sound
<1> QED
    BY <1>2, <1>3 DEF IInv

LEMMA WrittenType ==
    ASSUME NEW k \in Key, NEW f \in Stream, NEW b \in Seq(Nat), NEW w \in Written(k, f, b)
    PROVE  w[1] \in Stream /\ w[2] \in 0..Len(b)
<1>1. Len(b) \in Nat
    BY LenProperties
<1> QED
    BY <1>1 DEF Written, Stream

LEMMA OpenedType == ASSUME NEW k \in Key, NEW f \in Opened(k) PROVE f \in Stream
BY DEF Opened, Stream

LEMMA StoreType ==
    ASSUME TypeOK, NEW w \in Writes, Store(w)
    PROVE  /\ [k \in Key |-> w[k][1]] \in [Key -> Stream]
           /\ buffers' = [k \in Key |-> <<>>] /\ buffers' \in [Key -> Seq(Nat)]
           /\ disk' \in [Key -> Seq(Nat)]
<1>1. ASSUME NEW k \in Key
      PROVE  w[k][1] \in Stream /\ disk[k] \o SubSeq(buffers[k], 1, w[k][2]) \in Seq(Nat)
    <2>1. w[k][1] \in Stream /\ w[k][2] \in 0..Len(buffers[k])
        BY WrittenType DEF TypeOK, Writes
    <2> QED
        BY <2>1, Moved DEF TypeOK
<1>2. <<>> \in Seq(Nat)
    BY EmptySeq
<1> QED
    BY <1>1, <1>2 DEF Store, Cleared

LEMMA InitializeType ==
    ASSUME TypeOK, NEW comps \in Components, Initialize(comps)
    PROVE  TypeOK'
<1>1. PICK result \in [DOMAIN comps -> Stream] :
        LET failing == {i \in DOMAIN comps : ~IsOpen(result[i])}
            reached == {i \in DOMAIN comps : \A j \in failing : i <= j}
            at(k, S) == \E i \in S : comps[i] = k
        IN  /\ files' = [k \in Key |->
                   IF at(k, reached) THEN result[CHOOSE i \in reached : comps[i] = k]
                   ELSE files[k]]
            /\ buffers' = [k \in Key |->
                   IF at(k, reached \ failing) THEN <<>> ELSE buffers[k]]
            /\ is_initialized' = (is_initialized \/ failing = {})
    BY DEF Initialize
<1> DEFINE failing == {i \in DOMAIN comps : ~IsOpen(result[i])}
           reached == {i \in DOMAIN comps : \A j \in failing : i <= j}
<1>2. ASSUME NEW k \in Key, \E i \in reached : comps[i] = k
      PROVE  result[CHOOSE i \in reached : comps[i] = k] \in Stream
    <2>1. (CHOOSE i \in reached : comps[i] = k) \in DOMAIN comps
        BY <1>2
    <2> QED
        BY <2>1
<1>3. files' \in [Key -> Stream]
    BY <1>1, <1>2 DEF TypeOK
<1>4. <<>> \in Seq(Nat)
    BY EmptySeq
<1>5. buffers' \in [Key -> Seq(Nat)]
    BY <1>1, <1>4 DEF TypeOK
<1>6. is_initialized' \in BOOLEAN
    BY <1>1 DEF TypeOK
<1> QED
    BY <1>3, <1>5, <1>6 DEF Initialize, TypeOK

LEMMA LogType == ASSUME TypeOK, NEW k \in Key, Log(k) PROVE TypeOK'
<1>0. PICK f \in IF files[k] = "absent" THEN Opened(k) ELSE {files[k]} :
        LET old == IF files[k] = "absent" /\ f = "open" THEN <<>> ELSE buffers[k]
            buf == Append(old, logged[k] + 1)
        IN  IF Full(buf)
            THEN \E w \in Written(k, f, buf) :
                    /\ files' = [files EXCEPT ![k] = w[1]]
                    /\ disk' = [disk EXCEPT ![k] = @ \o SubSeq(buf, 1, w[2])]
                    /\ buffers' = [buffers EXCEPT ![k] = Cleared(buf)]
            ELSE /\ files' = [files EXCEPT ![k] = f]
                 /\ buffers' = [buffers EXCEPT ![k] = buf]
                 /\ UNCHANGED disk
    BY DEF Log
<1> DEFINE old == IF files[k] = "absent" /\ f = "open" THEN <<>> ELSE buffers[k]
           buf == Append(old, logged[k] + 1)
<1>1. f \in Stream /\ logged' \in [Key -> Nat] /\ logged[k] + 1 \in Nat
    BY OpenedType, SMTT(30) DEF Log, TypeOK
<1>2. <<>> \in Seq(Nat) /\ buffers[k] \in Seq(Nat) /\ disk[k] \in Seq(Nat)
    BY EmptySeq DEF TypeOK
<1>3. buf \in Seq(Nat)
    BY <1>1, <1>2, AppendProperties
<1>4. CASE Full(buf)
    <2>1. PICK w \in Written(k, f, buf) :
                    /\ files' = [files EXCEPT ![k] = w[1]]
                    /\ disk' = [disk EXCEPT ![k] = @ \o SubSeq(buf, 1, w[2])]
                    /\ buffers' = [buffers EXCEPT ![k] = Cleared(buf)]
        BY <1>0, <1>4
    <2>2. w[1] \in Stream /\ w[2] \in 0..Len(buf)
        BY <1>1, <1>3, WrittenType
    <2>3. disk[k] \o SubSeq(buf, 1, w[2]) \in Seq(Nat)
        BY <1>2, <1>3, <2>2, Moved
    <2> QED
        BY <1>1, <1>2, <2>1, <2>2, <2>3 DEF Log, TypeOK, Cleared
<1>5. CASE ~Full(buf)
    <2>1. /\ files' = [files EXCEPT ![k] = f]
          /\ buffers' = [buffers EXCEPT ![k] = buf]
          /\ UNCHANGED disk
        BY <1>0, <1>5
    <2> HIDE DEF buf
    <2> QED
        BY <1>1, <1>3, <2>1 DEF Log, TypeOK
<1> QED
    BY <1>4, <1>5

LEMMA TypeStep == TypeOK /\ [Next]_vars => TypeOK'
<1> SUFFICES ASSUME TypeOK, [Next]_vars PROVE TypeOK'
    OBVIOUS
<1>0. <<>> \in Seq(Nat)
    BY EmptySeq
<1>1. CASE FlushAll
    BY <1>1, StoreType DEF FlushAll, TypeOK
<1>2. CASE CloseAll
    <2>1. [k \in Key |-> "absent"] \in [Key -> Stream]
        BY DEF Stream
    <2> QED
        BY <1>2, <2>1, StoreType DEF CloseAll, CloseWritten, TypeOK
<1>3. CASE Exit
    BY <1>0, <1>3 DEF Exit, TypeOK
<1>4. CASE Over \/ UNCHANGED vars
    BY <1>4 DEF Over, vars, TypeOK
<1> QED
    BY <1>1, <1>2, <1>3, <1>4, InitializeType, LogType DEF Next

(* Every variable of the logger keeps its type.                            *)
THEOREM TypeCorrect == Spec => []TypeOK
<1>1. Init => TypeOK
    BY InitInv DEF IInv
<1> QED
    BY <1>1, TypeStep, PTL DEF Spec

----------------------------------------------------------------------------
(* Nothing is lost. *)

(* The buffer of a sound key goes to its file as a whole. *)
LEMMA SoundWritten ==
    ASSUME NEW k \in Sound, NEW d \in Seq(Nat), NEW b \in Seq(Nat), NEW f,
           f = "open" \/ b = <<>>, NEW w \in Written(k, f, b)
    PROVE  w[1] = f /\ d \o SubSeq(b, 1, w[2]) = d \o b
<1>1. k \notin Bad
    BY DEF Sound
<1>2. CASE b = <<>>
    <2>1. w = <<f, 0>>
        BY <1>2 DEF Written
    <2>2. SubSeq(b, 1, 0) = b
        BY <1>2, Moved
    <2> QED
        BY <2>1, <2>2
<1>3. CASE b # <<>>
    <2>1. w = <<f, Len(b)>>
        BY <1>1, <1>3 DEF Written
    <2> QED
        BY <2>1, Moved
<1> QED
    BY <1>2, <1>3

LEMMA SoundStored ==
    ASSUME IInv, up, NEW w \in Writes, Store(w), NEW k \in Sound
    PROVE  w[k][1] = files[k] /\ disk'[k] = Sent(k) /\ buffers'[k] = <<>>
<1>1. KeyInv(k) /\ TypeOK /\ k \in Key
    BY DEF IInv, Sound
<1>2. w[k][1] = files[k] /\ disk[k] \o SubSeq(buffers[k], 1, w[k][2]) = disk[k] \o buffers[k]
    <2>1. w[k] \in Written(k, files[k], buffers[k])
        BY <1>1 DEF Writes
    <2>2. files[k] = "open" \/ buffers[k] = <<>>
        BY <1>1 DEF KeyInv
    <2>3. disk[k] \in Seq(Nat) /\ buffers[k] \in Seq(Nat)
        BY <1>1 DEF TypeOK
    <2> DEFINE d == disk[k]
               b == buffers[k]
               f == files[k]
               v == w[k]
    <2>4. d \in Seq(Nat) /\ b \in Seq(Nat) /\ (f = "open" \/ b = <<>>) /\ v \in Written(k, f, b)
        BY <2>1, <2>2, <2>3
    <2> HIDE DEF d, b, f, v
    <2>5. v[1] = f /\ d \o SubSeq(b, 1, v[2]) = d \o b
        BY <2>4, SoundWritten, ZenonT(60)
    <2> QED
        BY <2>5 DEF d, b, f, v
<1> QED
    BY <1>1, <1>2 DEF Store, Cleared, KeyInv

LEMMA SavedInv ==
    ASSUME TypeOK, NEW k \in Key, files'[k] \in {"absent", "open"}, buffers'[k] = <<>>,
           disk'[k] = Sent(k), logged' = logged
    PROVE  KeyInv(k)'
<1>1. Sent(k)' = Sent(k)
    BY DEF Sent
<1>2. Sent(k) \in Seq(Nat) /\ Sent(k) \o <<>> = Sent(k) /\ Len(<<>>) = 0
    BY OneMore, ConcatEmptySeq, EmptySeq DEF Sent, TypeOK
<1> QED
    BY <1>1, <1>2, LoggerAssumption DEF KeyInv

(* An entry logged to a sound key joins its buffer, or takes all of it to  *)
(* the file.                                                               *)
LEMMA SoundLog ==
    ASSUME IInv, up, NEW k \in Sound, Log(k)
    PROVE  /\ KeyInv(k)'
           /\ \/ disk' = [disk EXCEPT ![k] = Sent(k)']
              \/ Len(Sent(k)') < Len(disk[k]) + BUFFER_SIZE /\ UNCHANGED disk
<1>1. KeyInv(k) /\ TypeOK /\ k \in Key /\ k \notin Bad
    BY DEF IInv, Sound
<1>2. PICK f \in IF files[k] = "absent" THEN Opened(k) ELSE {files[k]} :
        LET old == IF files[k] = "absent" /\ f = "open" THEN <<>> ELSE buffers[k]
            buf == Append(old, logged[k] + 1)
        IN  IF Full(buf)
            THEN \E w \in Written(k, f, buf) :
                    /\ files' = [files EXCEPT ![k] = w[1]]
                    /\ disk' = [disk EXCEPT ![k] = @ \o SubSeq(buf, 1, w[2])]
                    /\ buffers' = [buffers EXCEPT ![k] = Cleared(buf)]
            ELSE /\ files' = [files EXCEPT ![k] = f]
                 /\ buffers' = [buffers EXCEPT ![k] = buf]
                 /\ UNCHANGED disk
    BY DEF Log
<1> DEFINE buf == Append(buffers[k], logged[k] + 1)
<1>3. f = "open"
    BY <1>1 DEF KeyInv, Opened, IsOpen
<1>4. (IF files[k] = "absent" /\ f = "open" THEN <<>> ELSE buffers[k]) = buffers[k]
    BY <1>1 DEF KeyInv
<1>5. /\ buffers[k] \in Seq(Nat) /\ disk[k] \in Seq(Nat) /\ logged[k] \in Nat
      /\ logged[k] + 1 \in Nat /\ logged'[k] = logged[k] + 1
    BY <1>1 DEF Log, TypeOK
<1>6. buf \in Seq(Nat) /\ Len(buf) \in Nat /\ buf # <<>> /\ Len(disk[k]) \in Nat
    <2>1. buf \in Seq(Nat) /\ buf # <<>>
        BY <1>5, AppendProperties, SMTT(30)
    <2> HIDE DEF buf
    <2> QED
        BY <1>5, <2>1, LenProperties
<1>7. disk[k] \o buf = Sent(k)'
    <2>1. disk[k] \o buf = Append(Sent(k), logged[k] + 1)
        <3>1. disk[k] \o buf = Append(disk[k] \o buffers[k], logged[k] + 1)
            BY <1>5, Moved
        <3> QED
            BY <1>1, <3>1 DEF KeyInv
    <2> QED
        BY <1>5, <2>1, OneMore DEF Sent
<1>8. CASE Full(buf)
    <2>1. PICK w \in Written(k, f, buf) :
                    /\ files' = [files EXCEPT ![k] = w[1]]
                    /\ disk' = [disk EXCEPT ![k] = @ \o SubSeq(buf, 1, w[2])]
                    /\ buffers' = [buffers EXCEPT ![k] = Cleared(buf)]
        BY <1>2, <1>4, <1>8
    <2>2. w[1] = "open" /\ disk[k] \o SubSeq(buf, 1, w[2]) = Sent(k)'
        <3>1. w = <<"open", Len(buf)>>
            BY <1>1, <1>3, <1>6 DEF Written
        <3>2. SubSeq(buf, 1, Len(buf)) = buf
            BY <1>6, SubSeqFull
        <3> QED
            BY <1>7, <3>1, <3>2
    <2>3. files'[k] = "open" /\ buffers'[k] = <<>> /\ disk' = [disk EXCEPT ![k] = Sent(k)']
          /\ disk'[k] = Sent(k)'
        BY <1>1, <2>1, <2>2 DEF TypeOK, Cleared
    <2>4. Sent(k)' \o <<>> = Sent(k)' /\ Len(<<>>) = 0
        BY <1>5, <1>6, <1>7, ConcatProperties, ConcatEmptySeq, EmptySeq
    <2> QED
        BY <2>3, <2>4, LoggerAssumption DEF KeyInv
<1>9. CASE ~Full(buf)
    <2>1. /\ files' = [files EXCEPT ![k] = f]
          /\ buffers' = [buffers EXCEPT ![k] = buf]
          /\ UNCHANGED disk
        BY <1>2, <1>4, <1>9
    <2>2. files'[k] = "open" /\ buffers'[k] = buf /\ disk'[k] = disk[k]
        BY <1>1, <1>3, <2>1 DEF TypeOK
    <2>3. Len(buf) < BUFFER_SIZE
        BY <1>6, <1>9, LoggerAssumption DEF Full
    <2>4. Len(Sent(k)') = Len(disk[k]) + Len(buf)
        BY <1>5, <1>6, <1>7, ConcatProperties, ZenonT(60)
    <2>5. KeyInv(k)'
        BY <1>7, <2>2, <2>3 DEF KeyInv
    <2> HIDE DEF buf
    <2> QED
        BY <1>6, <2>1, <2>3, <2>4, <2>5, LoggerAssumption
<1> QED
    BY <1>8, <1>9

LEMMA Undisturbed ==
    ASSUME NEW k \in Key, KeyInv(k), files'[k] = files[k], buffers'[k] = buffers[k],
           disk'[k] = disk[k], logged'[k] = logged[k]
    PROVE  KeyInv(k)'
BY DEF KeyInv, Sent

LEMMA SoundInitialize ==
    ASSUME Reinitialize = FALSE, IInv, up, NEW comps \in Components, Initialize(comps),
           NEW k \in Sound
    PROVE  KeyInv(k)'
<1>0. KeyInv(k) /\ TypeOK /\ k \in Key /\ k \notin Bad
    BY DEF IInv, Sound
<1>1. PICK result \in [DOMAIN comps -> Stream] :
        LET failing == {i \in DOMAIN comps : ~IsOpen(result[i])}
            reached == {i \in DOMAIN comps : \A j \in failing : i <= j}
            at(q, S) == \E i \in S : comps[i] = q
        IN  /\ \A i \in DOMAIN comps : result[i] \in Opened(comps[i])
            /\ files' = [q \in Key |->
                   IF at(q, reached) THEN result[CHOOSE i \in reached : comps[i] = q]
                   ELSE files[q]]
            /\ buffers' = [q \in Key |->
                   IF at(q, reached \ failing) THEN <<>> ELSE buffers[q]]
    BY DEF Initialize
<1> DEFINE failing == {i \in DOMAIN comps : ~IsOpen(result[i])}
           reached == {i \in DOMAIN comps : \A j \in failing : i <= j}
<1>2. \A i \in DOMAIN comps : ~IsOpen(files[comps[i]])
    BY DEF Initialize
<1>3. CASE \E i \in reached : comps[i] = k
    <2>1. (CHOOSE i \in reached : comps[i] = k) \in reached
          /\ comps[CHOOSE i \in reached : comps[i] = k] = k
        BY <1>3
    <2>2. ~IsOpen(files[k]) /\ Opened(k) = {"open"}
        BY <1>0, <1>2, <2>1 DEF Opened
    <2>3. files'[k] = "open"
        BY <1>0, <1>1, <1>3, <2>1, <2>2
    <2>4. buffers[k] = <<>>
        BY <1>0, <2>2 DEF KeyInv, IsOpen
    <2>5. buffers'[k] = <<>> /\ disk'[k] = disk[k] /\ logged'[k] = logged[k]
        BY <1>0, <1>1, <2>4 DEF Initialize
    <2> QED
        BY <1>0, <2>3, <2>4, <2>5 DEF KeyInv, Sent
<1>4. CASE ~(\E i \in reached : comps[i] = k)
    <2>1. files'[k] = files[k] /\ buffers'[k] = buffers[k]
        BY <1>0, <1>1, <1>4
    <2> QED
        BY <1>0, <2>1, Undisturbed DEF Initialize
<1> QED
    BY <1>3, <1>4

LEMMA InvStep == Reinitialize = FALSE /\ IInv /\ [Next]_vars => IInv'
<1> SUFFICES ASSUME Reinitialize = FALSE, IInv, [Next]_vars, up', NEW k \in Sound
             PROVE  KeyInv(k)'
    BY TypeStep DEF IInv, Sound
<1>0. up /\ KeyInv(k) /\ TypeOK /\ k \in Key
    BY DEF IInv, Sound, Next, Initialize, Log, FlushAll, CloseAll, Exit, Over, vars
<1>1. ASSUME NEW comps \in Components, Initialize(comps) PROVE KeyInv(k)'
    BY <1>0, <1>1, SoundInitialize
<1>2. ASSUME NEW q \in Key, Log(q) PROVE KeyInv(k)'
    <2>1. CASE q = k
        BY <1>0, <1>2, <2>1, SoundLog
    <2>2. CASE q # k
        <3>1. files'[k] = files[k] /\ buffers'[k] = buffers[k]
              /\ disk'[k] = disk[k] /\ logged'[k] = logged[k]
            BY <1>0, <1>2, <2>2 DEF Log, TypeOK
        <3> QED
            BY <1>0, <3>1, Undisturbed
    <2> QED
        BY <2>1, <2>2
<1>3. CASE FlushAll
    <2>1. PICK w \in Writes : Store(w) /\ files' = [q \in Key |-> w[q][1]]
        BY <1>3 DEF FlushAll
    <2>2. w[k][1] = files[k] /\ disk'[k] = Sent(k) /\ buffers'[k] = <<>>
        BY <1>0, <2>1, SoundStored
    <2>3. files'[k] \in {"absent", "open"} /\ logged' = logged
        BY <1>0, <1>3, <2>1, <2>2 DEF FlushAll, KeyInv
    <2> QED
        BY <1>0, <2>2, <2>3, SavedInv
<1>4. CASE CloseAll
    <2>1. PICK w \in Writes : Store(w)
        BY <1>4 DEF CloseAll, CloseWritten
    <2>2. disk'[k] = Sent(k) /\ buffers'[k] = <<>>
        BY <1>0, <2>1, SoundStored
    <2>3. files'[k] \in {"absent", "open"} /\ logged' = logged
        BY <1>0, <1>4 DEF CloseAll
    <2> QED
        BY <1>0, <2>2, <2>3, SavedInv
<1>5. CASE Exit \/ Over
    BY <1>0, <1>5 DEF Exit, Over
<1>6. CASE UNCHANGED vars
    BY <1>0, <1>6, Undisturbed DEF vars
<1> QED
    BY <1>1, <1>2, <1>3, <1>4, <1>5, <1>6 DEF Next

(* The strengthened invariant of the sound keys (Logger.cpp:37-171).       *)
THEOREM Invariance == ASSUME Reinitialize = FALSE PROVE Spec => []IInv
<1>1. IInv /\ [Next]_vars => IInv'
    BY InvStep
<1> QED
    BY InitInv, <1>1, PTL DEF Spec

(* For any keys, buffer size and failing files of other keys, no entry of  *)
(* a sound key is lost, repeated or reordered while the program runs.      *)
THEOREM Complete == ASSUME Reinitialize = FALSE PROVE Spec => []NothingLost
<1>1. IInv => NothingLost
    BY DEF IInv, KeyInv, NothingLost
<1> QED
    BY Invariance, <1>1, PTL

(* flushAll and closeAll write all that was logged to the sound keys.      *)
THEOREM Flushed == ASSUME Reinitialize = FALSE PROVE Spec => FlushedIsWritten
<1>1. IInv /\ [Next]_vars =>
        [FlushAll \/ CloseAll => \A k \in Sound : disk'[k] = Sent(k)]_vars
    BY SoundStored DEF FlushAll, CloseAll, CloseWritten
<1> QED
    BY Invariance, <1>1, PTL DEF Spec, FlushedIsWritten

----------------------------------------------------------------------------
(* The contract. *)

Entries == [k \in Sound |-> Sent(k)]
Saved == [k \in Sound |-> disk[k]]

LEMMA InitContract == Init => Contract!Init
<1> SUFFICES ASSUME Init PROVE Contract!Init
    OBVIOUS
<1>0. [i \in 1..0 |-> i] = <<>>
    OBVIOUS
<1>1. \A k \in Sound : Sent(k) = <<>> /\ disk[k] = <<>>
    <2>1. \A k \in Sound : k \in Key /\ logged[k] = 0 /\ disk[k] = <<>>
        BY LoggerAssumption DEF Init, Sound
    <2> QED
        BY <1>0, <2>1 DEF Sent
<1> QED
    BY <1>1 DEF Init, Contract!Init

(* Logging to a key changes what is sent to it, and to no other. *)
LEMMA SentGrows ==
    ASSUME TypeOK, NEW q \in Key, Log(q)
    PROVE  /\ \A k \in Key \ {q} : Sent(k)' = Sent(k) /\ disk'[k] = disk[k]
           /\ Sent(q)' = Append(Sent(q), Len(Sent(q)) + 1)
           /\ Len(Sent(q)') = Len(Sent(q)) + 1
<1>1. \A k \in Key \ {q} : logged'[k] = logged[k] /\ disk'[k] = disk[k]
    BY DEF Log, TypeOK
<1>2. logged[q] \in Nat /\ logged'[q] = logged[q] + 1
    BY DEF Log, TypeOK
<1>3. Sent(q) = [i \in 1..logged[q] |-> i] /\ Sent(q)' = [i \in 1..(logged[q] + 1) |-> i]
    BY <1>2 DEF Sent
<1>4. Len(Sent(q)) = logged[q] /\ Append(Sent(q), logged[q] + 1) = Sent(q)'
    BY <1>2, <1>3, OneMore
<1>5. Len(Sent(q)') = logged[q] + 1
    BY <1>2, <1>3, OneMore
<1> QED
    BY <1>1, <1>4, <1>5 DEF Sent

LEMMA LogContracts ==
    ASSUME IInv, up, NEW q \in Key, Log(q)
    PROVE  (\E k \in Sound : Contract!Log(k)) \/ UNCHANGED <<up, Entries, Saved>>
<1>0. TypeOK /\ up' = up
    BY DEF IInv, Log
<1>1. CASE q \in Bad
    <2>1. \A k \in Sound : Sent(k)' = Sent(k) /\ disk'[k] = disk[k]
        BY <1>0, <1>1, SentGrows DEF Sound
    <2>2. Entries' = Entries /\ Saved' = Saved
        BY <2>1 DEF Entries, Saved
    <2> QED
        BY <1>0, <2>2
<1>2. CASE q \notin Bad
    <2>0. q \in Sound
        BY <1>2 DEF Sound
    <2>1. Entries' = [Entries EXCEPT ![q] = Append(@, Len(@) + 1)]
        BY <1>0, <2>0, SentGrows DEF Entries, Sound
    <2>2. Entries'[q] = Sent(q)' /\ Saved[q] = disk[q] /\ Saved \in [Sound -> Seq(Nat)]
        BY <1>0, <2>0 DEF Entries, Saved, Sound, TypeOK
    <2>3. \/ Saved' = [Saved EXCEPT ![q] = Entries'[q]]
          \/ Len(Entries'[q]) < Len(Saved[q]) + BUFFER_SIZE /\ Saved' = Saved
        <3>1. CASE disk' = [disk EXCEPT ![q] = Sent(q)']
            BY <1>0, <2>0, <2>2, <3>1 DEF Saved, Sound, TypeOK
        <3>2. CASE Len(Sent(q)') < Len(disk[q]) + BUFFER_SIZE /\ UNCHANGED disk
            BY <2>2, <3>2 DEF Saved
        <3> QED
            BY <2>0, <3>1, <3>2, SoundLog
    <2>4. Contract!Log(q)
        BY <1>0, <2>1, <2>3 DEF Contract!Log, Entries, Saved
    <2> QED
        BY <2>0, <2>4
<1> QED
    BY <1>1, <1>2

LEMMA StepContracts == Reinitialize = FALSE /\ IInv /\ [Next]_vars => [Contract!Next]_Contract!vars
<1> SUFFICES ASSUME Reinitialize = FALSE, IInv, [Next]_vars
             PROVE  [Contract!Next]_Contract!vars
    OBVIOUS
<1>0. TypeOK
    BY DEF IInv
<1>u. ASSUME up' = up, logged' = logged, disk' = disk PROVE UNCHANGED Contract!vars
    BY <1>u DEF Contract!vars, Sent
<1>s. ASSUME up, logged' = logged, \A k \in Sound : disk'[k] = Sent(k), up' \in BOOLEAN
      PROVE  Contract!SaveAll
    <2>1. \A k \in Sound : Sent(k)' = Sent(k)
        BY <1>s DEF Sent
    <2>2. [k \in Sound |-> disk'[k]] = [k \in Sound |-> Sent(k)]
        BY <1>s
    <2>3. [k \in Sound |-> Sent(k)'] = [k \in Sound |-> Sent(k)]
        BY <2>1
    <2> QED
        BY <1>s, <2>2, <2>3 DEF Contract!SaveAll
<1>1. ASSUME NEW comps \in Components, Initialize(comps) PROVE UNCHANGED Contract!vars
    BY <1>1, <1>u DEF Initialize
<1>2. ASSUME NEW q \in Key, Log(q) PROVE [Contract!Next]_Contract!vars
    <2>1. up
        BY <1>2 DEF Log
    <2> QED
        BY <1>2, <2>1, LogContracts DEF Contract!Next, Contract!vars, Entries, Saved
<1>3. CASE FlushAll \/ CloseAll
    <2>1. up /\ logged' = logged /\ up' \in BOOLEAN
        BY <1>0, <1>3 DEF FlushAll, CloseAll, TypeOK
    <2>2. \A k \in Sound : disk'[k] = Sent(k)
        BY <1>3, <2>1, SoundStored DEF FlushAll, CloseAll, CloseWritten
    <2> QED
        BY <1>s, <2>1, <2>2 DEF Contract!Next
<1>4. CASE Exit
    BY <1>4 DEF Exit, Contract!Die, Contract!Next, Sent
<1>5. CASE Over \/ UNCHANGED vars
    BY <1>5, <1>u DEF Over, vars
<1> QED
    BY <1>1, <1>2, <1>3, <1>4, <1>5 DEF Next

(* The logger keeps the contract of its sound keys: at any moment, even    *)
(* when the program dies, a file lacks fewer than BUFFER_SIZE entries.     *)
THEOREM Implements == ASSUME Reinitialize = FALSE PROVE Spec => ImplementsContract
<1>1. IInv /\ [Next]_vars => [Contract!Next]_Contract!vars
    BY StepContracts
<1> QED
    BY InitContract, <1>1, Invariance, PTL DEF Spec, ImplementsContract, Contract!Spec
=============================================================================
