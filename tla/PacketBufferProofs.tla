-------------------------- MODULE PacketBufferProofs --------------------------
(***************************************************************************)
(* What the operations of PacketBuffer compute: a number is read back from *)
(* its digits, a packet that fits holds its items one after the other, and *)
(* the header of every packet tells its size.                              *)
(***************************************************************************)
EXTENDS PacketBuffer, Recursion, SequenceTheorems

LEMMA FunctionIsSequence ==
  ASSUME NEW T, NEW n \in Nat, NEW f
  PROVE  f \in [1 .. n -> T] <=> f \in Seq(T) /\ Len(f) = n
<1>1. ASSUME f \in [1 .. n -> T] PROVE f \in Seq(T) /\ Len(f) = n
  <2>1. f \in Seq(T)
    BY <1>1, SeqDef
  <2>2. DOMAIN f = 1 .. n
    BY <1>1
  <2> QED
    BY <2>1, <2>2, LenProperties
<1>2. ASSUME f \in Seq(T), Len(f) = n PROVE f \in [1 .. n -> T]
  BY <1>2, LenProperties
<1> QED
  BY <1>1, <1>2

-----------------------------------------------------------------------------
(* Numbers *)

LEMMA DivMod ==
  ASSUME NEW x \in Nat
  PROVE  /\ x \div Base \in Nat /\ x % Base \in Byte
         /\ x = (x % Base) + Base * (x \div Base)
BY BaseAssumption DEF Byte

LEMMA DigitsRest ==
  ASSUME NEW v \in Nat, NEW n \in Nat
  PROVE  \E rest \in [0 .. n -> Nat] :
           /\ rest[0] = v
           /\ \A i \in 1 .. n : rest[i] = rest[i - 1] \div Base
           /\ Digits(v, n) = [i \in 1 .. n |-> rest[i - 1] % Base]
<1> DEFINE step == [i \in 1 .. n |-> [x \in Nat |-> x \div Base]]
           next(g, i) == IF i = 0 THEN v ELSE g[i - 1] \div Base
           Rec(g) == g = [i \in 0 .. n |-> next(g, i)]
<1>1. step \in Steps(n, Nat)
  <2>1. \A x \in Nat : x \div Base \in Nat
    BY BaseAssumption
  <2> QED
    BY <2>1 DEF Steps
<1>2. PICK f \in [0 .. n -> Nat] :
        f[0] = v /\ \A i \in 1 .. n : f[i] = step[i][f[i - 1]]
  <2> DEFINE all == Nat
  <2>1. v \in all /\ step \in Steps(n, all)
    BY <1>1
  <2> HIDE DEF step, all
  <2>2. \E f \in [0 .. n -> all] :
          f[0] = v /\ \A i \in 1 .. n : f[i] = step[i][f[i - 1]]
    BY <2>1, Iteration
  <2> QED
    BY <2>2 DEF all
<1>3. Rec(f)
  <2>1. ASSUME NEW i \in 0 .. n PROVE f[i] = next(f, i)
    <3>1. CASE i = 0
      BY <1>2, <3>1
    <3>2. CASE i # 0
      <4>1. i \in 1 .. n /\ i - 1 \in 0 .. n
        BY <3>2
      <4> QED
        BY <1>2, <3>2, <4>1
    <3> QED
      BY <3>1, <3>2
  <2> QED
    BY <2>1
<1>4. PICK g : Rec(g) /\ Digits(v, n) = [i \in 1 .. n |-> g[i - 1] % Base]
  <2> HIDE DEF step
  <2> QED
    BY <1>3, ZenonT(60) DEF Digits
<1>5. \A i \in 0 .. n : g[i] = next(g, i)
  BY <1>4
<1> DEFINE S == {m \in Nat : m <= n => g[m] \in Nat}
<1>6. Nat \subseteq S
  <2>1. 0 \in S
    BY <1>5
  <2>2. ASSUME NEW m \in S \cap Nat PROVE m + 1 \in S
    <3> SUFFICES ASSUME m + 1 <= n PROVE g[m + 1] \in Nat
      OBVIOUS
    <3>1. g[m] \in Nat
      BY <2>2
    <3>2. g[m + 1] = g[m] \div Base
      <4>1. m + 1 \in 0 .. n /\ m + 1 # 0 /\ (m + 1) - 1 = m
        OBVIOUS
      <4> QED
        BY <1>5, <4>1
    <3> QED
      BY <3>1, <3>2, DivMod
  <2> HIDE DEF S
  <2> QED
    BY <2>1, <2>2, SetInduction
<1>7. g \in [0 .. n -> Nat]
  <2>1. \A i \in 0 .. n : g[i] \in Nat
    BY <1>6
  <2> QED
    BY <1>4, <2>1
<1> HIDE DEF Rec
<1>8. g[0] = v /\ \A i \in 1 .. n : g[i] = g[i - 1] \div Base
  BY <1>5
<1> QED
  BY <1>4, <1>7, <1>8

LEMMA DigitsType ==
  ASSUME NEW v \in Nat, NEW n \in Nat
  PROVE  Digits(v, n) \in [1 .. n -> Byte]
<1>1. PICK rest \in [0 .. n -> Nat] :
        Digits(v, n) = [i \in 1 .. n |-> rest[i - 1] % Base]
  BY DigitsRest, ZenonT(60)
<1>2. ASSUME NEW i \in 1 .. n PROVE rest[i - 1] % Base \in Byte
  <2>1. rest[i - 1] \in Nat
    OBVIOUS
  <2> QED
    BY <2>1, BaseAssumption DEF Byte
<1> QED
  BY <1>1, <1>2

LEMMA NumberValue ==
  ASSUME NEW n \in Nat, NEW bytes \in [1 .. n -> Byte]
  PROVE  \E value \in [0 .. n -> Nat] :
           /\ value[0] = 0
           /\ \A i \in 1 .. n : value[i] = bytes[n + 1 - i] + Base * value[i - 1]
           /\ Number(bytes) = value[n]
<1> DEFINE step == [i \in 1 .. n |-> [x \in Nat |-> bytes[n + 1 - i] + Base * x]]
           next(g, i) == IF i = 0 THEN 0 ELSE bytes[n + 1 - i] + Base * g[i - 1]
           Rec(g) == g = [i \in 0 .. n |-> next(g, i)]
<1>0. Len(bytes) = n
  BY FunctionIsSequence
<1>a. ASSUME NEW i \in 1 .. n, NEW x \in Nat PROVE bytes[n + 1 - i] + Base * x \in Nat
  <2>1. bytes[n + 1 - i] \in Nat
    BY BaseAssumption DEF Byte
  <2> QED
    BY <2>1, BaseAssumption
<1>1. step \in Steps(n, Nat)
  BY <1>a DEF Steps
<1>2. PICK f \in [0 .. n -> Nat] :
        f[0] = 0 /\ \A i \in 1 .. n : f[i] = step[i][f[i - 1]]
  <2> DEFINE all == Nat
             zero == 0
  <2>1. zero \in all /\ step \in Steps(n, all)
    BY <1>1
  <2> HIDE DEF step, all, zero
  <2>2. \E f \in [0 .. n -> all] :
          f[0] = zero /\ \A i \in 1 .. n : f[i] = step[i][f[i - 1]]
    BY <2>1, Iteration, SMTT(60)
  <2> QED
    BY <2>2 DEF all, zero
<1>3. Rec(f)
  <2>1. ASSUME NEW i \in 0 .. n PROVE f[i] = next(f, i)
    <3>1. CASE i = 0
      BY <1>2, <3>1
    <3>2. CASE i # 0
      <4>1. i \in 1 .. n /\ i - 1 \in 0 .. n
        BY <3>2
      <4>2. f[i - 1] \in Nat /\ f[i] = step[i][f[i - 1]]
        BY <1>2, <4>1
      <4> QED
        BY <3>2, <4>1, <4>2
    <3> QED
      BY <3>1, <3>2
  <2> QED
    BY <2>1
<1>4. PICK g : Rec(g) /\ Number(bytes) = g[n]
  <2> HIDE DEF step
  <2> QED
    BY <1>0, <1>3, ZenonT(60) DEF Number
<1>5. \A i \in 0 .. n : g[i] = next(g, i)
  BY <1>4
<1> DEFINE S == {m \in Nat : m <= n => g[m] \in Nat}
<1>6. Nat \subseteq S
  <2>1. 0 \in S
    BY <1>5
  <2>2. ASSUME NEW m \in S \cap Nat PROVE m + 1 \in S
    <3> SUFFICES ASSUME m + 1 <= n PROVE g[m + 1] \in Nat
      OBVIOUS
    <3>1. g[m] \in Nat
      BY <2>2
    <3>2. m + 1 \in 1 .. n /\ m + 1 # 0 /\ (m + 1) - 1 = m
      OBVIOUS
    <3>3. g[m + 1] = bytes[n + 1 - (m + 1)] + Base * g[m]
      BY <1>5, <3>2
    <3> QED
      BY <1>a, <3>1, <3>2, <3>3
  <2> HIDE DEF S
  <2> QED
    BY <2>1, <2>2, SetInduction
<1>7. g \in [0 .. n -> Nat]
  <2>1. \A i \in 0 .. n : g[i] \in Nat
    BY <1>6
  <2>2. g = [i \in 0 .. n |-> g[i]]
    BY <1>4, ZenonT(60)
  <2> QED
    BY <2>1, <2>2, ZenonT(60)
<1> HIDE DEF Rec
<1>8. g[0] = 0 /\ \A i \in 1 .. n : g[i] = bytes[n + 1 - i] + Base * g[i - 1]
  BY <1>5
<1> QED
  BY <1>4, <1>7, <1>8

(* powers of Base, up to the first with more than n digits *)
IsPowers(power, n) == /\ power \in [0 .. n -> Nat] /\ power[0] = 1
                      /\ \A i \in 1 .. n : power[i] = Base * power[i - 1]

LEMMA QuotientBound ==
  ASSUME NEW v \in Nat, NEW p \in Nat, v < Base * p
  PROVE  v \div Base < p
<1> DEFINE q == v \div Base
<1>1. q \in Nat /\ v >= Base * q
  BY BaseAssumption
<1> HIDE DEF q
<1>2. ASSUME q >= p PROVE Base * q >= Base * p
  BY <1>1, <1>2, BaseAssumption
<1> QED
  BY <1>1, <1>2, BaseAssumption DEF q

(* What is written with enough digits is read back. *)
LEMMA NumberOfDigits ==
  ASSUME NEW v \in Nat, NEW n \in Nat, NEW power, IsPowers(power, n), v < power[n]
  PROVE  Number(Digits(v, n)) = v
<1>1. PICK rest \in [0 .. n -> Nat] :
        /\ rest[0] = v
        /\ \A i \in 1 .. n : rest[i] = rest[i - 1] \div Base
        /\ Digits(v, n) = [i \in 1 .. n |-> rest[i - 1] % Base]
  BY DigitsRest
<1>2. PICK value \in [0 .. n -> Nat] :
        /\ value[0] = 0
        /\ \A i \in 1 .. n : value[i] = Digits(v, n)[n + 1 - i] + Base * value[i - 1]
        /\ Number(Digits(v, n)) = value[n]
  BY DigitsType, NumberValue
<1>3. rest[n] = 0
  <2> DEFINE S == {m \in Nat : m <= n => rest[m] < power[n - m]}
  <2>1. 0 \in S
    BY <1>1
  <2>2. ASSUME NEW m \in S \cap Nat PROVE m + 1 \in S
    <3> SUFFICES ASSUME m + 1 <= n PROVE rest[m + 1] < power[n - (m + 1)]
      OBVIOUS
    <3>1. rest[m] \in Nat /\ rest[m] < power[n - m]
      BY <2>2
    <3>2. m + 1 \in 1 .. n /\ n - m \in 1 .. n /\ n - (m + 1) \in 0 .. n
          /\ (m + 1) - 1 = m /\ (n - m) - 1 = n - (m + 1)
      OBVIOUS
    <3>3. rest[m + 1] = rest[m] \div Base
      BY <1>1, <3>2
    <3>4. power[n - (m + 1)] \in Nat /\ power[n - m] = Base * power[n - (m + 1)]
      BY <3>2 DEF IsPowers
    <3> QED
      BY <3>1, <3>3, <3>4, QuotientBound
  <2>3. n \in S
    <3> HIDE DEF S
    <3> QED
      BY <2>1, <2>2, SetInduction
  <2>4. rest[n] \in Nat /\ rest[n] < power[n - n]
    BY <2>3
  <2> QED
    BY <2>4 DEF IsPowers
<1> DEFINE S == {m \in Nat : m <= n => value[m] = rest[n - m]}
<1>4. 0 \in S
  BY <1>2, <1>3
<1>5. ASSUME NEW m \in S \cap Nat PROVE m + 1 \in S
  <2> SUFFICES ASSUME m + 1 <= n PROVE value[m + 1] = rest[n - (m + 1)]
    OBVIOUS
  <2> DEFINE j == n - (m + 1)
  <2>1. m + 1 \in 1 .. n /\ j \in 0 .. n /\ j + 1 \in 1 .. n /\ n - m = j + 1
        /\ (m + 1) - 1 = m /\ (j + 1) - 1 = j /\ n + 1 - (m + 1) = j + 1
    OBVIOUS
  <2> HIDE DEF j
  <2>2. value[m] = rest[j + 1]
    BY <1>5, <2>1
  <2>3. value[m + 1] = Digits(v, n)[j + 1] + Base * value[m]
    BY <1>2, <2>1
  <2>4. Digits(v, n)[j + 1] = rest[j] % Base
    BY <1>1, <2>1
  <2>5. rest[j + 1] = rest[j] \div Base /\ rest[j] \in Nat
    BY <1>1, <2>1
  <2>6. rest[j] = (rest[j] % Base) + Base * (rest[j] \div Base)
    BY <2>5, DivMod
  <2> QED
    BY <2>2, <2>3, <2>4, <2>5, <2>6 DEF j
<1>6. n \in S
  <2> HIDE DEF S
  <2> QED
    BY <1>4, <1>5, SetInduction
<1> QED
  BY <1>1, <1>2, <1>6

(* The numbers of the packets have one, two, three or four bytes. *)
THEOREM NumberReadsBack ==
  ASSUME NEW v \in Nat
  PROVE  /\ v <= MaxU8 => Number(Digits(v, 1)) = v
         /\ v <= MaxU16 => Number(Digits(v, 2)) = v
         /\ v < DataLimit => Number(Digits(v, 3)) = v
         /\ v <= MaxU32 => Number(Digits(v, 4)) = v
<1> DEFINE power(n) == [i \in 0 .. n |-> CASE i = 0 -> 1 [] i = 1 -> Base [] i = 2 -> Base * Base
                                           [] i = 3 -> Base * Base * Base
                                           [] OTHER -> Base * Base * Base * Base]
<1>1. ASSUME NEW n \in 1 .. 4 PROVE IsPowers(power(n), n)
  <2>1. power(n) \in [0 .. n -> Nat] /\ power(n)[0] = 1
    BY BaseAssumption
  <2>2. ASSUME NEW i \in 1 .. n PROVE power(n)[i] = Base * power(n)[i - 1]
    <3>1. i = 1 \/ i = 2 \/ i = 3 \/ i = 4
      OBVIOUS
    <3> QED
      BY <3>1, BaseAssumption
  <2> QED
    BY <2>1, <2>2 DEF IsPowers
<1>2. power(1)[1] = Base /\ power(2)[2] = Base * Base /\ power(3)[3] = Base * Base * Base
      /\ power(4)[4] = Base * Base * Base * Base
  OBVIOUS
<1> HIDE DEF power
<1>3. ASSUME NEW n \in 1 .. 4, v < power(n)[n] PROVE Number(Digits(v, n)) = v
  BY <1>1, <1>3, NumberOfDigits
<1> QED
  BY <1>2, <1>3, BaseAssumption DEF MaxU8, MaxU16, MaxU32, DataLimit

-----------------------------------------------------------------------------
(* Buffers *)

Buffer(limit) ==
  [data : [1 .. limit -> Byte], limit : {limit}, size : {0}, index : 4 .. limit,
   err : BOOLEAN]

LEMMA Slice ==
  ASSUME NEW T, NEW m \in Nat, NEW array \in [1 .. m -> T],
         NEW skip \in Nat, NEW n \in Nat, skip + n <= m
  PROVE  /\ SubSeq(array, skip + 1, skip + n) \in [1 .. n -> T]
         /\ \A i \in 1 .. n : SubSeq(array, skip + 1, skip + n)[i] = array[skip + i]
<1> DEFINE from == skip + 1
           to   == skip + n
           part == SubSeq(array, from, to)
<1>1. from \in Int /\ to \in Int /\ to - from + 1 = n /\ \A i \in from .. to : array[i] \in T
  OBVIOUS
<1>2. \A i \in 1 .. n : from + i - 1 = skip + i
  OBVIOUS
<1>3. (from <= to) <=> (n # 0)
  OBVIOUS
<1> HIDE DEF from, to
<1>4. /\ part \in Seq(T) /\ Len(part) = IF from <= to THEN to - from + 1 ELSE 0
      /\ \A i \in 1 .. to - from + 1 : part[i] = array[from + i - 1]
  BY <1>1, SubSeqProperties
<1> HIDE DEF part
<1>5. Len(part) = n
  BY <1>1, <1>3, <1>4
<1>6. part \in [1 .. n -> T]
  BY <1>4, <1>5, FunctionIsSequence
<1>7. \A i \in 1 .. n : part[i] = array[skip + i]
  BY <1>1, <1>2, <1>4
<1> QED
  BY <1>6, <1>7 DEF part, from, to

(* the first n elements *)
LEMMA FrontPart ==
  ASSUME NEW T, NEW m \in Nat, NEW array \in [1 .. m -> T], NEW n \in 0 .. m
  PROVE  /\ SubSeq(array, 1, n) \in [1 .. n -> T]
         /\ \A i \in 1 .. n : SubSeq(array, 1, n)[i] = array[i]
<1> DEFINE zero == 0
<1>1. zero \in Nat /\ n \in Nat /\ zero + n <= m
  OBVIOUS
<1> HIDE DEF zero
<1>2. /\ SubSeq(array, zero + 1, zero + n) \in [1 .. n -> T]
      /\ \A i \in 1 .. n : SubSeq(array, zero + 1, zero + n)[i] = array[zero + i]
  BY <1>1, Slice
<1>3. zero + 1 = 1 /\ zero + n = n /\ \A i \in 1 .. n : zero + i = i
  BY DEF zero
<1> QED
  BY <1>2, <1>3

LEMMA PlacedType ==
  ASSUME NEW T, NEW m \in Nat, NEW array \in [1 .. m -> T], NEW n \in Int, NEW bytes \in Seq(T)
  PROVE  Placed(array, n, bytes) \in [1 .. m -> T]
<1>1. ASSUME NEW i \in 1 .. m, i - n \in 1 .. Len(bytes) PROVE bytes[i - n] \in T
  BY <1>1, ElementOfSeq
<1> QED
  BY <1>1 DEF Placed

LEMMA BufferFields ==
  ASSUME NEW limit \in Nat, NEW pb \in Buffer(limit)
  PROVE  /\ pb.data \in [1 .. limit -> Byte] /\ pb.limit = limit
         /\ pb.index \in 4 .. limit /\ pb.size = 0
<1>1. pb.data \in [1 .. limit -> Byte]
  BY DEF Buffer
<1>2. pb.limit = limit /\ pb.size = 0
  BY DEF Buffer
<1>3. pb.index \in 4 .. limit
  BY DEF Buffer
<1> QED
  BY <1>1, <1>2, <1>3

LEMMA WriteDataType ==
  ASSUME NEW limit \in Nat, NEW pb \in Buffer(limit), NEW bytes \in Seq(Byte)
  PROVE  WriteData(pb, bytes) \in Buffer(limit)
<1>1. Len(bytes) \in Nat
  BY LenProperties
<1>2. /\ pb.data \in [1 .. limit -> Byte] /\ pb.limit = limit /\ pb.index \in 4 .. limit
      /\ pb.size = 0
  BY BufferFields
<1>3. CASE Len(bytes) >= DataLimit
  BY <1>3 DEF WriteData
<1>4. CASE ~(Len(bytes) >= DataLimit) /\ pb.index + Len(bytes) > pb.limit
  <2>1. WriteData(pb, bytes) = [pb EXCEPT !.err = TRUE]
    BY <1>4 DEF WriteData
  <2> QED
    BY <1>2, <2>1 DEF Buffer
<1>5. CASE ~(Len(bytes) >= DataLimit) /\ ~(pb.index + Len(bytes) > pb.limit)
  <2>1. WriteData(pb, bytes) = [pb EXCEPT !.data = Placed(@, pb.index, bytes),
                                        !.index = @ + Len(bytes), !.err = FALSE]
    BY <1>5 DEF WriteData
  <2>2. Placed(pb.data, pb.index, bytes) \in [1 .. limit -> Byte]
    <3>1. pb.index \in Int
      BY <1>2
    <3> QED
      BY <1>2, <3>1, PlacedType
  <2>3. pb.index + Len(bytes) \in 4 .. limit
    BY <1>1, <1>2, <1>5
  <2> QED
    BY <1>2, <2>1, <2>2, <2>3 DEF Buffer
<1> QED
  BY <1>3, <1>4, <1>5

(* The bytes an item becomes. *)
Encoded(item) ==
  CASE item.kind = "number" -> Digits(item.value, item.size)
    [] item.kind = "data"   -> item.value
    [] item.kind = "string" -> Digits(Len(item.value), PrefixSize(item.size)) \o item.value

IsItem(item) ==
  \/ item.kind = "number" /\ item.value \in Nat /\ item.size \in Nat
  \/ item.kind = "data" /\ item.value \in Seq(Byte)
  \/ item.kind = "string" /\ item.value \in Seq(Byte) /\ item.size \in Nat

LEMMA EncodedType ==
  ASSUME NEW item, IsItem(item)
  PROVE  Encoded(item) \in Seq(Byte) /\ Len(Encoded(item)) \in Nat
<1>1. CASE item.kind = "number" /\ item.value \in Nat /\ item.size \in Nat
  <2>1. Encoded(item) = Digits(item.value, item.size)
    BY <1>1 DEF Encoded
  <2> QED
    BY <1>1, <2>1, DigitsType, FunctionIsSequence
<1>2. CASE item.kind = "data" /\ item.value \in Seq(Byte)
  <2>1. Encoded(item) = item.value
    BY <1>2 DEF Encoded
  <2> QED
    BY <1>2, <2>1, LenProperties
<1>3. CASE item.kind = "string" /\ item.value \in Seq(Byte) /\ item.size \in Nat
  <2> DEFINE prefix == Digits(Len(item.value), PrefixSize(item.size))
  <2>1. Encoded(item) = prefix \o item.value
    BY <1>3 DEF Encoded
  <2>2. Len(item.value) \in Nat /\ PrefixSize(item.size) \in Nat
    BY <1>3, LenProperties DEF PrefixSize
  <2>3. prefix \in Seq(Byte)
    BY <2>2, DigitsType, FunctionIsSequence
  <2> HIDE DEF prefix
  <2>4. prefix \o item.value \in Seq(Byte)
    BY <1>3, <2>3, ConcatProperties
  <2> QED
    BY <2>1, <2>4, LenProperties
<1> QED
  BY <1>1, <1>2, <1>3 DEF IsItem

LEMMA WriteItemIs ==
  ASSUME NEW pb, NEW item, IsItem(item)
  PROVE  \/ WriteItem(pb, item) = WriteData(pb, Encoded(item))
         \/ /\ item.kind = "string"
            /\ BadMaximum(item.size) \/ Len(item.value) > item.size - 1
            /\ WriteItem(pb, item) = [pb EXCEPT !.err = TRUE]
BY DEF WriteItem, Encoded, IsItem, WriteNumber, WriteString

LEMMA WriteItemType ==
  ASSUME NEW limit \in Nat, NEW pb \in Buffer(limit), NEW item, IsItem(item)
  PROVE  WriteItem(pb, item) \in Buffer(limit)
<1>1. [pb EXCEPT !.err = TRUE] \in Buffer(limit)
  BY DEF Buffer
<1>2. WriteData(pb, Encoded(item)) \in Buffer(limit)
  BY EncodedType, WriteDataType
<1> QED
  BY <1>1, <1>2, WriteItemIs

LEMMA BeginWriteType ==
  ASSUME NEW limit \in Nat, limit >= 4, NEW opcode \in Nat
  PROVE  BeginWrite(Create(limit), opcode) \in Buffer(limit)
<1>1. Unset(limit) \in [1 .. limit -> Byte]
  BY BaseAssumption DEF Unset, Byte
<1>2. Digits(opcode % Base, 4) \in Seq(Byte)
  <2>1. opcode % Base \in Nat
    BY BaseAssumption
  <2> QED
    BY <2>1, DigitsType, FunctionIsSequence
<1>3. Placed(Unset(limit), 0, Digits(opcode % Base, 4)) \in [1 .. limit -> Byte]
  BY <1>1, <1>2, PlacedType
<1>4. BeginWrite(Create(limit), opcode) =
        [data |-> Placed(Unset(limit), 0, Digits(opcode % Base, 4)), limit |-> limit,
         size |-> 0, index |-> 4, err |-> FALSE]
  <2> DEFINE any == Unset(limit)
             op == Digits(opcode % Base, 4)
             pb == Create(limit)
  <2>1. pb = [data |-> any, limit |-> limit, size |-> 0, index |-> 0, err |-> FALSE]
    BY DEF Create
  <2>2. BeginWrite(pb, opcode) = [pb EXCEPT !.data = Placed(any, 0, op), !.index = 4, !.err = FALSE]
    BY <2>1 DEF BeginWrite
  <2> HIDE DEF any, op, pb
  <2>3. BeginWrite(pb, opcode) =
          [data |-> Placed(any, 0, op), limit |-> limit, size |-> 0, index |-> 4, err |-> FALSE]
    BY <2>1, <2>2
  <2> QED
    BY <2>3 DEF any, op, pb
<1> QED
  BY <1>3, <1>4 DEF Buffer

(* The buffer after each call that composes a packet. *)
IsWritten(written, limit, opcode, items) ==
  /\ written \in [0 .. Len(items) -> Buffer(limit)]
  /\ written[0] = BeginWrite(Create(limit), opcode)
  /\ \A i \in 1 .. Len(items) : written[i] = WriteItem(written[i - 1], items[i])

LEMMA WrittenSteps ==
  ASSUME NEW limit \in Nat, limit >= 4, NEW opcode \in Nat, NEW items, Len(items) \in Nat,
         \A i \in 1 .. Len(items) : IsItem(items[i])
  PROVE  \E written :
           /\ IsWritten(written, limit, opcode, items)
           /\ Compose(limit, opcode, items) = Composed(Finalize(written[Len(items)]))
<1> DEFINE n == Len(items)
           all == Buffer(limit)
           base == BeginWrite(Create(limit), opcode)
           step == [i \in 1 .. n |-> [pb \in all |-> WriteItem(pb, items[i])]]
           next(g, i) == IF i = 0 THEN base ELSE WriteItem(g[i - 1], items[i])
           Rec(g) == g = [i \in 0 .. n |-> next(g, i)]
<1>1. step \in Steps(n, all) /\ base \in all /\ n \in Nat
  BY BeginWriteType, WriteItemType DEF Steps
<1>2. PICK f \in [0 .. n -> all] :
        f[0] = base /\ \A i \in 1 .. n : f[i] = step[i][f[i - 1]]
  <2> HIDE DEF n, all, base, step
  <2> QED
    BY <1>1, Iteration, SMTT(60)
<1>3. Rec(f)
  <2>1. ASSUME NEW i \in 0 .. n PROVE f[i] = next(f, i)
    <3> HIDE DEF all, base
    <3>1. CASE i = 0
      BY <1>2, <3>1
    <3>2. CASE i # 0
      <4>1. i \in 1 .. n /\ i - 1 \in 0 .. n
        BY <1>1, <3>2
      <4>2. f[i - 1] \in all /\ f[i] = step[i][f[i - 1]]
        BY <1>2, <4>1
      <4> QED
        BY <3>2, <4>1, <4>2
    <3> QED
      BY <3>1, <3>2
  <2> HIDE DEF base
  <2> QED
    BY <1>2, <2>1
<1>4. PICK g : Rec(g) /\ Compose(limit, opcode, items) = Composed(Finalize(g[n]))
  <2> HIDE DEF step
  <2> QED
    BY <1>3 DEF Compose
<1>5. \A i \in 0 .. n : g[i] = next(g, i)
  BY <1>4
<1> HIDE DEF Rec, step
<1> DEFINE S == {m \in Nat : m <= n => g[m] \in all}
<1>6. Nat \subseteq S
  <2> HIDE DEF all, base
  <2>1. 0 \in S
    BY <1>1, <1>5
  <2>2. ASSUME NEW m \in S \cap Nat PROVE m + 1 \in S
    <3> SUFFICES ASSUME m + 1 <= n PROVE g[m + 1] \in all
      OBVIOUS
    <3>1. g[m] \in all
      BY <1>1, <2>2
    <3>2. m + 1 \in 1 .. n /\ m + 1 \in 0 .. n /\ m + 1 # 0 /\ (m + 1) - 1 = m
      BY <1>1
    <3>3. g[m + 1] = WriteItem(g[m], items[m + 1])
      BY <1>5, <3>2
    <3> QED
      BY <3>1, <3>2, <3>3, WriteItemType DEF all
  <2> HIDE DEF S
  <2> QED
    BY <2>1, <2>2, SetInduction
<1>7. IsWritten(g, limit, opcode, items)
  <2> HIDE DEF base
  <2>1. DOMAIN g = 0 .. n /\ g = [i \in 0 .. n |-> g[i]]
    BY <1>4 DEF Rec
  <2>2. \A i \in 0 .. n : g[i] \in all
    BY <1>6
  <2>3. g[0] = base /\ \A i \in 1 .. n : g[i] = WriteItem(g[i - 1], items[i])
    BY <1>1, <1>5
  <2> QED
    BY <2>1, <2>2, <2>3 DEF IsWritten, base
<1> QED
  BY <1>4, <1>7

-----------------------------------------------------------------------------
(* Packets *)

(* What Compose returns when the last call left pb. *)
LEMMA FinalizeGives ==
  ASSUME NEW limit \in Nat, NEW pb \in Buffer(limit)
  PROVE  LET bytes  == Composed(Finalize(pb))
             header == Digits(pb.index - 4, 3)
         IN /\ bytes \in [1 .. pb.index -> Byte]
            /\ \A i \in 1 .. pb.index :
                 bytes[i] = IF i - 1 \in 1 .. 3 THEN header[i - 1] ELSE pb.data[i]
<1> DEFINE header == Digits(pb.index - 4, 3)
           data   == Placed(pb.data, 1, header)
<1>1. pb.data \in [1 .. limit -> Byte] /\ pb.index \in 4 .. limit
  BY BufferFields
<1>2. header \in Seq(Byte) /\ Len(header) = 3
  <2>1. pb.index - 4 \in Nat
    BY <1>1
  <2>2. header \in [1 .. 3 -> Byte]
    BY <2>1, DigitsType
  <2> HIDE DEF header
  <2> QED
    BY <2>2, FunctionIsSequence
<1>3. data \in [1 .. limit -> Byte]
  BY <1>1, <1>2, PlacedType
<1>4. \A i \in 1 .. pb.index : data[i] = IF i - 1 \in 1 .. 3 THEN header[i - 1] ELSE pb.data[i]
  <2> HIDE DEF header
  <2> QED
    BY <1>1, <1>2 DEF Placed
<1>5. Composed(Finalize(pb)) = SubSeq(data, 1, pb.index)
  <2>1. Finalize(pb) = [pb EXCEPT !.data = data]
    BY DEF Finalize
  <2> HIDE DEF data
  <2>2. pb \in [data : [1 .. limit -> Byte], limit : {limit}, size : {0}, index : 4 .. limit,
                err : BOOLEAN]
    BY DEF Buffer
  <2>3. Finalize(pb).data = data /\ Finalize(pb).index = pb.index
    BY <2>1, <2>2
  <2> QED
    BY <2>3 DEF Composed
<1> HIDE DEF header, data
<1>6. /\ SubSeq(data, 1, pb.index) \in [1 .. pb.index -> Byte]
      /\ \A i \in 1 .. pb.index : SubSeq(data, 1, pb.index)[i] = data[i]
  <2>1. pb.index \in 0 .. limit
    BY <1>1
  <2> QED
    BY <1>3, <2>1, FrontPart
<1> QED
  BY <1>4, <1>5, <1>6 DEF header

(* A packet is what the last call left, under its header. *)
LEMMA ComposeEnds ==
  ASSUME NEW limit \in Nat, limit >= 4, NEW opcode \in Nat, NEW items, Len(items) \in Nat,
         \A i \in 1 .. Len(items) : IsItem(items[i])
  PROVE  \E pb \in Buffer(limit) : Compose(limit, opcode, items) = Composed(Finalize(pb))
<1>1. PICK written :
        /\ IsWritten(written, limit, opcode, items)
        /\ Compose(limit, opcode, items) = Composed(Finalize(written[Len(items)]))
  BY WrittenSteps
<1> QED
  BY <1>1 DEF IsWritten

(* The header of a packet tells how many bytes follow, whatever became of   *)
(* the calls that wrote it.                                                *)
THEOREM HeaderIsSize ==
  ASSUME NEW limit \in Nat, limit >= 4, limit < DataLimit + 4, NEW opcode \in Nat,
         NEW items, Len(items) \in Nat, \A i \in 1 .. Len(items) : IsItem(items[i])
  PROVE  LET bytes == Compose(limit, opcode, items)
         IN Number(SubSeq(bytes, 2, 4)) = Len(bytes) - 4
<1>1. PICK pb \in Buffer(limit) : Compose(limit, opcode, items) = Composed(Finalize(pb))
  BY ComposeEnds
<1> DEFINE bytes  == Composed(Finalize(pb))
           header == Digits(pb.index - 4, 3)
<1>2. /\ bytes \in [1 .. pb.index -> Byte]
      /\ \A i \in 1 .. pb.index :
           bytes[i] = IF i - 1 \in 1 .. 3 THEN header[i - 1] ELSE pb.data[i]
  BY FinalizeGives
<1>3. pb.index \in 4 .. limit /\ pb.index - 4 \in Nat /\ pb.index - 4 < DataLimit
  BY BufferFields, BaseAssumption DEF DataLimit
<1>4. header \in [1 .. 3 -> Byte]
  BY <1>3, DigitsType
<1> HIDE DEF bytes
<1>5. SubSeq(bytes, 2, 4) = header
  <2> DEFINE one == 1
             three == 3
             m == pb.index
  <2>1. one \in Nat /\ three \in Nat /\ one + three <= m /\ m \in Nat
    BY <1>3
  <2>a. bytes \in [1 .. m -> Byte]
    BY <1>2
  <2> HIDE DEF one, three, m
  <2>b. /\ SubSeq(bytes, one + 1, one + three) \in [1 .. three -> Byte]
        /\ \A i \in 1 .. three : SubSeq(bytes, one + 1, one + three)[i] = bytes[one + i]
    BY <2>1, <2>a, Slice
  <2>2. /\ SubSeq(bytes, 2, 4) \in [1 .. 3 -> Byte]
        /\ \A i \in 1 .. 3 : SubSeq(bytes, 2, 4)[i] = bytes[1 + i]
    BY <2>b DEF one, three
  <2>3. ASSUME NEW i \in 1 .. 3 PROVE SubSeq(bytes, 2, 4)[i] = header[i]
    <3>1. SubSeq(bytes, 2, 4)[i] = bytes[1 + i]
      BY <2>2
    <3>2. 1 + i \in 1 .. pb.index /\ (1 + i) - 1 = i
      BY <1>3
    <3> HIDE DEF header
    <3> QED
      BY <1>2, <3>1, <3>2
  <2> HIDE DEF header
  <2> QED
    BY <1>4, <2>2, <2>3
<1>6. Number(header) = pb.index - 4
  BY <1>3, NumberReadsBack
<1>7. Len(bytes) = pb.index
  BY <1>2, <1>3, FunctionIsSequence
<1> QED
  BY <1>1, <1>5, <1>6, <1>7 DEF bytes

(* Items that fit into the packet are written whole.                       *)
FitsItem(item) ==
  /\ IsItem(item) /\ Len(Encoded(item)) < DataLimit
  /\ item.kind = "string" => ~BadMaximum(item.size) /\ Len(item.value) <= item.size - 1

(* ends[i] is where the i-th item ends. *)
IsEnds(ends, items) ==
  /\ ends \in [0 .. Len(items) -> Nat] /\ ends[0] = 4
  /\ \A i \in 1 .. Len(items) : ends[i] = ends[i - 1] + Len(Encoded(items[i]))

Holds(data, ends, items, m) ==
  \A i \in 1 .. m : \A j \in 1 .. Len(Encoded(items[i])) :
    data[ends[i - 1] + j] = Encoded(items[i])[j]

LEMMA EndsGrow ==
  ASSUME NEW items, Len(items) \in Nat, \A i \in 1 .. Len(items) : IsItem(items[i]),
         NEW ends, IsEnds(ends, items),
         NEW i \in 0 .. Len(items), NEW j \in 0 .. Len(items), i <= j
  PROVE  4 <= ends[i] /\ ends[i] <= ends[j]
<1> DEFINE n == Len(items)
<1>1. ASSUME NEW k \in 1 .. n PROVE ends[k - 1] \in Nat /\ ends[k] \in Nat /\ ends[k - 1] <= ends[k]
  <2>1. IsItem(items[k])
    OBVIOUS
  <2>2. Len(Encoded(items[k])) \in Nat
    BY <2>1, EncodedType
  <2>3. k - 1 \in 0 .. n /\ k \in 0 .. n
    OBVIOUS
  <2>4. ends[k - 1] \in Nat /\ ends[k] = ends[k - 1] + Len(Encoded(items[k]))
    BY <2>3 DEF IsEnds
  <2> QED
    BY <2>2, <2>4
<1>0. ends \in [0 .. n -> Nat]
  BY DEF IsEnds
<1>2. ASSUME NEW a \in 0 .. n, NEW d \in Nat, a + d <= n PROVE ends[a] <= ends[a + d]
  <2> DEFINE S == {m \in Nat : a + m <= n => ends[a] <= ends[a + m]}
  <2>1. 0 \in S
    <3>1. a + 0 = a /\ ends[a] \in Nat
      BY <1>0
    <3> QED
      BY <3>1
  <2>2. ASSUME NEW m \in S \cap Nat PROVE m + 1 \in S
    <3> SUFFICES ASSUME a + (m + 1) <= n PROVE ends[a] <= ends[a + (m + 1)]
      OBVIOUS
    <3>1. ends[a] <= ends[a + m] /\ ends[a] \in Nat
      BY <1>0, <2>2
    <3>2. a + (m + 1) \in 1 .. n /\ (a + (m + 1)) - 1 = a + m
      OBVIOUS
    <3>3. ends[a + m] \in Nat /\ ends[a + (m + 1)] \in Nat /\ ends[a + m] <= ends[a + (m + 1)]
      BY <1>1, <3>2
    <3> QED
      BY <3>1, <3>3
  <2>3. d \in S
    <3> HIDE DEF S
    <3> QED
      BY <2>1, <2>2, SetInduction
  <2> QED
    BY <1>2, <2>3
<1>3. ends[0] <= ends[i]
  <2>1. 0 \in 0 .. n /\ i \in Nat /\ 0 + i <= n /\ 0 + i = i
    OBVIOUS
  <2> HIDE DEF n
  <2> QED
    BY <1>2, <2>1
<1>4. ends[i] <= ends[j]
  <2>1. j - i \in Nat /\ i + (j - i) <= n /\ i + (j - i) = j
    OBVIOUS
  <2> HIDE DEF n
  <2> QED
    BY <1>2, <2>1 DEF n
<1> QED
  BY <1>3, <1>4 DEF IsEnds

LEMMA WriteFitting ==
  ASSUME NEW limit \in Nat, NEW pb \in Buffer(limit), NEW item, FitsItem(item),
         pb.index + Len(Encoded(item)) <= limit
  PROVE  /\ WriteItem(pb, item).index = pb.index + Len(Encoded(item))
         /\ WriteItem(pb, item).data = Placed(pb.data, pb.index, Encoded(item))
<1> DEFINE bytes == Encoded(item)
<1>1. bytes \in Seq(Byte) /\ Len(bytes) \in Nat
  BY EncodedType DEF FitsItem
<1>2. WriteItem(pb, item) = WriteData(pb, bytes)
  <2>1. ASSUME item.kind = "string", item.value \in Seq(Byte), item.size \in Nat
        PROVE  ~(BadMaximum(item.size) \/ Len(item.value) > item.size - 1)
    <3>1. Len(item.value) \in Nat /\ Len(item.value) <= item.size - 1 /\ ~BadMaximum(item.size)
      BY <2>1, LenProperties DEF FitsItem
    <3> QED
      BY <2>1, <3>1
  <2> QED
    BY <2>1, WriteItemIs DEF FitsItem, IsItem
<1>3. pb.limit = limit /\ pb.index \in 4 .. limit
  BY BufferFields
<1>4. ~(Len(bytes) >= DataLimit) /\ ~(pb.index + Len(bytes) > pb.limit)
  BY <1>1, <1>3, BaseAssumption DEF FitsItem, DataLimit
<1> HIDE DEF bytes
<1>5. WriteData(pb, bytes) = [pb EXCEPT !.data = Placed(@, pb.index, bytes),
                                        !.index = @ + Len(bytes), !.err = FALSE]
  BY <1>4 DEF WriteData
<1>6. pb \in [data : [1 .. limit -> Byte], limit : {limit}, size : {0}, index : 4 .. limit,
              err : BOOLEAN]
  BY DEF Buffer
<1>7. /\ WriteData(pb, bytes).index = pb.index + Len(bytes)
      /\ WriteData(pb, bytes).data = Placed(pb.data, pb.index, bytes)
  BY <1>5, <1>6
<1> QED
  BY <1>2, <1>7 DEF bytes

(* A packet whose items fit holds them one after the other. *)
THEOREM ComposeHolds ==
  ASSUME NEW limit \in Nat, limit >= 4, NEW opcode \in Nat, NEW items, Len(items) \in Nat,
         \A i \in 1 .. Len(items) : FitsItem(items[i]),
         NEW ends, IsEnds(ends, items), ends[Len(items)] <= limit
  PROVE  LET bytes == Compose(limit, opcode, items)
         IN /\ bytes \in [1 .. ends[Len(items)] -> Byte]
            /\ Holds(bytes, ends, items, Len(items))
<1> DEFINE n == Len(items)
<1>1. \A i \in 1 .. n : IsItem(items[i]) /\ Encoded(items[i]) \in Seq(Byte)
                       /\ Len(Encoded(items[i])) \in Nat
  <2>1. ASSUME NEW i \in 1 .. n PROVE IsItem(items[i])
    BY DEF FitsItem
  <2> QED
    BY <2>1, EncodedType
<1>2. PICK written :
        /\ IsWritten(written, limit, opcode, items)
        /\ Compose(limit, opcode, items) = Composed(Finalize(written[n]))
  BY <1>1, WrittenSteps
<1>3. ends \in [0 .. n -> Nat] /\ ends[0] = 4
      /\ \A i \in 1 .. n : ends[i] = ends[i - 1] + Len(Encoded(items[i]))
  BY DEF IsEnds
<1>4. \A i, j \in 0 .. n : i <= j => 4 <= ends[i] /\ ends[i] <= ends[j]
  BY <1>1, EndsGrow
<1>5. \A i \in 0 .. n : written[i] \in Buffer(limit)
  BY <1>2 DEF IsWritten
<1> DEFINE S == {m \in Nat : m <= n => /\ written[m].index = ends[m]
                                       /\ Holds(written[m].data, ends, items, m)}
<1>6. 0 \in S
  <2>1. written[0].index = 4
    <3>1. written[0] = BeginWrite(Create(limit), opcode)
      BY <1>2 DEF IsWritten
    <3> QED
      BY <3>1 DEF BeginWrite, Create
  <2>2. Holds(written[0].data, ends, items, 0)
    BY DEF Holds
  <2> QED
    BY <1>3, <2>1, <2>2
<1>7. ASSUME NEW m \in S \cap Nat PROVE m + 1 \in S
  <2> SUFFICES ASSUME m + 1 <= n
               PROVE  /\ written[m + 1].index = ends[m + 1]
                      /\ Holds(written[m + 1].data, ends, items, m + 1)
    OBVIOUS
  <2> DEFINE pb    == written[m]
             bytes == Encoded(items[m + 1])
  <2>1. m \in 0 .. n /\ m + 1 \in 1 .. n /\ (m + 1) - 1 = m /\ m + 1 \in 0 .. n
    OBVIOUS
  <2>2. pb \in Buffer(limit) /\ pb.index = ends[m] /\ Holds(pb.data, ends, items, m)
    BY <1>5, <1>7, <2>1
  <2>3. written[m + 1] = WriteItem(pb, items[m + 1])
    BY <1>2, <2>1 DEF IsWritten
  <2>4. bytes \in Seq(Byte) /\ Len(bytes) \in Nat
    BY <1>1, <2>1
  <2>5. ends[m + 1] = ends[m] + Len(bytes) /\ ends[m + 1] <= limit /\ ends[m] \in Nat
    <3>1. ends[m + 1] = ends[m] + Len(bytes) /\ ends[m] \in Nat
      BY <1>3, <2>1
    <3>2. n \in 0 .. n /\ m + 1 <= n
      OBVIOUS
    <3>3. ends[m + 1] <= ends[n]
      BY <1>4, <2>1, <3>2
    <3>4. ends[n] \in Nat /\ ends[m + 1] \in Nat
      BY <1>3, <2>1, <3>2
    <3> QED
      BY <3>1, <3>3, <3>4
  <2>6. /\ written[m + 1].index = pb.index + Len(bytes)
        /\ written[m + 1].data = Placed(pb.data, pb.index, bytes)
    <3>1. FitsItem(items[m + 1])
      BY <2>1
    <3> HIDE DEF pb
    <3> QED
      BY <2>2, <2>3, <2>5, <3>1, WriteFitting
  <2>7. pb.data \in [1 .. limit -> Byte]
    BY <2>2, BufferFields
  <2>8. ASSUME NEW i \in 1 .. m + 1, NEW j \in 1 .. Len(Encoded(items[i]))
        PROVE  written[m + 1].data[ends[i - 1] + j] = Encoded(items[i])[j]
    <3> DEFINE old == Len(Encoded(items[i]))
    <3>1. i \in 1 .. n /\ i - 1 \in 0 .. n /\ i \in 0 .. n
      BY <2>1
    <3>2. old \in Nat /\ ends[i] = ends[i - 1] + old /\ ends[i] \in Nat /\ ends[i - 1] \in Nat
          /\ ends[i - 1] >= 4
      <4>1. i - 1 <= i
        BY <3>1
      <4>2. ends[i - 1] >= 4
        BY <1>4, <3>1, <4>1
      <4> QED
        BY <1>1, <1>3, <3>1, <4>2
    <3>3. CASE i = m + 1
      <4>1. ends[i - 1] = ends[m] /\ Encoded(items[i]) = bytes /\ j \in 1 .. Len(bytes)
        BY <2>1, <3>3
      <4> HIDE DEF pb, bytes
      <4>2. ends[m] + j \in 1 .. limit /\ (ends[m] + j) - ends[m] = j
        BY <2>4, <2>5, <4>1, SMTT(60)
      <4>3. Placed(pb.data, ends[m], bytes)[ends[m] + j] = bytes[j]
        BY <2>7, <4>1, <4>2 DEF Placed
      <4> QED
        BY <2>2, <2>6, <4>1, <4>3
    <3>4. CASE i # m + 1
      <4>1. i \in 1 .. m /\ i <= m
        BY <3>4
      <4>2. ends[i] <= ends[m]
        BY <1>4, <2>1, <3>1, <4>1
      <4>3. j \in Nat /\ 1 <= j /\ j <= old
        BY <3>2
      <4> HIDE DEF old, pb, bytes
      <4>4. ends[i - 1] + j \in 1 .. limit /\ ~((ends[i - 1] + j) - ends[m] \in 1 .. Len(bytes))
        <5> DEFINE x == ends[i - 1]
                   y == ends[m]
                   new == Len(bytes)
        <5>1. x \in Nat /\ y \in Nat /\ new \in Nat /\ x >= 4 /\ x + old <= y /\ y + new <= limit
              /\ old \in Nat
          BY <2>4, <2>5, <3>2, <4>2
        <5> HIDE DEF x, y, new
        <5>2. x + j \in 1 .. limit /\ ~((x + j) - y \in 1 .. new)
          BY <4>3, <5>1, SMTT(60)
        <5> QED
          BY <5>2 DEF x, y, new
      <4>5. Placed(pb.data, ends[m], bytes)[ends[i - 1] + j] = pb.data[ends[i - 1] + j]
        BY <2>7, <4>4 DEF Placed
      <4>6. pb.data[ends[i - 1] + j] = Encoded(items[i])[j]
        BY <2>2, <4>1 DEF Holds
      <4> QED
        BY <2>2, <2>6, <4>5, <4>6
    <3> QED
      BY <3>3, <3>4
  <2> HIDE DEF pb, bytes
  <2> QED
    BY <2>2, <2>5, <2>6, <2>8 DEF Holds
<1>8. written[n].index = ends[n] /\ Holds(written[n].data, ends, items, n)
  <2>1. n \in S
    <3> HIDE DEF S, n
    <3>1. n \in Nat
      BY DEF n
    <3> QED
      BY <1>6, <1>7, <3>1, SetInduction
  <2> QED
    BY <2>1
<1> DEFINE pb     == written[n]
           bytes  == Composed(Finalize(pb))
           header == Digits(pb.index - 4, 3)
<1>9. /\ bytes \in [1 .. ends[n] -> Byte]
      /\ \A i \in 1 .. ends[n] :
           bytes[i] = IF i - 1 \in 1 .. 3 THEN header[i - 1] ELSE pb.data[i]
  <2>1. pb \in Buffer(limit) /\ pb.index = ends[n]
    BY <1>5, <1>8
  <2> HIDE DEF pb
  <2>2. /\ bytes \in [1 .. pb.index -> Byte]
        /\ \A i \in 1 .. pb.index :
             bytes[i] = IF i - 1 \in 1 .. 3 THEN header[i - 1] ELSE pb.data[i]
    BY <2>1, FinalizeGives
  <2> HIDE DEF bytes, header
  <2> QED
    BY <2>1, <2>2
<1>10. ASSUME NEW i \in 1 .. n, NEW j \in 1 .. Len(Encoded(items[i]))
       PROVE  bytes[ends[i - 1] + j] = Encoded(items[i])[j]
  <2> DEFINE p == ends[i - 1] + j
             size == Len(Encoded(items[i]))
  <2>1. i - 1 \in 0 .. n /\ i \in 0 .. n /\ n \in 0 .. n /\ i - 1 <= i /\ i <= n
    OBVIOUS
  <2>2. ends[i - 1] \in Nat /\ ends[i - 1] >= 4 /\ ends[i] = ends[i - 1] + size
        /\ ends[i] \in Nat /\ ends[n] \in Nat /\ ends[i] <= ends[n] /\ size \in Nat
    BY <1>1, <1>3, <1>4, <2>1
  <2>3. j \in Nat /\ 1 <= j /\ j <= size
    BY <2>2
  <2>4. p \in 1 .. ends[n] /\ ~(p - 1 \in 1 .. 3)
    <3> HIDE DEF size
    <3> DEFINE start == ends[i - 1]
               end   == ends[i]
               last  == ends[n]
    <3>1. /\ start \in Nat /\ start >= 4 /\ end = start + size /\ end \in Nat
          /\ last \in Nat /\ end <= last /\ p = start + j
      BY <2>2
    <3> HIDE DEF start, end, last, p
    <3>2. p \in 1 .. last /\ ~(p - 1 \in 1 .. 3)
      BY <2>2, <2>3, <3>1
    <3> QED
      BY <3>2 DEF last
  <2>5. pb.data[p] = Encoded(items[i])[j]
    <3> HIDE DEF pb
    <3> QED
      BY <1>8 DEF Holds, pb
  <2> HIDE DEF p, pb, bytes, header
  <2>6. bytes[p] = pb.data[p]
    BY <1>9, <2>4
  <2> QED
    BY <2>5, <2>6 DEF p
<1> HIDE DEF bytes
<1>11. Holds(bytes, ends, items, n)
  BY <1>10 DEF Holds
<1> QED
  BY <1>2, <1>9, <1>11 DEF bytes

(* Every packet has ends. *)
LEMMA EndsExist ==
  ASSUME NEW items, Len(items) \in Nat, \A i \in 1 .. Len(items) : IsItem(items[i])
  PROVE  \E ends : IsEnds(ends, items)
<1> DEFINE n == Len(items)
           all == Nat
           base == 4
           step == [i \in 1 .. n |-> [x \in all |-> x + Len(Encoded(items[i]))]]
<1>1. step \in Steps(n, all) /\ base \in all /\ n \in Nat
  <2>1. \A i \in 1 .. n : Len(Encoded(items[i])) \in Nat
    BY EncodedType
  <2> QED
    BY <2>1 DEF Steps
<1>2. PICK f \in [0 .. n -> all] :
        f[0] = base /\ \A i \in 1 .. n : f[i] = step[i][f[i - 1]]
  <2> HIDE DEF n, all, base, step
  <2> QED
    BY <1>1, Iteration
<1>3. ASSUME NEW i \in 1 .. n PROVE f[i] = f[i - 1] + Len(Encoded(items[i]))
  <2>0. i - 1 \in 0 .. n
    BY <1>1
  <2>1. f[i] = step[i][f[i - 1]] /\ f[i - 1] \in all
    BY <1>2, <2>0
  <2> HIDE DEF all
  <2> QED
    BY <2>1
<1> QED
  BY <1>2, <1>3 DEF IsEnds

-----------------------------------------------------------------------------
(* Reading a packet of size bytes *)

Reader(data, size) ==
  [data : {data}, limit : {size}, size : {size}, index : 4 .. size, err : BOOLEAN]

LEMMA ReaderFields ==
  ASSUME NEW data, NEW size, NEW pb \in Reader(data, size)
  PROVE  /\ pb.data = data /\ pb.size = size
         /\ pb.index \in 4 .. size /\ pb.err \in BOOLEAN
<1>1. pb.data = data /\ pb.size = size
  BY DEF Reader
<1>2. pb.index \in 4 .. size
  BY DEF Reader
<1>3. pb.err \in BOOLEAN
  BY DEF Reader
<1> QED
  BY <1>1, <1>2, <1>3

LEMMA AdvanceGives ==
  ASSUME NEW data, NEW size \in Nat, NEW pb \in Reader(data, size), NEW n \in Nat
  PROVE  /\ Advance(pb, n) \in Reader(data, size)
         /\ Fits(pb, n) <=> pb.index + n <= size
         /\ Fits(pb, n) => Advance(pb, n).index = pb.index + n /\ Advance(pb, n).err = FALSE
         /\ ~Fits(pb, n) => Advance(pb, n).index = size /\ Advance(pb, n).err = TRUE
<1> DEFINE after == Advance(pb, n)
<1>1. pb.size = size /\ pb.index \in 4 .. size
  BY ReaderFields
<1>2. pb \in [data : {data}, limit : {size}, size : {size}, index : 4 .. size, err : BOOLEAN]
  BY DEF Reader
<1>3. Fits(pb, n) <=> pb.index + n <= size
  BY <1>1 DEF Fits
<1>4. CASE Fits(pb, n)
  <2>1. after = [pb EXCEPT !.index = @ + n, !.err = FALSE]
    BY <1>4 DEF Advance
  <2>2. pb.index + n \in 4 .. size
    BY <1>1, <1>3, <1>4
  <2> HIDE DEF after
  <2>3. after.index = pb.index + n /\ after.err = FALSE
    BY <1>2, <2>1
  <2>4. after \in [data : {data}, limit : {size}, size : {size}, index : 4 .. size, err : BOOLEAN]
    BY <1>2, <2>1, <2>2
  <2> QED
    BY <1>3, <1>4, <2>3, <2>4 DEF Reader, after
<1>5. CASE ~Fits(pb, n)
  <2>1. after = [pb EXCEPT !.index = pb.size, !.err = TRUE]
    BY <1>5 DEF Advance
  <2>2. size \in 4 .. size
    BY <1>1
  <2> HIDE DEF after
  <2>3. after.index = size /\ after.err = TRUE
    BY <1>1, <1>2, <2>1
  <2>4. after \in [data : {data}, limit : {size}, size : {size}, index : 4 .. size, err : BOOLEAN]
    BY <1>1, <1>2, <2>1, <2>2
  <2> QED
    BY <1>3, <1>5, <2>3, <2>4 DEF Reader, after
<1> QED
  BY <1>4, <1>5

(* What a successful read of n bytes takes from the packet. *)
LEMMA TakenIs ==
  ASSUME NEW size \in Nat, NEW data \in [1 .. size -> Byte], NEW pb \in Reader(data, size),
         NEW n \in Nat, NEW bytes \in [1 .. n -> Byte], Fits(pb, n),
         \A j \in 1 .. n : data[pb.index + j] = bytes[j]
  PROVE  SubSeq(pb.data, pb.index + 1, pb.index + n) = bytes
<1> DEFINE skip == pb.index
<1>1. pb.data = data /\ skip \in Nat /\ skip + n <= size
  BY ReaderFields DEF Fits
<1> HIDE DEF skip
<1>2. /\ SubSeq(data, skip + 1, skip + n) \in [1 .. n -> Byte]
      /\ \A i \in 1 .. n : SubSeq(data, skip + 1, skip + n)[i] = data[skip + i]
  BY <1>1, Slice
<1> DEFINE part == SubSeq(data, skip + 1, skip + n)
<1>3. \A i \in 1 .. n : part[i] = bytes[i]
  BY <1>2 DEF skip
<1>4. part \in [1 .. n -> Byte]
  BY <1>2
<1> HIDE DEF part
<1>5. part = bytes
  BY <1>3, <1>4
<1> QED
  BY <1>1, <1>5 DEF part, skip

LEMMA ReadNumberGets ==
  ASSUME NEW size \in Nat, NEW data \in [1 .. size -> Byte], NEW pb \in Reader(data, size),
         NEW n \in Nat, NEW bytes \in [1 .. n -> Byte],
         \A j \in 1 .. n : pb.index + j <= size => data[pb.index + j] = bytes[j]
  PROVE  /\ ReadNumber(pb, n).pb = Advance(pb, n)
         /\ ReadNumber(pb, n).got = IF Fits(pb, n) THEN Number(bytes) ELSE 0
<1>1. ASSUME Fits(pb, n) PROVE SubSeq(pb.data, pb.index + 1, pb.index + n) = bytes
  <2>1. \A j \in 1 .. n : pb.index + j <= size
    BY <1>1, ReaderFields DEF Fits
  <2> QED
    BY <1>1, <2>1, TakenIs
<1> QED
  BY <1>1 DEF ReadNumber

LEMMA ReadDataGets ==
  ASSUME NEW size \in Nat, NEW data \in [1 .. size -> Byte], NEW pb \in Reader(data, size),
         NEW n \in Nat, n < DataLimit, NEW bytes \in [1 .. n -> Byte],
         \A j \in 1 .. n : pb.index + j <= size => data[pb.index + j] = bytes[j]
  PROVE  /\ ReadData(pb, n).pb = Advance(pb, n)
         /\ ReadData(pb, n).got = IF Fits(pb, n) THEN bytes ELSE <<>>
<1>1. ASSUME Fits(pb, n) PROVE SubSeq(pb.data, pb.index + 1, pb.index + n) = bytes
  <2>1. \A j \in 1 .. n : pb.index + j <= size
    BY <1>1, ReaderFields DEF Fits
  <2> QED
    BY <1>1, <2>1, TakenIs
<1>2. ~(n >= DataLimit)
  BY BaseAssumption DEF DataLimit
<1> QED
  BY <1>1, <1>2 DEF ReadData

(* A text is read when all of it arrived and it is two shorter than its    *)
(* maximum; otherwise at most its length is.                               *)
THEOREM ReadStringGets ==
  ASSUME NEW size \in Nat, NEW data \in [1 .. size -> Byte], NEW pb \in Reader(data, size),
         NEW max \in 1 .. MaxU16, NEW text \in Seq(Byte), Len(text) <= max - 1,
         LET bytes == Encoded(Text(text, max))
         IN \A j \in 1 .. Len(bytes) : pb.index + j <= size => data[pb.index + j] = bytes[j]
  PROVE  LET after == ReadString(pb, max).pb
             end   == pb.index + Len(Encoded(Text(text, max)))
         IN /\ after \in Reader(data, size)
            /\ after.err = FALSE => after.index = end /\ end <= size /\ Len(text) < max - 1
            /\ end <= size /\ Len(text) < max - 1 => after.err = FALSE
            /\ end <= size => after.index <= end
<1> DEFINE p == PrefixSize(max)
           digits == Digits(Len(text), p)
           bytes == Encoded(Text(text, max))
           length == ReadNumber(pb, p)
           after == ReadString(pb, max).pb
           end == pb.index + Len(bytes)
<1>1. Len(text) \in Nat /\ p \in {1, 2} /\ text \in [1 .. Len(text) -> Byte]
  BY LenProperties DEF PrefixSize
<1>2. digits \in [1 .. p -> Byte] /\ digits \in Seq(Byte) /\ Len(digits) = p
  <2>1. p \in Nat
    BY <1>1
  <2> HIDE DEF p
  <2>2. digits \in [1 .. p -> Byte]
    BY <1>1, <2>1, DigitsType
  <2> HIDE DEF digits
  <2> QED
    BY <2>1, <2>2, FunctionIsSequence
<1>3. bytes = digits \o text
  BY DEF Encoded, Text
<1>4. /\ Len(bytes) = p + Len(text)
      /\ \A j \in 1 .. p + Len(text) : bytes[j] = IF j <= p THEN digits[j] ELSE text[j - p]
  <2> HIDE DEF digits, bytes, p
  <2> QED
    BY <1>2, <1>3, ConcatProperties
<1>5. pb.index \in 4 .. size /\ pb.index \in Nat
  BY ReaderFields
<1>6. Number(digits) = Len(text)
  <2>1. max \in Nat /\ Len(text) <= MaxU16 /\ (max - 1 <= MaxU8 => Len(text) <= MaxU8)
    BY <1>1, BaseAssumption DEF MaxU16, MaxU8
  <2>2. CASE max - 1 <= MaxU8
    <3>1. p = 1
      BY <2>2 DEF PrefixSize
    <3> QED
      BY <1>1, <2>1, <2>2, <3>1, NumberReadsBack
  <2>3. CASE ~(max - 1 <= MaxU8)
    <3>1. p = 2
      BY <2>3 DEF PrefixSize
    <3> QED
      BY <1>1, <2>1, <3>1, NumberReadsBack
  <2> QED
    BY <2>2, <2>3
<1>7. /\ length.pb = Advance(pb, p)
      /\ length.got = IF Fits(pb, p) THEN Len(text) ELSE 0
  <2>1. \A j \in 1 .. p : pb.index + j <= size => data[pb.index + j] = digits[j]
    <3>1. \A j \in 1 .. p : j \in 1 .. Len(bytes) /\ bytes[j] = digits[j]
      <4> HIDE DEF p, digits, bytes
      <4> QED
        BY <1>1, <1>4
    <3> QED
      BY <3>1
  <2>2. p \in Nat
    BY <1>1
  <2> HIDE DEF p, digits
  <2>3. /\ length.pb = Advance(pb, p)
        /\ length.got = IF Fits(pb, p) THEN Number(digits) ELSE 0
    BY <1>2, <2>1, <2>2, ReadNumberGets
  <2> QED
    BY <1>6, <2>3
<1>8. /\ length.pb \in Reader(data, size)
      /\ Fits(pb, p) <=> pb.index + p <= size
      /\ Fits(pb, p) => length.pb.index = pb.index + p /\ length.pb.err = FALSE
      /\ ~Fits(pb, p) => length.pb.index = size /\ length.pb.err = TRUE
  <2>1. p \in Nat
    BY <1>1
  <2> HIDE DEF p, length
  <2>2. /\ Advance(pb, p) \in Reader(data, size)
        /\ Fits(pb, p) <=> pb.index + p <= size
        /\ Fits(pb, p) => Advance(pb, p).index = pb.index + p /\ Advance(pb, p).err = FALSE
        /\ ~Fits(pb, p) => Advance(pb, p).index = size /\ Advance(pb, p).err = TRUE
    BY <2>1, AdvanceGives
  <2>3. length.pb = Advance(pb, p)
    BY <1>7
  <2> QED
    BY <2>2, <2>3
<1>9. ~BadMaximum(max)
  BY BaseAssumption DEF BadMaximum, MaxU16
<1>10. ASSUME NEW r \in Reader(data, size)
       PROVE  /\ Failed(r).pb \in Reader(data, size)
              /\ Failed(r).pb.err = TRUE /\ Failed(r).pb.index = r.index
  <2>1. r \in [data : {data}, limit : {size}, size : {size}, index : 4 .. size, err : BOOLEAN]
    BY DEF Reader
  <2>2. Failed(r).pb = [r EXCEPT !.err = TRUE]
    BY DEF Failed
  <2> DEFINE f == [r EXCEPT !.err = TRUE]
  <2>3. f.err = TRUE /\ f.index = r.index
    BY <2>1
  <2>4. f \in [data : {data}, limit : {size}, size : {size}, index : 4 .. size, err : BOOLEAN]
    BY <2>1
  <2> QED
    BY <2>2, <2>3, <2>4 DEF Reader
<1> DEFINE bad == \/ length.pb.err
                  \/ length.got >= max - 1
                  \/ ~Fits(length.pb, length.got)
<1>11. CASE ~Fits(pb, p)
  <2>1. length.pb.err /\ length.pb.index = size
    BY <1>8, <1>11
  <2>2. ReadString(pb, max) = Failed(length.pb)
    BY <1>9, <2>1 DEF ReadString
  <2>3. after \in Reader(data, size) /\ after.err = TRUE /\ after.index = size
    <3> HIDE DEF length
    <3> QED
      BY <1>8, <1>10, <2>1, <2>2
  <2>4. ~(end <= size)
    <3> HIDE DEF bytes, p
    <3> QED
      BY <1>1, <1>4, <1>5, <1>8, <1>11
  <2> QED
    BY <2>3, <2>4
<1>12. CASE Fits(pb, p)
  <2>1. length.pb.index = pb.index + p /\ length.pb.err = FALSE /\ length.got = Len(text)
        /\ pb.index + p <= size
    BY <1>7, <1>8, <1>12
  <2> DEFINE len == Len(text)
             rest == length.pb
  <2>2. /\ Advance(rest, len) \in Reader(data, size)
        /\ Fits(rest, len) <=> rest.index + len <= size
        /\ Fits(rest, len) => Advance(rest, len).index = rest.index + len /\ Advance(rest, len).err = FALSE
    <3> HIDE DEF len, rest
    <3>1. len \in Nat /\ rest \in Reader(data, size)
      BY <1>1, <1>8 DEF len, rest
    <3>2. /\ Advance(rest, len) \in Reader(data, size)
          /\ Fits(rest, len) <=> rest.index + len <= size
          /\ Fits(rest, len) => Advance(rest, len).index = rest.index + len /\ Advance(rest, len).err = FALSE
          /\ ~Fits(rest, len) => Advance(rest, len).index = size /\ Advance(rest, len).err = TRUE
      BY <3>1, AdvanceGives
    <3> QED
      BY <3>2
  <2>3. Fits(rest, len) <=> end <= size
    <3> HIDE DEF bytes, p, rest
    <3> QED
      BY <1>1, <1>4, <1>5, <2>1, <2>2 DEF rest
  <2>4. CASE len >= max - 1 \/ ~Fits(rest, len)
    <3>1. ReadString(pb, max) = Failed(rest)
      BY <1>9, <2>1, <2>4 DEF ReadString
    <3>2. after \in Reader(data, size) /\ after.err = TRUE /\ after.index = pb.index + p
      <4> DEFINE r == length.pb
      <4>1. r \in Reader(data, size) /\ r.index = pb.index + p
        BY <1>8, <2>1
      <4>2. after = Failed(r).pb
        BY <3>1
      <4> HIDE DEF length, r, after
      <4>3. /\ Failed(r).pb \in Reader(data, size)
            /\ Failed(r).pb.err = TRUE /\ Failed(r).pb.index = r.index
        BY <1>10, <4>1, Zenon
      <4> QED
        BY <4>1, <4>2, <4>3
    <3>3. pb.index + p <= end
      <4> HIDE DEF bytes, p
      <4> QED
        BY <1>1, <1>4, <1>5
    <3>4. ~(end <= size /\ len < max - 1)
      BY <1>1, <2>3, <2>4
    <3> QED
      BY <3>2, <3>3, <3>4
  <2>5. CASE ~(len >= max - 1 \/ ~Fits(rest, len))
    <3>1. ReadString(pb, max) = ReadData(rest, len)
      BY <1>9, <2>1, <2>5 DEF ReadString
    <3>2. ~(len >= DataLimit)
      BY <1>1, BaseAssumption DEF DataLimit, MaxU16
    <3>3. after = Advance(rest, len)
      <4> HIDE DEF rest, len
      <4> QED
        BY <3>1, <3>2 DEF ReadData
    <3>4. rest.index + len = end /\ len < max - 1
      <4> HIDE DEF bytes, p, rest
      <4> QED
        BY <1>1, <1>4, <1>5, <2>1, <2>5 DEF rest
    <3> HIDE DEF after, rest, len, end
    <3>5. after \in Reader(data, size) /\ after.err = FALSE /\ after.index = end /\ end <= size
      BY <2>2, <2>3, <2>5, <3>3, <3>4
    <3>6. end \in Int
      <4> HIDE DEF bytes, p
      <4> QED
        BY <1>1, <1>4, <1>5 DEF end
    <3> QED
      BY <3>4, <3>5, <3>6 DEF after, end, len
  <2> QED
    BY <2>4, <2>5
<1> QED
  BY <1>11, <1>12
=============================================================================
