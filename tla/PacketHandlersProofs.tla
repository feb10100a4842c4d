------------------------- MODULE PacketHandlersProofs -------------------------
(***************************************************************************)
(* Whatever packets the pool writes and wherever they are cut, the         *)
(* handlers do what PoolSession promises.  What each read gets is traced   *)
(* from the items the pool wrote, through their place in the packet and    *)
(* in the part of it that arrived.                                         *)
(***************************************************************************)
EXTENDS PacketHandlers, PacketBufferProofs

-----------------------------------------------------------------------------
(* The pool's packets *)

LEMMA NumberItem ==
  ASSUME NEW v \in Nat, NEW n \in 1 .. 8
  PROVE  LET item == [kind |-> "number", size |-> n, value |-> v]
         IN FitsItem(item) /\ Encoded(item) = Digits(v, n) /\ Len(Encoded(item)) = n
<1> DEFINE item == [kind |-> "number", size |-> n, value |-> v]
<1>1. Encoded(item) = Digits(v, n)
  BY DEF Encoded
<1>2. IsItem(item)
  BY DEF IsItem
<1>3. Len(Digits(v, n)) = n
  BY DigitsType, FunctionIsSequence
<1>4. n < DataLimit
  <2>1. Base * Base >= 9
    BY BaseAssumption
  <2>2. Base * Base * Base >= 27
    BY <2>1, BaseAssumption
  <2> QED
    BY <2>2, BaseAssumption DEF DataLimit
<1>5. item.kind # "string"
  OBVIOUS
<1> HIDE DEF item
<1> QED
  BY <1>1, <1>2, <1>3, <1>4, <1>5 DEF FitsItem, item

LEMMA NumberItems ==
  ASSUME NEW v \in Nat
  PROVE  /\ FitsItem(U8(v)) /\ Encoded(U8(v)) = Digits(v, 1) /\ Len(Encoded(U8(v))) = 1
         /\ FitsItem(U32(v)) /\ Encoded(U32(v)) = Digits(v, 4) /\ Len(Encoded(U32(v))) = 4
         /\ FitsItem(U64(v)) /\ Encoded(U64(v)) = Digits(v, 8) /\ Len(Encoded(U64(v))) = 8
<1>1. ASSUME NEW n \in 1 .. 8
      PROVE  /\ FitsItem([kind |-> "number", size |-> n, value |-> v])
             /\ Encoded([kind |-> "number", size |-> n, value |-> v]) = Digits(v, n)
             /\ Len(Encoded([kind |-> "number", size |-> n, value |-> v])) = n
  BY NumberItem
<1>2. 1 \in 1 .. 8 /\ 4 \in 1 .. 8 /\ 8 \in 1 .. 8
  OBVIOUS
<1> QED
  BY <1>1, <1>2 DEF U8, U32, U64

LEMMA DataItem ==
  ASSUME NEW bytes \in Seq(Byte), Len(bytes) < DataLimit
  PROVE  FitsItem(Raw(bytes)) /\ Encoded(Raw(bytes)) = bytes /\ Len(bytes) \in Nat
<1>1. Encoded(Raw(bytes)) = bytes /\ IsItem(Raw(bytes)) /\ Raw(bytes).kind # "string"
  BY DEF Encoded, Raw, IsItem
<1> QED
  BY <1>1, LenProperties DEF FitsItem

LEMMA TextItem ==
  ASSUME NEW max \in 1 .. MaxU16, NEW text, IsText(text, max)
  PROVE  LET item == Text(text, max)
         IN /\ FitsItem(item)
            /\ Len(Encoded(item)) \in Nat /\ Len(Encoded(item)) <= max + 1
<1> DEFINE item == Text(text, max)
           digits == Digits(Len(text), PrefixSize(max))
<1>1. Len(text) \in Nat /\ PrefixSize(max) \in {1, 2} /\ text \in Seq(Byte)
      /\ Len(text) <= max - 1 /\ max \in Nat
  BY LenProperties DEF PrefixSize, IsText
<1>2. digits \in Seq(Byte) /\ Len(digits) = PrefixSize(max)
  <2>1. PrefixSize(max) \in Nat
    BY <1>1
  <2>2. digits \in [1 .. PrefixSize(max) -> Byte]
    BY <1>1, <2>1, DigitsType
  <2> HIDE DEF digits
  <2> QED
    BY <2>1, <2>2, FunctionIsSequence
<1>3. Encoded(item) = digits \o text
  BY DEF Encoded, Text
<1> HIDE DEF digits
<1>4. Len(Encoded(item)) = PrefixSize(max) + Len(text)
  <2> HIDE DEF item
  <2> QED
    BY <1>1, <1>2, <1>3, ConcatProperties
<1>5. Len(Encoded(item)) \in Nat /\ Len(Encoded(item)) <= max + 1
  <2> HIDE DEF item
  <2> QED
    BY <1>1, <1>4
<1>6. Len(Encoded(item)) < DataLimit
  <2>1. max + 1 <= Base * Base
    BY <1>1, BaseAssumption DEF MaxU16
  <2>2. Base * Base \in Nat /\ Base * Base >= 9 /\ DataLimit = (Base * Base) * Base
    BY BaseAssumption DEF DataLimit
  <2>3. DataLimit > Base * Base
    BY <2>2, BaseAssumption
  <2> HIDE DEF item
  <2> QED
    BY <1>1, <1>5, <2>1, <2>2, <2>3, BaseAssumption DEF DataLimit
<1>7. IsItem(item) /\ item.size = max /\ item.value = text
  BY <1>1 DEF IsItem, Text
<1>8. ~BadMaximum(max)
  BY BaseAssumption DEF BadMaximum, MaxU16
<1> HIDE DEF item
<1> QED
  BY <1>1, <1>5, <1>6, <1>7, <1>8 DEF FitsItem, item

LEMMA ArrayIsData ==
  ASSUME NEW bytes \in Array(HashSize)
  PROVE  bytes \in Seq(Byte) /\ Len(bytes) = HashSize /\ HashSize < DataLimit /\ HashSize \in Nat
BY FunctionIsSequence, HandlersAssumption, BaseAssumption DEF Array, DataLimit

FixedItems(form) ==
  <<U32(form.version), U32(form.height), U32(form.nBits),
    U32(form.targetCompact), U32(form.targetShareCompact), U32(form.nTime),
    Raw(form.prevBlockHash), Raw(form.merkleRoot),
    U16(form.coinBase1Size), Raw(form.coinBase1),
    U16(form.coinBase2Size), Raw(form.coinBase2),
    U16(form.txHashCount)>>

LEMMA WorkItemsAre ==
  ASSUME NEW form, Len(form.txHashes) \in Nat
  PROVE  LET t == Len(form.txHashes)
         IN /\ Len(WorkItems(form)) = 13 + t
            /\ \A i \in 1 .. 13 : WorkItems(form)[i] = FixedItems(form)[i]
            /\ \A i \in 1 .. t : WorkItems(form)[13 + i] = Raw(form.txHashes[i])
<1> DEFINE t == Len(form.txHashes)
           f == FixedItems(form)
           g == [i \in 1 .. t |-> Raw(form.txHashes[i])]
           S == {f[i] : i \in 1 .. 13} \cup {g[i] : i \in 1 .. t}
<1>1. f \in Seq(S) /\ Len(f) = 13
  <2>1. DOMAIN f = 1 .. 13 /\ f = [i \in 1 .. 13 |-> f[i]]
    BY DEF FixedItems
  <2> HIDE DEF f
  <2>2. f \in [1 .. 13 -> S]
    BY <2>1
  <2> HIDE DEF S
  <2> QED
    BY <2>2, FunctionIsSequence, ZenonT(60)
<1>2. g \in Seq(S) /\ Len(g) = t
  <2>1. g \in [1 .. t -> S]
    <3>1. \A i \in 1 .. t : g[i] \in S
      OBVIOUS
    <3> QED
      BY <3>1
  <2> HIDE DEF S, g
  <2> QED
    BY <2>1, FunctionIsSequence
<1>3. WorkItems(form) = f \o g
  BY DEF WorkItems, FixedItems
<1>4. \A i \in 1 .. t : g[i] = Raw(form.txHashes[i])
  OBVIOUS
<1> HIDE DEF f, g, S
<1>5. /\ Len(f \o g) = 13 + t
      /\ \A i \in 1 .. 13 + t : (f \o g)[i] = IF i <= 13 THEN f[i] ELSE g[i - 13]
  <2>1. /\ Len(f \o g) = Len(f) + Len(g)
        /\ \A i \in 1 .. Len(f) + Len(g) :
             (f \o g)[i] = IF i <= Len(f) THEN f[i] ELSE g[i - Len(f)]
    <3>1. f \in Seq(S) /\ g \in Seq(S)
      BY <1>1, <1>2
    <3> QED
      BY <3>1, ConcatProperties
  <2> QED
    BY <1>1, <1>2, <2>1
<1>6. \A i \in 1 .. 13 : (f \o g)[i] = f[i]
  BY <1>5
<1>7. ASSUME NEW i \in 1 .. t PROVE (f \o g)[13 + i] = g[i]
  <2>1. 13 + i \in 1 .. 13 + t /\ ~(13 + i <= 13) /\ (13 + i) - 13 = i
    OBVIOUS
  <2> QED
    BY <1>5, <2>1
<1> QED
  BY <1>3, <1>4, <1>5, <1>6, <1>7 DEF f

-----------------------------------------------------------------------------
(* The fields of block data, in the order of the packet *)

IsWork(form) == WellFormed(form) /\ form.op = "WORKDATA1"

LEMMA WorkForm ==
  ASSUME NEW form, IsWork(form)
  PROVE  /\ \A name \in {"version", "height", "nBits", "targetCompact", "targetShareCompact",
                        "nTime"} : form[name] \in 0 .. MaxU32
         /\ form.prevBlockHash \in Array(HashSize) /\ form.merkleRoot \in Array(HashSize)
         /\ form.coinBase1 \in Seq(Byte) /\ form.coinBase2 \in Seq(Byte)
         /\ form.coinBase1Size = Len(form.coinBase1) /\ Len(form.coinBase1) <= MaxCoinBase
         /\ form.coinBase2Size = Len(form.coinBase2) /\ Len(form.coinBase2) <= MaxCoinBase
         /\ form.txHashes \in Seq(Array(HashSize))
         /\ form.txHashCount = Len(form.txHashes) /\ Len(form.txHashes) <= MaxTx
BY DEF IsWork, WellFormed

(* The numbers and the arrays of the fields. *)
Numbers == {"version", "height", "nBits", "targetCompact", "targetShareCompact", "nTime",
            "coinBase1Size", "coinBase2Size", "txHashCount"}

Size(form, name) ==
  IF name \in Arrays THEN Len(form[name]) ELSE IF Wide(name) THEN 4 ELSE 2

LEMMA FieldNames ==
  /\ DOMAIN Session!Place = Arrays \cup Numbers /\ Arrays \cap Numbers = {}
  /\ Session!Arrays = Arrays
  /\ Len(WorkFields) = 13
  /\ \A i \in 1 .. 13 : WorkFields[i] \in Arrays \cup Numbers /\ Session!Place[WorkFields[i]] = i
  /\ \A name \in Arrays \cup Numbers :
       Session!Place[name] \in 1 .. 13 /\ WorkFields[Session!Place[name]] = name
<1>1. DOMAIN Session!Place = Arrays \cup Numbers /\ Arrays \cap Numbers = {}
  BY DEF Session!Place, Arrays, Numbers
<1>2. Session!Arrays = Arrays /\ Len(WorkFields) = 13
  BY DEF Session!Arrays, Arrays, WorkFields
<1>3. ASSUME NEW i \in 1 .. 13
      PROVE  WorkFields[i] \in Arrays \cup Numbers /\ Session!Place[WorkFields[i]] = i
  BY DEF WorkFields, Session!Place, Arrays, Numbers
<1>4. ASSUME NEW name \in Arrays \cup Numbers
      PROVE  Session!Place[name] \in 1 .. 13 /\ WorkFields[Session!Place[name]] = name
  BY DEF WorkFields, Session!Place, Arrays, Numbers
<1> QED
  BY <1>1, <1>2, <1>3, <1>4

LEMMA FieldValues ==
  ASSUME NEW form, IsWork(form)
  PROVE  /\ \A name \in Numbers :
              form[name] \in Nat /\ form[name] <= (IF Wide(name) THEN MaxU32 ELSE MaxU16)
         /\ \A name \in Arrays : form[name] \in Seq(Byte) /\ Len(form[name]) \in Nat
                                /\ Len(form[name]) < DataLimit
<1>1. MaxCoinBase \in Nat /\ MaxTx \in Nat /\ MaxCoinBase <= MaxU16 /\ MaxTx <= MaxU16
      /\ MaxU16 < DataLimit /\ MaxU16 \in Nat /\ DataLimit \in Nat /\ MaxU32 \in Nat
  BY HandlersAssumption, BaseAssumption DEF MaxU16, DataLimit, MaxU32
<1>2. Len(form.coinBase1) \in Nat /\ Len(form.coinBase2) \in Nat /\ Len(form.txHashes) \in Nat
  BY WorkForm, LenProperties
<1>3. ASSUME NEW name \in Numbers
      PROVE  form[name] \in Nat /\ form[name] <= (IF Wide(name) THEN MaxU32 ELSE MaxU16)
  <2>1. CASE name \in {"version", "height", "nBits", "targetCompact", "targetShareCompact", "nTime"}
    <3>1. form[name] \in 0 .. MaxU32 /\ Wide(name)
      BY <2>1, WorkForm DEF Wide
    <3> QED
      BY <1>1, <3>1
  <2>2. CASE name \in {"coinBase1Size", "coinBase2Size", "txHashCount"}
    <3>1. ~Wide(name)
      BY <2>2 DEF Wide
    <3>2. form[name] \in Nat /\ form[name] <= MaxU16
      BY <1>1, <1>2, <2>2, WorkForm
    <3> QED
      BY <3>1, <3>2
  <2> QED
    BY <2>1, <2>2 DEF Numbers
<1>4. ASSUME NEW name \in Arrays
      PROVE  form[name] \in Seq(Byte) /\ Len(form[name]) \in Nat /\ Len(form[name]) < DataLimit
  <2>1. CASE name \in {"prevBlockHash", "merkleRoot"}
    <3>1. form[name] \in Array(HashSize)
      BY <2>1, WorkForm
    <3> QED
      BY <3>1, ArrayIsData
  <2>2. CASE name \in {"coinBase1", "coinBase2"}
    <3>1. form[name] \in Seq(Byte) /\ Len(form[name]) <= MaxCoinBase /\ Len(form[name]) \in Nat
      BY <1>2, <2>2, WorkForm
    <3> QED
      BY <1>1, <3>1
  <2> QED
    BY <2>1, <2>2 DEF Arrays
<1> QED
  BY <1>3, <1>4

(* What the i-th item of block data is. *)
LEMMA FixedItem ==
  ASSUME NEW form, NEW i \in 1 .. 13
  PROVE  LET name == WorkFields[i]
         IN FixedItems(form)[i] =
              IF name \in Arrays THEN Raw(form[name])
              ELSE [kind |-> "number", size |-> IF Wide(name) THEN 4 ELSE 2, value |-> form[name]]
<1>1. i \in {1, 2, 3, 4, 5, 6} \/ i \in {7, 8, 10, 12} \/ i \in {9, 11, 13}
  OBVIOUS
<1>2. CASE i \in {1, 2, 3, 4, 5, 6}
  BY <1>2 DEF FixedItems, WorkFields, Arrays, Wide, U32
<1>3. CASE i \in {7, 8, 10, 12}
  BY <1>3 DEF FixedItems, WorkFields, Arrays
<1>4. CASE i \in {9, 11, 13}
  BY <1>4 DEF FixedItems, WorkFields, Arrays, Wide, U16
<1> QED
  BY <1>1, <1>2, <1>3, <1>4

(* The items of block data fit, each in the size of its value, and so do   *)
(* all of them together.                                                   *)
LEMMA WorkFits ==
  ASSUME NEW form, IsWork(form)
  PROVE  LET items == WorkItems(form)
             t     == Len(form.txHashes)
         IN /\ t \in Nat /\ Len(items) = 13 + t
            /\ \A i \in 1 .. 13 + t : FitsItem(items[i])
            /\ \A i \in 1 .. 13 :
                 /\ Len(Encoded(items[i])) = Size(form, WorkFields[i])
                 /\ Encoded(items[i]) = IF WorkFields[i] \in Arrays THEN form[WorkFields[i]]
                                        ELSE Digits(form[WorkFields[i]], Size(form, WorkFields[i]))
            /\ \A i \in 1 .. t : /\ Encoded(items[13 + i]) = form.txHashes[i]
                                /\ Len(Encoded(items[13 + i])) = HashSize
<1> DEFINE items == WorkItems(form)
           t     == Len(form.txHashes)
<1>1. t \in Nat /\ \A i \in 1 .. t : form.txHashes[i] \in Array(HashSize)
  BY WorkForm, LenProperties
<1>2. /\ Len(items) = 13 + t
      /\ \A i \in 1 .. 13 : items[i] = FixedItems(form)[i]
      /\ \A i \in 1 .. t : items[13 + i] = Raw(form.txHashes[i])
  BY <1>1, WorkItemsAre
<1> HIDE DEF items, t
<1>3. ASSUME NEW i \in 1 .. 13
      PROVE  /\ FitsItem(items[i])
             /\ Len(Encoded(items[i])) = Size(form, WorkFields[i])
             /\ Encoded(items[i]) = IF WorkFields[i] \in Arrays THEN form[WorkFields[i]]
                                    ELSE Digits(form[WorkFields[i]], Size(form, WorkFields[i]))
  <2> DEFINE name == WorkFields[i]
  <2>1. items[i] = IF name \in Arrays THEN Raw(form[name])
                   ELSE [kind |-> "number", size |-> IF Wide(name) THEN 4 ELSE 2,
                         value |-> form[name]]
    BY <1>2, FixedItem
  <2>2. name \in Arrays \cup Numbers
    BY FieldNames
  <2> HIDE DEF name
  <2>3. CASE name \in Arrays
    <3>1. form[name] \in Seq(Byte) /\ Len(form[name]) < DataLimit /\ items[i] = Raw(form[name])
      BY <2>1, <2>3, FieldValues
    <3>2. Size(form, name) = Len(form[name])
      BY <2>3 DEF Size
    <3>3. FitsItem(Raw(form[name])) /\ Encoded(Raw(form[name])) = form[name]
      BY <3>1, DataItem
    <3> QED
      BY <2>3, <3>1, <3>2, <3>3 DEF name
  <2>4. CASE name \notin Arrays
    <3> DEFINE n == Size(form, name)
               v == form[name]
               item == [kind |-> "number", size |-> n, value |-> v]
    <3>1. v \in Nat /\ n \in 1 .. 8 /\ items[i] = item
      BY <2>1, <2>2, <2>4, FieldValues DEF Size
    <3> HIDE DEF n, v
    <3>2. FitsItem(item) /\ Encoded(item) = Digits(v, n) /\ Len(Encoded(item)) = n
      BY <3>1, NumberItem
    <3> HIDE DEF item
    <3> QED
      BY <2>4, <3>1, <3>2 DEF name, n, v
  <2> QED
    BY <2>3, <2>4
<1>4. ASSUME NEW i \in 1 .. t
      PROVE  /\ FitsItem(items[13 + i])
             /\ Encoded(items[13 + i]) = form.txHashes[i]
             /\ Len(Encoded(items[13 + i])) = HashSize
  <2> DEFINE hash == form.txHashes[i]
  <2>1. hash \in Seq(Byte) /\ Len(hash) = HashSize /\ HashSize < DataLimit
    BY <1>1, ArrayIsData
  <2>2. items[13 + i] = Raw(hash)
    BY <1>2
  <2> HIDE DEF hash
  <2>3. FitsItem(Raw(hash)) /\ Encoded(Raw(hash)) = hash
    BY <2>1, DataItem
  <2> QED
    BY <2>1, <2>2, <2>3 DEF hash
<1>5. ASSUME NEW i \in 1 .. 13 + t PROVE FitsItem(items[i])
  <2>1. CASE i <= 13
    <3>1. i \in 1 .. 13
      BY <1>1, <2>1
    <3> QED
      BY <1>3, <3>1
  <2>2. CASE ~(i <= 13)
    <3>1. i - 13 \in 1 .. t /\ 13 + (i - 13) = i
      BY <1>1, <2>2
    <3> QED
      BY <1>4, <3>1
  <2> QED
    BY <2>1, <2>2
<1> QED
  BY <1>1, <1>2, <1>3, <1>4, <1>5 DEF items, t

LEMMA WorkEndsFit ==
  ASSUME NEW form, IsWork(form), NEW ends, IsEnds(ends, WorkItems(form))
  PROVE  ends[Len(WorkItems(form))] <= BufferSize
<1> DEFINE items == WorkItems(form)
           t     == Len(form.txHashes)
           size  == [i \in 1 .. 13 + t |-> Len(Encoded(items[i]))]
<1>1. t \in Nat /\ Len(items) = 13 + t
  BY WorkFits
<1>0. ends[0] = 4
  BY DEF IsEnds
<1>2. ends \in [0 .. 13 + t -> Nat] /\ \A i \in 1 .. 13 + t : ends[i] = ends[i - 1] + size[i]
  BY <1>1 DEF IsEnds
<1>3. HashSize \in Nat /\ MaxCoinBase \in Nat /\ MaxTx \in Nat /\ BufferSize \in Nat
      /\ BufferSize >= 34 + 2 * HashSize + 2 * MaxCoinBase + MaxTx * HashSize
  BY HandlersAssumption, BaseAssumption DEF DataLimit, MaxU16
<1>4. /\ size[1] = 4 /\ size[2] = 4 /\ size[3] = 4 /\ size[4] = 4 /\ size[5] = 4 /\ size[6] = 4
      /\ size[7] = HashSize /\ size[8] = HashSize /\ size[9] = 2
      /\ size[10] = Len(form.coinBase1) /\ size[11] = 2 /\ size[12] = Len(form.coinBase2)
      /\ size[13] = 2
  <2>1. ASSUME NEW i \in 1 .. 13 PROVE size[i] = Size(form, WorkFields[i])
    <3>1. Len(Encoded(items[i])) = Size(form, WorkFields[i])
      BY WorkFits
    <3>2. i \in 1 .. 13 + t
      BY <1>1
    <3> QED
      BY <3>1, <3>2
  <2>2. Len(form.prevBlockHash) = HashSize /\ Len(form.merkleRoot) = HashSize
    BY WorkForm, ArrayIsData
  <2> HIDE DEF size
  <2>3. \A i \in {1, 2, 3, 4, 5, 6} : Size(form, WorkFields[i]) = 4
    BY DEF Size, WorkFields, Arrays, Wide
  <2>4. \A i \in {9, 11, 13} : Size(form, WorkFields[i]) = 2
    BY DEF Size, WorkFields, Arrays, Wide
  <2>5. /\ Size(form, WorkFields[7]) = HashSize /\ Size(form, WorkFields[8]) = HashSize
        /\ Size(form, WorkFields[10]) = Len(form.coinBase1)
        /\ Size(form, WorkFields[12]) = Len(form.coinBase2)
    BY <2>2 DEF Size, WorkFields, Arrays
  <2> QED
    BY <2>1, <2>3, <2>4, <2>5
<1>5. Len(form.coinBase1) \in 0 .. MaxCoinBase /\ Len(form.coinBase2) \in 0 .. MaxCoinBase
      /\ t <= MaxTx
  <2>1. Len(form.coinBase1) \in Nat /\ Len(form.coinBase2) \in Nat
    BY WorkForm, LenProperties
  <2> QED
    BY <1>3, <2>1, WorkForm
<1>6. ASSUME NEW i \in 1 .. t PROVE size[13 + i] = HashSize
  <2>1. Len(Encoded(items[13 + i])) = HashSize
    BY WorkFits
  <2>2. 13 + i \in 1 .. 13 + t
    BY <1>1
  <2> QED
    BY <2>1, <2>2
<1> HIDE DEF items, t, size
<1>7. ends[13] <= 34 + 2 * HashSize + 2 * MaxCoinBase /\ ends[13] \in Nat
  <2>1. ends[1] = ends[0] + size[1]
    BY <1>1, <1>2, SMTT(60)
  <2>2. ends[2] = ends[1] + size[2]
    BY <1>1, <1>2
  <2>3. ends[3] = ends[2] + size[3]
    BY <1>1, <1>2
  <2>4. ends[4] = ends[3] + size[4]
    BY <1>1, <1>2
  <2>5. ends[5] = ends[4] + size[5]
    BY <1>1, <1>2
  <2>6. ends[6] = ends[5] + size[6]
    BY <1>1, <1>2
  <2>7. ends[7] = ends[6] + size[7]
    BY <1>1, <1>2
  <2>8. ends[8] = ends[7] + size[8]
    BY <1>1, <1>2
  <2>9. ends[9] = ends[8] + size[9]
    BY <1>1, <1>2
  <2>10. ends[10] = ends[9] + size[10]
    BY <1>1, <1>2
  <2>11. ends[11] = ends[10] + size[11]
    BY <1>1, <1>2
  <2>12. ends[12] = ends[11] + size[12]
    BY <1>1, <1>2
  <2>13. ends[13] = ends[12] + size[13]
    BY <1>1, <1>2
  <2>14. ends[6] = 28
    <3>1. /\ size[1] = 4 /\ size[2] = 4 /\ size[3] = 4
          /\ size[4] = 4 /\ size[5] = 4 /\ size[6] = 4
      BY <1>4
    <3> QED
      BY <1>0, <3>1, <2>1, <2>2, <2>3, <2>4, <2>5, <2>6
  <2>15. ends[9] = 30 + 2 * HashSize
    <3>1. size[7] = HashSize /\ size[8] = HashSize /\ size[9] = 2
      BY <1>4
    <3> QED
      BY <1>3, <3>1, <2>7, <2>8, <2>9, <2>14
  <2> DEFINE a == Len(form.coinBase1)
             b == Len(form.coinBase2)
  <2>16. size[10] = a /\ size[11] = 2 /\ size[12] = b /\ size[13] = 2
    BY <1>4
  <2>17. a \in 0 .. MaxCoinBase /\ b \in 0 .. MaxCoinBase
    BY <1>5
  <2> HIDE DEF a, b
  <2>18. ends[13] = 34 + 2 * HashSize + a + b
    BY <1>3, <2>10, <2>11, <2>12, <2>13, <2>15, <2>16, <2>17
  <2> QED
    BY <1>3, <2>17, <2>18
<1> DEFINE S == {m \in Nat : m <= t => ends[13 + m] = ends[13] + m * HashSize}
<1>8. t \in S
  <2>1. 0 \in S
    BY <1>3, <1>7
  <2>2. ASSUME NEW m \in S \cap Nat PROVE m + 1 \in S
    <3> SUFFICES ASSUME m + 1 <= t PROVE ends[13 + (m + 1)] = ends[13] + (m + 1) * HashSize
      OBVIOUS
    <3>1. ends[13 + m] = ends[13] + m * HashSize
      BY <1>1, <2>2
    <3>2. 13 + (m + 1) \in 1 .. 13 + t /\ (13 + (m + 1)) - 1 = 13 + m /\ m + 1 \in 1 .. t
      BY <1>1
    <3>3. ends[13 + (m + 1)] = ends[13 + m] + HashSize
      BY <1>2, <1>6, <3>2
    <3>4. (m + 1) * HashSize = m * HashSize + HashSize /\ m * HashSize \in Nat
      BY <1>3
    <3> QED
      BY <1>3, <1>7, <3>1, <3>3, <3>4
  <2> HIDE DEF S
  <2> QED
    BY <1>1, <2>1, <2>2, SetInduction
<1>9. t * HashSize <= MaxTx * HashSize /\ t * HashSize \in Nat /\ MaxTx * HashSize \in Nat
  BY <1>1, <1>3, <1>5
<1>10. ends[13 + t] = ends[13] + t * HashSize
  BY <1>8
<1>11. ends[13 + t] <= BufferSize
  BY <1>3, <1>7, <1>9, <1>10
<1> QED
  BY <1>1, <1>11 DEF items

-----------------------------------------------------------------------------
(* A packet arrives, maybe cut *)

(* The first bytes of the packet are in data. *)
Supplies(data, size, items, ends) ==
  \A i \in 1 .. Len(items) : \A j \in 1 .. Len(Encoded(items[i])) :
    ends[i - 1] + j <= size => data[ends[i - 1] + j] = Encoded(items[i])[j]

LEMMA PartArrives ==
  ASSUME NEW items, Len(items) \in Nat, \A i \in 1 .. Len(items) : FitsItem(items[i]),
         NEW ends, IsEnds(ends, items), ends[Len(items)] <= BufferSize,
         NEW opcode \in Nat, NEW n \in Nat, 4 + n <= ends[Len(items)]
  PROVE  LET bytes == Compose(BufferSize, opcode, items)
             pb    == BeginRead(Received(bytes, n))
         IN /\ Len(bytes) = ends[Len(items)]
            /\ pb.data \in [1 .. 4 + n -> Byte] /\ pb \in Reader(pb.data, 4 + n)
            /\ pb.index = 4
            /\ Supplies(pb.data, 4 + n, items, ends)
<1> DEFINE L     == Len(items)
           bytes == Compose(BufferSize, opcode, items)
           pb    == BeginRead(Received(bytes, n))
           m     == 4 + n
           e     == ends[L]
<1>1. \A i \in 1 .. L : IsItem(items[i])
  BY DEF FitsItem
<1>2. L \in Nat /\ e \in Nat /\ m <= e /\ m \in 0 .. e /\ BufferSize \in Nat /\ BufferSize >= 4
  <2>1. BufferSize \in Nat /\ BufferSize >= 4
    BY HandlersAssumption, BaseAssumption DEF MaxU16
  <2>2. e \in Nat
    BY DEF IsEnds
  <2> HIDE DEF e
  <2> QED
    BY <2>1, <2>2 DEF e
<1>3. bytes \in [1 .. e -> Byte] /\ Holds(bytes, ends, items, L)
  BY <1>2, ComposeHolds
<1> HIDE DEF e, bytes
<1>4. Len(bytes) = e
  BY <1>2, <1>3, FunctionIsSequence
<1> DEFINE front  == SubSeq(bytes, 1, m)
           header == Digits(n, 3)
           data   == Placed(front, 1, header)
<1>5. front \in [1 .. m -> Byte] /\ \A i \in 1 .. m : front[i] = bytes[i]
  <2> HIDE DEF m
  <2> QED
    BY <1>2, <1>3, FrontPart
<1>6. header \in Seq(Byte) /\ Len(header) = 3
  <2>1. header \in [1 .. 3 -> Byte]
    BY DigitsType
  <2> HIDE DEF header
  <2> QED
    BY <2>1, FunctionIsSequence
<1> HIDE DEF front, header
<1>7. data \in [1 .. m -> Byte]
  BY <1>2, <1>5, <1>6, PlacedType
<1>8. \A i \in 1 .. m : i > 4 => data[i] = bytes[i]
  <2>1. ASSUME NEW i \in 1 .. m, i > 4 PROVE data[i] = front[i]
    BY <1>5, <1>6, <2>1 DEF Placed
  <2> QED
    BY <1>5, <2>1
<1> HIDE DEF data
<1>9. pb \in [data : {data}, limit : {m}, size : {m}, index : {4}, err : {FALSE}]
  <2>1. Received(bytes, n) = [Create(m) EXCEPT !.size = m, !.data = data]
    BY DEF Received, data, front, header
  <2> HIDE DEF m
  <2>2. Create(m) \in [data : {Unset(m)}, limit : {m}, size : {0}, index : {0}, err : {FALSE}]
    BY DEF Create
  <2>3. Received(bytes, n)
          \in [data : {data}, limit : {m}, size : {m}, index : {0}, err : {FALSE}]
    BY <2>1, <2>2
  <2>4. pb = [Received(bytes, n) EXCEPT !.index = 4, !.err = FALSE]
    BY DEF BeginRead
  <2> HIDE DEF pb
  <2> QED
    BY <2>3, <2>4
<1>10. pb.data = data /\ pb.index = 4 /\ pb \in Reader(pb.data, 4 + n)
  <2>1. 4 \in 4 .. m
    OBVIOUS
  <2> HIDE DEF m, pb
  <2>2. pb.data = data /\ pb.index = 4
    BY <1>9
  <2>3. pb \in Reader(data, m)
    BY <1>9, <2>1 DEF Reader
  <2> QED
    BY <2>2, <2>3 DEF m
<1>11. Supplies(data, m, items, ends)
  <2> SUFFICES ASSUME NEW i \in 1 .. L, NEW j \in 1 .. Len(Encoded(items[i])), ends[i - 1] + j <= m
               PROVE  data[ends[i - 1] + j] = Encoded(items[i])[j]
    BY DEF Supplies
  <2> DEFINE before == ends[i - 1]
  <2>1. Len(Encoded(items[i])) \in Nat
    BY <1>1, EncodedType
  <2>2. before \in Nat /\ before >= 4
    <3>1. i - 1 \in 0 .. L /\ i - 1 <= L /\ L \in 0 .. L
      BY <1>2
    <3>2. ends[i - 1] >= 4
      BY <1>1, <3>1, EndsGrow
    <3> QED
      BY <3>1, <3>2 DEF IsEnds
  <2>3. before + j <= m /\ bytes[before + j] = Encoded(items[i])[j]
    BY <1>3 DEF Holds
  <2> HIDE DEF before, m
  <2>4. before + j \in 1 .. m /\ before + j > 4
    BY <1>2, <2>1, <2>2, <2>3
  <2> QED
    BY <1>8, <2>3, <2>4 DEF before
<1> HIDE DEF pb
<1> QED
  BY <1>4, <1>7, <1>10, <1>11 DEF pb, bytes, e

(* Reading the i-th item, where it begins. *)
At(pb, place) == pb.index = place
Says(item, bytes) == Encoded(item) = bytes

LEMMA NumberArrives ==
  ASSUME NEW size \in Nat, NEW data \in [1 .. size -> Byte],
         NEW items, Len(items) \in Nat, NEW ends, IsEnds(ends, items),
         Supplies(data, size, items, ends),
         NEW i \in 1 .. Len(items), NEW n \in Nat, NEW bytes \in [1 .. n -> Byte],
         Says(items[i], bytes),
         NEW pb \in Reader(data, size), At(pb, ends[i - 1])
  PROVE  LET r == ReadNumber(pb, n)
         IN /\ r.pb \in Reader(data, size)
            /\ ends[i] = ends[i - 1] + n
            /\ r.got = IF ends[i] <= size THEN Number(bytes) ELSE 0
            /\ r.pb.index = IF ends[i] <= size THEN ends[i] ELSE size
            /\ r.pb.err = IF ends[i] <= size THEN FALSE ELSE TRUE
<1> DEFINE r == ReadNumber(pb, n)
<1>1. Len(bytes) = n
  BY FunctionIsSequence
<1>2. \A j \in 1 .. n : pb.index + j <= size => data[pb.index + j] = bytes[j]
  BY <1>1 DEF Supplies, At, Says
<1>3. ends[i] = ends[i - 1] + n
  BY <1>1 DEF IsEnds, Says
<1>4. /\ r.pb = Advance(pb, n)
      /\ r.got = IF Fits(pb, n) THEN Number(bytes) ELSE 0
  BY <1>2, ReadNumberGets
<1>5. /\ Advance(pb, n) \in Reader(data, size)
      /\ Fits(pb, n) <=> pb.index + n <= size
      /\ Fits(pb, n) => Advance(pb, n).index = pb.index + n /\ Advance(pb, n).err = FALSE
      /\ ~Fits(pb, n) => Advance(pb, n).index = size /\ Advance(pb, n).err = TRUE
  BY AdvanceGives
<1> HIDE DEF r
<1> QED
  BY <1>3, <1>4, <1>5 DEF r, At

LEMMA DataArrives ==
  ASSUME NEW size \in Nat, NEW data \in [1 .. size -> Byte],
         NEW items, Len(items) \in Nat, NEW ends, IsEnds(ends, items),
         Supplies(data, size, items, ends),
         NEW i \in 1 .. Len(items), NEW bytes \in Seq(Byte), Len(bytes) < DataLimit,
         Says(items[i], bytes),
         NEW pb \in Reader(data, size), At(pb, ends[i - 1])
  PROVE  LET r == ReadData(pb, Len(bytes))
         IN /\ r.pb \in Reader(data, size)
            /\ ends[i] = ends[i - 1] + Len(bytes)
            /\ r.got = IF ends[i] <= size THEN bytes ELSE <<>>
            /\ r.pb.index = IF ends[i] <= size THEN ends[i] ELSE size
<1> DEFINE n == Len(bytes)
           r == ReadData(pb, n)
<1>1. n \in Nat /\ bytes \in [1 .. n -> Byte]
  BY LenProperties
<1>2. \A j \in 1 .. n : pb.index + j <= size => data[pb.index + j] = bytes[j]
  BY <1>1 DEF Supplies, At, Says
<1>3. ends[i] = ends[i - 1] + n
  BY <1>1 DEF IsEnds, Says
<1> HIDE DEF n
<1>4. /\ r.pb = Advance(pb, n)
      /\ r.got = IF Fits(pb, n) THEN bytes ELSE <<>>
  <2>1. n < DataLimit
    BY DEF n
  <2> QED
    BY <1>1, <1>2, <2>1, ReadDataGets
<1>5. /\ Advance(pb, n) \in Reader(data, size)
      /\ Fits(pb, n) <=> pb.index + n <= size
      /\ Fits(pb, n) => Advance(pb, n).index = pb.index + n /\ Advance(pb, n).err = FALSE
      /\ ~Fits(pb, n) => Advance(pb, n).index = size /\ Advance(pb, n).err = TRUE
  BY <1>1, AdvanceGives
<1> HIDE DEF r
<1> QED
  BY <1>3, <1>4, <1>5 DEF r, n, At

(* Behind the cut nothing is read but nothing. *)
LEMMA ReadsNothing ==
  ASSUME NEW size \in Nat, NEW data \in [1 .. size -> Byte],
         NEW pb \in Reader(data, size), At(pb, size), NEW n \in Nat, n < DataLimit
  PROVE  /\ ReadData(pb, n).pb \in Reader(data, size) /\ ReadData(pb, n).pb.index = size
         /\ ReadData(pb, n).got = <<>>
         /\ ReadNumber(pb, n).pb \in Reader(data, size) /\ ReadNumber(pb, n).pb.index = size
         /\ n > 0 => ReadNumber(pb, n).got = 0
<1>1. pb.data = data /\ pb.size = size
  BY ReaderFields
<1>2. /\ Advance(pb, n) \in Reader(data, size)
      /\ Fits(pb, n) <=> pb.index + n <= size
      /\ Fits(pb, n) => Advance(pb, n).index = pb.index + n /\ Advance(pb, n).err = FALSE
      /\ ~Fits(pb, n) => Advance(pb, n).index = size /\ Advance(pb, n).err = TRUE
  BY AdvanceGives
<1>3. Fits(pb, n) <=> n = 0
  BY <1>2 DEF At
<1>4. Advance(pb, n) \in Reader(data, size) /\ Advance(pb, n).index = size
  BY <1>2, <1>3 DEF At
<1>5. ~(n >= DataLimit)
  BY BaseAssumption DEF DataLimit
<1>6. ReadData(pb, n).pb = Advance(pb, n) /\ ReadNumber(pb, n).pb = Advance(pb, n)
  BY <1>5 DEF ReadData, ReadNumber
<1>7. n > 0 => ReadNumber(pb, n).got = 0
  BY <1>3 DEF ReadNumber
<1>8. ReadData(pb, n).got = <<>>
  <2>1. CASE n = 0
    <3> DEFINE part == SubSeq(data, size + 1, size + n)
    <3>1. part \in [1 .. n -> Byte] 
      BY Slice, <2>1
    <3>2. part = <<>>
      <4> HIDE DEF part
      <4>1. part \in Seq(Byte) /\ Len(part) = 0
        BY <2>1, <3>1, FunctionIsSequence
      <4> QED
        BY <4>1, EmptySeq
    <3>3. ReadData(pb, n).got = part
      BY <1>1, <1>3, <1>5, <2>1 DEF ReadData, At
    <3> QED
      BY <3>2, <3>3
  <2>2. CASE n # 0
    BY <1>3, <1>5, <2>2 DEF ReadData
  <2> QED
    BY <2>1, <2>2
<1> QED
  BY <1>4, <1>6, <1>7, <1>8

-----------------------------------------------------------------------------
(* Every packet of the pool fits *)

LEMMA FirstEnds ==
  ASSUME NEW items, Len(items) \in 1 .. 3, \A i \in 1 .. Len(items) : IsItem(items[i]),
         NEW ends, IsEnds(ends, items)
  PROVE  /\ ends[0] = 4 /\ ends[1] = 4 + Len(Encoded(items[1])) /\ Len(Encoded(items[1])) \in Nat
         /\ Len(items) >= 2 => /\ ends[2] = ends[1] + Len(Encoded(items[2]))
                               /\ Len(Encoded(items[2])) \in Nat
         /\ Len(items) = 3 => /\ ends[3] = ends[2] + Len(Encoded(items[3]))
                              /\ Len(Encoded(items[3])) \in Nat
<1> DEFINE size == [i \in 1 .. Len(items) |-> Len(Encoded(items[i]))]
           n == Len(items)
<1>1. \A i \in 1 .. n : size[i] \in Nat
  BY EncodedType
<1>2. \A i \in 1 .. n : ends[i] = ends[i - 1] + size[i]
  BY DEF IsEnds
<1>3. ends[0] = 4
  BY DEF IsEnds
<1>4. n \in 1 .. 3 /\ 1 \in 1 .. n /\ (n >= 2 => 2 \in 1 .. n) /\ (n = 3 => 3 \in 1 .. n)
  <2>1. n \in 1 .. 3
    OBVIOUS
  <2> HIDE DEF n
  <2> QED
    BY <2>1
<1> HIDE DEF size, n
<1>5. ends[1] = ends[0] + size[1]
  BY <1>2, <1>4
<1>6. n >= 2 => ends[2] = ends[1] + size[2]
  BY <1>2, <1>4
<1>7. n = 3 => ends[3] = ends[2] + size[3]
  BY <1>2, <1>4
<1>8. \A i \in 1 .. n : size[i] = Len(Encoded(items[i]))
  BY DEF size, n
<1>9. ends[1] = 4 + Len(Encoded(items[1])) /\ Len(Encoded(items[1])) \in Nat
  BY <1>1, <1>3, <1>4, <1>5, <1>8
<1>10. n >= 2 => ends[2] = ends[1] + Len(Encoded(items[2])) /\ Len(Encoded(items[2])) \in Nat
  BY <1>1, <1>4, <1>6, <1>8
<1>11. n = 3 => ends[3] = ends[2] + Len(Encoded(items[3])) /\ Len(Encoded(items[3])) \in Nat
  BY <1>1, <1>4, <1>7, <1>8
<1> QED
  BY <1>3, <1>9, <1>10, <1>11 DEF n

LEMMA PoolWrites ==
  ASSUME NEW form \in Forms
  PROVE  LET items == PoolItems(form)
         IN /\ Len(items) \in Nat /\ Opcode[form.op] \in Nat
            /\ \A i \in 1 .. Len(items) : FitsItem(items[i])
            /\ \A ends : IsEnds(ends, items) => ends[Len(items)] <= BufferSize
<1> DEFINE items == PoolItems(form)
<1>1. WellFormed(form)
  BY HandlersAssumption
<1>2. /\ MaxReason \in 1 .. MaxU16 /\ MaxText \in 1 .. MaxU16 /\ BufferSize \in Nat
      /\ BufferSize >= MaxReason + 14 /\ BufferSize >= MaxText + 14
      /\ MaxReason \in Nat /\ MaxText \in Nat
  BY HandlersAssumption, BaseAssumption DEF MaxU16
<1>3. \A v \in 0 .. MaxU32 : v \in Nat
  BY BaseAssumption DEF MaxU32
<1>4. \A v \in Byte : v \in Nat
  BY BaseAssumption DEF Byte
<1>5. CASE form.op \in {"AUTH_ACK", "SHARE_ACK"}
  <2> DEFINE a == U32(form.code)
             b == Text(form.reason, MaxReason)
             c == IF form.op = "AUTH_ACK" THEN U8(form.algorithm) ELSE U32(form.value)
  <2>1. items = <<a, b, c>> /\ Len(items) = 3
    BY <1>5 DEF PoolItems
  <2>2. FitsItem(a) /\ Len(Encoded(a)) = 4
    <3>1. form.code \in Nat
      BY <1>1, <1>3, <1>5 DEF WellFormed
    <3> QED
      BY <3>1, NumberItems
  <2>3. FitsItem(b) /\ Len(Encoded(b)) \in Nat /\ Len(Encoded(b)) <= MaxReason + 1
    <3>1. IsText(form.reason, MaxReason)
      BY <1>1, <1>5 DEF WellFormed
    <3> QED
      BY <1>2, <3>1, TextItem
  <2>4. FitsItem(c) /\ Len(Encoded(c)) \in {1, 4}
    <3>1. CASE form.op = "AUTH_ACK"
      <4>1. form.algorithm \in Nat
        BY <1>1, <1>4, <3>1 DEF WellFormed
      <4> QED
        BY <3>1, <4>1, NumberItems
    <3>2. CASE form.op = "SHARE_ACK"
      <4>1. form.value \in Nat
        BY <1>1, <1>3, <3>2 DEF WellFormed
      <4> QED
        BY <3>2, <4>1, NumberItems
    <3> QED
      BY <1>5, <3>1, <3>2
  <2> HIDE DEF a, b, c, items
  <2>5. items[1] = a /\ items[2] = b /\ items[3] = c
    BY <2>1
  <2>6. \A i \in 1 .. Len(items) : FitsItem(items[i])
    BY <2>1, <2>2, <2>3, <2>4, <2>5
  <2>7. ASSUME NEW ends, IsEnds(ends, items) PROVE ends[Len(items)] <= BufferSize
    <3>1. \A i \in 1 .. Len(items) : IsItem(items[i])
      BY <2>6 DEF FitsItem
    <3> DEFINE x == Len(Encoded(a))
               y == Len(Encoded(b))
               z == Len(Encoded(c))
    <3>2. x = 4 /\ y \in Nat /\ y <= MaxReason + 1 /\ z \in {1, 4}
      BY <2>2, <2>3, <2>4
    <3>3. ends[1] = 4 + x /\ ends[2] = ends[1] + y /\ ends[3] = ends[2] + z
      <4>1. /\ ends[1] = 4 + Len(Encoded(items[1]))
            /\ ends[2] = ends[1] + Len(Encoded(items[2]))
            /\ ends[3] = ends[2] + Len(Encoded(items[3]))
        <5>1. Len(items) = 3 /\ Len(items) \in 1 .. 3 /\ Len(items) >= 2
          BY <2>1
        <5> QED
          BY <2>7, <3>1, <5>1, FirstEnds
      <4> QED
        BY <2>5, <4>1
    <3> HIDE DEF x, y, z
    <3>4. ends[3] <= BufferSize
      BY <1>2, <3>2, <3>3
    <3> QED
      BY <2>1, <3>4
  <2>8. Opcode[form.op] \in Nat
    BY <1>5 DEF Opcode
  <2> QED
    BY <2>1, <2>6, <2>7, <2>8 DEF items
<1>6. CASE form.op = "MESSAGE"
  <2> DEFINE a == U8(form.type)
             b == Text(form.text, MaxText)
  <2>1. items = <<a, b>> /\ Len(items) = 2
    BY <1>6 DEF PoolItems
  <2>2. FitsItem(a) /\ Len(Encoded(a)) = 1
    <3>1. form.type \in Nat
      BY <1>1, <1>4, <1>6 DEF WellFormed
    <3> QED
      BY <3>1, NumberItems
  <2>3. FitsItem(b) /\ Len(Encoded(b)) \in Nat /\ Len(Encoded(b)) <= MaxText + 1
    <3>1. IsText(form.text, MaxText)
      BY <1>1, <1>6 DEF WellFormed
    <3> QED
      BY <1>2, <3>1, TextItem
  <2> HIDE DEF a, b, items
  <2>5. items[1] = a /\ items[2] = b
    BY <2>1
  <2>6. \A i \in 1 .. Len(items) : FitsItem(items[i])
    BY <2>1, <2>2, <2>3, <2>5
  <2>7. ASSUME NEW ends, IsEnds(ends, items) PROVE ends[Len(items)] <= BufferSize
    <3>1. \A i \in 1 .. Len(items) : IsItem(items[i])
      BY <2>6 DEF FitsItem
    <3> DEFINE x == Len(Encoded(a))
               y == Len(Encoded(b))
    <3>2. x = 1 /\ y \in Nat /\ y <= MaxText + 1
      BY <2>2, <2>3
    <3>4. ends[1] = 4 + x /\ ends[2] = ends[1] + y
      <4>1. /\ ends[1] = 4 + Len(Encoded(items[1]))
            /\ ends[2] = ends[1] + Len(Encoded(items[2]))
        <5>1. Len(items) = 2 /\ Len(items) \in 1 .. 3 /\ Len(items) >= 2
          BY <2>1
        <5> QED
          BY <2>7, <3>1, <5>1, FirstEnds
      <4> QED
        BY <2>5, <4>1
    <3> HIDE DEF x, y
    <3>3. ends[2] <= BufferSize
      BY <1>2, <3>2, <3>4
    <3> QED
      BY <2>1, <3>3
  <2>8. Opcode[form.op] \in Nat
    BY <1>6 DEF Opcode
  <2> QED
    BY <2>1, <2>6, <2>7, <2>8 DEF items
<1>7. CASE form.op \in {"PING", "UNKNOWN"}
  <2> DEFINE a == IF form.op = "PING" THEN U64(form.timestamp) ELSE U8(form.type)
  <2>1. items = <<a>> /\ Len(items) = 1
    BY <1>7 DEF PoolItems
  <2>2. FitsItem(a) /\ Len(Encoded(a)) \in {1, 8}
    <3>1. CASE form.op = "PING"
      <4>1. form.timestamp \in Nat
        BY <1>1, <3>1 DEF WellFormed
      <4> QED
        BY <3>1, <4>1, NumberItems
    <3>2. CASE form.op = "UNKNOWN"
      <4>1. form.type \in Nat
        BY <1>1, <1>4, <3>2 DEF WellFormed
      <4> QED
        BY <3>2, <4>1, NumberItems
    <3> QED
      BY <1>7, <3>1, <3>2
  <2> HIDE DEF a, items
  <2>5. items[1] = a
    BY <2>1
  <2>6. \A i \in 1 .. Len(items) : FitsItem(items[i])
    BY <2>1, <2>2, <2>5
  <2>7. ASSUME NEW ends, IsEnds(ends, items) PROVE ends[Len(items)] <= BufferSize
    <3>1. \A i \in 1 .. Len(items) : IsItem(items[i])
      BY <2>6 DEF FitsItem
    <3> DEFINE x == Len(Encoded(a))
    <3>2. ends[1] = 4 + x
      <4>1. ends[1] = 4 + Len(Encoded(items[1]))
        <5>1. Len(items) \in 1 .. 3
          BY <2>1
        <5> QED
          BY <2>7, <3>1, <5>1, FirstEnds
      <4> QED
        BY <2>5, <4>1
    <3>4. x \in {1, 8}
      BY <2>2
    <3> HIDE DEF x
    <3>3. ends[1] <= BufferSize
      BY <1>2, <3>2, <3>4
    <3> QED
      BY <2>1, <3>3
  <2>8. Opcode[form.op] \in Nat
    BY <1>7 DEF Opcode
  <2> QED
    BY <2>1, <2>6, <2>7, <2>8 DEF items
<1>8. CASE form.op = "WORKDATA1"
  <2>1. IsWork(form)
    BY <1>1, <1>8 DEF IsWork
  <2>2. items = WorkItems(form)
    BY <1>8 DEF PoolItems
  <2>3. Opcode[form.op] \in Nat
    BY <1>8 DEF Opcode
  <2> HIDE DEF items
  <2>4. Len(items) \in Nat /\ \A i \in 1 .. Len(items) : FitsItem(items[i])
    <3> DEFINE written == WorkItems(form)
               t       == Len(form.txHashes)
    <3>1. t \in Nat /\ Len(written) = 13 + t /\ \A i \in 1 .. 13 + t : FitsItem(written[i])
      BY <2>1, WorkFits
    <3> HIDE DEF written, t
    <3>2. Len(written) \in Nat /\ \A i \in 1 .. Len(written) : FitsItem(written[i])
      BY <3>1
    <3> QED
      BY <2>2, <3>2 DEF written
  <2>5. ASSUME NEW ends, IsEnds(ends, items) PROVE ends[Len(items)] <= BufferSize
    BY <2>1, <2>2, <2>5, WorkEndsFit
  <2> QED
    BY <2>3, <2>4, <2>5 DEF items
<1> QED
  BY <1>1, <1>5, <1>6, <1>7, <1>8 DEF WellFormed

(* The packet that arrived is one of the pool's, in its first size bytes. *)
Arrival(arrived, form, ends, size) ==
  LET items == PoolItems(form)
      start == BeginRead(arrived.pb)
  IN /\ arrived.op = form.op
     /\ Len(items) \in Nat /\ (\A i \in 1 .. Len(items) : FitsItem(items[i]))
     /\ IsEnds(ends, items)
     /\ size \in Nat /\ size >= 4 /\ size <= ends[Len(items)]
     /\ arrived.whole \in BOOLEAN /\ (arrived.whole <=> size = ends[Len(items)])
     /\ start.data \in [1 .. size -> Byte] /\ start \in Reader(start.data, size)
     /\ start.index = 4
     /\ Supplies(start.data, size, items, ends)

LEMMA PacketArrives ==
  ASSUME NEW arrived \in PoolPackets
  PROVE  \E form \in Forms : \E ends, size : Arrival(arrived, form, ends, size)
<1> DEFINE Packet(form) == Compose(BufferSize, Opcode[form.op], PoolItems(form))
<1>1. PICK form \in Forms :
        \E n \in IF form \in Cuttable THEN 0 .. Len(Packet(form)) - 4 ELSE {Len(Packet(form)) - 4} :
          arrived = [op |-> form.op, whole |-> 4 + n = Len(Packet(form)),
                     pb |-> Received(Packet(form), n)]
  BY DEF PoolPackets
<1> DEFINE bytes == Packet(form)
           items == PoolItems(form)
           L     == Len(items)
<1>2. PICK n : /\ n \in IF form \in Cuttable THEN 0 .. Len(bytes) - 4 ELSE {Len(bytes) - 4}
               /\ arrived = [op |-> form.op, whole |-> 4 + n = Len(bytes), pb |-> Received(bytes, n)]
  BY <1>1
<1>3. /\ L \in Nat /\ Opcode[form.op] \in Nat /\ \A i \in 1 .. L : FitsItem(items[i])
      /\ \A ends : IsEnds(ends, items) => ends[L] <= BufferSize
  BY PoolWrites
<1>4. arrived.op = form.op /\ arrived.whole = (4 + n = Len(bytes)) /\ arrived.pb = Received(bytes, n)
  <2> HIDE DEF bytes
  <2> QED
    BY <1>2
<1> HIDE DEF items
<1>5. PICK ends : IsEnds(ends, items)
  BY <1>3, EndsExist DEF FitsItem
<1>6. ends[L] \in Nat /\ ends[L] >= 4 /\ ends[L] <= BufferSize
  <2>1. \A i \in 1 .. L : IsItem(items[i])
    BY <1>3 DEF FitsItem
  <2>2. L \in 0 .. L
    BY <1>3
  <2>3. ends[L] >= 4
    BY <1>3, <1>5, <2>1, <2>2, EndsGrow
  <2> QED
    BY <1>3, <1>5, <2>2, <2>3 DEF IsEnds
<1>7. ASSUME NEW m \in Nat, 4 + m <= ends[L]
      PROVE  LET pb == BeginRead(Received(bytes, m))
             IN /\ Len(bytes) = ends[L]
                /\ pb.data \in [1 .. 4 + m -> Byte] /\ pb \in Reader(pb.data, 4 + m)
                /\ pb.index = 4
                /\ Supplies(pb.data, 4 + m, items, ends)
  <2> DEFINE opcode == Opcode[form.op]
  <2>1. bytes = Compose(BufferSize, opcode, items)
    BY DEF items
  <2>2. opcode \in Nat
    BY <1>3
  <2> HIDE DEF opcode, bytes
  <2> QED
    BY <1>3, <1>5, <1>6, <1>7, <2>1, <2>2, PartArrives
<1>8. Len(bytes) = ends[L]
  <2>1. 0 \in Nat /\ 4 + 0 <= ends[L]
    BY <1>6
  <2> DEFINE zero == 0
  <2>2. zero \in Nat /\ 4 + zero <= ends[L]
    BY <2>1
  <2> HIDE DEF zero, bytes
  <2> QED
    BY <1>7, <2>2
<1>9. n \in Nat /\ 4 + n <= ends[L]
  <2> HIDE DEF bytes
  <2> QED
    BY <1>2, <1>6, <1>8
<1> DEFINE start == BeginRead(Received(bytes, n))
           size == 4 + n
<1>10. /\ start.data \in [1 .. size -> Byte] /\ start \in Reader(start.data, size)
       /\ start.index = 4
       /\ Supplies(start.data, size, items, ends)
  BY <1>7, <1>9
<1>11. /\ size \in Nat /\ size >= 4 /\ size <= ends[L]
       /\ arrived.whole \in BOOLEAN /\ (arrived.whole <=> size = ends[L])
  <2>1. size \in Nat /\ size >= 4 /\ size <= ends[L]
    BY <1>8, <1>9
  <2>2. arrived.whole = (size = ends[L])
    BY <1>4, <1>8
  <2> HIDE DEF size
  <2>3. arrived.whole \in BOOLEAN /\ (arrived.whole <=> size = ends[L])
    BY <2>2, Zenon
  <2> QED
    BY <2>1, <2>3
<1> HIDE DEF start, size, bytes
<1>12. Arrival(arrived, form, ends, size)
  BY <1>3, <1>4, <1>5, <1>10, <1>11 DEF Arrival, items, start
<1> QED
  BY <1>12

-----------------------------------------------------------------------------
(* The answers to logins and shares, messages and pings *)

LEMMA TextArrives ==
  ASSUME NEW size \in Nat, NEW data \in [1 .. size -> Byte],
         NEW items, Len(items) \in Nat, NEW ends, IsEnds(ends, items),
         Supplies(data, size, items, ends),
         NEW i \in 1 .. Len(items), NEW max \in 1 .. MaxU16, NEW text, IsText(text, max),
         Says(items[i], Encoded(Text(text, max))),
         NEW pb \in Reader(data, size), At(pb, ends[i - 1])
  PROVE  LET after == ReadString(pb, max).pb
         IN /\ after \in Reader(data, size)
            /\ after.err = FALSE => after.index = ends[i] /\ ends[i] <= size
                                    /\ Session!Readable(text, max)
            /\ ends[i] <= size /\ Session!Readable(text, max) => after.err = FALSE
            /\ ends[i] <= size => after.index <= ends[i]
<1> DEFINE after == ReadString(pb, max).pb
           bytes == Encoded(Text(text, max))
           end   == pb.index + Len(Encoded(Text(text, max)))
<1>1. \A j \in 1 .. Len(bytes) : pb.index + j <= size => data[pb.index + j] = bytes[j]
  BY DEF Supplies, At, Says
<1>2. ends[i] = end
  BY DEF IsEnds, At, Says
<1>3. text \in Seq(Byte) /\ Len(text) <= max - 1
  BY DEF IsText
<1>4. /\ after \in Reader(data, size)
      /\ after.err = FALSE => after.index = end /\ end <= size /\ Len(text) < max - 1
      /\ end <= size /\ Len(text) < max - 1 => after.err = FALSE
      /\ end <= size => after.index <= end
  BY <1>1, <1>3, ReadStringGets
<1> HIDE DEF after, end
<1> QED
  BY <1>2, <1>4 DEF after, Session!Readable

LEMMA TextMissing ==
  ASSUME NEW size \in Nat, NEW data \in [1 .. size -> Byte],
         NEW max \in 1 .. MaxU16, NEW text, IsText(text, max),
         NEW pb \in Reader(data, size), At(pb, size)
  PROVE  ReadString(pb, max).pb \in Reader(data, size)
<1> DEFINE bytes == Encoded(Text(text, max))
<1>1. Len(bytes) \in Nat
  <2>1. max \in Nat
    BY BaseAssumption DEF MaxU16
  <2> QED
    BY <2>1, EncodedType DEF IsText, IsItem, Text
<1>2. ASSUME NEW j \in 1 .. Len(bytes), pb.index + j <= size PROVE data[pb.index + j] = bytes[j]
  BY <1>1, <1>2 DEF At
<1>3. text \in Seq(Byte) /\ Len(text) <= max - 1
  BY DEF IsText
<1>4. \A j \in 1 .. Len(bytes) : pb.index + j <= size => data[pb.index + j] = bytes[j]
  BY <1>2
<1> QED
  BY <1>3, <1>4, ReadStringGets

(* What both answers begin with: a code and a text. *)
LEMMA AnswerReads ==
  ASSUME NEW arrived, NEW form \in Forms, NEW ends, NEW size, Arrival(arrived, form, ends, size),
         form.op \in {"AUTH_ACK", "SHARE_ACK"}
  PROVE  LET start  == BeginRead(arrived.pb)
             code   == ReadU32(start)
             reason == ReadString(code.pb, MaxReason)
         IN /\ code.pb.err \in BOOLEAN /\ reason.pb.err \in BOOLEAN
            /\ code.pb.err = FALSE => code.got = form.code /\ reason.pb \in Reader(start.data, size)
            /\ arrived.whole => code.pb.err = FALSE
            /\ code.pb.err = FALSE /\ reason.pb.err = FALSE =>
                 reason.pb.index = ends[2] /\ Session!Readable(form.reason, MaxReason)
            /\ arrived.whole /\ Session!Readable(form.reason, MaxReason) => reason.pb.err = FALSE
            /\ arrived.whole => reason.pb.index <= ends[2]
<1> DEFINE items  == PoolItems(form)
           start  == BeginRead(arrived.pb)
           data   == start.data
           code   == ReadU32(start)
           reason == ReadString(code.pb, MaxReason)
           text   == form.reason
           last   == IF form.op = "AUTH_ACK" THEN U8(form.algorithm) ELSE U32(form.value)
<1>1. /\ Len(items) \in Nat /\ \A i \in 1 .. Len(items) : FitsItem(items[i])
      /\ IsEnds(ends, items)
      /\ size \in Nat /\ size >= 4 /\ size <= ends[Len(items)]
      /\ arrived.whole \in BOOLEAN /\ (arrived.whole <=> size = ends[Len(items)])
      /\ data \in [1 .. size -> Byte] /\ start \in Reader(data, size)
      /\ Supplies(data, size, items, ends)
  BY DEF Arrival
<1>0. start.index = 4
  BY DEF Arrival
<1>2. items = <<U32(form.code), Text(text, MaxReason), last>> /\ Len(items) = 3
  BY DEF PoolItems
<1>3. form.code \in Nat /\ form.code <= MaxU32 /\ IsText(text, MaxReason)
  <2>1. WellFormed(form) /\ MaxU32 \in Nat
    BY HandlersAssumption, BaseAssumption DEF MaxU32
  <2> QED
    BY <2>1 DEF WellFormed
<1> HIDE DEF items, start, data
<1>4. items[1] = U32(form.code) /\ items[2] = Text(text, MaxReason)
      /\ 1 \in 1 .. Len(items) /\ 2 \in 1 .. Len(items) /\ 3 \in 1 .. Len(items)
  BY <1>2
<1>5. /\ ends[0] = 4
      /\ ends[1] = 4 + Len(Encoded(items[1])) /\ Len(Encoded(items[1])) \in Nat
      /\ ends[2] = ends[1] + Len(Encoded(items[2])) /\ Len(Encoded(items[2])) \in Nat
      /\ ends[3] = ends[2] + Len(Encoded(items[3])) /\ Len(Encoded(items[3])) \in Nat
  <2>1. \A i \in 1 .. Len(items) : IsItem(items[i])
    BY <1>1 DEF FitsItem
  <2>2. Len(items) \in 1 .. 3 /\ Len(items) >= 2 /\ Len(items) = 3
    BY <1>2
  <2> QED
    BY <1>1, <2>1, <2>2, FirstEnds
<1>6. /\ code.pb \in Reader(data, size)
      /\ ends[1] <= size => /\ code.pb.index = ends[1] /\ code.pb.err = FALSE
                            /\ code.got = form.code
      /\ ~(ends[1] <= size) => code.pb.err = TRUE /\ At(code.pb, size)
  <2> DEFINE i     == 1
             n     == 4
             bytes == Digits(form.code, 4)
             r     == ReadNumber(start, n)
  <2>1. i \in 1 .. Len(items) /\ n \in Nat /\ At(start, ends[i - 1])
    BY <1>0, <1>1, <1>4, <1>5 DEF At
  <2>2. Says(items[i], bytes)
    BY <1>3, <1>4, NumberItems DEF Says
  <2>3. bytes \in [1 .. n -> Byte]
    BY <1>3, DigitsType
  <2>5. Number(bytes) = form.code
    BY <1>3, NumberReadsBack
  <2> HIDE DEF i, n, bytes
  <2>4. /\ r.pb \in Reader(data, size)
        /\ ends[i] = ends[i - 1] + n
        /\ r.got = IF ends[i] <= size THEN Number(bytes) ELSE 0
        /\ r.pb.index = IF ends[i] <= size THEN ends[i] ELSE size
        /\ r.pb.err = IF ends[i] <= size THEN FALSE ELSE TRUE
    BY <1>1, <2>1, <2>2, <2>3, NumberArrives
  <2> HIDE DEF r
  <2>6. r = code
    BY DEF r, n, ReadU32
  <2> QED
    BY <2>4, <2>5, <2>6 DEF i, At
<1> HIDE DEF code
<1>7. code.pb.err \in BOOLEAN /\ (code.pb.err = FALSE <=> ends[1] <= size)
  <2>1. code.pb.err \in BOOLEAN
    BY <1>6, ReaderFields
  <2> QED
    BY <1>6, <2>1
<1>8. arrived.whole => ends[1] <= size /\ ends[2] <= size
  BY <1>1, <1>2, <1>5
<1>9. ASSUME ends[1] <= size
      PROVE  /\ reason.pb \in Reader(data, size)
             /\ reason.pb.err = FALSE => /\ reason.pb.index = ends[2]
                                         /\ Session!Readable(text, MaxReason)
             /\ ends[2] <= size /\ Session!Readable(text, MaxReason) => reason.pb.err = FALSE
             /\ ends[2] <= size => reason.pb.index <= ends[2]
  <2> DEFINE i == 2
  <2>1. i \in 1 .. Len(items) /\ MaxReason \in 1 .. MaxU16
        /\ Says(items[i], Encoded(Text(text, MaxReason)))
    BY <1>4, HandlersAssumption DEF Says
  <2>2. At(code.pb, ends[i - 1])
    BY <1>6, <1>9 DEF At
  <2> HIDE DEF i
  <2> DEFINE after == ReadString(code.pb, MaxReason).pb
  <2>3. /\ after \in Reader(data, size)
        /\ after.err = FALSE => after.index = ends[i] /\ ends[i] <= size
                                /\ Session!Readable(text, MaxReason)
        /\ ends[i] <= size /\ Session!Readable(text, MaxReason) => after.err = FALSE
        /\ ends[i] <= size => after.index <= ends[i]
    BY <1>1, <1>3, <1>6, <2>1, <2>2, TextArrives
  <2> HIDE DEF after
  <2> QED
    BY <2>3 DEF after, i
<1>10. reason.pb.err \in BOOLEAN
  <2>1. reason.pb \in Reader(data, size)
    <3>1. CASE ends[1] <= size
      BY <1>9, <3>1
    <3>2. CASE ~(ends[1] <= size)
      <4>1. At(code.pb, size) /\ MaxReason \in 1 .. MaxU16
        BY <1>6, <3>2, HandlersAssumption
      <4> QED
        BY <1>1, <1>3, <1>6, <4>1, TextMissing
    <3> QED
      BY <3>1, <3>2
  <2> HIDE DEF reason
  <2> QED
    BY <2>1, ReaderFields
<1> HIDE DEF reason
<1> QED
  BY <1>6, <1>7, <1>8, <1>9, <1>10 DEF start, data, code, reason

(* Reading the last item of an answer: the algorithm is 0 when it was cut  *)
(* off, and a share's value can be read from any whole packet.             *)
LEMMA LoginStep ==
  ASSUME NEW arrived, NEW form \in Forms, NEW ends, NEW size, Arrival(arrived, form, ends, size),
         form.op = "AUTH_ACK", AuthResponse(arrived.pb)
  PROVE  Session!Login(form, arrived.whole) \/ Session!Drop(form, arrived.whole)
<1> DEFINE start  == BeginRead(arrived.pb)
           code   == ReadU32(start)
           reason == ReadString(code.pb, MaxReason)
           ok     == code.pb.err = FALSE /\ reason.pb.err = FALSE /\ code.got = 0
<1>1. /\ code.pb.err \in BOOLEAN /\ reason.pb.err \in BOOLEAN
      /\ code.pb.err = FALSE => code.got = form.code /\ reason.pb \in Reader(start.data, size)
      /\ arrived.whole => code.pb.err = FALSE
      /\ code.pb.err = FALSE /\ reason.pb.err = FALSE =>
           reason.pb.index = ends[2] /\ Session!Readable(form.reason, MaxReason)
      /\ arrived.whole /\ Session!Readable(form.reason, MaxReason) => reason.pb.err = FALSE
      /\ arrived.whole => reason.pb.index <= ends[2]
  BY AnswerReads
<1>2. IF ~ok
      THEN DropClient
      ELSE /\ loggedIn' = TRUE /\ algorithm' = ReadU8(reason.pb).got /\ ping' = "waiting"
           /\ UNCHANGED <<hasWork, work, rejected, dropped>>
  <2>1. ~ok <=> code.pb.err \/ reason.pb.err \/ code.got # 0
    <3> HIDE DEF code, reason
    <3> QED
      BY <1>1
  <2> HIDE DEF ok
  <2> QED
    BY <2>1 DEF AuthResponse
<1> HIDE DEF code, reason, start
<1>3. CASE ~ok
  <2>1. arrived.whole => ~(form.code = 0 /\ Session!Readable(form.reason, MaxReason))
    BY <1>1, <1>3
  <2>2. dropped' = TRUE /\ UNCHANGED <<loggedIn, algorithm, hasWork, work, rejected>>
    BY <1>2, <1>3 DEF DropClient
  <2> QED
    BY <2>1, <2>2 DEF Session!Drop
<1>4. CASE ok
  <2>1. ReadU8(reason.pb).got = IF arrived.whole THEN form.algorithm ELSE 0
    <3> DEFINE items == PoolItems(form)
               data  == start.data
               i     == 3
               n     == 1
               bytes == Digits(form.algorithm, 1)
               pb    == reason.pb
               r     == ReadNumber(pb, n)
    <3>1. /\ Len(items) \in Nat /\ \A k \in 1 .. Len(items) : FitsItem(items[k])
          /\ IsEnds(ends, items)
          /\ size \in Nat /\ size >= 4 /\ size <= ends[Len(items)]
          /\ data \in [1 .. size -> Byte] /\ Supplies(data, size, items, ends)
      BY DEF Arrival, start
    <3>2. items = <<U32(form.code), Text(form.reason, MaxReason), U8(form.algorithm)>>
          /\ Len(items) = 3
      BY DEF PoolItems
    <3>3. form.algorithm \in Nat /\ form.algorithm <= MaxU8
      <4>1. WellFormed(form)
        BY HandlersAssumption
      <4>2. form.algorithm \in Byte
        BY <4>1 DEF WellFormed
      <4> QED
        BY <4>2, BaseAssumption DEF Byte, MaxU8
    <3> HIDE DEF items, data
    <3>4. i \in 1 .. Len(items) /\ n \in Nat /\ At(pb, ends[i - 1])
      BY <1>1, <1>4, <3>2 DEF At
    <3>5. Says(items[i], bytes)
      BY <3>2, <3>3, NumberItems DEF Says
    <3>6. bytes \in [1 .. n -> Byte]
      BY <3>3, DigitsType
    <3>7. Number(bytes) = form.algorithm
      BY <3>3, NumberReadsBack
    <3>8. pb \in Reader(data, size)
      BY <1>1, <1>4 DEF data
    <3> HIDE DEF i, n, bytes, pb
    <3>9. /\ r.pb \in Reader(data, size)
          /\ ends[i] = ends[i - 1] + n
          /\ r.got = IF ends[i] <= size THEN Number(bytes) ELSE 0
          /\ r.pb.index = IF ends[i] <= size THEN ends[i] ELSE size
          /\ r.pb.err = IF ends[i] <= size THEN FALSE ELSE TRUE
      <4>1. /\ size \in Nat /\ data \in [1 .. size -> Byte]
            /\ Len(items) \in Nat /\ IsEnds(ends, items) /\ Supplies(data, size, items, ends)
        BY <3>1
      <4> QED
        BY <4>1, <3>4, <3>5, <3>6, <3>8, NumberArrives, ZenonT(60)
    <3> HIDE DEF r
    <3>10. r = ReadU8(reason.pb)
      BY DEF r, n, pb, ReadU8
    <3>11. ends[i] <= size <=> arrived.whole
      <4>1. i = Len(items) /\ ends[i] \in Nat
        BY <3>1, <3>2, <3>4 DEF i, IsEnds
      <4>2. arrived.whole <=> size = ends[Len(items)]
        BY DEF Arrival, items
      <4> QED
        BY <3>1, <4>1, <4>2
    <3> QED
      BY <3>7, <3>9, <3>10, <3>11
  <2>2. form.code = 0 /\ Session!Readable(form.reason, MaxReason)
    BY <1>1, <1>4
  <2>3. loggedIn' = TRUE /\ algorithm' = ReadU8(reason.pb).got
        /\ UNCHANGED <<hasWork, work, rejected, dropped>>
    BY <1>2, <1>4
  <2>4. algorithm' = IF arrived.whole THEN form.algorithm ELSE 0
    BY <2>1, <2>3
  <2> QED
    BY <2>2, <2>3, <2>4 DEF Session!Login
<1> QED
  BY <1>3, <1>4

LEMMA ShareStep ==
  ASSUME NEW arrived, NEW form \in Forms, NEW ends, NEW size, Arrival(arrived, form, ends, size),
         form.op = "SHARE_ACK", ShareAck(arrived.pb), rejected \in Nat
  PROVE  \/ Session!Drop(form, arrived.whole) \/ Session!RejectShare(form)
         \/ Session!Ignore(form, arrived.whole)
<1> DEFINE start  == BeginRead(arrived.pb)
           code   == ReadU32(start)
           reason == ReadString(code.pb, MaxReason)
           value  == ReadFloat(reason.pb)
           ok     == code.pb.err = FALSE /\ value.pb.err = FALSE
<1>1. /\ code.pb.err \in BOOLEAN /\ reason.pb.err \in BOOLEAN
      /\ code.pb.err = FALSE => code.got = form.code /\ reason.pb \in Reader(start.data, size)
      /\ arrived.whole => code.pb.err = FALSE
      /\ code.pb.err = FALSE /\ reason.pb.err = FALSE =>
           reason.pb.index = ends[2] /\ Session!Readable(form.reason, MaxReason)
      /\ arrived.whole /\ Session!Readable(form.reason, MaxReason) => reason.pb.err = FALSE
      /\ arrived.whole => reason.pb.index <= ends[2]
  BY AnswerReads
<1>2. IF code.pb.err \/ value.pb.err
      THEN DropClient
      ELSE /\ rejected' = IF code.got = 0 THEN rejected ELSE rejected + 1
           /\ rejected' <= MaxRejected
           /\ UNCHANGED <<loggedIn, algorithm, hasWork, work, dropped, ping>>
  BY DEF ShareAck
<1> HIDE DEF code, reason, start
<1>3. code.pb.err = FALSE => value.pb.err \in BOOLEAN /\ (arrived.whole => value.pb.err = FALSE)
  <2> SUFFICES ASSUME code.pb.err = FALSE
               PROVE  value.pb.err \in BOOLEAN /\ (arrived.whole => value.pb.err = FALSE)
    OBVIOUS
  <2> DEFINE items == PoolItems(form)
             data  == start.data
             n     == 4
             next  == Advance(reason.pb, n)
  <2>1. /\ Len(items) \in Nat /\ \A k \in 1 .. Len(items) : FitsItem(items[k])
        /\ IsEnds(ends, items) /\ size \in Nat
    BY DEF Arrival, start
  <2>2. arrived.whole <=> size = ends[Len(items)]
    BY DEF Arrival
  <2>3. items = <<U32(form.code), Text(form.reason, MaxReason), U32(form.value)>>
        /\ Len(items) = 3
    BY DEF PoolItems
  <2>4. form.value \in Nat
    <3>1. WellFormed(form) /\ MaxU32 \in Nat
      BY HandlersAssumption, BaseAssumption DEF MaxU32
    <3> QED
      BY <3>1 DEF WellFormed
  <2> HIDE DEF items, data
  <2>5. reason.pb \in Reader(data, size) /\ reason.pb.index \in Nat
    <3>1. reason.pb \in Reader(data, size)
      BY <1>1 DEF data
    <3>2. reason.pb.index \in 4 .. size
      BY <3>1, ReaderFields
    <3> QED
      BY <2>1, <3>1, <3>2
  <2>6. ends[3] = ends[2] + 4 /\ ends[2] \in Nat
    <3>1. items[3] = U32(form.value) /\ Len(items) \in 1 .. 3 /\ Len(items) = 3
      BY <2>3
    <3>2. \A k \in 1 .. Len(items) : IsItem(items[k])
      BY <2>1 DEF FitsItem
    <3>3. ends[3] = ends[2] + Len(Encoded(items[3])) /\ Len(Encoded(items[3])) \in Nat
      BY <2>1, <3>1, <3>2, FirstEnds
    <3>4. Len(Encoded(items[3])) = 4
      BY <2>4, <3>1, NumberItems
    <3>5. ends[2] \in Nat
      BY <2>1, <3>1 DEF IsEnds
    <3> QED
      BY <3>3, <3>4, <3>5
  <2>7. /\ next \in Reader(data, size)
        /\ Fits(reason.pb, n) <=> reason.pb.index + n <= size
        /\ Fits(reason.pb, n) => next.index = reason.pb.index + n /\ next.err = FALSE
        /\ ~Fits(reason.pb, n) => next.index = size /\ next.err = TRUE
    <3>1. n \in Nat
      OBVIOUS
    <3> HIDE DEF n, next
    <3>2. /\ Advance(reason.pb, n) \in Reader(data, size)
          /\ Fits(reason.pb, n) <=> reason.pb.index + n <= size
          /\ Fits(reason.pb, n) =>
               Advance(reason.pb, n).index = reason.pb.index + n /\ Advance(reason.pb, n).err = FALSE
          /\ ~Fits(reason.pb, n) =>
               Advance(reason.pb, n).index = size /\ Advance(reason.pb, n).err = TRUE
      BY <2>1, <2>5, <3>1, AdvanceGives
    <3> QED
      BY <3>2 DEF next
  <2>8. value.pb = next
    BY DEF ReadFloat, ReadNumber
  <2> HIDE DEF next, value
  <2>9. next.err \in BOOLEAN
    BY <2>7
  <2>10. arrived.whole => reason.pb.index + n <= size
    BY <1>1, <2>2, <2>3, <2>5, <2>6
  <2> QED
    BY <2>7, <2>8, <2>9, <2>10
<1> HIDE DEF value
<1>4. CASE ~ok
  <2>1. ~arrived.whole
    BY <1>1, <1>3, <1>4
  <2>2. code.pb.err \/ value.pb.err
    BY <1>1, <1>3, <1>4
  <2>3. dropped' = TRUE /\ UNCHANGED <<loggedIn, algorithm, hasWork, work, rejected>>
    BY <1>2, <2>2 DEF DropClient
  <2> QED
    BY <2>1, <2>3 DEF Session!Drop
<1>5. CASE ok
  <2>1. ~(code.pb.err \/ value.pb.err)
    BY <1>5
  <2>2. code.got = form.code
    BY <1>1, <1>5
  <2>3. /\ rejected' = IF form.code = 0 THEN rejected ELSE rejected + 1
        /\ rejected' <= MaxRejected
        /\ UNCHANGED <<loggedIn, algorithm, hasWork, work, dropped>>
    BY <1>2, <2>1, <2>2
  <2>4. MaxRejected \in Nat
    BY HandlersAssumption
  <2> QED
    BY <2>3, <2>4 DEF Session!RejectShare, Session!Ignore, Session!Quiet
<1> QED
  BY <1>4, <1>5

LEMMA MessageStep ==
  ASSUME NEW arrived, NEW form \in Forms, NEW ends, NEW size, Arrival(arrived, form, ends, size),
         form.op = "MESSAGE", Message(arrived.pb)
  PROVE  Session!Drop(form, arrived.whole) \/ Session!Ignore(form, arrived.whole)
<1> DEFINE items == PoolItems(form)
           start == BeginRead(arrived.pb)
           data  == start.data
           type  == ReadU8(start)
           text  == ReadString(type.pb, MaxText)
<1>1. /\ Len(items) \in Nat /\ \A i \in 1 .. Len(items) : FitsItem(items[i])
      /\ IsEnds(ends, items)
      /\ size \in Nat /\ size >= 4 /\ size <= ends[Len(items)]
      /\ data \in [1 .. size -> Byte] /\ start \in Reader(data, size)
      /\ Supplies(data, size, items, ends)
  BY DEF Arrival
<1>2. start.index = 4
  BY DEF Arrival
<1>3. arrived.whole \in BOOLEAN /\ (arrived.whole <=> size = ends[Len(items)])
  BY DEF Arrival
<1>4. items = <<U8(form.type), Text(form.text, MaxText)>> /\ Len(items) = 2
  BY DEF PoolItems
<1>5. form.type \in Nat /\ IsText(form.text, MaxText)
  <2>1. WellFormed(form) /\ \A v \in Byte : v \in Nat
    BY HandlersAssumption, BaseAssumption DEF Byte
  <2> QED
    BY <2>1 DEF WellFormed
<1>6. IF type.pb.err \/ text.pb.err THEN DropClient ELSE Accept
  BY DEF Message
<1> HIDE DEF items, start, data
<1>7. /\ ends[0] = 4
      /\ ends[1] = 4 + Len(Encoded(items[1])) /\ Len(Encoded(items[1])) \in Nat
      /\ ends[2] = ends[1] + Len(Encoded(items[2])) /\ Len(Encoded(items[2])) \in Nat
  <2>1. \A i \in 1 .. Len(items) : IsItem(items[i])
    BY <1>1 DEF FitsItem
  <2>2. Len(items) \in 1 .. 3 /\ Len(items) >= 2
    BY <1>4
  <2> QED
    BY <1>1, <2>1, <2>2, FirstEnds
<1>8. /\ type.pb \in Reader(data, size)
      /\ type.pb.index = IF ends[1] <= size THEN ends[1] ELSE size
      /\ type.pb.err = IF ends[1] <= size THEN FALSE ELSE TRUE
  <2> DEFINE i     == 1
             n     == 1
             bytes == Digits(form.type, 1)
             r     == ReadNumber(start, n)
  <2>1. i \in 1 .. Len(items) /\ n \in Nat /\ At(start, ends[i - 1])
    BY <1>2, <1>4, <1>7 DEF At
  <2>2. Says(items[i], bytes)
    BY <1>4, <1>5, NumberItems DEF Says
  <2>3. bytes \in [1 .. n -> Byte]
    BY <1>5, DigitsType
  <2> HIDE DEF i, n, bytes
  <2>4. /\ r.pb \in Reader(data, size)
        /\ ends[i] = ends[i - 1] + n
        /\ r.got = IF ends[i] <= size THEN Number(bytes) ELSE 0
        /\ r.pb.index = IF ends[i] <= size THEN ends[i] ELSE size
        /\ r.pb.err = IF ends[i] <= size THEN FALSE ELSE TRUE
    BY <1>1, <2>1, <2>2, <2>3, NumberArrives, ZenonT(60)
  <2> HIDE DEF r
  <2>5. r = type
    BY DEF r, n, ReadU8
  <2> HIDE DEF type
  <2> QED
    BY <2>4, <2>5 DEF i
<1> HIDE DEF type
<1>9. MaxText \in 1 .. MaxU16
  BY HandlersAssumption
<1>10. ASSUME ends[1] <= size
       PROVE  /\ text.pb \in Reader(data, size)
              /\ text.pb.err = FALSE => ends[2] <= size /\ Session!Readable(form.text, MaxText)
              /\ ends[2] <= size /\ Session!Readable(form.text, MaxText) => text.pb.err = FALSE
  <2> DEFINE i     == 2
             pb    == type.pb
             txt   == form.text
             after == ReadString(pb, MaxText).pb
  <2>1. i \in 1 .. Len(items) /\ IsText(txt, MaxText)
        /\ Says(items[i], Encoded(Text(txt, MaxText)))
    BY <1>4, <1>5 DEF Says
  <2>2. At(pb, ends[i - 1]) /\ pb \in Reader(data, size)
    BY <1>8, <1>10 DEF At
  <2> HIDE DEF i, pb, txt
  <2>3. /\ after \in Reader(data, size)
        /\ after.err = FALSE => after.index = ends[i] /\ ends[i] <= size
                                /\ Session!Readable(txt, MaxText)
        /\ ends[i] <= size /\ Session!Readable(txt, MaxText) => after.err = FALSE
        /\ ends[i] <= size => after.index <= ends[i]
    BY <1>1, <1>9, <2>1, <2>2, TextArrives
  <2> HIDE DEF after
  <2>4. after = text.pb
    BY DEF after, pb
  <2> HIDE DEF text
  <2> QED
    BY <2>3, <2>4 DEF i, txt
<1> DEFINE ok == type.pb.err = FALSE /\ text.pb.err = FALSE
<1>11. type.pb.err \in BOOLEAN /\ text.pb.err \in BOOLEAN
  <2>1. type.pb.err \in BOOLEAN
    BY <1>8
  <2>2. text.pb \in Reader(data, size)
    <3>1. CASE ~(ends[1] <= size)
      <4>1. At(type.pb, size)
        BY <1>8, <3>1 DEF At
      <4> QED
        BY <1>1, <1>5, <1>8, <1>9, <4>1, TextMissing
    <3> QED
      BY <1>10, <3>1
  <2> HIDE DEF text
  <2>3. text.pb.err \in BOOLEAN
    BY <2>2, ReaderFields
  <2> QED
    BY <2>1, <2>3
<1>12. ~ok <=> type.pb.err \/ text.pb.err
  <2> HIDE DEF text
  <2> QED
    BY <1>11
<1> HIDE DEF text
<1>13. arrived.whole <=> ends[2] <= size
  BY <1>1, <1>3, <1>4, <1>7
<1>14. ends[2] <= size => ends[1] <= size
  BY <1>1, <1>7
<1>15. CASE ok
  <2>1. arrived.whole /\ Session!Readable(form.text, MaxText)
    <3>1. ends[1] <= size
      BY <1>8, <1>15
    <3> QED
      BY <1>10, <1>13, <1>15, <3>1
  <2>2. Session!Quiet
    BY <1>6, <1>12, <1>15 DEF Accept, Session!Quiet
  <2> QED
    BY <2>1, <2>2 DEF Session!Ignore
<1>16. CASE ~ok
  <2>1. arrived.whole => ~Session!Readable(form.text, MaxText)
    <3> SUFFICES ASSUME arrived.whole, Session!Readable(form.text, MaxText) PROVE FALSE
      OBVIOUS
    <3>1. ends[2] <= size /\ ends[1] <= size
      BY <1>13, <1>14
    <3>2. type.pb.err = FALSE
      BY <1>8, <3>1
    <3> QED
      BY <1>10, <1>16, <3>1, <3>2
  <2>2. dropped' = TRUE /\ UNCHANGED <<loggedIn, algorithm, hasWork, work, rejected>>
    BY <1>6, <1>12, <1>16 DEF DropClient
  <2> QED
    BY <2>1, <2>2 DEF Session!Drop
<1> QED
  BY <1>15, <1>16

LEMMA PingStep ==
  ASSUME NEW arrived, NEW form \in Forms, NEW ends, NEW size, Arrival(arrived, form, ends, size),
         form.op = "PING", Ping(arrived.pb)
  PROVE  Session!Drop(form, arrived.whole) \/ Session!Ignore(form, arrived.whole)
<1> DEFINE items == PoolItems(form)
           start == BeginRead(arrived.pb)
           data  == start.data
           time  == ReadU64(start)
<1>1. /\ Len(items) \in Nat /\ \A i \in 1 .. Len(items) : FitsItem(items[i])
      /\ IsEnds(ends, items)
      /\ size \in Nat /\ size >= 4 /\ size <= ends[Len(items)]
      /\ data \in [1 .. size -> Byte] /\ start \in Reader(data, size)
      /\ Supplies(data, size, items, ends)
  BY DEF Arrival
<1>2. start.index = 4
  BY DEF Arrival
<1>3. arrived.whole \in BOOLEAN /\ (arrived.whole <=> size = ends[Len(items)])
  BY DEF Arrival
<1>4. items = <<U64(form.timestamp)>> /\ Len(items) = 1
  BY DEF PoolItems
<1>5. form.timestamp \in Nat
  <2>1. WellFormed(form)
    BY HandlersAssumption
  <2> QED
    BY <2>1 DEF WellFormed
<1>6. IF time.pb.err THEN DropClient ELSE Accept
  BY DEF Ping
<1> HIDE DEF items, start, data
<1>7. ends[0] = 4 /\ ends[1] \in Nat
  BY <1>1, <1>4 DEF IsEnds
<1>8. time.pb.err = IF ends[1] <= size THEN FALSE ELSE TRUE
  <2> DEFINE i     == 1
             n     == 8
             bytes == Digits(form.timestamp, 8)
             r     == ReadNumber(start, n)
  <2>1. i \in 1 .. Len(items) /\ n \in Nat /\ At(start, ends[i - 1])
    BY <1>2, <1>4, <1>7 DEF At
  <2>2. Says(items[i], bytes)
    BY <1>4, <1>5, NumberItems DEF Says
  <2>3. bytes \in [1 .. n -> Byte]
    BY <1>5, DigitsType
  <2> HIDE DEF i, n, bytes
  <2>4. /\ r.pb \in Reader(data, size)
        /\ ends[i] = ends[i - 1] + n
        /\ r.got = IF ends[i] <= size THEN Number(bytes) ELSE 0
        /\ r.pb.index = IF ends[i] <= size THEN ends[i] ELSE size
        /\ r.pb.err = IF ends[i] <= size THEN FALSE ELSE TRUE
    BY <1>1, <2>1, <2>2, <2>3, NumberArrives, ZenonT(60)
  <2> HIDE DEF r
  <2>5. r = time
    BY DEF r, n, ReadU64
  <2> HIDE DEF time
  <2> QED
    BY <2>4, <2>5 DEF i
<1> HIDE DEF time
<1>9. arrived.whole <=> ends[1] <= size
  BY <1>1, <1>3, <1>4, <1>7
<1>10. CASE ends[1] <= size
  <2>1. arrived.whole /\ Session!Quiet
    BY <1>6, <1>8, <1>9, <1>10 DEF Accept, Session!Quiet
  <2> QED
    BY <2>1 DEF Session!Ignore
<1>11. CASE ~(ends[1] <= size)
  <2>1. ~arrived.whole /\ dropped' = TRUE
        /\ UNCHANGED <<loggedIn, algorithm, hasWork, work, rejected>>
    BY <1>6, <1>8, <1>9, <1>11 DEF DropClient
  <2> QED
    BY <2>1 DEF Session!Drop
<1> QED
  BY <1>10, <1>11

-----------------------------------------------------------------------------
(* Block data *)

LEMMA FieldsRead ==
  ASSUME NEW r
  PROVE  \E fields : /\ fields[0] = r
                     /\ \A i \in 1 .. 13 : fields[i] = ReadField(fields[i - 1], WorkFields[i])
                     /\ ReadFields(r) = fields[13]
<1> DEFINE next(g, i) == IF i = 0 THEN r ELSE ReadField(g[i - 1], WorkFields[i])
           Rec(g, m)  == g = [i \in 0 .. m |-> next(g, i)]
           S          == {m \in Nat : \E g : Rec(g, m)}
<1>1. 0 \in S
  <2> DEFINE g == [i \in 0 .. 0 |-> r]
  <2>1. Rec(g, 0)
    OBVIOUS
  <2> HIDE DEF Rec
  <2> QED
    BY <2>1
<1>2. ASSUME NEW m \in S \cap Nat PROVE m + 1 \in S
  <2>1. PICK g : Rec(g, m)
    BY <1>2
  <2>2. \A i \in 0 .. m : g[i] = next(g, i)
    BY <2>1
  <2> DEFINE h == [i \in 0 .. m + 1 |-> IF i <= m THEN g[i] ELSE ReadField(g[m], WorkFields[m + 1])]
  <2>3. ASSUME NEW i \in 0 .. m + 1 PROVE h[i] = next(h, i)
    <3>1. CASE i = 0
      <4>1. i \in 0 .. m /\ i <= m
        BY <1>2, <3>1
      <4>2. h[i] = g[i] /\ g[i] = r
        BY <2>2, <3>1, <4>1
      <4> QED
        BY <3>1, <4>2
    <3>2. CASE i # 0 /\ i <= m
      <4>1. i \in 0 .. m /\ i - 1 \in 0 .. m + 1 /\ i - 1 <= m
        BY <1>2, <3>2
      <4>2. h[i] = g[i] /\ h[i - 1] = g[i - 1]
        BY <3>2, <4>1
      <4>3. g[i] = ReadField(g[i - 1], WorkFields[i])
        BY <2>2, <3>2, <4>1
      <4> HIDE DEF h
      <4> QED
        BY <3>2, <4>2, <4>3
    <3>3. CASE i = m + 1
      <4>1. i # 0 /\ ~(i <= m) /\ i - 1 = m /\ m \in 0 .. m + 1 /\ m <= m
        BY <1>2, <3>3
      <4>2. h[i] = ReadField(g[m], WorkFields[i]) /\ h[m] = g[m]
        BY <3>3, <4>1
      <4> HIDE DEF h
      <4> QED
        BY <4>1, <4>2
    <3> QED
      BY <1>2, <3>1, <3>2, <3>3
  <2>4. Rec(h, m + 1)
    <3>1. h = [i \in 0 .. m + 1 |-> h[i]]
      OBVIOUS
    <3> HIDE DEF h
    <3> QED
      BY <2>3, <3>1
  <2> HIDE DEF Rec, h
  <2> QED
    BY <1>2, <2>4
<1>3. 13 \in S
  <2> HIDE DEF S
  <2>1. Nat \subseteq S
    BY <1>1, <1>2, SetInduction
  <2> QED
    BY <2>1
<1>4. Len(WorkFields) = 13
  BY FieldNames
<1>5. \E g : Rec(g, 13)
  <2> HIDE DEF Rec
  <2> QED
    BY <1>3
<1>6. PICK g : Rec(g, 13) /\ ReadFields(r) = g[13]
  BY <1>4, <1>5 DEF ReadFields
<1>7. \A i \in 0 .. 13 : g[i] = next(g, i)
  BY <1>6
<1>8. g[0] = r /\ \A i \in 1 .. 13 : g[i] = ReadField(g[i - 1], WorkFields[i])
  BY <1>7
<1> HIDE DEF Rec
<1> QED
  BY <1>6, <1>8

LEMMA HashesRead ==
  ASSUME NEW r, NEW count \in Nat
  PROVE  \E hashes : /\ hashes[0] = r
                     /\ \A i \in 1 .. count : hashes[i] = ReadHash(hashes[i - 1], i)
                     /\ ReadHashes(r, count) = hashes[count]
<1> DEFINE next(g, i) == IF i = 0 THEN r ELSE ReadHash(g[i - 1], i)
           Rec(g, m)  == g = [i \in 0 .. m |-> next(g, i)]
           S          == {m \in Nat : \E g : Rec(g, m)}
<1>1. 0 \in S
  <2> DEFINE g == [i \in 0 .. 0 |-> r]
  <2>1. Rec(g, 0)
    OBVIOUS
  <2> HIDE DEF Rec
  <2> QED
    BY <2>1
<1>2. ASSUME NEW m \in S \cap Nat PROVE m + 1 \in S
  <2>1. PICK g : Rec(g, m)
    BY <1>2
  <2>2. \A i \in 0 .. m : g[i] = next(g, i)
    BY <2>1
  <2> DEFINE h == [i \in 0 .. m + 1 |-> IF i <= m THEN g[i] ELSE ReadHash(g[m], m + 1)]
  <2>3. ASSUME NEW i \in 0 .. m + 1 PROVE h[i] = next(h, i)
    <3>1. CASE i = 0
      <4>1. i \in 0 .. m /\ i <= m
        BY <1>2, <3>1
      <4>2. h[i] = g[i] /\ g[i] = r
        BY <2>2, <3>1, <4>1
      <4> QED
        BY <3>1, <4>2
    <3>2. CASE i # 0 /\ i <= m
      <4>1. i \in 0 .. m /\ i - 1 \in 0 .. m + 1 /\ i - 1 <= m
        BY <1>2, <3>2
      <4>2. h[i] = g[i] /\ h[i - 1] = g[i - 1]
        BY <3>2, <4>1
      <4>3. g[i] = ReadHash(g[i - 1], i)
        BY <2>2, <3>2, <4>1
      <4> HIDE DEF h
      <4> QED
        BY <3>2, <4>2, <4>3
    <3>3. CASE i = m + 1
      <4>1. i # 0 /\ ~(i <= m) /\ i - 1 = m /\ m \in 0 .. m + 1 /\ m <= m
        BY <1>2, <3>3
      <4>2. h[i] = ReadHash(g[m], i) /\ h[m] = g[m]
        BY <3>3, <4>1
      <4> HIDE DEF h
      <4> QED
        BY <4>1, <4>2
    <3> QED
      BY <1>2, <3>1, <3>2, <3>3
  <2>4. Rec(h, m + 1)
    <3>1. h = [i \in 0 .. m + 1 |-> h[i]]
      OBVIOUS
    <3> HIDE DEF h
    <3> QED
      BY <2>3, <3>1
  <2> HIDE DEF Rec, h
  <2> QED
    BY <1>2, <2>4
<1>3. count \in S
  <2> HIDE DEF S
  <2>1. Nat \subseteq S
    BY <1>1, <1>2, SetInduction
  <2> QED
    BY <2>1
<1>4. \E g : Rec(g, count)
  <2> HIDE DEF Rec
  <2> QED
    BY <1>3
<1>5. PICK g : Rec(g, count) /\ ReadHashes(r, count) = g[count]
  BY <1>4 DEF ReadHashes
<1>6. \A i \in 0 .. count : g[i] = next(g, i)
  BY <1>5
<1>7. g[0] = r /\ \A i \in 1 .. count : g[i] = ReadHash(g[i - 1], i)
  BY <1>6
<1> HIDE DEF Rec
<1> QED
  BY <1>5, <1>7

(* How far a packet was read: the first k items are in the part that came. *)
LEMMA CutAt ==
  ASSUME NEW items, Len(items) \in Nat, \A i \in 1 .. Len(items) : IsItem(items[i]),
         NEW ends, IsEnds(ends, items), NEW size \in Nat, size >= 4
  PROVE  \E k \in 0 .. Len(items) : \A j \in 0 .. Len(items) : ends[j] <= size <=> j <= k
<1> DEFINE L == Len(items)
           T == {j \in 0 .. L : ~(ends[j] <= size)}
<1>0. ends \in [0 .. L -> Nat] /\ ends[0] = 4
  BY DEF IsEnds
<1>1. ASSUME NEW i \in 0 .. L, NEW j \in 0 .. L, i <= j PROVE ends[i] <= ends[j]
  BY <1>1, EndsGrow
<1>2. CASE T = {}
  <2>1. \A j \in 0 .. L : ends[j] <= size <=> j <= L
    BY <1>2
  <2>2. L \in 0 .. L
    OBVIOUS
  <2> QED
    BY <2>1, <2>2
<1>3. CASE T # {}
  <2>1. PICK x \in T : \A y \in T : x <= y
    <3>1. T \in SUBSET Nat
      OBVIOUS
    <3> HIDE DEF T
    <3> QED
      BY <1>3, <3>1, Least
  <2>2. x # 0
    <3> SUFFICES ASSUME x = 0 PROVE FALSE
      OBVIOUS
    <3> QED
      BY <1>0, <2>1
  <2>3. x - 1 \in 0 .. L /\ x \in 0 .. L
    BY <2>1, <2>2
  <2>4. ASSUME NEW j \in 0 .. L PROVE ends[j] <= size <=> j <= x - 1
    <3>1. CASE j <= x - 1
      <4>1. j \notin T
        BY <2>1, <2>3, <3>1
      <4> QED
        BY <3>1, <4>1
    <3>2. CASE ~(j <= x - 1)
      <4>1. x <= j
        BY <2>3, <3>2
      <4>2. ends[x] <= ends[j] /\ ~(ends[x] <= size)
        BY <1>1, <2>1, <2>3, <4>1
      <4>3. ends[x] \in Nat /\ ends[j] \in Nat
        BY <1>0, <2>3
      <4> QED
        BY <3>2, <4>2, <4>3
    <3> QED
      BY <3>1, <3>2
  <2> QED
    BY <2>3, <2>4
<1> QED
  BY <1>2, <1>3

(* Block data is a record of numbers, arrays and hashes. *)
IsWorkInfo(w) ==
  /\ w = [name \in DOMAIN Blank |-> w[name]]
  /\ \A name \in Arrays : w[name] \in [DOMAIN Blank[name] -> Byte]
  /\ w.txHashes \in [1 .. MaxTx -> [1 .. HashSize -> Byte]]
  /\ \A name \in DOMAIN Blank \ (Arrays \cup {"txHashes"}) : w[name] \in Nat

LEMMA BlankNames ==
  /\ DOMAIN Blank = Arrays \cup Numbers \cup {"target", "targetShare", "txHashes"}
  /\ DOMAIN Blank["prevBlockHash"] = 1 .. HashSize /\ DOMAIN Blank["merkleRoot"] = 1 .. HashSize
  /\ DOMAIN Blank["coinBase1"] = 1 .. MaxCoinBase /\ DOMAIN Blank["coinBase2"] = 1 .. MaxCoinBase
<1>1. DOMAIN Blank = Arrays \cup Numbers \cup {"target", "targetShare", "txHashes"}
  BY DEF Blank, Arrays, Numbers
<1>2. DOMAIN Blank["prevBlockHash"] = 1 .. HashSize /\ DOMAIN Blank["merkleRoot"] = 1 .. HashSize
  BY DEF Blank, Zeros
<1>3. DOMAIN Blank["coinBase1"] = 1 .. MaxCoinBase /\ DOMAIN Blank["coinBase2"] = 1 .. MaxCoinBase
  BY DEF Blank, Zeros
<1> QED
  BY <1>1, <1>2, <1>3

LEMMA BlankType == IsWorkInfo(Blank)
<1>0. HashSize \in Nat /\ MaxCoinBase \in Nat /\ MaxTx \in Nat /\ 0 \in Byte
  BY HandlersAssumption, BaseAssumption DEF Byte, MaxU16, DataLimit
<1>1. Blank = [name \in DOMAIN Blank |-> Blank[name]]
  BY DEF Blank
<1>2. \A name \in Arrays : Blank[name] \in [DOMAIN Blank[name] -> Byte]
  <2>1. \A n \in Nat : Zeros(n) \in [1 .. n -> Byte]
    BY <1>0 DEF Zeros
  <2>2. /\ Blank["prevBlockHash"] = Zeros(HashSize) /\ Blank["merkleRoot"] = Zeros(HashSize)
        /\ Blank["coinBase1"] = Zeros(MaxCoinBase) /\ Blank["coinBase2"] = Zeros(MaxCoinBase)
    BY DEF Blank
  <2> QED
    BY <1>0, <2>1, <2>2, BlankNames DEF Arrays
<1>3. Blank.txHashes \in [1 .. MaxTx -> [1 .. HashSize -> Byte]]
  <2>1. Zeros(HashSize) \in [1 .. HashSize -> Byte]
    BY <1>0 DEF Zeros
  <2>2. Blank.txHashes = [i \in 1 .. MaxTx |-> Zeros(HashSize)]
    BY DEF Blank
  <2> QED
    BY <2>1, <2>2
<1>4. \A name \in DOMAIN Blank \ (Arrays \cup {"txHashes"}) : Blank[name] \in Nat
  <2>1. \A name \in Numbers \cup {"target", "targetShare"} : Blank[name] = 0
    BY DEF Blank, Numbers
  <2> QED
    BY <2>1, BlankNames
<1> QED
  BY <1>1, <1>2, <1>3, <1>4 DEF IsWorkInfo

(* The block data after i of its fields, when k parts of the packet came. *)
Partial(old, form, k, i) ==
  [name \in DOMAIN Blank |->
     IF name \in Arrays \cup Numbers /\ Session!Place[name] <= i
     THEN Session!Field(old, form, k, name) ELSE old[name]]

LEMMA FieldIs ==
  ASSUME NEW old, NEW form, NEW k, NEW name \in Arrays \cup Numbers
  PROVE  /\ name \in Arrays => Session!Field(old, form, k, name) =
              IF Session!Place[name] <= k THEN Copied(old[name], form[name]) ELSE old[name]
         /\ name \notin Arrays => Session!Field(old, form, k, name) =
              IF Session!Place[name] <= k THEN form[name] ELSE 0
<1>1. Session!Arrays = Arrays
  BY FieldNames
<1>2. CASE name \in Arrays
  BY <1>1, <1>2 DEF Session!Field, Session!Over, Copied
<1>3. CASE name \notin Arrays
  BY <1>1, <1>3 DEF Session!Field
<1> QED
  BY <1>2, <1>3

LEMMA PartialNext ==
  ASSUME NEW old, NEW form, NEW k, NEW i \in Nat, 1 <= i, i <= 13
  PROVE  Partial(old, form, k, i) =
           [Partial(old, form, k, i - 1) EXCEPT
              ![WorkFields[i]] = Session!Field(old, form, k, WorkFields[i])]
<1> DEFINE a == Partial(old, form, k, i)
           b == Partial(old, form, k, i - 1)
           last == WorkFields[i]
<1>1. last \in Arrays \cup Numbers /\ last \in DOMAIN Blank /\ Session!Place[last] = i
  BY FieldNames, BlankNames
<1>2. ASSUME NEW name \in DOMAIN Blank
      PROVE  a[name] = IF name = last THEN Session!Field(old, form, k, last) ELSE b[name]
  <2>1. CASE name = last
    BY <1>1, <2>1 DEF Partial
  <2>2. CASE name # last
    <3>1. name \in Arrays \cup Numbers => Session!Place[name] \in 1 .. 13 /\ Session!Place[name] # i
      <4> SUFFICES ASSUME name \in Arrays \cup Numbers
                   PROVE  Session!Place[name] \in 1 .. 13 /\ Session!Place[name] # i
        OBVIOUS
      <4>1. Session!Place[name] \in 1 .. 13 /\ WorkFields[Session!Place[name]] = name
        BY FieldNames
      <4> QED
        BY <2>2, <4>1
    <3>2. name \in Arrays \cup Numbers =>
            (Session!Place[name] <= i <=> Session!Place[name] <= i - 1)
      BY <3>1
    <3> QED
      BY <2>2, <3>2 DEF Partial
  <2> QED
    BY <2>1, <2>2
<1>3. a = [name \in DOMAIN Blank |-> a[name]] /\ b = [name \in DOMAIN Blank |-> b[name]]
  BY DEF Partial
<1> HIDE DEF a, b, last
<1>4. a = [b EXCEPT ![last] = Session!Field(old, form, k, last)]
  BY <1>1, <1>2, <1>3
<1> QED
  BY <1>4 DEF a, b, last

(* The first k of n parts are in the first size bytes. *)
Reached(k, n, ends, size) ==
  k \in 0 .. n /\ \A j \in 0 .. n : ends[j] <= size <=> j <= k

LEMMA Limits == \A n \in 0 .. 26 : n < DataLimit
<1>1. Base * Base \in Nat /\ Base * Base >= 9
  BY BaseAssumption
<1> DEFINE square == Base * Base
<1>2. square \in Nat /\ square >= 9 /\ DataLimit = square * Base
  BY <1>1 DEF DataLimit
<1> HIDE DEF square
<1>3. square * Base \in Nat /\ square * Base >= 27
  BY <1>2, BaseAssumption
<1> DEFINE cube == square * Base
<1> HIDE DEF cube
<1>4. cube >= 27 /\ DataLimit = cube /\ cube \in Nat
  BY <1>2, <1>3 DEF cube
<1> QED
  BY <1>4

LEMMA CopiedNothing ==
  ASSUME NEW T, NEW S, NEW array \in [S -> T]
  PROVE  Copied(array, <<>>) = array
BY DEF Copied

LEMMA PartialAt ==
  ASSUME NEW old, NEW form, NEW k, NEW i \in Nat, NEW name \in Arrays \cup Numbers
  PROVE  Partial(old, form, k, i - 1)[name] =
           IF Session!Place[name] <= i - 1 THEN Session!Field(old, form, k, name) ELSE old[name]
<1>1. name \in DOMAIN Blank
  BY BlankNames
<1> QED
  BY <1>1 DEF Partial

(* The size of an array is known when its bytes are read. *)
LEMMA SizeKnown ==
  ASSUME NEW form, IsWork(form), NEW old, NEW k \in Nat, NEW i \in 1 .. 13,
         WorkFields[i] \in Arrays
  PROVE  LET n == DataSize(Partial(old, form, k, i - 1), WorkFields[i])
         IN /\ n \in Nat /\ n < DataLimit
            /\ i - 1 <= k => n = Len(form[WorkFields[i]])
<1> DEFINE name == WorkFields[i]
           n    == DataSize(Partial(old, form, k, i - 1), name)
<1>1. Session!Place[name] = i /\ name \in Arrays
  BY FieldNames
<1>2. form[name] \in Seq(Byte) /\ Len(form[name]) \in Nat /\ Len(form[name]) < DataLimit
  BY <1>1, FieldValues
<1>3. 0 < DataLimit
  BY Limits
<1>4. CASE name \in {"prevBlockHash", "merkleRoot"}
  <2>1. form[name] \in Array(HashSize)
    BY <1>4, WorkForm
  <2>2. Len(form[name]) = HashSize
    BY <2>1, ArrayIsData
  <2>3. n = HashSize
    BY <1>4 DEF DataSize
  <2> QED
    BY <1>2, <2>2, <2>3
<1>5. CASE name \in {"coinBase1", "coinBase2"}
  <2> DEFINE size == IF name = "coinBase1" THEN "coinBase1Size" ELSE "coinBase2Size"
  <2>1. n = Partial(old, form, k, i - 1)[size]
    BY <1>5 DEF DataSize
  <2>2. size \in Numbers /\ size \in Arrays \cup Numbers /\ size \notin Arrays
        /\ Session!Place[size] = i - 1
    BY <1>1, <1>5 DEF Numbers, Session!Place, Arrays
  <2>3. form[size] = Len(form[name])
    BY <1>5, WorkForm
  <2> HIDE DEF name, n, size
  <2>4. n = Session!Field(old, form, k, size)
    BY <2>1, <2>2, PartialAt
  <2>5. n = IF i - 1 <= k THEN form[size] ELSE 0
    BY <2>2, <2>4, FieldIs
  <2> QED
    BY <1>2, <1>3, <2>3, <2>5 DEF n, name
<1> QED
  BY <1>1, <1>4, <1>5 DEF Arrays

IsData(data, size) == data \in [1 .. size -> Byte]
Read(r, old, form, k, i) == r.work = Partial(old, form, k, i)

LEMMA FieldStep ==
  ASSUME NEW form, IsWork(form), NEW old, IsWorkInfo(old),
         NEW size \in Nat, NEW data, IsData(data, size),
         NEW ends, IsEnds(ends, WorkItems(form)), Supplies(data, size, WorkItems(form), ends),
         NEW k, Reached(k, Len(WorkItems(form)), ends, size),
         NEW i \in 1 .. 13, NEW r, r.pb \in Reader(data, size),
         At(r.pb, IF i - 1 <= k THEN ends[i - 1] ELSE size),
         Read(r, old, form, k, i - 1)
  PROVE  LET after == ReadField(r, WorkFields[i])
         IN /\ after.pb \in Reader(data, size)
            /\ At(after.pb, IF i <= k THEN ends[i] ELSE size)
            /\ Read(after, old, form, k, i)
<1> DEFINE name  == WorkFields[i]
           items == WorkItems(form)
           after == ReadField(r, name)
           pb    == r.pb
           part  == Partial(old, form, k, i - 1)
<1>1. name \in Arrays \cup Numbers /\ Arrays \cap Numbers = {} /\ Session!Place[name] = i
  BY FieldNames
<1>2. /\ Len(items) \in Nat /\ i \in 1 .. Len(items) /\ FitsItem(items[i])
      /\ Len(Encoded(items[i])) = Size(form, name)
      /\ Encoded(items[i]) = IF name \in Arrays THEN form[name]
                             ELSE Digits(form[name], Size(form, name))
  <2> DEFINE t == Len(form.txHashes)
  <2>1. /\ t \in Nat /\ Len(items) = 13 + t
        /\ \A j \in 1 .. 13 + t : FitsItem(items[j])
        /\ \A j \in 1 .. 13 :
             /\ Len(Encoded(items[j])) = Size(form, WorkFields[j])
             /\ Encoded(items[j]) = IF WorkFields[j] \in Arrays THEN form[WorkFields[j]]
                                    ELSE Digits(form[WorkFields[j]], Size(form, WorkFields[j]))
    BY WorkFits
  <2> HIDE DEF t, items
  <2>3. t \in Nat
    BY <2>1
  <2>2. i \in 1 .. 13 + t /\ 13 + t \in Nat
    BY <2>3
  <2> QED
    BY <2>1, <2>2
<1>3. k \in Nat /\ (ends[i] <= size <=> i <= k)
  <2>1. i \in 0 .. Len(items)
    BY <1>2
  <2> HIDE DEF items
  <2> QED
    BY <1>2, <2>1 DEF Reached, items
<1>0. i \in Nat /\ 1 <= i /\ i <= 13
  OBVIOUS
<1>4. part[name] = old[name]
  <2>1. part[name] = IF Session!Place[name] <= i - 1 THEN Session!Field(old, form, k, name)
                     ELSE old[name]
    BY <1>0, <1>1, PartialAt
  <2> HIDE DEF part, name
  <2> QED
    BY <1>1, <2>1
<1>5. Partial(old, form, k, i) = [part EXCEPT ![name] = Session!Field(old, form, k, name)]
  <2>1. Partial(old, form, k, i) =
           [Partial(old, form, k, i - 1) EXCEPT
              ![WorkFields[i]] = Session!Field(old, form, k, WorkFields[i])]
    BY <1>0, PartialNext
  <2> QED
    BY <2>1
<1>6. pb \in Reader(data, size)
  OBVIOUS
<1>7. i - 1 <= k => At(pb, ends[i - 1])
  OBVIOUS
<1>8. ~(i - 1 <= k) => At(pb, size)
  OBVIOUS
<1>9. CASE name \in Arrays
  <2> DEFINE n     == DataSize(part, name)
             bytes == form[name]
             read  == ReadData(pb, n)
  <2>1. n \in Nat /\ n < DataLimit /\ (i - 1 <= k => n = Len(bytes))
    BY <1>3, <1>9, SizeKnown
  <2>2. bytes \in Seq(Byte) /\ Len(bytes) < DataLimit
    BY <1>9, FieldValues
  <2>3. Says(items[i], bytes)
    BY <1>2, <1>9 DEF Says
  <2>4. after = [pb |-> read.pb, work |-> [part EXCEPT ![name] = Copied(@, read.got)]]
    BY <1>9 DEF ReadField, Arrays, Read
  <2>5. old[name] \in [DOMAIN Blank[name] -> Byte]
    BY <1>9 DEF IsWorkInfo
  <2>6. Session!Field(old, form, k, name) = IF i <= k THEN Copied(old[name], bytes) ELSE old[name]
    BY <1>1, <1>9, FieldIs
  <2> HIDE DEF n, bytes, items, name, pb, part
  <2>7. /\ read.pb \in Reader(data, size)
        /\ read.pb.index = IF i <= k THEN ends[i] ELSE size
        /\ read.got = IF i <= k THEN bytes ELSE <<>>
    <3>1. CASE i - 1 <= k
      <4> DEFINE whole == ReadData(pb, Len(bytes))
      <4>1. At(pb, ends[i - 1])
        BY <1>7, <3>1
      <4>2. /\ whole.pb \in Reader(data, size)
            /\ ends[i] = ends[i - 1] + Len(bytes)
            /\ whole.got = IF ends[i] <= size THEN bytes ELSE <<>>
            /\ whole.pb.index = IF ends[i] <= size THEN ends[i] ELSE size
        BY <1>2, <1>6, <2>2, <2>3, <4>1, DataArrives DEF items, IsData
      <4>3. whole = read
        BY <2>1, <3>1
      <4> HIDE DEF whole, read
      <4> QED
        BY <1>3, <4>2, <4>3
    <3>2. CASE ~(i - 1 <= k)
      <4>1. At(pb, size)
        BY <1>8, <3>2
      <4>2. read.pb \in Reader(data, size) /\ read.pb.index = size /\ read.got = <<>>
        BY <1>6, <2>1, <4>1, ReadsNothing DEF IsData
      <4>3. ~(i <= k)
        BY <1>3, <3>2
      <4> HIDE DEF read
      <4> QED
        BY <4>2, <4>3
    <3> QED
      BY <3>1, <3>2
  <2>8. Copied(old[name], read.got) = Session!Field(old, form, k, name)
    <3>1. Copied(old[name], <<>>) = old[name]
      BY <2>5, CopiedNothing
    <3> HIDE DEF read
    <3> QED
      BY <2>6, <2>7, <3>1
  <2> HIDE DEF read
  <2>9. after.pb = read.pb
    BY <2>4
  <2>10. after.work = [part EXCEPT ![name] = Copied(part[name], read.got)]
    BY <2>4
  <2>11. after.work = Partial(old, form, k, i)
    BY <1>4, <1>5, <2>8, <2>10
  <2> HIDE DEF after
  <2>12. At(after.pb, IF i <= k THEN ends[i] ELSE size)
    BY <2>7, <2>9 DEF At
  <2> QED
    BY <2>7, <2>9, <2>11, <2>12 DEF after, name, Read
<1>10. CASE name \notin Arrays
  <2> DEFINE n     == Size(form, name)
             v     == form[name]
             bytes == Digits(v, n)
             read  == ReadNumber(pb, n)
  <2>1. name \in Numbers
    BY <1>1, <1>10
  <2>2. n = IF Wide(name) THEN 4 ELSE 2
    BY <1>10 DEF Size
  <2>0. n \in Nat /\ n > 0 /\ n < DataLimit
    BY <2>2, Limits
  <2>3. v \in Nat /\ v <= (IF Wide(name) THEN MaxU32 ELSE MaxU16)
    BY <2>1, FieldValues
  <2>4. Number(bytes) = v
    BY <2>0, <2>2, <2>3, NumberReadsBack
  <2>5. bytes \in [1 .. n -> Byte]
    BY <2>0, <2>3, DigitsType
  <2>6. Says(items[i], bytes)
    BY <1>2, <1>10 DEF Says
  <2>7. after = [pb |-> read.pb, work |-> [part EXCEPT ![name] = read.got]]
    BY <1>10, <2>2 DEF ReadField, Arrays, Read
  <2>8. Session!Field(old, form, k, name) = IF i <= k THEN v ELSE 0
    BY <1>1, <1>10, FieldIs
  <2> HIDE DEF n, v, bytes, items, name, pb, part
  <2>9. /\ read.pb \in Reader(data, size)
        /\ read.pb.index = IF i <= k THEN ends[i] ELSE size
        /\ read.got = IF i <= k THEN v ELSE 0
    <3>1. CASE i - 1 <= k
      <4>1. At(pb, ends[i - 1])
        BY <1>7, <3>1
      <4>2. /\ read.pb \in Reader(data, size)
            /\ ends[i] = ends[i - 1] + n
            /\ read.got = IF ends[i] <= size THEN Number(bytes) ELSE 0
            /\ read.pb.index = IF ends[i] <= size THEN ends[i] ELSE size
            /\ read.pb.err = IF ends[i] <= size THEN FALSE ELSE TRUE
        BY <1>2, <1>6, <2>0, <2>5, <2>6, <4>1, NumberArrives, ZenonT(60) DEF items, IsData
      <4> HIDE DEF read
      <4> QED
        BY <1>3, <2>4, <4>2
    <3>2. CASE ~(i - 1 <= k)
      <4>1. At(pb, size)
        BY <1>8, <3>2
      <4>2. read.pb \in Reader(data, size) /\ read.pb.index = size /\ read.got = 0
        BY <1>6, <2>0, <4>1, ReadsNothing DEF IsData
      <4>3. ~(i <= k)
        BY <1>3, <3>2
      <4> HIDE DEF read
      <4> QED
        BY <4>2, <4>3
    <3> QED
      BY <3>1, <3>2
  <2> HIDE DEF read
  <2>10. after.pb = read.pb /\ after.work = [part EXCEPT ![name] = read.got]
    BY <2>7
  <2>11. after.work = Partial(old, form, k, i)
    BY <1>5, <2>8, <2>9, <2>10
  <2> HIDE DEF after
  <2>12. At(after.pb, IF i <= k THEN ends[i] ELSE size)
    BY <2>9, <2>10 DEF At
  <2> QED
    BY <2>9, <2>10, <2>11, <2>12 DEF after, name, Read
<1> QED
  BY <1>9, <1>10

(* Block data cut behind k of its parts, with i of its fields read. *)
Reading(r, data, size, ends, old, form, k, i) ==
  /\ r.pb \in Reader(data, size)
  /\ At(r.pb, IF i <= k THEN ends[i] ELSE size)
  /\ Read(r, old, form, k, i)

(* The part of block data that arrived. *)
Cut(form, data, size, ends, k) ==
  /\ IsWork(form) /\ size \in Nat /\ IsData(data, size)
  /\ IsEnds(ends, WorkItems(form)) /\ Supplies(data, size, WorkItems(form), ends)
  /\ Reached(k, Len(WorkItems(form)), ends, size)

LEMMA FieldsGive ==
  ASSUME NEW form, NEW old, IsWorkInfo(old), NEW size, NEW data, NEW ends, NEW k,
         Cut(form, data, size, ends, k),
         NEW r, Reading(r, data, size, ends, old, form, k, 0)
  PROVE  Reading(ReadFields(r), data, size, ends, old, form, k, 13)
<1>1. PICK fields : /\ fields[0] = r
                    /\ \A i \in 1 .. 13 : fields[i] = ReadField(fields[i - 1], WorkFields[i])
                    /\ ReadFields(r) = fields[13]
  BY FieldsRead
<1> DEFINE S == {i \in Nat : i <= 13 => Reading(fields[i], data, size, ends, old, form, k, i)}
<1>2. 0 \in S
  BY <1>1
<1>3. ASSUME NEW n \in S \cap Nat PROVE n + 1 \in S
  <2> SUFFICES ASSUME n + 1 <= 13
               PROVE  Reading(fields[n + 1], data, size, ends, old, form, k, n + 1)
    OBVIOUS
  <2> DEFINE i == n + 1
             before == fields[i - 1]
  <2>1. i \in 1 .. 13 /\ i - 1 = n
    OBVIOUS
  <2>2. Reading(before, data, size, ends, old, form, k, i - 1)
    BY <1>3
  <2>3. fields[i] = ReadField(before, WorkFields[i])
    BY <1>1, <2>1
  <2> HIDE DEF i, before
  <2>4. LET after == ReadField(before, WorkFields[i])
        IN /\ after.pb \in Reader(data, size)
           /\ At(after.pb, IF i <= k THEN ends[i] ELSE size)
           /\ Read(after, old, form, k, i)
    BY <2>1, <2>2, FieldStep DEF Cut, Reading
  <2>5. Reading(ReadField(before, WorkFields[i]), data, size, ends, old, form, k, i)
    BY <2>4 DEF Reading
  <2> QED
    BY <2>3, <2>5 DEF i
<1> HIDE DEF S
<1>4. 13 \in S
  BY <1>2, <1>3, SetInduction
<1>5. Reading(fields[13], data, size, ends, old, form, k, 13)
  BY <1>4 DEF S
<1> QED
  BY <1>1, <1>5

LEMMA PartialStart ==
  ASSUME NEW form, NEW old, IsWorkInfo(old), NEW k
  PROVE  Partial(old, form, k, 0) = old
<1>1. old = [name \in DOMAIN Blank |-> old[name]]
  BY DEF IsWorkInfo
<1>2. ASSUME NEW name \in Arrays \cup Numbers PROVE ~(Session!Place[name] <= 0)
  <2>1. Session!Place[name] \in 1 .. 13
    BY FieldNames
  <2> QED
    BY <2>1
<1>3. \A name \in DOMAIN Blank : Partial(old, form, k, 0)[name] = old[name]
  BY <1>2 DEF Partial
<1>4. Partial(old, form, k, 0) = [name \in DOMAIN Blank |-> Partial(old, form, k, 0)[name]]
  BY DEF Partial
<1> QED
  BY <1>1, <1>3, <1>4

-----------------------------------------------------------------------------
(* The hashes behind the fields *)

(* The hashes after i of them were read. *)
HashesAfter(old, form, k, i) ==
  [j \in 1 .. MaxTx |-> IF j <= i /\ 13 + j <= k THEN form.txHashes[j] ELSE old.txHashes[j]]

Hashed(old, form, k, i) ==
  [Partial(old, form, k, 13) EXCEPT !.txHashes = HashesAfter(old, form, k, i)]

LEMMA HashedIs ==
  ASSUME NEW form, NEW old, NEW k, NEW i
  PROVE  /\ Hashed(old, form, k, i) = [name \in DOMAIN Blank |-> Hashed(old, form, k, i)[name]]
         /\ Hashed(old, form, k, i).txHashes = HashesAfter(old, form, k, i)
         /\ \A name \in DOMAIN Blank \ {"txHashes"} :
              Hashed(old, form, k, i)[name] = Partial(old, form, k, 13)[name]
<1> DEFINE part   == Partial(old, form, k, 13)
           hashes == HashesAfter(old, form, k, i)
<1>1. "txHashes" \in DOMAIN Blank
  BY BlankNames
<1>2. part = [name \in DOMAIN Blank |-> part[name]]
  BY DEF Partial
<1>3. Hashed(old, form, k, i) = [part EXCEPT !.txHashes = hashes]
  BY DEF Hashed
<1> HIDE DEF part, hashes
<1> QED
  BY <1>1, <1>2, <1>3 DEF part, hashes

LEMMA HashedStart ==
  ASSUME NEW form, NEW old, IsWorkInfo(old), NEW k
  PROVE  Hashed(old, form, k, 0) = Partial(old, form, k, 13)
<1> DEFINE part   == Partial(old, form, k, 13)
           hashes == HashesAfter(old, form, k, 0)
<1>1. part = [name \in DOMAIN Blank |-> part[name]]
  BY DEF Partial
<1>2. part.txHashes = old.txHashes
  BY BlankNames DEF Partial, Arrays, Numbers
<1>3. old.txHashes = [j \in 1 .. MaxTx |-> old.txHashes[j]]
  BY DEF IsWorkInfo
<1>4. hashes = [j \in 1 .. MaxTx |-> old.txHashes[j]]
  BY DEF HashesAfter
<1>5. Hashed(old, form, k, 0) = [part EXCEPT !.txHashes = hashes]
  BY DEF Hashed
<1> HIDE DEF part, hashes
<1> QED
  BY <1>1, <1>2, <1>3, <1>4, <1>5 DEF part

(* A hash is overwritten whole. *)
LEMMA HashesNext ==
  ASSUME NEW form, IsWork(form), NEW old, IsWorkInfo(old), NEW k \in Nat,
         NEW i \in Nat, 1 <= i, i <= Len(form.txHashes)
  PROVE  /\ HashesAfter(old, form, k, i - 1)[i] = old.txHashes[i]
         /\ HashesAfter(old, form, k, i) =
              [HashesAfter(old, form, k, i - 1) EXCEPT
                 ![i] = IF 13 + i <= k THEN Copied(old.txHashes[i], form.txHashes[i])
                        ELSE old.txHashes[i]]
<1> DEFINE a == HashesAfter(old, form, k, i)
           b == HashesAfter(old, form, k, i - 1)
           hash == form.txHashes[i]
           was  == old.txHashes[i]
           t    == Len(form.txHashes)
<1>1. t \in Nat /\ t <= MaxTx /\ MaxTx \in Nat
  BY WorkForm, LenProperties, HandlersAssumption, BaseAssumption DEF MaxU16
<1>2. i \in 1 .. MaxTx /\ i \in 1 .. t
  BY <1>1
<1>3. hash \in [1 .. HashSize -> Byte]
  <2>1. form.txHashes \in Seq(Array(HashSize))
    BY WorkForm
  <2>2. form.txHashes \in [1 .. t -> Array(HashSize)]
    BY <2>1, LenProperties
  <2> HIDE DEF t
  <2> QED
    BY <1>2, <2>2 DEF Array
<1>4. was \in [1 .. HashSize -> Byte]
  BY <1>2 DEF IsWorkInfo
<1>5. Copied(was, hash) = hash
  <2> HIDE DEF was, hash
  <2> QED
    BY <1>3, <1>4 DEF Copied
<1> HIDE DEF t
<1>6. ASSUME NEW j \in 1 .. MaxTx
      PROVE  a[j] = IF j = i THEN (IF 13 + i <= k THEN hash ELSE was) ELSE b[j]
  <2>1. j \in Nat /\ j = i <=> (j <= i /\ ~(j <= i - 1))
    BY <1>1
  <2>2. j # i => (j <= i <=> j <= i - 1)
    BY <1>1
  <2>3. CASE j = i
    BY <2>3 DEF HashesAfter
  <2>4. CASE j # i
    <3>1. j <= i <=> j <= i - 1
      BY <2>2, <2>4
    <3> QED
      BY <2>4, <3>1 DEF HashesAfter
  <2> QED
    BY <2>3, <2>4
<1>7. a = [j \in 1 .. MaxTx |-> a[j]] /\ b = [j \in 1 .. MaxTx |-> b[j]]
  BY DEF HashesAfter
<1>8. b[i] = was
  BY <1>2 DEF HashesAfter
<1> HIDE DEF a, b
<1>9. a = [b EXCEPT ![i] = IF 13 + i <= k THEN hash ELSE was]
  BY <1>2, <1>6, <1>7
<1> QED
  BY <1>5, <1>8, <1>9 DEF a, b

(* Block data cut behind k of its parts, with i of its hashes read. *)
Hashing(r, data, size, ends, old, form, k, i) ==
  /\ r.pb \in Reader(data, size)
  /\ At(r.pb, IF 13 + i <= k THEN ends[13 + i] ELSE size)
  /\ r.work = Hashed(old, form, k, i)

LEMMA HashStep ==
  ASSUME NEW form, NEW old, IsWorkInfo(old), NEW size, NEW data, NEW ends, NEW k,
         Cut(form, data, size, ends, k), 13 <= k,
         NEW i \in Nat, 1 <= i, i <= Len(form.txHashes),
         NEW r, Hashing(r, data, size, ends, old, form, k, i - 1)
  PROVE  Hashing(ReadHash(r, i), data, size, ends, old, form, k, i)
<1> DEFINE items == WorkItems(form)
           t     == Len(form.txHashes)
           place == 13 + i
           after == ReadHash(r, i)
           pb    == r.pb
           bytes == form.txHashes[i]
           read  == ReadData(pb, HashSize)
           was   == old.txHashes[i]
<1>1. IsWork(form) /\ size \in Nat /\ data \in [1 .. size -> Byte] /\ IsEnds(ends, items)
      /\ Supplies(data, size, items, ends) /\ Reached(k, Len(items), ends, size)
  BY DEF Cut, IsData
<1>2. /\ t \in Nat /\ Len(items) = 13 + t /\ Encoded(items[13 + i]) = form.txHashes[i]
  <2>1. /\ t \in Nat /\ Len(items) = 13 + t
        /\ \A j \in 1 .. t : /\ Encoded(items[13 + j]) = form.txHashes[j]
                            /\ Len(Encoded(items[13 + j])) = HashSize
    BY <1>1, WorkFits
  <2> HIDE DEF t, items
  <2>2. i \in 1 .. t
    BY <2>1 DEF t
  <2> QED
    BY <2>1, <2>2
<1>3. place \in 1 .. Len(items) /\ place \in 0 .. Len(items) /\ place - 1 = 13 + (i - 1)
      /\ place \in Nat
  <2>1. i <= t
    OBVIOUS
  <2> HIDE DEF t, items
  <2> QED
    BY <1>2, <2>1
<1>4. k \in Nat /\ (ends[place] <= size <=> place <= k)
  <2>1. k \in 0 .. Len(items) /\ \A j \in 0 .. Len(items) : ends[j] <= size <=> j <= k
    BY <1>1 DEF Reached
  <2>2. Len(items) \in Nat
    BY <1>2
  <2> HIDE DEF items, place
  <2> QED
    BY <1>3, <2>1, <2>2
<1>5. bytes \in Seq(Byte) /\ Len(bytes) = HashSize /\ HashSize < DataLimit /\ HashSize \in Nat
  <2>1. form.txHashes \in Seq(Array(HashSize))
    BY <1>1, WorkForm
  <2>2. form.txHashes \in [1 .. t -> Array(HashSize)]
    BY <2>1, LenProperties
  <2>3. i \in 1 .. t
    BY <1>2
  <2> HIDE DEF t
  <2>4. bytes \in Array(HashSize)
    BY <2>2, <2>3
  <2> HIDE DEF bytes
  <2> QED
    BY <2>4, ArrayIsData
<1>6. Says(items[place], bytes)
  BY <1>2 DEF Says
<1>7. pb \in Reader(data, size)
  BY DEF Hashing
<1>8. At(pb, IF place - 1 <= k THEN ends[place - 1] ELSE size)
  <2>1. At(pb, IF 13 + (i - 1) <= k THEN ends[13 + (i - 1)] ELSE size)
    BY DEF Hashing
  <2> HIDE DEF place, pb
  <2> QED
    BY <1>3, <2>1
<1>9. r.work = Hashed(old, form, k, i - 1)
  BY DEF Hashing
<1>10. /\ read.pb \in Reader(data, size)
       /\ read.pb.index = IF place <= k THEN ends[place] ELSE size
       /\ read.got = IF place <= k THEN bytes ELSE <<>>
  <2> HIDE DEF place, pb, bytes, items
  <2>1. CASE place - 1 <= k
    <3> DEFINE whole == ReadData(pb, Len(bytes))
    <3>1. At(pb, ends[place - 1])
      BY <1>8, <2>1
    <3>3. Len(bytes) < DataLimit /\ bytes \in Seq(Byte) /\ Len(items) \in Nat
      BY <1>2, <1>5
    <3>5. place \in 1 .. Len(items)
      BY <1>3
    <3>2. /\ whole.pb \in Reader(data, size)
          /\ ends[place] = ends[place - 1] + Len(bytes)
          /\ whole.got = IF ends[place] <= size THEN bytes ELSE <<>>
          /\ whole.pb.index = IF ends[place] <= size THEN ends[place] ELSE size
      BY <1>1, <1>6, <1>7, <3>1, <3>3, <3>5, DataArrives, SMTT(60)
    <3>4. whole = read
      BY <1>5
    <3> HIDE DEF whole, read
    <3> QED
      BY <1>4, <3>2, <3>4
  <2>2. CASE ~(place - 1 <= k)
    <3>1. At(pb, size)
      BY <1>8, <2>2
    <3>2. read.pb \in Reader(data, size) /\ read.pb.index = size /\ read.got = <<>>
      BY <1>1, <1>5, <1>7, <3>1, ReadsNothing
    <3>3. ~(place <= k)
      BY <1>3, <1>4, <2>2
    <3> HIDE DEF read
    <3> QED
      BY <3>2, <3>3
  <2> QED
    BY <2>1, <2>2
<1>11. after = [pb |-> read.pb, work |-> [r.work EXCEPT !.txHashes[i] = Copied(@, read.got)]]
  BY DEF ReadHash
<1>12. Copied(was, read.got) = IF place <= k THEN Copied(was, bytes) ELSE was
  <2>1. was \in [1 .. HashSize -> Byte]
    <3>1. MaxTx \in Nat /\ t <= MaxTx
      BY <1>1, WorkForm, HandlersAssumption, BaseAssumption DEF MaxU16
    <3>2. i \in 1 .. MaxTx
      BY <1>2, <3>1
    <3> QED
      BY <3>2 DEF IsWorkInfo
  <2>2. Copied(was, <<>>) = was
    BY <2>1, CopiedNothing
  <2> HIDE DEF read, was, bytes, place
  <2> QED
    BY <1>10, <2>2
<1>13. /\ HashesAfter(old, form, k, i - 1)[i] = was
       /\ HashesAfter(old, form, k, i) =
            [HashesAfter(old, form, k, i - 1) EXCEPT ![i] = Copied(was, read.got)]
  <2>1. /\ HashesAfter(old, form, k, i - 1)[i] = old.txHashes[i]
        /\ HashesAfter(old, form, k, i) =
              [HashesAfter(old, form, k, i - 1) EXCEPT
                 ![i] = IF 13 + i <= k THEN Copied(old.txHashes[i], form.txHashes[i])
                        ELSE old.txHashes[i]]
    BY <1>1, <1>4, HashesNext
  <2>2. Copied(was, read.got) = IF 13 + i <= k THEN Copied(was, bytes) ELSE was
    BY <1>12
  <2> HIDE DEF read
  <2> QED
    BY <2>1, <2>2
<1> DEFINE part   == Partial(old, form, k, 13)
           before == HashesAfter(old, form, k, i - 1)
           next   == HashesAfter(old, form, k, i)
           got    == read.got
<1>14. after.work = Hashed(old, form, k, i)
  <2>1. part = [name \in DOMAIN Blank |-> part[name]] /\ "txHashes" \in DOMAIN Blank
    BY BlankNames DEF Partial
  <2>2. r.work = [part EXCEPT !.txHashes = before]
    BY <1>9 DEF Hashed
  <2>3. Hashed(old, form, k, i) = [part EXCEPT !.txHashes = next]
    BY DEF Hashed
  <2>4. after.work = [r.work EXCEPT !.txHashes[i] = Copied(@, got)]
    BY <1>11
  <2>5. before[i] = was /\ next = [before EXCEPT ![i] = Copied(was, got)]
    BY <1>13
  <2> HIDE DEF part, before, next, got, after, was
  <2>6. r.work.txHashes = before
    BY <2>1, <2>2
  <2>7. after.work = [r.work EXCEPT !.txHashes = [r.work.txHashes EXCEPT ![i] = Copied(r.work.txHashes[i], got)]]
    BY <2>4
  <2>8. after.work = [r.work EXCEPT !.txHashes = next]
    BY <2>5, <2>6, <2>7
  <2>9. [r.work EXCEPT !.txHashes = next] = [part EXCEPT !.txHashes = next]
    BY <2>1, <2>2
  <2> QED
    BY <2>3, <2>8, <2>9
<1>15. after.pb = read.pb
  BY <1>11
<1> HIDE DEF after, read
<1>16. At(after.pb, IF 13 + i <= k THEN ends[13 + i] ELSE size)
  BY <1>10, <1>15 DEF At
<1>17. after.pb \in Reader(data, size)
  BY <1>10, <1>15
<1> QED
  BY <1>14, <1>16, <1>17 DEF Hashing, after

LEMMA HashesGive ==
  ASSUME NEW form, NEW old, IsWorkInfo(old), NEW size, NEW data, NEW ends, NEW k,
         Cut(form, data, size, ends, k), 13 <= k,
         NEW r, Hashing(r, data, size, ends, old, form, k, 0)
  PROVE  LET t == Len(form.txHashes)
         IN Hashing(ReadHashes(r, t), data, size, ends, old, form, k, t)
<1> DEFINE t == Len(form.txHashes)
<1>0. t \in Nat
  <2>1. IsWork(form)
    BY DEF Cut
  <2> QED
    BY <2>1, WorkFits
<1>1. PICK hashes : /\ hashes[0] = r
                    /\ \A i \in 1 .. t : hashes[i] = ReadHash(hashes[i - 1], i)
                    /\ ReadHashes(r, t) = hashes[t]
  BY <1>0, HashesRead
<1> DEFINE S == {i \in Nat : i <= t => Hashing(hashes[i], data, size, ends, old, form, k, i)}
<1>2. 0 \in S
  BY <1>1
<1>3. ASSUME NEW n \in S \cap Nat PROVE n + 1 \in S
  <2> SUFFICES ASSUME n + 1 <= t
               PROVE  Hashing(hashes[n + 1], data, size, ends, old, form, k, n + 1)
    OBVIOUS
  <2> DEFINE i == n + 1
             before == hashes[i - 1]
  <2>1. i \in Nat /\ 1 <= i /\ i <= t /\ i \in 1 .. t /\ i - 1 = n
    BY <1>0
  <2>2. Hashing(before, data, size, ends, old, form, k, i - 1)
    BY <1>0, <1>3
  <2>3. hashes[i] = ReadHash(before, i)
    BY <1>1, <2>1
  <2> HIDE DEF i, before
  <2>4. Hashing(ReadHash(before, i), data, size, ends, old, form, k, i)
    BY <2>1, <2>2, HashStep
  <2> QED
    BY <2>3, <2>4 DEF i
<1> HIDE DEF S, t
<1>4. t \in S
  BY <1>0, <1>2, <1>3, SetInduction
<1>5. Hashing(hashes[t], data, size, ends, old, form, k, t)
  BY <1>4 DEF S
<1> QED
  BY <1>1, <1>5 DEF t

LEMMA BlockRead ==
  ASSUME NEW form, NEW size, NEW data, NEW ends, NEW k,
         Cut(form, data, size, ends, k),
         NEW old, IsWorkInfo(old), NEW pb \in Reader(data, size), At(pb, 4)
  PROVE  LET fixed == ReadFields([pb |-> pb, work |-> old])
         IN ReadHashes(fixed, fixed.work.txHashCount).work
              = Hashed(old, form, k, IF 13 <= k THEN Len(form.txHashes) ELSE 0)
<1> DEFINE items == WorkItems(form)
           t     == Len(form.txHashes)
           r     == [pb |-> pb, work |-> old]
           fixed == ReadFields(r)
           part  == Partial(old, form, k, 13)
           count == fixed.work.txHashCount
<1>1. IsWork(form) /\ k \in Nat /\ ends[0] = 4
  <2>1. IsWork(form) /\ ends[0] = 4 /\ k \in 0 .. Len(items)
    BY DEF Cut, IsEnds, Reached
  <2> HIDE DEF items
  <2> QED
    BY <2>1
<1>2. t \in Nat /\ form.txHashCount = t
  <2>1. t \in Nat
    BY <1>1, WorkFits
  <2> QED
    BY <1>1, <2>1, WorkForm
<1>3. Reading(fixed, data, size, ends, old, form, k, 13)
  <2> DEFINE i == 0
  <2>1. r.pb = pb /\ r.work = old
    OBVIOUS
  <2>2. Partial(old, form, k, i) = old
    BY PartialStart
  <2>3. At(pb, IF i <= k THEN ends[i] ELSE size)
    BY <1>1 DEF At
  <2> HIDE DEF i, r
  <2>4. Reading(r, data, size, ends, old, form, k, i)
    BY <2>1, <2>2, <2>3 DEF Reading, Read
  <2> QED
    BY <2>4, FieldsGive DEF i
<1>4. fixed.work = part
  BY <1>3 DEF Reading, Read
<1>5. count = IF 13 <= k THEN t ELSE 0
  <2>1. "txHashCount" \in DOMAIN Blank /\ "txHashCount" \in Arrays \cup Numbers
        /\ "txHashCount" \notin Arrays /\ Session!Place["txHashCount"] = 13
    BY BlankNames DEF Arrays, Numbers, Session!Place
  <2>2. part.txHashCount = Session!Field(old, form, k, "txHashCount")
    BY <2>1 DEF Partial
  <2>3. Session!Field(old, form, k, "txHashCount") = IF 13 <= k THEN form.txHashCount ELSE 0
    BY <2>1, FieldIs
  <2> HIDE DEF fixed, part
  <2> QED
    BY <1>2, <1>4, <2>2, <2>3
<1> HIDE DEF r, fixed, count, part
<1>6. CASE 13 <= k
  <2> DEFINE i == 0
  <2>1. Hashing(fixed, data, size, ends, old, form, k, i)
    <3>1. Hashed(old, form, k, i) = part
      BY HashedStart DEF part
    <3>2. fixed.pb \in Reader(data, size) /\ At(fixed.pb, IF 13 <= k THEN ends[13] ELSE size)
      BY <1>3 DEF Reading
    <3>3. 13 + i = 13
      OBVIOUS
    <3> HIDE DEF i
    <3>4. At(fixed.pb, IF 13 + i <= k THEN ends[13 + i] ELSE size)
      BY <3>2, <3>3
    <3> QED
      BY <1>4, <3>1, <3>2, <3>4 DEF Hashing
  <2>2. Hashing(ReadHashes(fixed, t), data, size, ends, old, form, k, t)
    BY <1>6, <2>1, HashesGive
  <2> QED
    BY <1>5, <1>6, <2>2 DEF Hashing, fixed, count, r
<1>7. CASE ~(13 <= k)
  <2> DEFINE c == 0
  <2>1. count = c
    BY <1>5, <1>7
  <2>2. ReadHashes(fixed, c) = fixed
    <3>1. c \in Nat
      OBVIOUS
    <3>2. PICK hashes : hashes[0] = fixed /\ ReadHashes(fixed, c) = hashes[c]
      BY <3>1, HashesRead
    <3> QED
      BY <3>2
  <2>3. Hashed(old, form, k, 0) = part
    BY HashedStart DEF part
  <2>4. ReadHashes(fixed, count).work = Hashed(old, form, k, 0)
    BY <1>4, <2>1, <2>2, <2>3
  <2> QED
    BY <1>7, <2>4 DEF fixed, count, r
<1> QED
  BY <1>6, <1>7

LEMMA SubSeqFront ==
  ASSUME NEW T, NEW s \in Seq(T), NEW m \in Int, m <= Len(s)
  PROVE  /\ DOMAIN SubSeq(s, 1, m) = 1 .. m
         /\ \A i \in 1 .. m : SubSeq(s, 1, m)[i] = s[i]
BY LenProperties

LEMMA ParsedIsInstalled ==
  ASSUME NEW form, NEW size, NEW data, NEW ends, NEW k,
         Cut(form, data, size, ends, k),
         IsWorkInfo(work), NEW pb, BeginRead(pb) \in Reader(data, size), At(BeginRead(pb), 4)
  PROVE  ParsedWork(pb) = Session!Installed(work, form, k)
<1> DEFINE t == Len(form.txHashes)
           c == IF 13 <= k THEN t ELSE 0
           parsed == Hashed(work, form, k, c)
           new    == Session!Installed(work, form, k)
           part   == Partial(work, form, k, 13)
<1>1. ParsedWork(pb) = Targets(parsed)
  <2> DEFINE start == BeginRead(pb)
             fixed == ReadFields([pb |-> start, work |-> work])
  <2>1. ParsedWork(pb) = Targets(ReadHashes(fixed, fixed.work.txHashCount).work)
    BY DEF ParsedWork
  <2>2. start \in Reader(data, size) /\ At(start, 4)
    OBVIOUS
  <2> HIDE DEF start
  <2>3. ReadHashes(fixed, fixed.work.txHashCount).work = parsed
    BY <2>2, BlockRead
  <2> QED
    BY <2>1, <2>3
<1>2. /\ parsed = [name \in DOMAIN Blank |-> parsed[name]]
      /\ parsed.txHashes = HashesAfter(work, form, k, c)
      /\ \A name \in DOMAIN Blank \ {"txHashes"} : parsed[name] = part[name]
  BY HashedIs
<1>3. work = [name \in DOMAIN Blank |-> work[name]] /\ DOMAIN work = DOMAIN Blank
  BY DEF IsWorkInfo
<1>4. DOMAIN Blank = Arrays \cup Numbers \cup {"target", "targetShare", "txHashes"}
  BY BlankNames
<1>5. new = [name \in DOMAIN Blank |-> new[name]]
  BY <1>3 DEF Session!Installed
<1>6. \A name \in Arrays \cup Numbers : new[name] = Session!Field(work, form, k, name)
  <2>1. \A name \in Arrays \cup Numbers : name \notin {"target", "targetShare", "txHashes"}
                                          /\ name \in DOMAIN work
    BY <1>3, <1>4 DEF Arrays, Numbers
  <2> QED
    BY <2>1 DEF Session!Installed
<1>7. \A name \in Arrays \cup Numbers : part[name] = Session!Field(work, form, k, name)
  <2>1. \A name \in Arrays \cup Numbers : name \in DOMAIN Blank /\ Session!Place[name] <= 13
    BY <1>4, FieldNames
  <2> QED
    BY <2>1 DEF Partial
<1>8. part["target"] = work["target"] /\ part["targetShare"] = work["targetShare"]
  BY <1>4 DEF Partial, Arrays, Numbers
<1>9. /\ new["target"] = IF algorithm = Riecoin THEN work["target"]
                         ELSE Session!Field(work, form, k, "targetCompact")
      /\ new["targetShare"] = IF algorithm = Riecoin THEN work["targetShare"]
                              ELSE Session!Field(work, form, k, "targetShareCompact")
  BY <1>3, <1>4 DEF Session!Installed, Session!Target
<1>10. new["txHashes"] = HashesAfter(work, form, k, c)
  <2> DEFINE front == SubSeq(form.txHashes, 1, k - 13)
             old   == work["txHashes"]
             over  == Session!Over(old, front)
  <2>1. new["txHashes"] = over
    BY <1>3, <1>4 DEF Session!Installed, Session!LastFixed
  <2>2. old = [j \in 1 .. MaxTx |-> old[j]]
    BY DEF IsWorkInfo
  <2>3. k \in Nat /\ t \in Nat /\ k - 13 <= t /\ form.txHashes \in Seq(Array(HashSize))
    <3>1. IsWork(form) /\ k \in 0 .. Len(WorkItems(form))
      BY DEF Cut, Reached
    <3>2. t \in Nat /\ Len(WorkItems(form)) = 13 + t
      BY <3>1, WorkFits
    <3> HIDE DEF t
    <3> QED
      BY <3>1, <3>2, WorkForm
  <2>4. /\ DOMAIN front = 1 .. (k - 13)
        /\ \A j \in 1 .. (k - 13) : front[j] = form.txHashes[j]
    <3> DEFINE m == k - 13
    <3>1. m \in Int /\ m <= Len(form.txHashes)
      BY <2>3
    <3> HIDE DEF m
    <3>2. /\ DOMAIN SubSeq(form.txHashes, 1, m) = 1 .. m
          /\ \A j \in 1 .. m : SubSeq(form.txHashes, 1, m)[j] = form.txHashes[j]
      BY <2>3, <3>1, SubSeqFront
    <3> QED
      BY <3>2 DEF m
  <2>5. over = [j \in 1 .. MaxTx |-> IF j \in DOMAIN front THEN front[j] ELSE old[j]]
    <3>1. DOMAIN old = 1 .. MaxTx
      BY <2>2
    <3> HIDE DEF old, front
    <3> QED
      BY <3>1 DEF Session!Over
  <2> HIDE DEF front, old, over, t
  <2>6. ASSUME NEW j \in 1 .. MaxTx
        PROVE  (IF j \in DOMAIN front THEN front[j] ELSE old[j])
                 = IF j <= c /\ 13 + j <= k THEN form.txHashes[j] ELSE old[j]
    <3>0. MaxTx \in Nat /\ j \in Nat /\ 1 <= j
      BY HandlersAssumption, BaseAssumption DEF MaxU16
    <3>1. j \in DOMAIN front <=> j <= k - 13
      BY <2>3, <2>4, <3>0
    <3>2. j <= k - 13 <=> j <= c /\ 13 + j <= k
      BY <2>3, <3>0
    <3>3. j <= k - 13 => front[j] = form.txHashes[j]
      BY <2>3, <2>4, <3>0
    <3> QED
      BY <3>1, <3>2, <3>3
  <2>7. HashesAfter(work, form, k, c)
          = [j \in 1 .. MaxTx |-> IF j <= c /\ 13 + j <= k THEN form.txHashes[j] ELSE old[j]]
    BY DEF HashesAfter, old
  <2> QED
    BY <2>1, <2>5, <2>6, <2>7
<1> HIDE DEF parsed, new, part, c
<1>11. Targets(parsed) = IF algorithm = Riecoin THEN parsed
                         ELSE [parsed EXCEPT !.target = parsed.targetCompact,
                                             !.targetShare = parsed.targetShareCompact]
  BY DEF Targets
<1>12. ASSUME NEW name \in DOMAIN Blank PROVE Targets(parsed)[name] = new[name]
  <2>1. CASE name \in Arrays \cup Numbers
    <3>1. name \notin {"target", "targetShare", "txHashes"}
      BY <2>1 DEF Arrays, Numbers
    <3>2. Targets(parsed)[name] = parsed[name]
      BY <1>2, <1>11, <3>1
    <3> QED
      BY <1>2, <1>6, <1>7, <2>1, <3>1, <3>2
  <2>2. CASE name = "txHashes"
    <3>1. Targets(parsed)[name] = parsed[name]
      BY <1>2, <1>11, <2>2
    <3> QED
      BY <1>2, <1>10, <2>2, <3>1
  <2>3. CASE name = "target"
    <3>1. "targetCompact" \in Numbers /\ "targetCompact" \in DOMAIN Blank
          /\ "target" \in DOMAIN Blank
      BY <1>4 DEF Numbers
    <3>2. parsed.targetCompact = Session!Field(work, form, k, "targetCompact")
          /\ parsed.target = work.target
      BY <1>2, <1>7, <1>8, <3>1
    <3>3. Targets(parsed).target = IF algorithm = Riecoin THEN parsed.target ELSE parsed.targetCompact
      BY <1>2, <1>11, <3>1
    <3> QED
      BY <1>9, <2>3, <3>2, <3>3
  <2>4. CASE name = "targetShare"
    <3>1. "targetShareCompact" \in Numbers /\ "targetShareCompact" \in DOMAIN Blank
          /\ "targetShare" \in DOMAIN Blank
      BY <1>4 DEF Numbers
    <3>2. parsed.targetShareCompact = Session!Field(work, form, k, "targetShareCompact")
          /\ parsed.targetShare = work.targetShare
      BY <1>2, <1>7, <1>8, <3>1
    <3>3. Targets(parsed).targetShare
            = IF algorithm = Riecoin THEN parsed.targetShare ELSE parsed.targetShareCompact
      BY <1>2, <1>11, <3>1
    <3> QED
      BY <1>9, <2>4, <3>2, <3>3
  <2> QED
    BY <1>4, <2>1, <2>2, <2>3, <2>4
<1>13. Targets(parsed) = [name \in DOMAIN Blank |-> Targets(parsed)[name]]
  BY <1>2, <1>11
<1>14. Targets(parsed) = new
  BY <1>5, <1>12, <1>13
<1> QED
  BY <1>1, <1>14 DEF new

LEMMA WorkParsed ==
  ASSUME NEW arrived, NEW form \in Forms, NEW ends, NEW size, Arrival(arrived, form, ends, size),
         form.op = "WORKDATA1", IsWorkInfo(work)
  PROVE  /\ IsWork(form)
         /\ \E k \in 0 .. Session!Parts(form) :
              /\ arrived.whole <=> k = Session!Parts(form)
              /\ ParsedWork(arrived.pb) = Session!Installed(work, form, k)
<1> DEFINE items == PoolItems(form)
           start == BeginRead(arrived.pb)
           data  == start.data
           L     == Len(items)
           t     == Len(form.txHashes)
<1>1. /\ L \in Nat /\ \A i \in 1 .. L : FitsItem(items[i])
      /\ IsEnds(ends, items)
      /\ size \in Nat /\ size >= 4 /\ size <= ends[L]
      /\ arrived.whole \in BOOLEAN /\ (arrived.whole <=> size = ends[L])
      /\ data \in [1 .. size -> Byte] /\ start \in Reader(data, size)
      /\ Supplies(data, size, items, ends)
  BY DEF Arrival
<1>2. At(start, 4)
  BY DEF Arrival, At
<1>3. IsWork(form)
  BY HandlersAssumption DEF IsWork
<1>4. items = WorkItems(form)
  BY DEF PoolItems
<1>5. L = Session!Parts(form)
  <2>1. t \in Nat /\ Len(WorkItems(form)) = 13 + t
    BY <1>3, WorkFits
  <2> QED
    BY <1>4, <2>1 DEF Session!Parts, Session!LastFixed
<1> HIDE DEF items, data
<1>6. PICK k \in 0 .. L : \A j \in 0 .. L : ends[j] <= size <=> j <= k
  <2>1. \A i \in 1 .. L : IsItem(items[i])
    BY <1>1 DEF FitsItem
  <2> QED
    BY <1>1, <2>1, CutAt
<1>7. arrived.whole <=> k = L
  <2>1. ends[L] <= size <=> L <= k
    BY <1>1, <1>6
  <2>2. ends[L] \in Nat
    BY <1>1 DEF IsEnds
  <2> HIDE DEF L
  <2> QED
    BY <1>1, <1>6, <2>1, <2>2
<1>8. Cut(form, data, size, ends, k)
  <2>1. Reached(k, L, ends, size)
    BY <1>6 DEF Reached
  <2> QED
    BY <1>1, <1>3, <1>4, <2>1 DEF Cut, IsData
<1>9. ParsedWork(arrived.pb) = Session!Installed(work, form, k)
  <2> DEFINE pb == arrived.pb
  <2>1. BeginRead(pb) \in Reader(data, size) /\ At(BeginRead(pb), 4)
    BY <1>1, <1>2
  <2> HIDE DEF pb, start
  <2>2. ParsedWork(pb) = Session!Installed(work, form, k)
    BY <1>8, <2>1, ParsedIsInstalled
  <2> QED
    BY <2>2 DEF pb
<1> HIDE DEF L
<1> QED
  BY <1>3, <1>5, <1>6, <1>7, <1>9

LEMMA WorkStep ==
  ASSUME NEW arrived, NEW form \in Forms, NEW ends, NEW size, Arrival(arrived, form, ends, size),
         form.op = "WORKDATA1", IsWorkInfo(work), BlockData1(arrived.pb)
  PROVE  Session!NewWork(form, arrived.whole)
<1>1. PICK k \in 0 .. Session!Parts(form) :
        /\ arrived.whole <=> k = Session!Parts(form)
        /\ ParsedWork(arrived.pb) = Session!Installed(work, form, k)
  BY WorkParsed
<1>2. /\ work' = ParsedWork(arrived.pb) /\ hasWork' = TRUE
      /\ UNCHANGED <<loggedIn, algorithm, rejected, dropped>>
  BY DEF BlockData1
<1>3. work' = Session!Installed(work, form, k)
  BY <1>1, <1>2
<1> QED
  BY <1>1, <1>2, <1>3 DEF Session!NewWork

-----------------------------------------------------------------------------
(* Every step is one that PoolSession promises *)

LEMMA TypeGivesWork == TypeOK => IsWorkInfo(work) /\ rejected \in Nat
<1> SUFFICES ASSUME TypeOK PROVE IsWorkInfo(work) /\ rejected \in Nat
  OBVIOUS
<1>1. work = [name \in DOMAIN Blank |-> work[name]]
  BY DEF TypeOK
<1>2. DOMAIN work = DOMAIN Blank
  BY <1>1
<1>3. \A name \in DOMAIN Blank \ (Arrays \cup {"txHashes"}) : work[name] \in Nat
  BY <1>2 DEF TypeOK
<1>4. rejected \in Nat
  BY HandlersAssumption DEF TypeOK
<1> QED
  BY <1>1, <1>3, <1>4 DEF TypeOK, IsWorkInfo

LEMMA ReceiveStep ==
  ASSUME TypeOK, Receive
  PROVE  Session!Next
<1>1. IsWorkInfo(work) /\ rejected \in Nat
  BY TypeGivesWork
<1>2. PICK arrived \in PoolPackets :
        /\ packet' = [op |-> arrived.op, whole |-> arrived.whole]
        /\ ProcessPacket(arrived.op, arrived.pb)
  BY DEF Receive
<1>3. PICK form \in Forms : \E ends, size : Arrival(arrived, form, ends, size)
  BY PacketArrives
<1>4. PICK ends, size : Arrival(arrived, form, ends, size)
  BY <1>3
<1>5. arrived.op = form.op /\ arrived.whole \in BOOLEAN
  BY <1>4 DEF Arrival
<1>6. Session!Arrives(form, arrived.whole)
  BY <1>2, <1>5 DEF Receive, Session!Arrives
<1> DEFINE whole == arrived.whole
           Effect == \/ Session!Login(form, whole) \/ Session!Drop(form, whole)
                     \/ Session!NewWork(form, whole)
                     \/ Session!RejectShare(form) \/ Session!Ignore(form, whole)
<1>7. Effect
  <2>1. CASE form.op = "AUTH_ACK" /\ AuthResponse(arrived.pb)
    <3>1. Session!Login(form, whole) \/ Session!Drop(form, whole)
      BY <1>4, <2>1, LoginStep
    <3> QED
      BY <3>1
  <2>2. CASE form.op = "WORKDATA1" /\ BlockData1(arrived.pb)
    <3>1. Session!NewWork(form, whole)
      BY <1>1, <1>4, <2>2, WorkStep
    <3> QED
      BY <3>1
  <2>3. CASE form.op = "SHARE_ACK" /\ ShareAck(arrived.pb)
    <3>1. \/ Session!Drop(form, whole) \/ Session!RejectShare(form) \/ Session!Ignore(form, whole)
      BY <1>1, <1>4, <2>3, ShareStep
    <3> QED
      BY <3>1
  <2>4. CASE form.op = "MESSAGE" /\ Message(arrived.pb)
    <3>1. Session!Drop(form, whole) \/ Session!Ignore(form, whole)
      BY <1>4, <2>4, MessageStep
    <3> QED
      BY <3>1
  <2>5. CASE form.op = "PING" /\ Ping(arrived.pb)
    <3>1. Session!Drop(form, whole) \/ Session!Ignore(form, whole)
      BY <1>4, <2>5, PingStep
    <3> QED
      BY <3>1
  <2>6. CASE form.op = "UNKNOWN" /\ Accept
    <3>1. Session!Ignore(form, whole)
      BY <2>6 DEF Accept, Session!Ignore, Session!Quiet
    <3> QED
      BY <3>1
  <2>7. \/ form.op = "AUTH_ACK" /\ AuthResponse(arrived.pb)
        \/ form.op = "WORKDATA1" /\ BlockData1(arrived.pb)
        \/ form.op = "SHARE_ACK" /\ ShareAck(arrived.pb)
        \/ form.op = "MESSAGE" /\ Message(arrived.pb)
        \/ form.op = "PING" /\ Ping(arrived.pb)
        \/ form.op = "UNKNOWN" /\ Accept
    BY <1>2, <1>5 DEF ProcessPacket
  <2> HIDE DEF Effect
  <2> QED
    BY <2>1, <2>2, <2>3, <2>4, <2>5, <2>6, <2>7
<1> QED
  BY <1>5, <1>6, <1>7 DEF Session!Next

LEMMA StepAsPromised == TypeOK /\ [Next]_vars => [Session!Next]_(Session!vars)
<1> SUFFICES ASSUME TypeOK, [Next]_vars PROVE [Session!Next]_(Session!vars)
  OBVIOUS
<1>1. CASE Receive
  BY <1>1, ReceiveStep
<1>2. CASE SendPing
  BY <1>2 DEF SendPing, Session!vars
<1>3. CASE Tick
  BY <1>3 DEF Tick, Session!vars
<1>4. CASE Reconnect
  BY <1>4 DEF Reconnect, Session!Reconnect, Session!Next
<1>5. CASE UNCHANGED vars
  BY <1>5 DEF vars, Session!vars
<1> QED
  BY <1>1, <1>2, <1>3, <1>4, <1>5 DEF Next

-----------------------------------------------------------------------------
(* The types *)

LEMMA InstalledType ==
  ASSUME NEW form, IsWork(form), NEW old, IsWorkInfo(old), NEW k \in 0 .. Session!Parts(form)
  PROVE  IsWorkInfo(Session!Installed(old, form, k))
<1> DEFINE new == Session!Installed(old, form, k)
           t   == Len(form.txHashes)
<1>1. DOMAIN old = DOMAIN Blank /\ new = [name \in DOMAIN Blank |-> new[name]]
  BY DEF IsWorkInfo, Session!Installed
<1>2. DOMAIN Blank = Arrays \cup Numbers \cup {"target", "targetShare", "txHashes"}
  BY BlankNames
<1>3. \A name \in Arrays \cup Numbers : new[name] = Session!Field(old, form, k, name)
  <2>1. \A name \in Arrays \cup Numbers : name \notin {"target", "targetShare", "txHashes"}
                                          /\ name \in DOMAIN old
    BY <1>1, <1>2 DEF Arrays, Numbers
  <2> QED
    BY <2>1 DEF Session!Installed
<1>4. ASSUME NEW name \in Arrays PROVE new[name] \in [DOMAIN Blank[name] -> Byte]
  <2> DEFINE array == old[name]
             bytes == form[name]
             D     == DOMAIN Blank[name]
  <2>1. array \in [D -> Byte]
    BY DEF IsWorkInfo
  <2>2. bytes \in Seq(Byte)
    BY FieldValues
  <2>3. new[name] = Copied(array, bytes) \/ new[name] = array
    BY <1>3, FieldIs
  <2> HIDE DEF array, bytes, D, new
  <2>4. Copied(array, bytes) \in [D -> Byte]
    <3>1. \A i \in DOMAIN bytes : bytes[i] \in Byte
      BY <2>2, ElementOfSeq, LenProperties
    <3> QED
      BY <2>1, <3>1 DEF Copied
  <2>5. new[name] \in [D -> Byte]
    BY <2>1, <2>3, <2>4
  <2> QED
    BY <2>5 DEF D
<1>5. ASSUME NEW name \in Numbers PROVE new[name] \in Nat /\ Session!Field(old, form, k, name) \in Nat
  <2>1. form[name] \in Nat /\ name \notin Arrays
    BY FieldValues, FieldNames
  <2>2. Session!Field(old, form, k, name) = form[name] \/ Session!Field(old, form, k, name) = 0
    BY <2>1, FieldIs
  <2> HIDE DEF new
  <2> QED
    BY <1>3, <2>1, <2>2
<1>6. new["target"] \in Nat /\ new["targetShare"] \in Nat
  <2>1. old["target"] \in Nat /\ old["targetShare"] \in Nat
    BY <1>2 DEF IsWorkInfo, Arrays
  <2>2. "targetCompact" \in Numbers /\ "targetShareCompact" \in Numbers
    BY DEF Numbers
  <2>3. /\ new["target"] = IF algorithm = Riecoin THEN old["target"]
                           ELSE Session!Field(old, form, k, "targetCompact")
        /\ new["targetShare"] = IF algorithm = Riecoin THEN old["targetShare"]
                                ELSE Session!Field(old, form, k, "targetShareCompact")
    BY <1>1, <1>2 DEF Session!Installed, Session!Target
  <2> HIDE DEF new
  <2> QED
    BY <1>5, <2>1, <2>2, <2>3
<1>7. new["txHashes"] \in [1 .. MaxTx -> [1 .. HashSize -> Byte]]
  <2> DEFINE front == SubSeq(form.txHashes, 1, k - 13)
             hashes == old["txHashes"]
             over  == Session!Over(hashes, front)
  <2>1. new["txHashes"] = over
    BY <1>1, <1>2 DEF Session!Installed, Session!LastFixed
  <2>2. hashes \in [1 .. MaxTx -> [1 .. HashSize -> Byte]]
    BY DEF IsWorkInfo
  <2>3. \A j \in DOMAIN front : front[j] \in [1 .. HashSize -> Byte]
    <3> DEFINE m == k - 13
    <3>1. t \in Nat /\ form.txHashes \in Seq(Array(HashSize))
      BY WorkForm, WorkFits
    <3>2. m \in Int /\ m <= t
      BY <3>1 DEF Session!Parts, Session!LastFixed
    <3> HIDE DEF m
    <3>3. /\ DOMAIN SubSeq(form.txHashes, 1, m) = 1 .. m
          /\ \A j \in 1 .. m : SubSeq(form.txHashes, 1, m)[j] = form.txHashes[j]
      BY <3>1, <3>2, SubSeqFront
    <3>4. \A j \in 1 .. m : form.txHashes[j] \in Array(HashSize)
      BY <3>1, <3>2, ElementOfSeq
    <3> QED
      BY <3>3, <3>4 DEF m, Array
  <2> HIDE DEF front, hashes
  <2>4. over \in [1 .. MaxTx -> [1 .. HashSize -> Byte]]
    BY <2>2, <2>3 DEF Session!Over
  <2> QED
    BY <2>1, <2>4
<1> HIDE DEF new
<1>8. \A name \in DOMAIN Blank \ (Arrays \cup {"txHashes"}) : new[name] \in Nat
  BY <1>2, <1>5, <1>6
<1> QED
  BY <1>1, <1>4, <1>7, <1>8 DEF IsWorkInfo, new

WorkOfWhole(w) ==
  w.txHashCount > 0 =>
    \E form \in Forms :
      /\ form.op = "WORKDATA1"
      /\ \A i \in DOMAIN WorkFields :
           LET name == WorkFields[i]
           IN IF name \in {"coinBase1", "coinBase2"}
              THEN SubSeq(w[name], 1, Len(form[name])) = form[name]
              ELSE w[name] = form[name]

(* Block data installed from a packet announce transactions only when all  *)
(* the fields arrived.                                                     *)
LEMMA InstalledWhole ==
  ASSUME NEW form \in Forms, IsWork(form), NEW old, IsWorkInfo(old), NEW k \in Nat
  PROVE  WorkOfWhole(Session!Installed(old, form, k))
<1> DEFINE new == Session!Installed(old, form, k)
<1>1. DOMAIN old = DOMAIN Blank
  BY DEF IsWorkInfo
<1>2. DOMAIN Blank = Arrays \cup Numbers \cup {"target", "targetShare", "txHashes"}
  BY BlankNames
<1>3. \A name \in Arrays \cup Numbers : new[name] = Session!Field(old, form, k, name)
  <2>1. \A name \in Arrays \cup Numbers : name \notin {"target", "targetShare", "txHashes"}
                                          /\ name \in DOMAIN old
    BY <1>1, <1>2 DEF Arrays, Numbers
  <2> QED
    BY <2>1 DEF Session!Installed
<1> HIDE DEF new
<1>4. SUFFICES ASSUME new.txHashCount > 0
               PROVE  \A i \in DOMAIN WorkFields :
                        LET name == WorkFields[i]
                        IN IF name \in {"coinBase1", "coinBase2"}
                           THEN SubSeq(new[name], 1, Len(form[name])) = form[name]
                           ELSE new[name] = form[name]
  BY DEF WorkOfWhole, IsWork, new
<1>5. 13 <= k
  <2>1. "txHashCount" \in Arrays \cup Numbers /\ "txHashCount" \notin Arrays
        /\ Session!Place["txHashCount"] = 13
    BY DEF Arrays, Numbers, Session!Place
  <2>2. Session!Field(old, form, k, "txHashCount") = IF 13 <= k THEN form.txHashCount ELSE 0
    BY <2>1, FieldIs
  <2> QED
    BY <1>3, <1>4, <2>1, <2>2
<1>6. ASSUME NEW i \in 1 .. 13, NEW name, name = WorkFields[i]
      PROVE  IF name \in {"coinBase1", "coinBase2"}
             THEN SubSeq(new[name], 1, Len(form[name])) = form[name]
             ELSE new[name] = form[name]
  <2>1. name \in Arrays \cup Numbers /\ Session!Place[name] = i
    BY <1>6, FieldNames
  <2>2. Session!Place[name] <= k
    BY <1>5, <2>1
  <2>3. new[name] = IF name \in Arrays THEN Copied(old[name], form[name]) ELSE form[name]
    BY <1>3, <2>1, <2>2, FieldIs
  <2>4. CASE name \in Numbers
    <3>1. name \notin Arrays /\ name \notin {"coinBase1", "coinBase2"}
      BY <2>4 DEF Arrays, Numbers
    <3> QED
      BY <2>3, <3>1
  <2>5. CASE name \in {"prevBlockHash", "merkleRoot"}
    <3> DEFINE array == old[name]
               bytes == form[name]
    <3>1. name \in Arrays /\ name \notin {"coinBase1", "coinBase2"}
      BY <2>5 DEF Arrays
    <3>2. bytes \in [1 .. HashSize -> Byte]
      BY <2>5, WorkForm DEF Array
    <3>3. array \in [1 .. HashSize -> Byte]
      <4>1. DOMAIN Blank[name] = 1 .. HashSize
        BY <2>5, BlankNames
      <4> QED
        BY <3>1, <4>1 DEF IsWorkInfo
    <3>4. new[name] = Copied(array, bytes)
      BY <2>3, <3>1
    <3> HIDE DEF array, bytes
    <3>5. Copied(array, bytes) = bytes
      BY <3>2, <3>3 DEF Copied
    <3> QED
      BY <3>1, <3>4, <3>5 DEF bytes
  <2>6. CASE name \in {"coinBase1", "coinBase2"}
    <3> DEFINE array == old[name]
               bytes == form[name]
               n     == Len(bytes)
               over  == Copied(array, bytes)
    <3>1. name \in Arrays /\ DOMAIN Blank[name] = 1 .. MaxCoinBase
      BY <2>6, BlankNames DEF Arrays
    <3>2. array \in [1 .. MaxCoinBase -> Byte]
      BY <3>1 DEF IsWorkInfo
    <3>3. bytes \in Seq(Byte) /\ n <= MaxCoinBase
      BY <2>6, WorkForm
    <3>4. MaxCoinBase \in Nat /\ n \in 0 .. MaxCoinBase
      <4>1. n \in Nat
        BY <3>3, LenProperties
      <4> HIDE DEF n
      <4> QED
        BY <3>3, <4>1, HandlersAssumption, BaseAssumption DEF MaxU16
    <3>5. new[name] = over
      BY <2>3, <3>1
    <3>6. bytes \in [1 .. n -> Byte] /\ bytes = [j \in 1 .. n |-> bytes[j]]
      BY <3>3, LenProperties
    <3> HIDE DEF array, bytes, n
    <3>7. over \in [1 .. MaxCoinBase -> Byte] /\ \A j \in 1 .. n : over[j] = bytes[j]
      BY <3>2, <3>4, <3>6 DEF Copied
    <3> HIDE DEF over
    <3>8. /\ SubSeq(over, 1, n) \in [1 .. n -> Byte]
          /\ \A j \in 1 .. n : SubSeq(over, 1, n)[j] = over[j]
      BY <3>4, <3>7, FrontPart
    <3>9. SubSeq(over, 1, n) = bytes
      BY <3>6, <3>7, <3>8
    <3> QED
      BY <2>6, <3>5, <3>9 DEF n, bytes
  <2> QED
    BY <2>1, <2>4, <2>5, <2>6 DEF Arrays
<1>7. DOMAIN WorkFields = 1 .. 13
  BY DEF WorkFields
<1> QED
  BY <1>6, <1>7

-----------------------------------------------------------------------------
(* What holds of a session *)

SessionInv == TypeOK /\ TransactionsOnWholeBlock

LEMMA SessionInit == Init => SessionInv
<1> SUFFICES ASSUME Init PROVE SessionInv
  OBVIOUS
<1>1. /\ loggedIn = FALSE /\ algorithm = 0 /\ hasWork = FALSE /\ work = Blank /\ rejected = 0
      /\ dropped = FALSE /\ ping = "off"
  BY DEF Init
<1>2. IsWorkInfo(work) /\ DOMAIN work = DOMAIN Blank
  BY <1>1, BlankType
<1>3. 0 \in Byte /\ 0 \in 0 .. MaxRejected
  BY HandlersAssumption, BaseAssumption DEF Byte
<1>4. TypeOK
  BY <1>1, <1>2, <1>3 DEF TypeOK, IsWorkInfo
<1>5. work.txHashCount = 0
  BY <1>1 DEF Blank
<1>6. TransactionsOnWholeBlock
  BY <1>5 DEF TransactionsOnWholeBlock
<1> QED
  BY <1>4, <1>6 DEF SessionInv

(* The packet's block data, or none. *)
LEMMA WorkChanges ==
  ASSUME TypeOK, [Next]_vars
  PROVE  \/ work' = work
         \/ work' = Blank
         \/ \E form \in Forms : \E k \in 0 .. Session!Parts(form) :
              IsWork(form) /\ work' = Session!Installed(work, form, k)
<1>1. [Session!Next]_(Session!vars)
  BY StepAsPromised
<1>2. CASE UNCHANGED Session!vars
  BY <1>2 DEF Session!vars
<1>3. CASE Session!Next
  <2>1. CASE Session!Reconnect
    BY <2>1 DEF Session!Reconnect
  <2>2. ASSUME NEW form \in Forms, NEW whole \in BOOLEAN,
               \/ Session!Login(form, whole) \/ Session!Drop(form, whole)
               \/ Session!NewWork(form, whole)
               \/ Session!RejectShare(form) \/ Session!Ignore(form, whole)
        PROVE  \/ work' = work
               \/ \E k \in 0 .. Session!Parts(form) :
                    IsWork(form) /\ work' = Session!Installed(work, form, k)
    <3>1. CASE Session!Login(form, whole)
      BY <3>1 DEF Session!Login
    <3>2. CASE Session!Drop(form, whole)
      BY <3>2 DEF Session!Drop
    <3>3. CASE Session!NewWork(form, whole)
      <4>1. IsWork(form)
        BY <3>3, HandlersAssumption DEF Session!NewWork, IsWork
      <4>2. \E k \in 0 .. Session!Parts(form) : work' = Session!Installed(work, form, k)
        BY <3>3 DEF Session!NewWork
      <4> QED
        BY <4>1, <4>2
    <3>4. CASE Session!RejectShare(form)
      BY <3>4 DEF Session!RejectShare
    <3>5. CASE Session!Ignore(form, whole)
      BY <3>5 DEF Session!Ignore, Session!Quiet
    <3> QED
      BY <2>2, <3>1, <3>2, <3>3, <3>4, <3>5
  <2> QED
    BY <1>3, <2>1, <2>2 DEF Session!Next
<1> QED
  BY <1>1, <1>2, <1>3

LEMMA WorkKept ==
  ASSUME SessionInv, [Next]_vars
  PROVE  IsWorkInfo(work') /\ TransactionsOnWholeBlock'
<1>1. TypeOK /\ IsWorkInfo(work) /\ WorkOfWhole(work)
  BY TypeGivesWork DEF SessionInv, TransactionsOnWholeBlock, WorkOfWhole
<1>2. IsWorkInfo(work') /\ WorkOfWhole(work')
  <2>1. CASE work' = work
    BY <1>1, <2>1
  <2>2. CASE work' = Blank
    <3>1. Blank.txHashCount = 0
      BY DEF Blank
    <3> QED
      BY <2>2, <3>1, BlankType DEF WorkOfWhole
  <2>3. ASSUME NEW form \in Forms, NEW k \in 0 .. Session!Parts(form),
               IsWork(form), work' = Session!Installed(work, form, k)
        PROVE  IsWorkInfo(work') /\ WorkOfWhole(work')
    <3>1. k \in Nat
      OBVIOUS
    <3>2. IsWorkInfo(Session!Installed(work, form, k))
      BY <1>1, <2>3, InstalledType
    <3>3. WorkOfWhole(Session!Installed(work, form, k))
      BY <1>1, <2>3, <3>1, InstalledWhole
    <3> QED
      BY <2>3, <3>2, <3>3
  <2> QED
    BY <1>1, <2>1, <2>2, <2>3, WorkChanges
<1> QED
  BY <1>2 DEF WorkOfWhole, TransactionsOnWholeBlock

(* The session's values, whatever became of the ping. *)
LEMMA ValuesKept ==
  ASSUME TypeOK, [Next]_vars
  PROVE  /\ loggedIn' \in BOOLEAN /\ algorithm' \in Byte /\ hasWork' \in BOOLEAN
         /\ rejected' \in 0 .. MaxRejected /\ dropped' \in BOOLEAN
<1>0. loggedIn \in BOOLEAN /\ algorithm \in Byte /\ hasWork \in BOOLEAN
      /\ rejected \in 0 .. MaxRejected /\ dropped \in BOOLEAN
      /\ 0 \in Byte /\ MaxRejected \in Nat
  BY HandlersAssumption, BaseAssumption DEF TypeOK, Byte
<1>1. [Session!Next]_(Session!vars)
  BY StepAsPromised
<1>2. CASE UNCHANGED Session!vars
  BY <1>0, <1>2 DEF Session!vars
<1>3. CASE Session!Next
  <2>1. CASE Session!Reconnect
    BY <1>0, <2>1 DEF Session!Reconnect
  <2>2. ASSUME NEW form \in Forms, NEW whole \in BOOLEAN,
               \/ Session!Login(form, whole) \/ Session!Drop(form, whole)
               \/ Session!NewWork(form, whole)
               \/ Session!RejectShare(form) \/ Session!Ignore(form, whole)
        PROVE  /\ loggedIn' \in BOOLEAN /\ algorithm' \in Byte /\ hasWork' \in BOOLEAN
               /\ rejected' \in 0 .. MaxRejected /\ dropped' \in BOOLEAN
    <3>1. CASE Session!Login(form, whole)
      <4>1. form.algorithm \in Byte
        BY <3>1, HandlersAssumption DEF Session!Login, WellFormed
      <4> QED
        BY <1>0, <3>1, <4>1 DEF Session!Login
    <3>2. CASE Session!Drop(form, whole)
      BY <1>0, <3>2 DEF Session!Drop
    <3>3. CASE Session!NewWork(form, whole)
      BY <1>0, <3>3 DEF Session!NewWork
    <3>4. CASE Session!RejectShare(form)
      BY <1>0, <3>4 DEF Session!RejectShare
    <3>5. CASE Session!Ignore(form, whole)
      BY <1>0, <3>5 DEF Session!Ignore, Session!Quiet
    <3> QED
      BY <2>2, <3>1, <3>2, <3>3, <3>4, <3>5
  <2> QED
    BY <1>3, <2>1, <2>2 DEF Session!Next
<1> QED
  BY <1>1, <1>2, <1>3

LEMMA PingKept ==
  ASSUME TypeOK, [Next]_vars
  PROVE  ping' \in {"off", "waiting", "due"}
<1>0. ping \in {"off", "waiting", "due"}
  BY DEF TypeOK
<1>1. CASE Receive
  <2>1. PICK arrived \in PoolPackets : ProcessPacket(arrived.op, arrived.pb)
    BY <1>1 DEF Receive
  <2> DEFINE pb == arrived.pb
  <2> HIDE DEF pb
  <2>2. \/ AuthResponse(pb) \/ BlockData1(pb) \/ ShareAck(pb) \/ Message(pb) \/ Ping(pb)
        \/ Accept
    BY <2>1 DEF ProcessPacket, pb
  <2>3. CASE AuthResponse(pb)
    BY <1>0, <2>3 DEF AuthResponse, DropClient
  <2>4. CASE BlockData1(pb)
    BY <1>0, <2>4 DEF BlockData1
  <2>5. CASE ShareAck(pb)
    BY <1>0, <2>5 DEF ShareAck, DropClient
  <2>6. CASE Message(pb)
    BY <1>0, <2>6 DEF Message, DropClient, Accept
  <2>7. CASE Ping(pb)
    BY <1>0, <2>7 DEF Ping, DropClient, Accept
  <2>8. CASE Accept
    BY <1>0, <2>8 DEF Accept
  <2> QED
    BY <2>2, <2>3, <2>4, <2>5, <2>6, <2>7, <2>8
<1>2. CASE SendPing
  BY <1>2 DEF SendPing
<1>3. CASE Tick
  BY <1>3 DEF Tick
<1>4. CASE Reconnect
  BY <1>4 DEF Reconnect
<1>5. CASE UNCHANGED vars
  BY <1>0, <1>5 DEF vars
<1> QED
  BY <1>1, <1>2, <1>3, <1>4, <1>5 DEF Next

LEMMA SessionStep == SessionInv /\ [Next]_vars => SessionInv'
<1> SUFFICES ASSUME SessionInv, [Next]_vars PROVE SessionInv'
  OBVIOUS
<1>1. TypeOK
  BY DEF SessionInv
<1>2. IsWorkInfo(work') /\ TransactionsOnWholeBlock'
  BY WorkKept
<1>3. /\ loggedIn' \in BOOLEAN /\ algorithm' \in Byte /\ hasWork' \in BOOLEAN
      /\ rejected' \in 0 .. MaxRejected /\ dropped' \in BOOLEAN
  BY <1>1, ValuesKept
<1>4. ping' \in {"off", "waiting", "due"}
  BY <1>1, PingKept
<1>5. TypeOK'
  <2>1. DOMAIN work' = DOMAIN Blank
    BY <1>2 DEF IsWorkInfo
  <2> QED
    BY <1>2, <1>3, <1>4, <2>1 DEF TypeOK, IsWorkInfo
<1> QED
  BY <1>2, <1>5 DEF SessionInv

LEMMA SessionHolds == Spec => []SessionInv
BY SessionInit, SessionStep, PTL DEF Spec

(* Whatever arrives, the block data stays a record of numbers, arrays of   *)
(* their fixed sizes and hashes: blockData1 writes into the arrays of      *)
(* blockWorkInfo and never changes their length.                           *)
THEOREM HandlerTypes == Spec => []TypeOK
<1>1. SessionInv => TypeOK
  BY DEF SessionInv
<1> QED
  BY <1>1, SessionHolds, PTL

(* blockData1 looks at no error; still, block data that announce           *)
(* transactions hold every field of one packet, however packets are cut:   *)
(* the count is the last field, and one that is missing is read as 0.      *)
THEOREM TransactionsNeedWholeBlock == Spec => []TransactionsOnWholeBlock
<1>1. SessionInv => TransactionsOnWholeBlock
  BY DEF SessionInv
<1> QED
  BY <1>1, SessionHolds, PTL

(* The handlers implement PoolSession, for every set of packets the pool   *)
(* may write, every cut, every size of a byte and all lengths of texts,    *)
(* coinbase parts and lists of hashes that the client's arrays hold.       *)
THEOREM HandlersImplementSession == Spec => EffectsAsPromised
<1>1. Init => Session!Init
  BY DEF Init, Session!Init
<1>2. SessionInv /\ [Next]_vars => [Session!Next]_(Session!vars)
  BY StepAsPromised DEF SessionInv
<1> QED
  BY <1>1, <1>2, SessionHolds, PTL DEF Spec, EffectsAsPromised, Session!Spec

-----------------------------------------------------------------------------
(* What the work-management loop assumes of packets *)

(* Height and merkle root after the first k parts of a packet. *)
LEMMA InstalledUpdate ==
  ASSUME NEW form, IsWork(form), NEW old, IsWorkInfo(old), NEW k \in Nat
  PROVE  LET new == Session!Installed(old, form, k)
         IN /\ new.height = IF 2 <= k THEN form.height ELSE 0
            /\ new.merkleRoot = IF 8 <= k THEN form.merkleRoot ELSE old.merkleRoot
<1> DEFINE new == Session!Installed(old, form, k)
<1>1. /\ "height" \in Numbers /\ "height" \notin Arrays
      /\ "merkleRoot" \in Arrays
      /\ Session!Place["height"] = 2 /\ Session!Place["merkleRoot"] = 8
  BY DEF Numbers, Arrays, Session!Place
<1>2. {"height", "merkleRoot"} \subseteq DOMAIN old
  BY <1>1, BlankNames DEF IsWorkInfo
<1>3. /\ new["height"] = Session!Field(old, form, k, "height")
      /\ new["merkleRoot"] = Session!Field(old, form, k, "merkleRoot")
  BY <1>2 DEF Session!Installed
<1> HIDE DEF new
<1>4. new["height"] = IF 2 <= k THEN form["height"] ELSE 0
  BY <1>1, <1>3, FieldIs
<1>5. Copied(old["merkleRoot"], form["merkleRoot"]) = form["merkleRoot"]
  <2>1. DOMAIN Blank["merkleRoot"] = 1 .. HashSize
    BY BlankNames
  <2>2. old["merkleRoot"] \in [1 .. HashSize -> Byte]
    BY <1>1, <2>1 DEF IsWorkInfo
  <2>3. form["merkleRoot"] \in [1 .. HashSize -> Byte]
    BY WorkForm DEF Array
  <2> QED
    BY <2>2, <2>3 DEF Copied
<1>6. new["merkleRoot"] = IF 8 <= k THEN form["merkleRoot"] ELSE old["merkleRoot"]
  BY <1>1, <1>3, <1>5, FieldIs
<1> QED
  BY <1>4, <1>6 DEF new

(* A step of PoolSession that leaves the client its height and root. *)
LEMMA UpdateKept ==
  ASSUME UNCHANGED <<dropped, loggedIn, algorithm, work>>
  PROVE  UNCHANGED Client!vars
BY DEF Client!vars

LEMMA UpdateStep ==
  ASSUME IsWorkInfo(work), NEW form \in Forms, NEW whole \in BOOLEAN,
         ~dropped, Session!NewWork(form, whole)
  PROVE  Client!Next
<1>1. IsWork(form)
  BY HandlersAssumption DEF Session!NewWork, IsWork
<1>2. PICK k \in 0 .. Session!Parts(form) : work' = Session!Installed(work, form, k)
  BY DEF Session!NewWork
<1>3. k \in Nat
  OBVIOUS
<1>4. UNCHANGED <<dropped, loggedIn, algorithm>>
  BY DEF Session!NewWork
<1>5. /\ work'.height = IF 2 <= k THEN form.height ELSE 0
      /\ work'.merkleRoot = IF 8 <= k THEN form.merkleRoot ELSE work.merkleRoot
  BY <1>1, <1>2, <1>3, InstalledUpdate
<1>6. form \in FormsOf("WORKDATA1")
  BY <1>1 DEF IsWork, FormsOf
<1>7. CASE 8 <= k
  <2>1. work'.height = form.height /\ work'.merkleRoot = form.merkleRoot
    BY <1>3, <1>5, <1>7
  <2>2. Client!NewUpdate
    BY <1>4, <1>6, <2>1 DEF Client!NewUpdate
  <2> QED
    BY <2>2 DEF Client!Next, Client!Packet
<1>8. CASE ~(8 <= k)
  <2> DEFINE update == [height |-> form.height, root |-> form.merkleRoot]
             all == {[height |-> f.height, root |-> f.merkleRoot] :
                       f \in FormsOf("WORKDATA1")}
  <2>1. work'.merkleRoot = work.merkleRoot
    BY <1>5, <1>8
  <2>2. update \in all
    BY <1>6
  <2>3. work'.height \in {0, update.height}
    BY <1>5
  <2>4. \E u \in all : \E height \in {0, u.height} :
          [height |-> work'.height, root |-> work'.merkleRoot] =
          [[height |-> work.height, root |-> work.merkleRoot] EXCEPT !.height = height]
    <3> HIDE DEF all, update
    <3>1. [height |-> work'.height, root |-> work'.merkleRoot] =
          [[height |-> work.height, root |-> work.merkleRoot] EXCEPT !.height = work'.height]
      BY <2>1
    <3> QED
      BY <2>2, <2>3, <3>1
  <2>5. Client!CutUpdate
    BY <1>4, <2>4 DEF Client!CutUpdate
  <2> QED
    BY <2>5 DEF Client!Next, Client!Packet
<1> QED
  BY <1>7, <1>8

LEMMA ClientStep ==
  ASSUME TypeOK, [Next]_vars
  PROVE  [Client!Next]_(Client!vars)
<1>1. [Session!Next]_(Session!vars)
  BY StepAsPromised
<1>2. CASE UNCHANGED Session!vars
  BY <1>2, UpdateKept DEF Session!vars
<1>3. CASE Session!Reconnect
  <2>1. /\ dropped /\ dropped' = FALSE /\ loggedIn' = FALSE /\ algorithm' = 0
        /\ work' = Blank
    BY <1>3 DEF Session!Reconnect
  <2>2. Client!Renew
    BY <2>1 DEF Client!Renew
  <2> QED
    BY <2>2 DEF Client!Next
<1>4. ASSUME NEW form \in Forms, NEW whole \in BOOLEAN,
             Session!Arrives(form, whole),
             \/ Session!Login(form, whole) \/ Session!Drop(form, whole)
             \/ Session!NewWork(form, whole)
             \/ Session!RejectShare(form) \/ Session!Ignore(form, whole)
      PROVE  Client!Next \/ UNCHANGED Client!vars
  <2>0. dropped = FALSE
    BY <1>4 DEF Session!Arrives, TypeOK
  <2>1. CASE Session!Login(form, whole)
    <3>1. /\ form \in FormsOf("AUTH_ACK") /\ loggedIn' = TRUE
          /\ algorithm' = form.algorithm \/ algorithm' = 0
          /\ UNCHANGED <<work, dropped>>
      BY <2>1 DEF Session!Login, FormsOf
    <3>2. Client!Login
      BY <2>0, <3>1 DEF Client!Login
    <3> QED
      BY <3>2 DEF Client!Next, Client!Packet
  <2>2. CASE Session!Drop(form, whole)
    <3>1. dropped' = TRUE /\ UNCHANGED <<loggedIn, algorithm, work>>
      BY <2>2 DEF Session!Drop
    <3>2. Client!Close
      BY <2>0, <3>1 DEF Client!Close
    <3> QED
      BY <3>2 DEF Client!Next, Client!Packet
  <2>3. CASE Session!NewWork(form, whole)
    <3>1. IsWorkInfo(work)
      BY TypeGivesWork
    <3> QED
      BY <2>0, <2>3, <3>1, UpdateStep
  <2>4. CASE Session!RejectShare(form)
    BY <2>4, UpdateKept DEF Session!RejectShare
  <2>5. CASE Session!Ignore(form, whole)
    BY <2>5, UpdateKept DEF Session!Ignore, Session!Quiet
  <2> QED
    BY <1>4, <2>1, <2>2, <2>3, <2>4, <2>5
<1> QED
  BY <1>1, <1>2, <1>3, <1>4 DEF Session!Next

(* Whatever packets the pool writes and wherever they are cut, the loop    *)
(* finds the height and the root of one packet, or the old root with the   *)
(* packet's height or none, and no algorithm but one the pool assigned.    *)
THEOREM HandlersKeepUpdates == Spec => UpdatesAsAssumed
<1>1. Init => Client!Init
  <2> SUFFICES ASSUME Init PROVE Client!Init
    OBVIOUS
  <2>1. loggedIn = FALSE /\ algorithm = 0 /\ work = Blank /\ dropped = FALSE
    BY DEF Init
  <2> QED
    BY <2>1 DEF Client!Init
<1>2. TypeOK /\ [Next]_vars => [Client!Next]_(Client!vars)
  BY ClientStep
<1> QED
  BY <1>1, <1>2, HandlerTypes, PTL DEF Spec, UpdatesAsAssumed, Client!Spec
=============================================================================
