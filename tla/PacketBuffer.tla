----------------------------- MODULE PacketBuffer -----------------------------
(***************************************************************************)
(* xptPacketbuffer.cpp: the buffer in which packets are composed and       *)
(* parsed, as operators on a record.  data is the allocated memory, limit  *)
(* its length (bufferLimit), size the length of the packet in it           *)
(* (bufferSize), index the place of the next access (parserIndex).  err is *)
(* the flag every caller declares, sets to false and passes to each call.  *)
(*                                                                         *)
(* A byte has Base values.  The widths of numbers are those of the code,   *)
(* so a U16 has Base * Base values, and 0xFF and 0xFFFF are one less than  *)
(* products of Base.  An operation that reads returns a record: got, what *)
(* it read, and pb, the buffer afterwards.                                 *)
(***************************************************************************)
EXTENDS Integers, Sequences

CONSTANT Base    \* values of a byte (256)

(* No number is as long as DataLimit. *)
ASSUME BaseAssumption == Base \in Nat /\ Base >= 3

Byte   == 0 .. Base - 1
MaxU8  == Base - 1
MaxU16 == Base * Base - 1
MaxU32 == Base * Base * Base * Base - 1
DataLimit == Base * Base * Base      \* 1024*1024*16

Lesser(a, b) == IF a <= b THEN a ELSE b

(* malloc() leaves any bytes; the highest one stands for them. *)
Unset(n) == [i \in 1 .. n |-> Base - 1]

Create(limit) ==
  [data |-> Unset(limit), limit |-> limit, size |-> 0, index |-> 0, err |-> FALSE]

ChangeSizeLimit(pb, limit) ==
  [pb EXCEPT !.limit = limit,
             !.size  = Lesser(@, limit),
             !.index = Lesser(@, limit),
             !.data  = SubSeq(@, 1, Lesser(Len(@), limit))
                         \o Unset(limit - Lesser(Len(@), limit))]

(* Little-endian numbers. *)
Digits(v, n) ==
  LET rest[i \in 0 .. n] == IF i = 0 THEN v ELSE rest[i - 1] \div Base
  IN [i \in 1 .. n |-> rest[i - 1] % Base]

Number(bytes) ==
  LET n == Len(bytes)
      value[i \in 0 .. n] == IF i = 0 THEN 0 ELSE bytes[n + 1 - i] + Base * value[i - 1]
  IN value[n]

(* memcpy() into an array behind its first n elements. *)
Placed(array, n, bytes) ==
  [i \in DOMAIN array |-> IF i - n \in 1 .. Len(bytes) THEN bytes[i - n] ELSE array[i]]

-----------------------------------------------------------------------------
(* Reading *)

BeginRead(pb) == [pb EXCEPT !.index = 4, !.err = FALSE]

Fits(pb, n) == pb.index + n <= pb.size

(* What every read of n bytes does to the buffer. *)
Advance(pb, n) ==
  IF Fits(pb, n) THEN [pb EXCEPT !.index = @ + n, !.err = FALSE]
                 ELSE [pb EXCEPT !.index = pb.size, !.err = TRUE]

ReadNumber(pb, n) ==
  [got |-> IF Fits(pb, n) THEN Number(SubSeq(pb.data, pb.index + 1, pb.index + n))
                          ELSE 0,
   pb  |-> Advance(pb, n)]

ReadU8(pb)  == ReadNumber(pb, 1)
ReadU16(pb) == ReadNumber(pb, 2)
ReadU32(pb) == ReadNumber(pb, 4)
ReadU64(pb) == ReadNumber(pb, 8)
ReadFloat(pb) == ReadNumber(pb, 4)

(* The bytes copied: none when the read fails. *)
ReadData(pb, n) ==
  IF n >= DataLimit
  THEN [got |-> <<>>, pb |-> pb]
  ELSE [got |-> IF Fits(pb, n) THEN SubSeq(pb.data, pb.index + 1, pb.index + n)
                               ELSE <<>>,
        pb  |-> Advance(pb, n)]

BadMaximum(max) == max = 0 \/ max > MaxU16
PrefixSize(max) == IF max - 1 <= MaxU8 THEN 1 ELSE 2

Failed(pb) == [got |-> <<>>, pb |-> [pb EXCEPT !.err = TRUE]]

ReadString(pb, max) ==
  LET length == ReadNumber(pb, PrefixSize(max))
  IN IF BadMaximum(max) THEN Failed(pb)
     ELSE IF \/ length.pb.err
             \/ length.got >= max - 1
             \/ ~Fits(length.pb, length.got)
          THEN Failed(length.pb)
     ELSE ReadData(length.pb, length.got)

-----------------------------------------------------------------------------
(* Writing *)

BeginWrite(pb, opcode) ==
  [pb EXCEPT !.data = Placed(@, 0, Digits(opcode % Base, 4)),
             !.index = 4, !.err = FALSE]

WriteData(pb, bytes) ==
  LET n == Len(bytes)
  IN IF n >= DataLimit THEN pb
     ELSE IF pb.index + n > pb.limit THEN [pb EXCEPT !.err = TRUE]
     ELSE [pb EXCEPT !.data = Placed(@, pb.index, bytes), !.index = @ + n, !.err = FALSE]

WriteNumber(pb, n, v) == WriteData(pb, Digits(v, n))

(* Length prefix and text go in together or not at all. *)
WriteString(pb, text, max) ==
  IF BadMaximum(max) \/ Len(text) > max - 1
  THEN [pb EXCEPT !.err = TRUE]
  ELSE WriteData(pb, Digits(Len(text), PrefixSize(max)) \o text)

(* Mutant: the header counts itself. *)
FinalizeWithHeader(pb) == [pb EXCEPT !.data = Placed(@, 1, Digits(pb.index, 3))]

(* The header gets the number of bytes behind it, whatever err says. *)
Finalize(pb) == [pb EXCEPT !.data = Placed(@, 1, Digits(pb.index - 4, 3))]

(* The bytes handed to send(). *)
Composed(pb) == SubSeq(pb.data, 1, pb.index)

-----------------------------------------------------------------------------
(* A packet as the sequence of the calls that write it. *)

U8(v)  == [kind |-> "number", size |-> 1, value |-> v]
U16(v) == [kind |-> "number", size |-> 2, value |-> v]
U32(v) == [kind |-> "number", size |-> 4, value |-> v]
U64(v) == [kind |-> "number", size |-> 8, value |-> v]
Raw(bytes) == [kind |-> "data", value |-> bytes]
Text(text, max) == [kind |-> "string", size |-> max, value |-> text]

WriteItem(pb, item) ==
  CASE item.kind = "number" -> WriteNumber(pb, item.size, item.value)
    [] item.kind = "data"   -> WriteData(pb, item.value)
    [] item.kind = "string" -> WriteString(pb, item.value, item.size)

Compose(limit, opcode, items) ==
  LET written[i \in 0 .. Len(items)] ==
        IF i = 0 THEN BeginWrite(Create(limit), opcode)
                 ELSE WriteItem(written[i - 1], items[i])
  IN Composed(Finalize(written[Len(items)]))
=============================================================================
