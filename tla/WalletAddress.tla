----------------------------- MODULE WalletAddress -----------------------------
(***************************************************************************)
(* xptClient_decodeBase58 and xptClient_addDeveloperFeeEntry.  The number  *)
(* written in the address is built up in an array of words, lowest first;  *)
(* a second array tracks the largest number of that many digits and gives  *)
(* the length of the output.  Digits have DigitBase values, bytes AddrBase *)
(* and words AddrBase ^ WordBytes; any other character is NoDigit.         *)
(***************************************************************************)
EXTENDS Powers, SequencesExt

CONSTANTS
  DigitBase,    \* 58
  AddrBase,     \* 256
  WordBytes,    \* 4
  MaxInput,     \* 200: longest address
  RawLength,    \* 25: bytes of a decoded address
  CheckLength,  \* 4: bytes of its checksum
  MaxFees,      \* 8: XPT_DEVELOPER_FEE_MAX_ENTRIES
  Checksum(_)   \* of the bytes before it: some function (a double SHA-256)

ASSUME AddressAssumption ==
  /\ DigitBase \in Nat /\ DigitBase >= 2
  /\ AddrBase \in Nat /\ AddrBase >= 2 /\ WordBytes \in Nat \ {0}
  /\ DigitBase < Power(AddrBase, WordBytes)
  /\ MaxInput \in Nat /\ MaxFees \in Nat
  /\ RawLength \in Nat /\ CheckLength \in Nat /\ CheckLength < RawLength

NoDigit == -1
Word == Power(AddrBase, WordBytes)

(* Mutant: the carry out of the word at b goes no further. *)
AddCarryOnce(array, b, carry) ==
  IF b > Len(array)
  THEN IF carry = 0 THEN array ELSE Append(array, carry)
  ELSE [array EXCEPT ![b] = (@ + carry) % Word]

(* Adds carry from place b on; a carry left at the end extends the array. *)
AddCarry(array, b, carry) ==
  LET c[i \in b .. Len(array) + 1] ==
        IF i = b THEN carry ELSE (array[i - 1] + c[i - 1]) \div Word
      sums == [i \in 1 .. Len(array) |->
                 IF i < b THEN array[i] ELSE (array[i] + c[i]) % Word]
  IN IF c[Len(array) + 1] = 0 THEN sums ELSE Append(sums, c[Len(array) + 1])

(* Times DigitBase in place, from the highest word down. *)
Multiply(array) ==
  LET from[b \in 1 .. Len(array) + 1] ==
        IF b = Len(array) + 1 THEN array
        ELSE LET product == from[b + 1][b] * DigitBase
             IN AddCarry(ReplaceAt(from[b + 1], b, product % Word), b + 1,
                         product \div Word)
  IN from[1]

(* baseTrack and the bytes of its highest word that are in use. *)
Track(n) ==
  LET track[i \in 1 .. n] == IF i = 1 THEN <<DigitBase - 1>> ELSE Multiply(track[i - 1])
  IN track[n]

UsedBytes(word) ==
  CHOOSE k \in 1 .. WordBytes :
    /\ word < Power(AddrBase, k)
    /\ k = 1 \/ word >= Power(AddrBase, k - 1)

OutputLength(n) ==
  (Len(Track(n)) - 1) * WordBytes + UsedBytes(Last(Track(n)))

(* The number begins with as many words as the track has. *)
Converted(digits) ==
  LET number[i \in 0 .. Len(digits)] ==
        IF i = 0 THEN [b \in 1 .. Len(Track(Len(digits))) |-> 0]
        ELSE AddCarry(Multiply(number[i - 1]), 1, digits[i])
  IN number[Len(digits)]

(* Highest byte first. *)
Bytes(array, length) ==
  [k \in 1 .. length |->
     LET i == length - k
     IN (array[(i \div WordBytes) + 1] \div Power(AddrBase, i % WordBytes)) % AddrBase]

Undecodable == [ok |-> FALSE, bytes |-> <<>>]

DecodeBase58(input) ==
  IF input = <<>> \/ Len(input) > MaxInput \/ Contains(input, NoDigit)
  THEN Undecodable
  ELSE [ok |-> TRUE, bytes |-> Bytes(Converted(input), OutputLength(Len(input)))]

-----------------------------------------------------------------------------
(* Fees *)

ValidAddress(decoded) ==
  /\ decoded.ok /\ Len(decoded.bytes) = RawLength
  /\ SubSeq(decoded.bytes, RawLength - CheckLength + 1, RawLength)
       = Checksum(SubSeq(decoded.bytes, 1, RawLength - CheckLength))

AddFee(fees, address, fee) ==
  LET decoded == DecodeBase58(address)
  IN IF ValidAddress(decoded) /\ Len(fees) < MaxFees
     THEN Append(fees, [pubKeyHash |-> SubSeq(decoded.bytes, 2, RawLength - CheckLength),
                        devFee |-> fee])
     ELSE fees

-----------------------------------------------------------------------------
(* The number a sequence of digits stands for, highest first. *)
Numeral(digits, base) ==
  LET upTo[i \in 0 .. Len(digits)] == IF i = 0 THEN 0 ELSE upTo[i - 1] * base + digits[i]
  IN upTo[Len(digits)]
=============================================================================
