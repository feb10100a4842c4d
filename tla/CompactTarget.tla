----------------------------- MODULE CompactTarget -----------------------------
(***************************************************************************)
(* xptClient_getDifficultyTargetFromCompact: a target of Words words from  *)
(* a compact number of a size byte and a mantissa, shifted byte by byte    *)
(* through the words.  A byte has TargetBase values, the mantissa Mantissa *)
(* bytes, a word Mantissa + 1.  The first word is the lowest.              *)
(***************************************************************************)
EXTENDS Powers

CONSTANTS
  TargetBase,   \* 256
  Mantissa,     \* 3
  Words         \* 8

ASSUME TargetAssumption ==
  /\ TargetBase \in Nat /\ TargetBase >= 2 /\ TargetBase % 2 = 0
  /\ Mantissa \in Nat \ {0} /\ Words \in Nat \ {0}

WordSize == Power(TargetBase, Mantissa + 1)

SizeOf(compact)   == compact \div Power(TargetBase, Mantissa)
SignSet(compact)  == (compact % Power(TargetBase, Mantissa)) >= Power(TargetBase, Mantissa) \div 2
WordOf(compact)   == compact % (Power(TargetBase, Mantissa) \div 2)

OneWord(word) == [i \in 0 .. Words - 1 |-> IF i = 0 THEN word ELSE 0]

(* Mutant: the bytes pushed out of a word are lost. *)
ShiftByteLosing(target) ==
  [i \in 0 .. Words - 1 |-> (target[i] * TargetBase) % WordSize]

(* One round of the loop, from the highest word down. *)
ShiftByte(target) ==
  [i \in 0 .. Words - 1 |->
     ((target[i] * TargetBase) % WordSize)
       + (IF i = 0 THEN 0 ELSE target[i - 1] \div Power(TargetBase, Mantissa))]

Shifted(target, rounds) ==
  LET after[n \in 0 .. rounds] == IF n = 0 THEN target ELSE ShiftByte(after[n - 1])
  IN after[rounds]

DifficultyTarget(compact) ==
  LET size == SizeOf(compact)
      word == WordOf(compact)
  IN IF SignSet(compact) THEN OneWord(0)
     ELSE IF size <= Mantissa THEN OneWord(word \div Power(TargetBase, Mantissa - size))
     ELSE Shifted(OneWord(word), size - Mantissa)

-----------------------------------------------------------------------------
(* The number a target stands for. *)
ValueOf(target) ==
  LET upTo[n \in 0 .. Words] ==
        IF n = 0 THEN 0 ELSE upTo[n - 1] + target[n - 1] * Power(WordSize, n - 1)
  IN upTo[Words]

(* The definition: mantissa * base^(size - Mantissa), in Words words. *)
CompactValue(compact) ==
  LET size == SizeOf(compact)
      word == WordOf(compact)
  IN IF SignSet(compact) THEN 0
     ELSE IF size <= Mantissa THEN word \div Power(TargetBase, Mantissa - size)
     ELSE (word * Power(TargetBase, size - Mantissa)) % Power(WordSize, Words)
=============================================================================
