----------------------------- MODULE RiecoinSieve -----------------------------
(***************************************************************************)
(* riecoinMiner.cpp: the table of small primes (riecoin_init) and the      *)
(* sieve of riecoin_process, whose positions stand for prime sextuples:    *)
(* position i for the numbers target + offset + Primorial * i + bias.      *)
(* A position is a candidate when no prime of the table divides any of     *)
(* its six numbers; the first Skipped primes need no sieving because the   *)
(* offset makes every number 97 + bias modulo their product.               *)
(***************************************************************************)
EXTENDS Integers, Sequences

CONSTANTS
  PrimeLimit,   \* 1900000: riecoin_primeTestLimit
  Skipped,      \* 9: primes whose product is riecoin_Primorial
  Primorial,    \* 223092870
  SieveSize     \* 1024*1024, divisible by 8

ASSUME SieveAssumption ==
  /\ PrimeLimit \in Nat /\ PrimeLimit >= 2 /\ Skipped \in Nat
  /\ Primorial \in Nat \ {0} /\ SieveSize \in Nat

Bias == {0, 4, 6, 10, 12, 16}     \* primeTupleBias
StartResidue == 97

(* vfComposite: multiples of each unmarked factor, from its square on. *)
Composite ==
  LET marked[f \in 1 .. PrimeLimit] ==
        IF f = 1 THEN {}
        ELSE IF f * f >= PrimeLimit \/ f \in marked[f - 1] THEN marked[f - 1]
        ELSE marked[f - 1] \cup {f * k : k \in f .. (PrimeLimit - 1) \div f}
  IN marked[PrimeLimit]

PrimeTable ==
  LET table[n \in 1 .. PrimeLimit - 1] ==
        IF n = 1 THEN <<>>
        ELSE IF n \in Composite THEN table[n - 1]
        ELSE Append(table[n - 1], n)
  IN table[PrimeLimit - 1]

(* Primorial is the product of the skipped primes, none of which divides   *)
(* one of the first six numbers, and has an inverse modulo each other one. *)
ASSUME PrimorialAssumption ==
  \A n \in 1 .. Len(PrimeTable) :
    LET p == PrimeTable[n]
    IN IF n <= Skipped
       THEN Primorial % p = 0 /\ \A bias \in Bias : (StartResidue + bias) % p # 0
       ELSE \E x \in 1 .. p - 1 : (Primorial * x) % p = 1

(* mpz_invert, external: for a prime that does not divide Primorial. *)
InverseOf(p) == CHOOSE x \in 1 .. p - 1 : (Primorial * x) % p = 1

Offset(target) == ((Primorial - (target % Primorial)) % Primorial) + StartResidue

(* Mutant: the position of the residue itself, not of its complement. *)
FirstMarkedAtResidue(number, bias, p) ==
  LET remainder == ((number % p) + bias) % p
  IN (remainder * InverseOf(p)) % p

(* The first position whose number with this bias p divides. *)
FirstMarked(number, bias, p) ==
  LET remainder == ((number % p) + bias) % p
      pa == IF p < remainder THEN p - remainder + p ELSE p - remainder
  IN ((pa % p) * InverseOf(p)) % p

Marked(target) ==
  LET number == target + Offset(target)
  IN UNION {{i \in 0 .. SieveSize - 1 :
               i % PrimeTable[n] = FirstMarked(number, bias, PrimeTable[n])} :
              n \in Skipped + 1 .. Len(PrimeTable), bias \in Bias}

(* The scan leaves out position 0. *)
Candidates(target) == (1 .. SieveSize - 1) \ Marked(target)

-----------------------------------------------------------------------------
(* The six numbers of a position, and the primes. *)
Sextuple(target, i) == {target + Offset(target) + Primorial * i + bias : bias \in Bias}

IsPrime(n) == n >= 2 /\ \A d \in 2 .. n - 1 : n % d # 0
SmallPrimes == {n \in 1 .. PrimeLimit - 1 : IsPrime(n)}
=============================================================================
