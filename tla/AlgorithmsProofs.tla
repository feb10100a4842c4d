---------------------------- MODULE AlgorithmsProofs ----------------------------
(***************************************************************************)
(* Proofs about the sequential computations, for every input and every     *)
(* value of the constants: compact targets, merkle roots, addresses, the   *)
(* packets of the client and the riecoin sieve.                            *)
(***************************************************************************)
EXTENDS Algorithms, PacketBufferProofs

-----------------------------------------------------------------------------
(* Powers *)

IsPowerTable(p, b, n) ==
  /\ p \in [0 .. n -> Nat] /\ p[0] = 1
  /\ \A i \in 1 .. n : p[i] = b * p[i - 1]

LEMMA PowerTable ==
  ASSUME NEW b \in Nat, NEW n \in Nat
  PROVE  \E p : IsPowerTable(p, b, n)
<1> DEFINE step == [i \in 1 .. n |-> [x \in Nat |-> b * x]]
           all == Nat
<1>1. step \in Steps(n, all) /\ 1 \in all
  <2>1. \A x \in Nat : b * x \in Nat
    OBVIOUS
  <2> QED
    BY <2>1 DEF Steps
<1>2. PICK p \in [0 .. n -> all] :
        p[0] = 1 /\ \A i \in 1 .. n : p[i] = step[i][p[i - 1]]
  <2> HIDE DEF all, step
  <2> QED
    BY <1>1, Iteration
<1>3. ASSUME NEW i \in 1 .. n PROVE p[i] = b * p[i - 1]
  <2>1. p[i - 1] \in Nat
    BY <1>2
  <2> QED
    BY <1>2, <2>1
<1> QED
  BY <1>2, <1>3 DEF IsPowerTable

LEMMA PowerIs ==
  ASSUME NEW b \in Nat, NEW n \in Nat, NEW p, IsPowerTable(p, b, n)
  PROVE  Power(b, n) = p[n]
<1> DEFINE next(g, i) == IF i = 0 THEN 1 ELSE b * g[i - 1]
           Rec(g) == g = [i \in 0 .. n |-> next(g, i)]
<1>1. Rec(p)
  <2>1. \A i \in 0 .. n : p[i] = next(p, i)
    BY DEF IsPowerTable
  <2> QED
    BY <2>1 DEF IsPowerTable
<1>2. PICK g : Rec(g) /\ Power(b, n) = g[n]
  BY <1>1 DEF Power
<1>3. g[0] = p[0] /\ \A i \in 1 .. n : g[i - 1] = p[i - 1] => g[i] = p[i]
  <2>1. \A i \in 0 .. n : g[i] = next(g, i)
    BY <1>2
  <2>2. g[0] = 1 /\ p[0] = 1
    BY <2>1 DEF IsPowerTable
  <2>3. ASSUME NEW i \in 1 .. n, g[i - 1] = p[i - 1] PROVE g[i] = p[i]
    <3>1. i \in 0 .. n /\ i # 0
      OBVIOUS
    <3>2. g[i] = b * g[i - 1]
      BY <2>1, <3>1
    <3> QED
      BY <2>3, <3>2 DEF IsPowerTable
  <2> HIDE DEF Rec
  <2> QED
    BY <2>2, <2>3
<1> HIDE DEF Rec
<1>4. \A i \in 0 .. n : g[i] = p[i]
  BY <1>3, Determined
<1> QED
  BY <1>2, <1>4

LEMMA PowerGrows ==
  ASSUME NEW b \in Nat, NEW n \in Nat
  PROVE  /\ Power(b, 0) = 1 /\ Power(b, n) \in Nat
         /\ Power(b, n + 1) = b * Power(b, n)
<1> DEFINE one == n + 1
<1>1. PICK p : IsPowerTable(p, b, one)
  BY PowerTable
<1>2. Power(b, one) = p[one]
  <2> HIDE DEF one
  <2>1. one \in Nat
    BY DEF one
  <2> QED
    BY <1>1, <2>1, PowerIs
<1>3. ASSUME NEW m \in 0 .. n PROVE Power(b, m) = p[m]
  <2> DEFINE q == [i \in 0 .. m |-> p[i]]
  <2>1. \A i \in 0 .. m : p[i] \in Nat
    BY <1>1 DEF IsPowerTable
  <2>2. IsPowerTable(q, b, m)
    BY <1>1, <2>1 DEF IsPowerTable
  <2>3. Power(b, m) = q[m]
    <3> HIDE DEF q
    <3> QED
      BY <2>2, PowerIs
  <2> QED
    BY <2>3
<1>4. p[0] = 1 /\ p[n] \in Nat /\ p[one] = b * p[n]
  BY <1>1 DEF IsPowerTable
<1>5. Power(b, n) = p[n] /\ Power(b, 0) = p[0]
  BY <1>3
<1> QED
  BY <1>2, <1>4, <1>5

LEMMA PowerPositive ==
  ASSUME NEW b \in Nat, b > 0, NEW n \in Nat
  PROVE  Power(b, n) \in Nat /\ Power(b, n) > 0
<1> DEFINE S == {m \in Nat : Power(b, m) \in Nat /\ Power(b, m) > 0}
<1>1. 0 \in S
  <2>1. Power(b, 0) = 1
    BY PowerGrows
  <2> QED
    BY <2>1
<1>2. ASSUME NEW m \in S \cap Nat PROVE m + 1 \in S
  <2>1. Power(b, m + 1) = b * Power(b, m)
    BY PowerGrows
  <2> QED
    BY <1>2, <2>1
<1> HIDE DEF S
<1>3. Nat \subseteq S
  BY <1>1, <1>2, SetInduction
<1> QED
  BY <1>3 DEF S

-----------------------------------------------------------------------------
(* Division *)

LEMMA Products ==
  ASSUME NEW a \in Int, NEW b \in Int, NEW c \in Int, a <= b, 0 <= c
  PROVE  a * c <= b * c /\ c * a <= c * b
OBVIOUS

LEMMA Division ==
  ASSUME NEW x \in Nat, NEW p \in Nat \ {0}
  PROVE  /\ x \div p \in Nat /\ x % p \in 0 .. p - 1
         /\ x = p * (x \div p) + (x % p)
OBVIOUS

LEMMA DivisionIs ==
  ASSUME NEW x \in Nat, NEW p \in Nat \ {0}, NEW q \in Nat, NEW r \in 0 .. p - 1,
         x = p * q + r
  PROVE  x \div p = q /\ x % p = r
<1> DEFINE d == x \div p
           m == x % p
<1>1. d \in Nat /\ m \in 0 .. p - 1 /\ x = p * d + m
  BY Division
<1> HIDE DEF d, m
<1>2. ~(d >= q + 1)
  <2> SUFFICES ASSUME d >= q + 1 PROVE FALSE
    OBVIOUS
  <2>1. p * (q + 1) <= p * d
    BY <1>1, Products
  <2>2. p * (q + 1) = p * q + p
    OBVIOUS
  <2> QED
    BY <1>1, <2>1, <2>2
<1>3. ~(q >= d + 1)
  <2> SUFFICES ASSUME q >= d + 1 PROVE FALSE
    OBVIOUS
  <2>1. p * (d + 1) <= p * q
    BY <1>1, Products
  <2>2. p * (d + 1) = p * d + p
    BY <1>1
  <2> QED
    BY <1>1, <2>1, <2>2
<1>4. d = q
  BY <1>1, <1>2, <1>3
<1>5. m = r
  BY <1>1, <1>4
<1> QED
  BY <1>4, <1>5 DEF d, m

(* A remainder may be taken before a multiplication. *)
LEMMA RemainderTimes ==
  ASSUME NEW x \in Nat, NEW p \in Nat \ {0}, NEW k \in Nat
  PROVE  ((x % p) * k) % p = (x * k) % p
<1> DEFINE d == x \div p
           m == x % p
           e == (m * k) \div p
           r == (m * k) % p
<1>1. d \in Nat /\ m \in Nat /\ x = p * d + m
  BY Division
<1> HIDE DEF d, m
<1>2. m * k \in Nat
  BY <1>1
<1>3. e \in Nat /\ r \in 0 .. p - 1 /\ m * k = p * e + r
  BY <1>2, Division
<1> HIDE DEF e, r
<1>4. x * k = p * (d * k + e) + r
  <2>1. x * k = (p * d) * k + m * k
    BY <1>1
  <2>2. (p * d) * k = p * (d * k)
    BY <1>1
  <2>3. p * (d * k + e) = p * (d * k) + p * e
    BY <1>1, <1>3
  <2> QED
    BY <1>1, <1>3, <2>1, <2>2, <2>3
<1>5. x * k \in Nat /\ d * k + e \in Nat
  BY <1>1, <1>3
<1>6. (x * k) % p = r
  <2> DEFINE y == x * k
             q == d * k + e
  <2>1. y \in Nat /\ q \in Nat /\ y = p * q + r
    BY <1>4, <1>5
  <2> HIDE DEF y, q
  <2>2. y % p = r
    BY <1>3, <2>1, DivisionIs
  <2> QED
    BY <2>2 DEF y
<1> QED
  BY <1>6 DEF m, r

-----------------------------------------------------------------------------
(* Targets *)

Target == [0 .. Words - 1 -> 0 .. WordSize - 1]

LEMMA TargetSizes ==
  /\ TargetBase \in Nat /\ TargetBase >= 2 /\ Words \in Nat /\ Words > 0 /\ Mantissa \in Nat
  /\ Mantissa > 0
  /\ Power(TargetBase, Mantissa) \in Nat /\ Power(TargetBase, Mantissa) >= 2
  /\ WordSize = TargetBase * Power(TargetBase, Mantissa)
  /\ WordSize \in Nat /\ WordSize > Power(TargetBase, Mantissa)
<1>1. /\ TargetBase \in Nat /\ TargetBase >= 2 /\ Words \in Nat /\ Words > 0
      /\ Mantissa \in Nat /\ Mantissa > 0
  BY TargetAssumption
<1> DEFINE m == Mantissa - 1
<1>2. m \in Nat /\ m + 1 = Mantissa
  BY <1>1
<1> HIDE DEF m
<1>3. \A n \in Nat : Power(TargetBase, n) \in Nat /\ Power(TargetBase, n) > 0
  BY <1>1, PowerPositive
<1>4. Power(TargetBase, m + 1) = TargetBase * Power(TargetBase, m)
  BY <1>1, <1>2, PowerGrows
<1>5. Power(TargetBase, m) \in Nat /\ Power(TargetBase, m) > 0
  BY <1>2, <1>3
<1>6. Power(TargetBase, Mantissa) \in Nat /\ Power(TargetBase, Mantissa) >= 2
  BY <1>1, <1>2, <1>4, <1>5
<1>7. WordSize = TargetBase * Power(TargetBase, Mantissa)
  BY <1>1, PowerGrows DEF WordSize
<1>8. WordSize >= 2 * Power(TargetBase, Mantissa)
  BY <1>1, <1>6, <1>7
<1> QED
  BY <1>1, <1>6, <1>7, <1>8

(* The sum that ValueOf adds up, word by word. *)
IsSum(sum, t) ==
  /\ sum \in [0 .. Words -> Nat] /\ sum[0] = 0
  /\ \A n \in 1 .. Words : sum[n] = sum[n - 1] + t[n - 1] * Power(WordSize, n - 1)

LEMMA PowerNat ==
  ASSUME NEW b \in Nat, NEW n \in Nat
  PROVE  Power(b, n) \in Nat
BY PowerGrows

LEMMA TargetSum ==
  ASSUME NEW t \in Target
  PROVE  \E sum : IsSum(sum, t) /\ ValueOf(t) = sum[Words]
<1> DEFINE step == [n \in 1 .. Words |-> [x \in Nat |-> x + t[n - 1] * Power(WordSize, n - 1)]]
           all == Nat
           base == 0
           next(g, n) == IF n = 0 THEN 0 ELSE g[n - 1] + t[n - 1] * Power(WordSize, n - 1)
           Rec(g) == g = [n \in 0 .. Words |-> next(g, n)]
<1>1. Words \in Nat /\ Words > 0 /\ WordSize \in Nat
  BY TargetSizes
<1>2. step \in Steps(Words, all) /\ base \in all
  <2>1. ASSUME NEW n \in 1 .. Words, NEW x \in Nat
        PROVE  x + t[n - 1] * Power(WordSize, n - 1) \in Nat
    <3>1. n - 1 \in Nat /\ t[n - 1] \in Nat
      BY <1>1 DEF Target
    <3>2. Power(WordSize, n - 1) \in Nat
      BY <1>1, <3>1, PowerNat
    <3> QED
      BY <3>1, <3>2
  <2> QED
    BY <2>1 DEF Steps
<1>3. PICK f : IsSum(f, t)
  <2>1. PICK f \in [0 .. Words -> all] :
          f[0] = base /\ \A n \in 1 .. Words : f[n] = step[n][f[n - 1]]
    <3>1. Words \in Nat /\ step \in Steps(Words, all) /\ base \in all
      BY <1>1, <1>2, Zenon
    <3> HIDE DEF all, step, base
    <3>2. \E g \in [0 .. Words -> all] :
            /\ g[0] = base
            /\ \A n \in 1 .. Words : g[n] = step[n][g[n - 1]]
      BY <3>1, Iteration, SMTT(60)
    <3> QED
      BY <3>2, Zenon
  <2>2. ASSUME NEW n \in 1 .. Words PROVE f[n] = f[n - 1] + t[n - 1] * Power(WordSize, n - 1)
    <3> HIDE DEF step
    <3>1. n - 1 \in 0 .. Words
      BY <1>1
    <3>2. f[n - 1] \in Nat
      BY <2>1, <3>1
    <3>3. f[n] = step[n][f[n - 1]]
      BY <2>1
    <3> QED
      BY <3>2, <3>3 DEF step
  <2>3. IsSum(f, t)
    BY <2>1, <2>2 DEF IsSum
  <2> QED
    BY <2>3
<1>4. Rec(f)
  <2>1. \A n \in 0 .. Words : f[n] = next(f, n)
    BY <1>3 DEF IsSum
  <2> QED
    BY <1>3, <2>1 DEF IsSum
<1>5. PICK g : Rec(g) /\ ValueOf(t) = g[Words]
  BY <1>4 DEF ValueOf
<1>6. g[0] = f[0] /\ \A n \in 1 .. Words : g[n - 1] = f[n - 1] => g[n] = f[n]
  <2>1. \A n \in 0 .. Words : g[n] = next(g, n)
    BY <1>5
  <2> HIDE DEF Rec
  <2>2. g[0] = 0 /\ \A n \in 1 .. Words : g[n] = g[n - 1] + t[n - 1] * Power(WordSize, n - 1)
    BY <1>1, <2>1
  <2>3. ASSUME NEW n \in 1 .. Words, g[n - 1] = f[n - 1] PROVE g[n] = f[n]
    <3>1. g[n] = g[n - 1] + t[n - 1] * Power(WordSize, n - 1)
      BY <2>2
    <3>2. f[n] = f[n - 1] + t[n - 1] * Power(WordSize, n - 1)
      BY <1>3 DEF IsSum
    <3> QED
      BY <2>3, <3>1, <3>2
  <2>4. g[0] = f[0]
    BY <1>3, <2>2 DEF IsSum
  <2> QED
    BY <2>3, <2>4
<1> HIDE DEF Rec, step
<1>7. \A n \in 0 .. Words : g[n] = f[n]
  BY <1>1, <1>6, Determined
<1> QED
  BY <1>1, <1>3, <1>5, <1>7

(* A target is less than the number after the largest one. *)
LEMMA SumBounded ==
  ASSUME NEW t \in Target, NEW sum, IsSum(sum, t)
  PROVE  \A n \in 0 .. Words : sum[n] \in Nat /\ sum[n] < Power(WordSize, n)
<1> DEFINE S == {n \in Nat : n <= Words => sum[n] < Power(WordSize, n)}
<1>1. Words \in Nat /\ WordSize \in Nat /\ WordSize > 0 /\ \A n \in 0 .. Words : sum[n] \in Nat
  BY TargetSizes DEF IsSum
<1>2. 0 \in S
  BY <1>1, PowerGrows DEF IsSum
<1>3. ASSUME NEW n \in S \cap Nat PROVE n + 1 \in S
  <2> SUFFICES ASSUME n + 1 <= Words PROVE sum[n + 1] < Power(WordSize, n + 1)
    OBVIOUS
  <2> DEFINE p == Power(WordSize, n)
  <2>1. p \in Nat /\ Power(WordSize, n + 1) = WordSize * p
    BY <1>1, PowerGrows
  <2>2. sum[n + 1] = sum[n] + t[n] * p
    <3>1. n + 1 \in 1 .. Words /\ (n + 1) - 1 = n
      BY <1>1
    <3> QED
      BY <3>1 DEF IsSum
  <2>3. sum[n] \in Nat /\ sum[n] < p
    BY <1>1, <1>3
  <2>4. t[n] \in Nat /\ t[n] <= WordSize - 1
    BY <1>1 DEF Target
  <2> HIDE DEF p
  <2>5. t[n] * p <= (WordSize - 1) * p
    BY <1>1, <2>1, <2>4, Products
  <2>6. (WordSize - 1) * p = WordSize * p - p
    BY <1>1, <2>1
  <2> QED
    BY <1>1, <2>1, <2>2, <2>3, <2>4, <2>5, <2>6
<1>4. Nat \subseteq S
  <2> HIDE DEF S
  <2> QED
    BY <1>2, <1>3, SetInduction
<1> QED
  BY <1>1, <1>4

LEMMA SumIs ==
  ASSUME NEW t \in Target, NEW sum, IsSum(sum, t)
  PROVE  ValueOf(t) = sum[Words]
<1>1. PICK other : IsSum(other, t) /\ ValueOf(t) = other[Words]
  BY TargetSum
<1>2. ASSUME NEW n \in 1 .. Words, other[n - 1] = sum[n - 1] PROVE other[n] = sum[n]
  <2>1. other[n] = other[n - 1] + t[n - 1] * Power(WordSize, n - 1)
    BY <1>1 DEF IsSum
  <2>2. sum[n] = sum[n - 1] + t[n - 1] * Power(WordSize, n - 1)
    BY DEF IsSum
  <2> QED
    BY <1>2, <2>1, <2>2
<1>3. Words \in Nat
  BY TargetSizes
<1>4. other[0] = sum[0]
  BY <1>1 DEF IsSum
<1>5. \A n \in 0 .. Words : other[n] = sum[n]
  BY <1>2, <1>3, <1>4, Determined
<1> QED
  BY <1>1, <1>3, <1>5

LEMMA OneWordValue ==
  ASSUME NEW word \in 0 .. WordSize - 1
  PROVE  OneWord(word) \in Target /\ ValueOf(OneWord(word)) = word
<1> DEFINE t == OneWord(word)
           sum == [n \in 0 .. Words |-> IF n = 0 THEN 0 ELSE word]
<1>1. Words \in Nat /\ Words > 0 /\ WordSize \in Nat /\ WordSize > 0 /\ word \in Nat
  BY TargetSizes
<1>2. t \in Target
  BY <1>1 DEF OneWord, Target
<1>3. IsSum(sum, t)
  <2>1. ASSUME NEW n \in 1 .. Words PROVE sum[n] = sum[n - 1] + t[n - 1] * Power(WordSize, n - 1)
    <3>1. CASE n = 1
      <4>1. Power(WordSize, n - 1) = 1
        BY <1>1, <3>1, PowerGrows
      <4>2. sum[n] = word /\ sum[n - 1] = 0 /\ t[n - 1] = word
        BY <1>1, <3>1 DEF OneWord
      <4> QED
        BY <1>1, <4>1, <4>2
    <3>2. CASE n # 1
      <4>1. n - 1 \in Nat /\ n - 1 \in 0 .. Words - 1 /\ n - 1 # 0 /\ n \in 0 .. Words
        BY <1>1, <3>2
      <4>2. t[n - 1] = 0
        BY <4>1 DEF OneWord
      <4>3. sum[n] = word /\ sum[n - 1] = word
        BY <1>1, <4>1
      <4>4. Power(WordSize, n - 1) \in Nat
        BY <1>1, <4>1, PowerNat
      <4> QED
        BY <1>1, <4>2, <4>3, <4>4
    <3> QED
      BY <3>1, <3>2
  <2>2. sum \in [0 .. Words -> Nat] /\ sum[0] = 0
    BY <1>1
  <2> QED
    BY <2>1, <2>2 DEF IsSum
<1> HIDE DEF t, sum
<1>4. ValueOf(t) = sum[Words]
  BY <1>2, <1>3, SumIs
<1> QED
  BY <1>1, <1>2, <1>4 DEF t, sum

(* One word: what it keeps, and what goes into the next one. *)
LEMMA WordSplits ==
  ASSUME NEW x \in 0 .. WordSize - 1
  PROVE  LET low  == (x * TargetBase) % WordSize
             high == x \div Power(TargetBase, Mantissa)
         IN /\ low \in Nat /\ high \in Nat /\ high <= TargetBase - 1
            /\ low <= WordSize - TargetBase
            /\ x * TargetBase = low + WordSize * high
<1> DEFINE p == Power(TargetBase, Mantissa)
           high == x \div p
           rest == x % p
<1>1. /\ TargetBase \in Nat /\ TargetBase >= 2 /\ p \in Nat \ {0} /\ WordSize = TargetBase * p
      /\ WordSize \in Nat \ {0} /\ x \in Nat
  BY TargetSizes
<1>2. high \in Nat /\ rest \in 0 .. p - 1 /\ x = p * high + rest
  <2> HIDE DEF p
  <2> QED
    BY <1>1, Division
<1> HIDE DEF p, high, rest
<1>3. high <= TargetBase - 1
  <2> SUFFICES ASSUME high >= TargetBase PROVE FALSE
    BY <1>1, <1>2
  <2>1. p * TargetBase <= p * high
    BY <1>1, <1>2, Products
  <2> QED
    BY <1>1, <1>2, <2>1
<1>4. x * TargetBase = WordSize * high + rest * TargetBase
  <2>1. x * TargetBase = (p * high) * TargetBase + rest * TargetBase
    BY <1>1, <1>2
  <2>2. (p * high) * TargetBase = (TargetBase * p) * high
    BY <1>1, <1>2
  <2> QED
    BY <1>1, <2>1, <2>2
<1>5. rest * TargetBase \in Nat /\ rest * TargetBase <= WordSize - TargetBase
  <2>1. rest * TargetBase <= (p - 1) * TargetBase
    BY <1>1, <1>2, Products
  <2>2. (p - 1) * TargetBase = TargetBase * p - TargetBase
    BY <1>1
  <2> QED
    BY <1>1, <1>2, <2>1, <2>2
<1>6. (x * TargetBase) % WordSize = rest * TargetBase
  <2> DEFINE y == x * TargetBase
             r == rest * TargetBase
  <2>1. y \in Nat /\ r \in 0 .. WordSize - 1 /\ y = WordSize * high + r
    BY <1>1, <1>4, <1>5
  <2> HIDE DEF y, r
  <2>2. y % WordSize = r
    BY <1>1, <1>2, <2>1, DivisionIs
  <2> QED
    BY <2>2 DEF y, r
<1> DEFINE low == (x * TargetBase) % WordSize
           double == x * TargetBase
           part == WordSize * high
<1>7. /\ low \in Nat /\ low <= WordSize - TargetBase /\ double = low + part
      /\ high \in Nat /\ high <= TargetBase - 1
  <2> DEFINE r == rest * TargetBase
  <2>1. r \in Nat /\ r <= WordSize - TargetBase /\ low = r /\ double = part + r /\ part \in Int
    BY <1>1, <1>2, <1>4, <1>5, <1>6
  <2> HIDE DEF r, low, double, part
  <2> QED
    BY <1>1, <1>2, <1>3, <2>1
<1> QED
  BY <1>7 DEF high, p

LEMMA ShiftedWord ==
  ASSUME NEW s \in Nat, NEW c \in Nat, NEW w \in Nat, NEW low \in Nat, NEW d \in Nat,
         NEW x \in Nat, NEW u \in Nat, NEW base \in Nat, NEW size \in Nat,
         u + c * w = base * s, x * base = low + size * d
  PROVE  (u + (low + c) * w) + d * (size * w) = base * (s + x * w)
<1>1. (low + c) * w = low * w + c * w /\ d * (size * w) = (size * d) * w
  OBVIOUS
<1>2. low * w + (size * d) * w = (x * base) * w
  OBVIOUS
<1>3. base * (s + x * w) = base * s + (x * base) * w
  OBVIOUS
<1>4. /\ low * w \in Nat /\ c * w \in Nat /\ (size * d) * w \in Nat /\ base * s \in Nat
      /\ (x * base) * w \in Nat
  OBVIOUS
<1> QED
  BY <1>1, <1>2, <1>3, <1>4

(* Shifting a target by a byte multiplies its value, and drops what is    *)
(* beyond its last word.                                                  *)
LEMMA ShiftValue ==
  ASSUME NEW t \in Target
  PROVE  /\ ShiftByte(t) \in Target
         /\ ValueOf(ShiftByte(t)) = (ValueOf(t) * TargetBase) % Power(WordSize, Words)
<1> DEFINE p == Power(TargetBase, Mantissa)
           low == [i \in 0 .. Words - 1 |-> (t[i] * TargetBase) % WordSize]
           carry == [n \in 0 .. Words |-> IF n = 0 THEN 0 ELSE t[n - 1] \div p]
           shifted == ShiftByte(t)
<1>1. Words \in Nat /\ Words > 0 /\ WordSize \in Nat /\ WordSize > 0 /\ TargetBase \in Nat
  BY TargetSizes
<1>2. ASSUME NEW i \in 0 .. Words - 1
      PROVE  /\ low[i] \in Nat /\ low[i] <= WordSize - TargetBase
             /\ carry[i + 1] \in Nat /\ carry[i + 1] <= TargetBase - 1
             /\ t[i] * TargetBase = low[i] + WordSize * carry[i + 1]
  <2>1. t[i] \in 0 .. WordSize - 1
    BY <1>1 DEF Target
  <2>2. low[i] = (t[i] * TargetBase) % WordSize /\ carry[i + 1] = t[i] \div p
    BY <1>1
  <2> HIDE DEF low, carry, p
  <2> QED
    BY <2>1, <2>2, WordSplits DEF p
<1>3. carry[0] = 0
  BY <1>1
<1>4. \A n \in 0 .. Words : carry[n] \in Nat /\ carry[n] <= TargetBase - 1
  <2> SUFFICES ASSUME NEW n \in 0 .. Words PROVE carry[n] \in Nat /\ carry[n] <= TargetBase - 1
    OBVIOUS
  <2> HIDE DEF low, carry
  <2>1. CASE n = 0
    BY <1>3, <2>1, TargetSizes
  <2>2. CASE n # 0
    <3>1. n - 1 \in 0 .. Words - 1 /\ (n - 1) + 1 = n
      BY <1>1, <2>2
    <3> QED
      BY <1>2, <3>1
  <2> QED
    BY <2>1, <2>2
<1>5. \A i \in 0 .. Words - 1 : shifted[i] = low[i] + carry[i]
  BY <1>1 DEF ShiftByte
<1>6. DOMAIN shifted = 0 .. Words - 1 /\ shifted = [i \in 0 .. Words - 1 |-> shifted[i]]
  BY DEF ShiftByte
<1> HIDE DEF low, carry, shifted, p
<1>7. shifted \in Target
  <2>1. ASSUME NEW i \in 0 .. Words - 1 PROVE shifted[i] \in 0 .. WordSize - 1
    <3>1. i \in 0 .. Words
      BY <1>1
    <3>2. low[i] \in Nat /\ low[i] <= WordSize - TargetBase
      BY <1>2
    <3>3. carry[i] \in Nat /\ carry[i] <= TargetBase - 1
      BY <1>4, <3>1
    <3>4. shifted[i] = low[i] + carry[i]
      BY <1>5
    <3> QED
      BY <1>1, <3>2, <3>3, <3>4
  <2> QED
    BY <1>6, <2>1 DEF Target
<1>8. PICK old : IsSum(old, t) /\ ValueOf(t) = old[Words]
  BY TargetSum
<1>9. PICK new : IsSum(new, shifted) /\ ValueOf(shifted) = new[Words]
  BY <1>7, TargetSum
<1>10. \A n \in 0 .. Words : old[n] \in Nat /\ new[n] \in Nat
  BY <1>8, <1>9 DEF IsSum
<1> DEFINE S == {n \in Nat : n <= Words =>
                   new[n] + carry[n] * Power(WordSize, n) = TargetBase * old[n]}
<1>11. 0 \in S
  <2>1. old[0] = 0 /\ new[0] = 0
    BY <1>8, <1>9 DEF IsSum
  <2>2. Power(WordSize, 0) = 1
    BY <1>1, PowerGrows
  <2> QED
    BY <1>1, <1>3, <2>1, <2>2
<1>12. ASSUME NEW n \in S \cap Nat PROVE n + 1 \in S
  <2> SUFFICES ASSUME n + 1 <= Words
               PROVE  new[n + 1] + carry[n + 1] * Power(WordSize, n + 1)
                        = TargetBase * old[n + 1]
    OBVIOUS
  <2> DEFINE w == Power(WordSize, n)
  <2>1. w \in Nat /\ Power(WordSize, n + 1) = WordSize * w
    BY <1>1, PowerGrows
  <2>2. n \in 0 .. Words - 1 /\ n \in 0 .. Words /\ n + 1 \in 1 .. Words /\ (n + 1) - 1 = n
    BY <1>1
  <2>3. new[n + 1] = new[n] + (low[n] + carry[n]) * w /\ old[n + 1] = old[n] + t[n] * w
    <3>1. shifted[n] = low[n] + carry[n]
      BY <1>5, <2>2
    <3>2. new[n + 1] = new[n] + shifted[n] * w
      BY <1>9, <2>2 DEF IsSum
    <3>3. old[n + 1] = old[n] + t[n] * w
      BY <1>8, <2>2 DEF IsSum
    <3> QED
      BY <3>1, <3>2, <3>3
  <2>4. new[n] + carry[n] * w = TargetBase * old[n]
    BY <1>12, <2>2
  <2>5. /\ low[n] \in Nat /\ carry[n + 1] \in Nat /\ carry[n] \in Nat
        /\ t[n] * TargetBase = low[n] + WordSize * carry[n + 1]
    BY <1>2, <1>4, <2>2
  <2>6. t[n] \in Nat /\ old[n] \in Nat /\ new[n] \in Nat
    BY <1>1, <1>10, <2>2 DEF Target
  <2> HIDE DEF w
  <2>7. (new[n] + (low[n] + carry[n]) * w) + carry[n + 1] * (WordSize * w)
          = TargetBase * (old[n] + t[n] * w)
    <3> DEFINE s == old[n]
               u == new[n]
               c == carry[n]
               d == carry[n + 1]
               l == low[n]
               x == t[n]
    <3>1. /\ s \in Nat /\ u \in Nat /\ c \in Nat /\ d \in Nat /\ l \in Nat /\ x \in Nat
          /\ w \in Nat /\ TargetBase \in Nat /\ WordSize \in Nat
      BY <1>1, <2>1, <2>5, <2>6
    <3>2. u + c * w = TargetBase * s /\ x * TargetBase = l + WordSize * d
      BY <2>4, <2>5
    <3> HIDE DEF s, u, c, d, l, x
    <3>3. (u + (l + c) * w) + d * (WordSize * w) = TargetBase * (s + x * w)
      BY <3>1, <3>2, ShiftedWord
    <3> QED
      BY <3>3 DEF s, u, c, d, l, x
  <2> QED
    BY <2>1, <2>3, <2>7
<1>13. new[Words] + carry[Words] * Power(WordSize, Words) = TargetBase * old[Words]
  <2> HIDE DEF S
  <2>1. Nat \subseteq S
    BY <1>11, <1>12, SetInduction
  <2> QED
    BY <1>1, <2>1 DEF S
<1>14. new[Words] < Power(WordSize, Words) /\ Power(WordSize, Words) \in Nat
  <2>1. Words \in 0 .. Words
    BY <1>1
  <2> QED
    BY <1>1, <1>7, <1>9, <2>1, SumBounded, PowerNat
<1>15. (ValueOf(t) * TargetBase) % Power(WordSize, Words) = new[Words]
  <2> DEFINE x == ValueOf(t) * TargetBase
             size == Power(WordSize, Words)
             r == new[Words]
             q == carry[Words]
  <2>1. Words \in 0 .. Words
    BY <1>1
  <2>2. r \in Nat /\ q \in Nat /\ r < size /\ size \in Nat
    BY <1>4, <1>10, <1>14, <2>1
  <2>3. x \in Nat /\ x = size * q + r
    <3>1. old[Words] \in Nat /\ x = TargetBase * old[Words]
      BY <1>1, <1>8, <1>10, <2>1
    <3> HIDE DEF x
    <3> QED
      BY <1>1, <1>13, <2>2, <3>1
  <2> HIDE DEF x, size, r, q
  <2>4. x % size = r
    BY <2>2, <2>3, DivisionIs
  <2> QED
    BY <2>4 DEF x, size, r
<1> QED
  BY <1>7, <1>9, <1>15 DEF shifted

LEMMA ShiftedRounds ==
  ASSUME NEW t \in Target, NEW rounds \in Nat
  PROVE  \E after \in [0 .. rounds -> Target] :
           /\ after[0] = t /\ Shifted(t, rounds) = after[rounds]
           /\ \A n \in 1 .. rounds : after[n] = ShiftByte(after[n - 1])
<1> DEFINE step == [n \in 1 .. rounds |-> [x \in Target |-> ShiftByte(x)]]
           next(g, n) == IF n = 0 THEN t ELSE ShiftByte(g[n - 1])
           Rec(g) == g = [n \in 0 .. rounds |-> next(g, n)]
           Shifts(f) == /\ f \in [0 .. rounds -> Target] /\ f[0] = t
                        /\ \A n \in 1 .. rounds : f[n] = ShiftByte(f[n - 1])
<1>1. step \in Steps(rounds, Target)
  BY ShiftValue DEF Steps
<1>2. PICK f : Shifts(f)
  <2>1. PICK f \in [0 .. rounds -> Target] :
          f[0] = t /\ \A n \in 1 .. rounds : f[n] = step[n][f[n - 1]]
    <3> HIDE DEF step
    <3> QED
      BY <1>1, Iteration, Z3T(30)
  <2>2. ASSUME NEW n \in 1 .. rounds PROVE f[n] = ShiftByte(f[n - 1])
    <3> HIDE DEF step
    <3>1. n - 1 \in 0 .. rounds
      OBVIOUS
    <3>2. f[n - 1] \in Target /\ f[n] = step[n][f[n - 1]]
      BY <2>1, <3>1
    <3> QED
      BY <3>2 DEF step
  <2>3. Shifts(f)
    BY <2>1, <2>2
  <2> QED
    BY <2>3
<1>3. Rec(f)
  <2>1. \A n \in 0 .. rounds : f[n] = next(f, n)
    BY <1>2
  <2>2. f = [n \in 0 .. rounds |-> f[n]]
    BY <1>2
  <2> HIDE DEF next, Shifts
  <2> QED
    BY <2>1, <2>2
<1>4. PICK g : Rec(g) /\ Shifted(t, rounds) = g[rounds]
  <2> HIDE DEF Shifts
  <2> QED
    BY <1>3, ZenonT(60) DEF Shifted
<1>5. \A n \in 0 .. rounds : g[n] = next(g, n)
  BY <1>4
<1> HIDE DEF Rec
<1>6. g[0] = f[0] /\ \A n \in 1 .. rounds : g[n - 1] = f[n - 1] => g[n] = f[n]
  BY <1>2, <1>5
<1> HIDE DEF Shifts, next
<1>7. \A n \in 0 .. rounds : g[n] = f[n]
  BY <1>6, Determined
<1>8. g[rounds] = f[rounds]
  BY <1>7
<1> QED
  BY <1>2, <1>4, <1>8 DEF Shifts

LEMMA ShiftedValue ==
  ASSUME NEW t \in Target, NEW rounds \in Nat
  PROVE  /\ Shifted(t, rounds) \in Target
         /\ ValueOf(Shifted(t, rounds))
              = (ValueOf(t) * Power(TargetBase, rounds)) % Power(WordSize, Words)
<1> DEFINE size == Power(WordSize, Words)
<1>1. PICK after \in [0 .. rounds -> Target] :
        /\ after[0] = t /\ Shifted(t, rounds) = after[rounds]
        /\ \A n \in 1 .. rounds : after[n] = ShiftByte(after[n - 1])
  BY ShiftedRounds
<1>2. TargetBase \in Nat /\ WordSize \in Nat /\ Words \in Nat
  BY TargetSizes
<1>3. \A x \in Target : ValueOf(x) \in Nat /\ ValueOf(x) < size /\ size \in Nat
  <2> SUFFICES ASSUME NEW x \in Target PROVE ValueOf(x) \in Nat /\ ValueOf(x) < size /\ size \in Nat
    OBVIOUS
  <2>1. PICK sum : IsSum(sum, x) /\ ValueOf(x) = sum[Words]
    BY TargetSum
  <2>2. Words \in 0 .. Words
    BY <1>2
  <2>3. sum[Words] \in Nat /\ sum[Words] < Power(WordSize, Words)
    BY <2>1, <2>2, SumBounded
  <2>4. Power(WordSize, Words) \in Nat
    BY <1>2, PowerNat
  <2> QED
    BY <2>1, <2>3, <2>4
<1> DEFINE v == ValueOf(t)
           S == {n \in Nat : n <= rounds =>
                   ValueOf(after[n]) = (v * Power(TargetBase, n)) % size}
<1>4. v \in Nat /\ v < size /\ size \in Nat /\ size > 0
  BY <1>3
<1> HIDE DEF v, size
<1>5. 0 \in S
  <2>1. v % size = v
    <3>1. v \in 0 .. size - 1 /\ v = size * 0 + v
      BY <1>4
    <3> DEFINE zero == 0
    <3>2. zero \in Nat /\ v = size * zero + v
      BY <3>1
    <3> HIDE DEF zero
    <3> QED
      BY <1>4, <3>1, <3>2, DivisionIs
  <2>2. v * Power(TargetBase, 0) = v
    BY <1>2, <1>4, PowerGrows
  <2> QED
    BY <1>1, <2>1, <2>2 DEF v
<1>6. ASSUME NEW n \in S \cap Nat PROVE n + 1 \in S
  <2> SUFFICES ASSUME n + 1 <= rounds
               PROVE  ValueOf(after[n + 1]) = (v * Power(TargetBase, n + 1)) % size
    OBVIOUS
  <2> DEFINE p == Power(TargetBase, n)
             x == v * p
  <2>1. p \in Nat /\ Power(TargetBase, n + 1) = TargetBase * p
    BY <1>2, PowerGrows
  <2>2. n \in 0 .. rounds /\ n + 1 \in 1 .. rounds /\ (n + 1) - 1 = n
    OBVIOUS
  <2>3. after[n + 1] = ShiftByte(after[n]) /\ after[n] \in Target
    BY <1>1, <2>2
  <2>4. ValueOf(after[n]) = x % size
    BY <1>6
  <2>5. x \in Nat /\ v * (TargetBase * p) = x * TargetBase
    <3> HIDE DEF p
    <3>1. v * (TargetBase * p) = (v * p) * TargetBase
      BY <1>2, <1>4, <2>1
    <3>2. v * p \in Nat
      BY <1>4, <2>1
    <3> QED
      BY <3>1, <3>2
  <2> HIDE DEF p, x
  <2>6. ValueOf(after[n + 1]) = ((x % size) * TargetBase) % size
    <3> DEFINE y == after[n]
    <3>1. y \in Target /\ after[n + 1] = ShiftByte(y) /\ ValueOf(y) = x % size
      BY <2>3, <2>4
    <3> HIDE DEF y
    <3>2. ValueOf(ShiftByte(y)) = (ValueOf(y) * TargetBase) % size
      BY <3>1, ShiftValue DEF size
    <3> QED
      BY <3>1, <3>2
  <2>7. ((x % size) * TargetBase) % size = (x * TargetBase) % size
    <3>1. x \in Nat /\ size \in Nat \ {0} /\ TargetBase \in Nat
      BY <1>2, <1>4, <2>5
    <3> QED
      BY <3>1, RemainderTimes, Zenon
  <2> QED
    BY <2>1, <2>5, <2>6, <2>7
<1>7. rounds \in S
  <2> HIDE DEF S
  <2> QED
    BY <1>5, <1>6, SetInduction
<1>8. after[rounds] \in Target
  BY <1>1
<1> QED
  BY <1>1, <1>7, <1>8 DEF v, size

(* The loop of xptClient_getDifficultyTargetFromCompact computes, in words *)
(* and bytes of any size, what the compact number stands for.             *)
THEOREM CompactIsShifted ==
  ASSUME NEW compact \in Nat
  PROVE  ValueOf(DifficultyTarget(compact)) = CompactValue(compact)
<1> DEFINE p == Power(TargetBase, Mantissa)
           half == p \div 2
           size == SizeOf(compact)
           word == WordOf(compact)
<1>1. /\ p \in Nat /\ p >= 2 /\ WordSize \in Nat /\ p < WordSize /\ TargetBase \in Nat
      /\ Mantissa \in Nat /\ TargetBase >= 2
  BY TargetSizes
<1>2. half \in Nat /\ half >= 1 /\ half <= p
  <2> HIDE DEF p
  <2> QED
    BY <1>1
<1>3. size \in Nat
  <2>1. compact \div p \in Nat
    <3> HIDE DEF p
    <3> QED
      BY <1>1, Division
  <2> QED
    BY <2>1 DEF SizeOf
<1>4. word \in Nat /\ word < WordSize
  <2>1. compact % half \in 0 .. half - 1
    <3> HIDE DEF half
    <3> QED
      BY <1>2, Division
  <2>2. word = compact % half
    BY DEF WordOf
  <2> HIDE DEF half, p, word
  <2> QED
    BY <1>1, <1>2, <2>1, <2>2
<1> HIDE DEF p, half, size, word
<1>5. CASE SignSet(compact)
  <2> DEFINE none == 0
  <2>1. none \in 0 .. WordSize - 1
    BY <1>1
  <2> HIDE DEF none
  <2>2. ValueOf(OneWord(none)) = none
    BY <2>1, OneWordValue
  <2> QED
    BY <1>5, <2>2 DEF DifficultyTarget, CompactValue, none
<1>6. CASE ~SignSet(compact) /\ size <= Mantissa
  <2> DEFINE q == Power(TargetBase, Mantissa - size)
             v == word \div q
  <2>1. q \in Nat /\ q > 0
    <3> DEFINE n == Mantissa - size
    <3>1. n \in Nat
      BY <1>1, <1>3, <1>6
    <3> HIDE DEF n
    <3>2. Power(TargetBase, n) \in Nat /\ Power(TargetBase, n) > 0
      BY <1>1, <3>1, PowerPositive
    <3> QED
      BY <3>2 DEF n
  <2> HIDE DEF q
  <2> DEFINE rest == word % q
  <2>2. v \in Nat /\ word = q * v + rest /\ rest \in 0 .. q - 1
    <3>1. q \in Nat \ {0}
      BY <2>1
    <3> QED
      BY <1>4, <3>1, Division
  <2> HIDE DEF v, rest
  <2>3. v <= word
    <3>1. 1 * v <= q * v
      BY <2>1, <2>2, Products
    <3> QED
      BY <1>4, <2>1, <2>2, <3>1
  <2>4. v \in 0 .. WordSize - 1
    BY <1>1, <1>4, <2>2, <2>3
  <2>5. ValueOf(OneWord(v)) = v
    BY <2>4, OneWordValue
  <2> QED
    BY <1>6, <2>5 DEF DifficultyTarget, CompactValue, v, q, size, word
<1>7. CASE ~SignSet(compact) /\ ~(size <= Mantissa)
  <2> DEFINE rounds == size - Mantissa
  <2>1. rounds \in Nat
    BY <1>1, <1>3, <1>7
  <2>2. word \in 0 .. WordSize - 1
    BY <1>1, <1>4
  <2> HIDE DEF rounds
  <2>3. OneWord(word) \in Target /\ ValueOf(OneWord(word)) = word
    BY <2>2, OneWordValue
  <2>4. ValueOf(Shifted(OneWord(word), rounds))
          = (word * Power(TargetBase, rounds)) % Power(WordSize, Words)
    BY <2>1, <2>3, ShiftedValue
  <2> QED
    BY <1>7, <2>4 DEF DifficultyTarget, CompactValue, size, word, rounds
<1> QED
  BY <1>5, <1>6, <1>7

-----------------------------------------------------------------------------
(* Sequences as functions *)

IsList(f, n) == n \in Nat /\ DOMAIN f = 1 .. n /\ f = [i \in 1 .. n |-> f[i]]

LEMMA ListIs ==
  ASSUME NEW f, NEW n, IsList(f, n)
  PROVE  Len(f) = n /\ f \in Seq({f[i] : i \in 1 .. n})
<1> DEFINE T == {f[i] : i \in 1 .. n}
<1>1. f \in [1 .. n -> T] /\ n \in Nat
  BY DEF IsList
<1> HIDE DEF T
<1>2. f \in Seq(T) /\ Len(f) = n
  BY <1>1, FunctionIsSequence
<1> QED
  BY <1>2 DEF T

LEMMA ListOf ==
  ASSUME NEW T, NEW f \in Seq(T)
  PROVE  IsList(f, Len(f))
BY LenProperties DEF IsList

IsJoined(h, f, m, g, n) ==
  /\ IsList(h, m + n)
  /\ \A i \in 1 .. m : h[i] = f[i]
  /\ \A i \in 1 .. n : h[m + i] = g[i]
IsAppended(h, f, m, x) ==
  /\ IsList(h, m + 1)
  /\ \A i \in 1 .. m : h[i] = f[i]
  /\ h[m + 1] = x

LEMMA ListJoined ==
  ASSUME NEW f, NEW g, NEW m, NEW n, IsList(f, m), IsList(g, n)
  PROVE  IsJoined(f \o g, f, m, g, n)
<1> DEFINE S == {f[i] : i \in 1 .. m}
           T == {g[i] : i \in 1 .. n}
           U == S \cup T
<1>1. Len(f) = m /\ f \in Seq(S) /\ Len(g) = n /\ g \in Seq(T) /\ m \in Nat /\ n \in Nat
  BY ListIs DEF IsList
<1>2. f \in Seq(U) /\ g \in Seq(U)
  <2> HIDE DEF S, T
  <2>1. f \in [1 .. m -> S] /\ g \in [1 .. n -> T]
    BY <1>1, FunctionIsSequence
  <2>2. f \in [1 .. m -> U] /\ g \in [1 .. n -> U]
    BY <2>1
  <2> HIDE DEF U
  <2> QED
    BY <1>1, <2>2, FunctionIsSequence
<1> HIDE DEF U, S, T
<1> DEFINE h == f \o g
<1>3. h \in Seq(U) /\ Len(h) = m + n
  BY <1>1, <1>2, ConcatProperties
<1>4. \A i \in 1 .. m + n : h[i] = IF i <= m THEN f[i] ELSE g[i - m]
  BY <1>1, <1>2, ConcatProperties
<1> HIDE DEF h
<1>5. IsList(h, m + n)
  BY <1>3, ListOf
<1>6. \A i \in 1 .. m : h[i] = f[i]
  BY <1>1, <1>4
<1>7. ASSUME NEW i \in 1 .. n PROVE h[m + i] = g[i]
  <2>1. m + i \in 1 .. m + n /\ ~(m + i <= m) /\ (m + i) - m = i
    BY <1>1
  <2> QED
    BY <1>4, <2>1
<1>8. IsJoined(h, f, m, g, n)
  BY <1>5, <1>6, <1>7 DEF IsJoined
<1> QED
  BY <1>8 DEF h

LEMMA ListAppended ==
  ASSUME NEW f, NEW m, NEW x, IsList(f, m)
  PROVE  IsAppended(Append(f, x), f, m, x)
<1> DEFINE S == {f[i] : i \in 1 .. m}
           U == S \cup {x}
<1>1. Len(f) = m /\ f \in Seq(S) /\ m \in Nat
  BY ListIs DEF IsList
<1>2. f \in Seq(U) /\ x \in U
  <2> HIDE DEF S
  <2>1. f \in [1 .. m -> S]
    BY <1>1, FunctionIsSequence
  <2>2. f \in [1 .. m -> U]
    BY <2>1
  <2>3. x \in U
    OBVIOUS
  <2> HIDE DEF U
  <2> QED
    BY <1>1, <2>2, <2>3, FunctionIsSequence
<1> HIDE DEF U, S
<1> DEFINE h == Append(f, x)
<1>3. h \in Seq(U) /\ Len(h) = m + 1
  BY <1>1, <1>2, AppendProperties
<1>4. (\A i \in 1 .. m : h[i] = f[i]) /\ h[m + 1] = x
  BY <1>1, <1>2, AppendProperties
<1> HIDE DEF h
<1>5. IsList(h, m + 1)
  BY <1>3, ListOf
<1>6. IsAppended(h, f, m, x)
  BY <1>4, <1>5 DEF IsAppended
<1> QED
  BY <1>6 DEF h

-----------------------------------------------------------------------------
(* The rounds of the root and the layers of the tree *)

RoundAfter(layer) == IF layer.size = 1 THEN layer ELSE NextLayer(layer)
LayerAfter(hashes) == IF Len(hashes) = 1 THEN hashes ELSE PairUp(hashes)

AreRounds(r, n, first) ==
  r = [f \in 0 .. n |-> IF f = 0 THEN first ELSE RoundAfter(r[f - 1])]
AreLayers(h, n, first) ==
  h = [f \in 0 .. n |-> IF f = 0 THEN first ELSE LayerAfter(h[f - 1])]

LEMMA RoundsExist ==
  ASSUME NEW first
  PROVE  \A n \in Nat : \E r : AreRounds(r, n, first)
<1> DEFINE S == {n \in Nat : \E r : AreRounds(r, n, first)}
<1>1. 0 \in S
  <2>1. AreRounds([f \in 0 .. 0 |-> first], 0, first)
    BY DEF AreRounds
  <2> QED
    BY <2>1
<1>2. ASSUME NEW m \in S \cap Nat PROVE m + 1 \in S
  <2>1. PICK r : AreRounds(r, m, first)
    BY <1>2
  <2> DEFINE g == [f \in 0 .. m + 1 |-> IF f <= m THEN r[f] ELSE RoundAfter(r[m])]
  <2>2. ASSUME NEW f \in 0 .. m + 1
        PROVE  g[f] = IF f = 0 THEN first ELSE RoundAfter(g[f - 1])
    <3>1. CASE f = 0
      BY <2>1, <3>1 DEF AreRounds
    <3>2. CASE f \in 1 .. m
      <4>1. f \in 0 .. m /\ f # 0 /\ f <= m /\ f - 1 \in 0 .. m + 1 /\ f - 1 <= m
        BY <3>2
      <4>2. r[f] = RoundAfter(r[f - 1])
        BY <2>1, <4>1 DEF AreRounds
      <4> QED
        BY <4>1, <4>2
    <3>3. CASE f = m + 1
      <4>1. f \in 0 .. m + 1 /\ f # 0 /\ ~(f <= m) /\ f - 1 = m /\ m \in 0 .. m + 1 /\ m <= m
        BY <3>3
      <4> QED
        BY <4>1
    <3> QED
      BY <3>1, <3>2, <3>3
  <2>3. AreRounds(g, m + 1, first)
    BY <2>2 DEF AreRounds
  <2> QED
    BY <2>3
<1> HIDE DEF S
<1>3. Nat \subseteq S
  BY <1>1, <1>2, SetInduction
<1> QED
  BY <1>3 DEF S

LEMMA LayersExist ==
  ASSUME NEW first
  PROVE  \A n \in Nat : \E h : AreLayers(h, n, first)
<1> DEFINE S == {n \in Nat : \E h : AreLayers(h, n, first)}
<1>1. 0 \in S
  <2>1. AreLayers([f \in 0 .. 0 |-> first], 0, first)
    BY DEF AreLayers
  <2> QED
    BY <2>1
<1>2. ASSUME NEW m \in S \cap Nat PROVE m + 1 \in S
  <2>1. PICK h : AreLayers(h, m, first)
    BY <1>2
  <2> DEFINE g == [f \in 0 .. m + 1 |-> IF f <= m THEN h[f] ELSE LayerAfter(h[m])]
  <2>2. ASSUME NEW f \in 0 .. m + 1
        PROVE  g[f] = IF f = 0 THEN first ELSE LayerAfter(g[f - 1])
    <3>1. CASE f = 0
      BY <2>1, <3>1 DEF AreLayers
    <3>2. CASE f \in 1 .. m
      <4>1. f \in 0 .. m /\ f # 0 /\ f <= m /\ f - 1 \in 0 .. m + 1 /\ f - 1 <= m
        BY <3>2
      <4>2. h[f] = LayerAfter(h[f - 1])
        BY <2>1, <4>1 DEF AreLayers
      <4> QED
        BY <4>1, <4>2
    <3>3. CASE f = m + 1
      <4>1. f \in 0 .. m + 1 /\ f # 0 /\ ~(f <= m) /\ f - 1 = m /\ m \in 0 .. m + 1 /\ m <= m
        BY <3>3
      <4> QED
        BY <4>1
    <3> QED
      BY <3>1, <3>2, <3>3
  <2>3. AreLayers(g, m + 1, first)
    BY <2>2 DEF AreLayers
  <2> QED
    BY <2>3
<1> HIDE DEF S
<1>3. Nat \subseteq S
  BY <1>1, <1>2, SetInduction
<1> QED
  BY <1>3 DEF S

LEMMA RoundsAre ==
  ASSUME NEW txHashes
  PROVE  \E r : AreRounds(r, Layers, FirstLayer(txHashes)) /\ Rounds(txHashes) = r
<1> DEFINE Rec(g) == g = [f \in 0 .. Layers |->
                            IF f = 0 THEN FirstLayer(txHashes)
                            ELSE IF g[f - 1].size = 1 THEN g[f - 1]
                            ELSE NextLayer(g[f - 1])]
<1>1. Layers \in Nat
  BY LayersAssumption
<1>2. PICK r : AreRounds(r, Layers, FirstLayer(txHashes))
  BY <1>1, RoundsExist
<1>3. Rec(r)
  BY <1>2, Zenon DEF AreRounds, RoundAfter
<1>4. PICK g : Rec(g) /\ Rounds(txHashes) = g
  BY <1>3, ZenonT(60) DEF Rounds
<1>5. AreRounds(g, Layers, FirstLayer(txHashes))
  BY <1>4, Zenon DEF AreRounds, RoundAfter
<1> QED
  BY <1>4, <1>5

LEMMA LayersAre ==
  ASSUME NEW hashes, Len(hashes) \in Nat
  PROVE  \E h : AreLayers(h, Len(hashes), hashes) /\ TreeRoot(hashes) = h[Len(hashes)][1]
<1> DEFINE Rec(g) == g = [n \in 0 .. Len(hashes) |->
                            IF n = 0 THEN hashes
                            ELSE IF Len(g[n - 1]) = 1 THEN g[n - 1]
                            ELSE PairUp(g[n - 1])]
<1>2. PICK h : AreLayers(h, Len(hashes), hashes)
  BY LayersExist
<1>3. Rec(h)
  BY <1>2, Zenon DEF AreLayers, LayerAfter
<1>4. PICK g : Rec(g) /\ TreeRoot(hashes) = g[Len(hashes)][1]
  BY <1>3, ZenonT(60) DEF TreeRoot
<1>5. AreLayers(g, Len(hashes), hashes)
  BY <1>4, Zenon DEF AreLayers, LayerAfter
<1> QED
  BY <1>4, <1>5

LEMMA LayersShorter ==
  ASSUME NEW h, NEW g, NEW m \in Nat, NEW n \in Nat, NEW first,
         AreLayers(h, m, first), AreLayers(g, n, first)
  PROVE  \A i \in Nat : i <= m /\ i <= n => h[i] = g[i]
<1> DEFINE k == IF m <= n THEN m ELSE n
<1>1. k \in Nat /\ k <= m /\ k <= n
  OBVIOUS
<1>2. ASSUME NEW i \in 1 .. k, h[i - 1] = g[i - 1] PROVE h[i] = g[i]
  <2>1. i \in 0 .. m /\ i \in 0 .. n /\ i # 0
    BY <1>1
  <2>2. h[i] = LayerAfter(h[i - 1]) /\ g[i] = LayerAfter(g[i - 1])
    BY <2>1 DEF AreLayers
  <2> QED
    BY <1>2, <2>2
<1>3. h[0] = g[0]
  BY DEF AreLayers
<1>4. \A i \in 0 .. k : h[i] = g[i]
  <2> HIDE DEF k
  <2> QED
    BY <1>1, <1>2, <1>3, Determined
<1> QED
  BY <1>4

Half(n) == (n + 1) \div 2

LEMMA HalfIs ==
  ASSUME NEW n \in Nat, n > 0
  PROVE  /\ Half(n) \in Nat /\ Half(n) >= 1 /\ Half(n) <= n /\ 2 * Half(n) >= n
         /\ 2 * Half(n) <= n + 1 /\ (n > 1 => Half(n) < n)
BY DEF Half

LEMMA PairUpIs ==
  ASSUME NEW hashes, NEW n, IsList(hashes, n), n > 0
  PROVE  /\ IsList(PairUp(hashes), Half(n))
         /\ \A i \in 1 .. Half(n) :
              PairUp(hashes)[i] =
                HashOfPair(hashes[2 * i - 1], IF 2 * i <= n THEN hashes[2 * i] ELSE hashes[2 * i - 1])
<1>1. Len(hashes) = n /\ n \in Nat
  BY ListIs DEF IsList
<1>2. Half(n) \in Nat
  BY <1>1, HalfIs
<1> QED
  BY <1>1, <1>2 DEF PairUp, IsList, Half

(* Each layer is a list, half as long as the one before it. *)
LEMMA LayerLength ==
  ASSUME NEW hashes, NEW n, IsList(hashes, n), n > 0
  PROVE  /\ n = 1 => LayerAfter(hashes) = hashes
         /\ n > 1 => LayerAfter(hashes) = PairUp(hashes)
         /\ \E m \in Nat : /\ IsList(LayerAfter(hashes), m) /\ m > 0
                           /\ (n = 1 => m = 1) /\ (n > 1 => m = Half(n))
<1>1. Len(hashes) = n /\ n \in Nat
  BY ListIs DEF IsList
<1>2. CASE n = 1
  BY <1>1, <1>2 DEF LayerAfter
<1>3. CASE n > 1
  <2>1. LayerAfter(hashes) = PairUp(hashes)
    BY <1>1, <1>3 DEF LayerAfter
  <2>2. IsList(PairUp(hashes), Half(n)) /\ Half(n) \in Nat /\ Half(n) > 0
    <3>1. IsList(PairUp(hashes), Half(n))
      BY PairUpIs
    <3>2. Half(n) \in Nat /\ Half(n) >= 1
      BY <1>1, HalfIs
    <3> QED
      BY <3>1, <3>2
  <2> QED
    BY <1>3, <2>1, <2>2
<1> QED
  BY <1>1, <1>2, <1>3

IsLayer(hashes) == \E n \in Nat : n > 0 /\ IsList(hashes, n)

LEMMA LayersAreLists ==
  ASSUME NEW h, NEW n \in Nat, NEW first, AreLayers(h, n, first), IsLayer(first)
  PROVE  /\ h[0] = first
         /\ \A i \in 1 .. n : h[i] = LayerAfter(h[i - 1])
         /\ \A i \in 0 .. n : IsLayer(h[i])
<1>1. h[0] = first
  BY DEF AreLayers
<1>2. ASSUME NEW i \in 1 .. n PROVE h[i] = LayerAfter(h[i - 1])
  <2>1. i \in 0 .. n /\ i # 0
    OBVIOUS
  <2> QED
    BY <2>1 DEF AreLayers
<1> DEFINE g == [i \in 0 .. n |-> IF IsLayer(h[i]) THEN 1 ELSE 0]
           T == {1}
<1>3. g[0] \in T
  BY <1>1
<1>4. ASSUME NEW i \in 1 .. n, g[i - 1] \in T PROVE g[i] \in T
  <2>1. i \in 0 .. n /\ i - 1 \in 0 .. n
    OBVIOUS
  <2>2. IsLayer(h[i - 1])
    BY <1>4, <2>1
  <2>3. PICK m \in Nat : m > 0 /\ IsList(h[i - 1], m)
    BY <2>2 DEF IsLayer
  <2>4. IsLayer(LayerAfter(h[i - 1]))
    <3> DEFINE x == h[i - 1]
    <3> HIDE DEF x
    <3>1. IsList(x, m)
      BY <2>3 DEF x
    <3>2. IsLayer(LayerAfter(x))
      BY <2>3, <3>1, LayerLength DEF IsLayer
    <3> QED
      BY <3>2 DEF x
  <2> QED
    BY <1>2, <2>1, <2>4
<1>5. \A i \in 0 .. n : g[i] \in T
  <2> HIDE DEF g, T
  <2> QED
    BY <1>3, <1>4, Carried
<1> QED
  BY <1>1, <1>2, <1>5

(* A layer of one hash is the last one. *)
LEMMA LastLayer ==
  ASSUME NEW h, NEW n \in Nat, \A i \in 1 .. n : h[i] = LayerAfter(h[i - 1]),
         NEW k \in 0 .. n, Len(h[k]) = 1
  PROVE  \A i \in k .. n : h[i] = h[k]
<1> DEFINE g == [i \in 0 .. n |-> IF i < k \/ h[i] = h[k] THEN 1 ELSE 0]
           T == {1}
<1>1. g[0] \in T
  OBVIOUS
<1>2. ASSUME NEW i \in 1 .. n, g[i - 1] \in T PROVE g[i] \in T
  <2>1. i \in 0 .. n /\ i - 1 \in 0 .. n
    OBVIOUS
  <2>2. i - 1 < k \/ h[i - 1] = h[k]
    BY <1>2, <2>1
  <2>3. CASE i <= k
    BY <2>1, <2>3
  <2>4. CASE h[i - 1] = h[k]
    <3>1. h[i] = h[k]
      BY <2>4 DEF LayerAfter
    <3> QED
      BY <2>1, <3>1
  <2> QED
    BY <2>2, <2>3, <2>4
<1>3. \A i \in 0 .. n : g[i] \in T
  <2> HIDE DEF g, T
  <2> QED
    BY <1>1, <1>2, Carried
<1> QED
  BY <1>3

(* After as many layers as there are hashes, or as the power of two that  *)
(* bounds them has, one is left.                                          *)
LEMMA OneHashLeft ==
  ASSUME NEW h, NEW n \in Nat, NEW first, AreLayers(h, n, first), IsLayer(first),
         Len(first) <= n
  PROVE  Len(h[n]) = 1
<1>1. PICK m \in Nat : m > 0 /\ IsList(first, m)
  BY DEF IsLayer
<1>2. Len(first) = m
  BY <1>1, ListIs
<1>3. /\ h[0] = first
      /\ \A i \in 1 .. n : h[i] = LayerAfter(h[i - 1])
      /\ \A i \in 0 .. n : IsLayer(h[i])
  BY LayersAreLists
<1> DEFINE g == [i \in 0 .. n |->
                   IF Len(h[i]) = 1 \/ (Len(h[i]) \in Nat /\ Len(h[i]) > 0 /\ Len(h[i]) + i <= n)
                   THEN 1 ELSE 0]
           T == {1}
<1>4. g[0] \in T
  BY <1>1, <1>2, <1>3
<1>5. ASSUME NEW i \in 1 .. n, g[i - 1] \in T PROVE g[i] \in T
  <2> DEFINE x == h[i - 1]
  <2>1. i \in 0 .. n /\ i - 1 \in 0 .. n /\ h[i] = LayerAfter(x)
    BY <1>3
  <2>2. Len(x) = 1 \/ Len(x) + (i - 1) <= n
    BY <1>5, <2>1
  <2>3. PICK k \in Nat : k > 0 /\ IsList(x, k)
    BY <1>3, <2>1 DEF IsLayer
  <2> HIDE DEF x
  <2>4. Len(x) = k
    BY <2>3, ListIs
  <2>5. PICK l \in Nat : IsList(LayerAfter(x), l) /\ l > 0 /\ (k = 1 => l = 1) /\ (k > 1 => l = Half(k))
    BY <2>3, LayerLength
  <2>6. Len(LayerAfter(x)) = l
    BY <2>5, ListIs
  <2>7. l = 1 \/ l + i <= n
    BY <2>2, <2>3, <2>4, <2>5, HalfIs
  <2> QED
    BY <2>1, <2>5, <2>6, <2>7
<1>6. \A i \in 0 .. n : g[i] \in T
  <2> HIDE DEF g, T
  <2> QED
    BY <1>4, <1>5, Carried
<1>7. Len(h[n]) = 1 \/ (Len(h[n]) \in Nat /\ Len(h[n]) > 0 /\ Len(h[n]) + n <= n)
  <2>1. g[n] \in T /\ n \in 0 .. n
    BY <1>6
  <2> QED
    BY <2>1
<1> QED
  BY <1>7

(* What the code reads of a round is the layer of the tree.  n is the number *)
(* of hashes of the layer, k how many the pairs of the next one reach.       *)
Reached(n) == IF n > 1 THEN 2 * Half(n) ELSE 1

RoundShows(round, hashes, n) ==
  /\ round.read \in Nat /\ round.size \in Nat
  /\ IsList(hashes, n) /\ n > 0
  /\ IsList(round.data, round.read + Reached(n))
  /\ \A i \in 1 .. n : round.data[round.read + i] = hashes[i]
  /\ n < Reached(n) => round.data[round.read + n + 1] = hashes[n]
  /\ (round.size + 1) \div 2 = Half(n)
  /\ round.size = 1 <=> n = 1

LEMMA LastIs ==
  ASSUME NEW f, NEW n, IsList(f, n)
  PROVE  Last(f) = f[n]
BY ListIs DEF Last

LEMMA FirstShows ==
  ASSUME NEW txHashes, NEW n, IsList(txHashes, n), n > 1
  PROVE  RoundShows(FirstLayer(txHashes), txHashes, n)
<1>1. Len(txHashes) = n /\ n \in Nat
  BY ListIs DEF IsList
<1>2. CASE Odd(n)
  <2> DEFINE x == Last(txHashes)
             d == Append(txHashes, x)
  <2>1. /\ IsList(d, n + 1)
        /\ \A i \in 1 .. n : d[i] = txHashes[i]
        /\ d[n + 1] = txHashes[n]
    <3>1. x = txHashes[n]
      BY LastIs
    <3> HIDE DEF x
    <3>2. IsAppended(Append(txHashes, x), txHashes, n, x)
      BY ListAppended
    <3>3. IsAppended(d, txHashes, n, x)
      BY <3>2
    <3> HIDE DEF d
    <3> QED
      BY <3>1, <3>3 DEF IsAppended
  <2> HIDE DEF d
  <2>2. FirstLayer(txHashes) = [data |-> d, read |-> 0, size |-> n + 1]
    BY <1>1, <1>2 DEF FirstLayer, d
  <2>3. Reached(n) = n + 1 /\ Half(n) = (n + 1 + 1) \div 2 /\ n + 1 # 1
    BY <1>1, <1>2 DEF Reached, Half, Odd
  <2> DEFINE r == FirstLayer(txHashes)
  <2>4. r.data = d /\ r.read = 0 /\ r.size = n + 1
    BY <2>2
  <2> HIDE DEF r
  <2>5. 0 + Reached(n) = n + 1 /\ \A i \in 1 .. n + 1 : 0 + i = i
    BY <1>1, <2>3
  <2>6. RoundShows(r, txHashes, n)
    BY <1>1, <2>1, <2>3, <2>4, <2>5 DEF RoundShows
  <2> QED
    BY <2>6 DEF r
<1>3. CASE ~Odd(n)
  <2>2. FirstLayer(txHashes) = [data |-> txHashes, read |-> 0, size |-> n]
    BY <1>1, <1>3 DEF FirstLayer
  <2>3. Reached(n) = n /\ Half(n) = (n + 1) \div 2 /\ n # 1
    BY <1>1, <1>3 DEF Reached, Half, Odd
  <2> DEFINE r == FirstLayer(txHashes)
  <2>4. r.data = txHashes /\ r.read = 0 /\ r.size = n
    BY <2>2
  <2> HIDE DEF r
  <2>5. 0 + Reached(n) = n /\ \A i \in 1 .. n : 0 + i = i
    BY <1>1, <2>3
  <2>6. RoundShows(r, txHashes, n)
    BY <1>1, <2>3, <2>4, <2>5 DEF RoundShows
  <2> QED
    BY <2>6 DEF r
<1> QED
  BY <1>2, <1>3

LEMMA NextShows ==
  ASSUME NEW round, NEW hashes, NEW n, RoundShows(round, hashes, n), n > 1
  PROVE  RoundShows(NextLayer(round), PairUp(hashes), Half(n))
<1> DEFINE m     == Half(n)
           tree  == PairUp(hashes)
           data0 == round.data
           read  == round.read
           k     == 2 * m
           pairs == [i \in 1 .. m |-> HashOfPair(data0[read + 2 * i - 1], data0[read + 2 * i])]
<1>1. n \in Nat /\ m \in Nat /\ m > 0 /\ k \in Nat /\ read \in Nat /\ n <= k /\ k <= n + 1
  BY HalfIs DEF RoundShows, IsList
<1>2. /\ IsList(data0, read + k)
      /\ \A i \in 1 .. n : data0[read + i] = hashes[i]
      /\ n < k => data0[read + n + 1] = hashes[n]
  BY DEF RoundShows, Reached
<1>3. /\ IsList(tree, m)
      /\ \A i \in 1 .. m :
           tree[i] = HashOfPair(hashes[2 * i - 1], IF 2 * i <= n THEN hashes[2 * i] ELSE hashes[2 * i - 1])
  BY PairUpIs DEF RoundShows
<1>4. (round.size + 1) \div 2 = m
  BY DEF RoundShows
<1> HIDE DEF tree, data0, read
<1>5. pairs = tree
  <2>1. ASSUME NEW i \in 1 .. m
        PROVE  HashOfPair(data0[read + 2 * i - 1], data0[read + 2 * i]) = tree[i]
    <3> DEFINE a == 2 * i - 1
               b == 2 * i
    <3>1. a \in 1 .. n /\ b \in Nat /\ b \in 1 .. k /\ read + 2 * i - 1 = read + a /\ b = a + 1
      BY <1>1 DEF Half
    <3>2. data0[read + 2 * i - 1] = hashes[a]
      BY <1>2, <3>1
    <3>3. CASE b <= n
      <4>1. data0[read + b] = hashes[b]
        <5>1. b \in 1 .. n
          BY <3>1, <3>3
        <5> QED
          BY <5>1, <1>2
      <4> QED
        BY <1>3, <3>2, <3>3, <4>1
    <3>4. CASE ~(b <= n)
      <4>1. b = n + 1 /\ a = n /\ n < k /\ read + b = read + n + 1
        BY <1>1, <3>1, <3>4
      <4>2. data0[read + b] = hashes[a]
        BY <1>2, <4>1
      <4> QED
        BY <1>3, <3>2, <3>4, <4>2
    <3> QED
      BY <3>3, <3>4
  <2> QED
    BY <1>3, <2>1 DEF IsList
<1> HIDE DEF pairs, m
<1> DEFINE data1 == data0 \o tree
           from  == read + k
<1>6. /\ IsList(data1, from + m)
      /\ \A i \in 1 .. m : data1[from + i] = tree[i]
  <2> HIDE DEF k
  <2>1. IsList(data0, from)
    BY <1>2
  <2> HIDE DEF from
  <2>2. IsJoined(data0 \o tree, data0, from, tree, m)
    BY <1>3, <2>1, ListJoined
  <2>3. IsJoined(data1, data0, from, tree, m)
    BY <2>2
  <2> HIDE DEF data1
  <2> QED
    BY <2>3 DEF IsJoined
<1>7. NextLayer(round) =
        [data |-> IF Odd(m) /\ m > 1 THEN Append(data1, Last(data1)) ELSE data1,
         read |-> from, size |-> m]
  <2>1. data0 \o pairs = data1
    BY <1>5
  <2> HIDE DEF data1
  <2>2. NextLayer(round) =
          LET size == (round.size + 1) \div 2
              data == data0 \o pairs
          IN [data |-> IF Odd(m) /\ m > 1 THEN Append(data, Last(data)) ELSE data,
              read |-> from, size |-> m]
    BY <1>4 DEF NextLayer, pairs, data0, read
  <2> QED
    BY <2>1, <2>2
<1> HIDE DEF data1, from
<1> DEFINE r == NextLayer(round)
<1>8. from \in Nat
  BY <1>1 DEF from
<1>9. Half(m) = (m + 1) \div 2
  BY DEF Half
<1>10. CASE Odd(m) /\ m > 1
  <2> DEFINE x   == Last(data1)
             d   == Append(data1, x)
             end == from + m
  <2>0. end \in Nat
    BY <1>1, <1>8
  <2>1. x = tree[m]
    <3>1. Last(data1) = data1[from + m]
      BY <1>6, LastIs
    <3> QED
      BY <1>1, <1>6, <3>1
  <2>2. IsList(data1, end)
    BY <1>6
  <2> HIDE DEF end
  <2>3. /\ IsList(d, end + 1)
        /\ \A i \in 1 .. end : d[i] = data1[i]
        /\ d[end + 1] = tree[m]
    <3> HIDE DEF x
    <3>2. IsAppended(Append(data1, x), data1, end, x)
      BY <2>2, ListAppended
    <3>3. IsAppended(d, data1, end, x)
      BY <3>2
    <3> HIDE DEF d
    <3> QED
      BY <2>1, <3>3 DEF IsAppended
  <2> HIDE DEF d
  <2>4. r.data = d /\ r.read = from /\ r.size = m
    BY <1>7, <1>10 DEF d
  <2> HIDE DEF r
  <2>5. Reached(m) = m + 1
    BY <1>1, <1>10 DEF Reached, Half, Odd
  <2>6. end + 1 = from + Reached(m) /\ from + m + 1 = end + 1
    BY <1>1, <1>8, <2>5 DEF end
  <2>7. ASSUME NEW i \in 1 .. m PROVE d[from + i] = tree[i]
    <3>1. from + i \in 1 .. end
      BY <1>1, <1>8 DEF end
    <3> QED
      BY <1>6, <2>3, <3>1
  <2>8. RoundShows(r, tree, m)
    BY <1>1, <1>3, <1>8, <1>9, <2>3, <2>4, <2>6, <2>7 DEF RoundShows
  <2> QED
    BY <2>8 DEF r, tree, m
<1>11. CASE ~(Odd(m) /\ m > 1)
  <2>4. r.data = data1 /\ r.read = from /\ r.size = m
    BY <1>7, <1>11
  <2> HIDE DEF r
  <2>5. Reached(m) = m
    BY <1>1, <1>11 DEF Reached, Half, Odd
  <2>8. RoundShows(r, tree, m)
    BY <1>1, <1>3, <1>6, <1>8, <1>9, <2>4, <2>5 DEF RoundShows
  <2> QED
    BY <2>8 DEF r, tree, m
<1> QED
  BY <1>10, <1>11

LEMMA RoundsShowLayers ==
  ASSUME NEW txHashes, NEW n, IsList(txHashes, n), n > 1, NEW d \in Nat, d < Layers,
         NEW r, AreRounds(r, Layers, FirstLayer(txHashes)),
         NEW h, AreLayers(h, d, txHashes)
  PROVE  \A f \in 0 .. d : \E k : RoundShows(r[f], h[f], k)
<1>1. n \in Nat /\ Layers \in Nat
  BY LayersAssumption DEF IsList
<1>2. IsLayer(txHashes)
  BY <1>1 DEF IsLayer
<1>3. h[0] = txHashes /\ \A i \in 1 .. d : h[i] = LayerAfter(h[i - 1])
  BY <1>2, LayersAreLists
<1>4. r[0] = FirstLayer(txHashes)
  BY <1>1 DEF AreRounds
<1>5. \A i \in 1 .. d : r[i] = RoundAfter(r[i - 1])
  <2> SUFFICES ASSUME NEW i \in 1 .. d PROVE r[i] = RoundAfter(r[i - 1])
    OBVIOUS
  <2>1. i \in 0 .. Layers /\ i # 0
    BY <1>1
  <2> QED
    BY <2>1 DEF AreRounds
<1> DEFINE g == [f \in 0 .. d |-> IF \E k : RoundShows(r[f], h[f], k) THEN 1 ELSE 0]
           T == {1}
<1>6. g[0] \in T
  <2>1. RoundShows(r[0], h[0], n)
    BY <1>3, <1>4, FirstShows
  <2> QED
    BY <2>1
<1>7. ASSUME NEW f \in 1 .. d, g[f - 1] \in T PROVE g[f] \in T
  <2> DEFINE x == r[f - 1]
             y == h[f - 1]
  <2>1. f \in 0 .. d /\ f - 1 \in 0 .. d
    OBVIOUS
  <2>2. PICK k : RoundShows(x, y, k)
    BY <1>7, <2>1
  <2>3. r[f] = RoundAfter(x) /\ h[f] = LayerAfter(y)
    BY <1>3, <1>5
  <2> HIDE DEF x, y
  <2>4. k \in Nat /\ k > 0 /\ IsList(y, k) /\ (x.size = 1 <=> k = 1)
    BY <2>2 DEF RoundShows, IsList
  <2>5. \E l : RoundShows(RoundAfter(x), LayerAfter(y), l)
    <3>1. CASE k = 1
      <4>1. RoundAfter(x) = x /\ LayerAfter(y) = y
        BY <2>4, <3>1, LayerLength DEF RoundAfter
      <4> QED
        BY <2>2, <4>1
    <3>2. CASE k > 1
      <4>1. RoundAfter(x) = NextLayer(x)
        BY <2>4, <3>2 DEF RoundAfter
      <4>2. LayerAfter(y) = PairUp(y)
        BY <2>4, <3>2, LayerLength
      <4>3. RoundShows(NextLayer(x), PairUp(y), Half(k))
        BY <2>2, <3>2, NextShows
      <4> QED
        BY <4>1, <4>2, <4>3
    <3> QED
      BY <2>4, <3>1, <3>2
  <2> QED
    BY <2>1, <2>3, <2>5
<1>8. \A f \in 0 .. d : g[f] \in T
  <2> HIDE DEF g, T
  <2> QED
    BY <1>6, <1>7, Carried
<1> QED
  BY <1>8

(* Each layer halves the power of two that bounds the number of hashes. *)
LEMMA HalvedToOne ==
  ASSUME NEW txHashes, NEW n, IsList(txHashes, n), n > 0, NEW d \in Nat, n <= Power(2, d),
         NEW h, AreLayers(h, d, txHashes)
  PROVE  Len(h[d]) = 1
<1>1. n \in Nat
  BY DEF IsList
<1>2. IsLayer(txHashes)
  BY <1>1 DEF IsLayer
<1>3. h[0] = txHashes /\ \A i \in 1 .. d : h[i] = LayerAfter(h[i - 1])
  BY <1>2, LayersAreLists
<1> DEFINE g == [f \in 0 .. d |->
                   IF \E k \in Nat : k > 0 /\ IsList(h[f], k) /\ k <= Power(2, d - f)
                   THEN 1 ELSE 0]
           T == {1}
<1>4. g[0] \in T
  <2>1. d - 0 = d
    OBVIOUS
  <2> QED
    BY <1>1, <1>3, <2>1
<1>5. ASSUME NEW f \in 1 .. d, g[f - 1] \in T PROVE g[f] \in T
  <2> DEFINE x == h[f - 1]
             e == d - f
             p == Power(2, e)
  <2>1. f \in 0 .. d /\ f - 1 \in 0 .. d /\ d - (f - 1) = e + 1 /\ e \in Nat
    OBVIOUS
  <2>2. PICK k \in Nat : k > 0 /\ IsList(x, k) /\ k <= Power(2, e + 1)
    BY <1>5, <2>1
  <2>3. h[f] = LayerAfter(x)
    BY <1>3
  <2>4. Power(2, e + 1) = 2 * p /\ p \in Nat /\ p > 0
    <3> DEFINE two == 2
    <3>1. two \in Nat /\ two > 0
      OBVIOUS
    <3> HIDE DEF e, two
    <3>2. Power(two, e + 1) = two * Power(two, e) /\ Power(two, e) \in Nat /\ Power(two, e) > 0
      BY <2>1, <3>1, PowerGrows, PowerPositive
    <3> QED
      BY <3>2 DEF two
  <2> HIDE DEF x, p
  <2>5. PICK l \in Nat : IsList(LayerAfter(x), l) /\ l > 0 /\ (k = 1 => l = 1) /\ (k > 1 => l = Half(k))
    BY <2>2, LayerLength
  <2>6. l <= p
    BY <2>2, <2>4, <2>5 DEF Half
  <2> QED
    BY <2>1, <2>3, <2>5, <2>6 DEF p
<1>6. \A f \in 0 .. d : g[f] \in T
  <2> HIDE DEF g, T
  <2> QED
    BY <1>4, <1>5, Carried
<1>7. PICK k \in Nat : k > 0 /\ IsList(h[d], k) /\ k <= Power(2, d - d)
  <2>1. d \in 0 .. d
    OBVIOUS
  <2> QED
    BY <1>6, <2>1
<1>8. Power(2, d - d) = 1
  <2>1. d - d = 0 /\ 2 \in Nat
    OBVIOUS
  <2> QED
    BY <2>1, PowerGrows
<1>9. k = 1
  BY <1>7, <1>8
<1> QED
  BY <1>7, <1>9, ListIs

THEOREM RootOfRoundsIsTree ==
  ASSUME NEW txHashes, NEW n, IsList(txHashes, n), n > 0, n <= Power(2, Layers - 1)
  PROVE  MerkleRoot(txHashes) = TreeRoot(txHashes)
<1> DEFINE d   == Layers - 1
           end == n + d
<1>1. d \in Nat /\ n \in Nat /\ d < Layers /\ end \in Nat /\ d <= end /\ n <= end
  BY LayersAssumption DEF IsList
<1>2. Len(txHashes) = n
  BY ListIs
<1>3. IsLayer(txHashes)
  BY <1>1 DEF IsLayer
<1>4. n <= Power(2, d)
  OBVIOUS
<1> HIDE DEF d, end
<1>5. PICK g : AreLayers(g, n, txHashes) /\ TreeRoot(txHashes) = g[n][1]
  BY <1>1, <1>2, LayersAre
<1>6. CASE n = 1
  <2>1. g[1] = LayerAfter(g[0]) /\ g[0] = txHashes
    BY <1>5, <1>6 DEF AreLayers
  <2>2. LayerAfter(txHashes) = txHashes
    BY <1>2, <1>6 DEF LayerAfter
  <2> QED
    BY <1>2, <1>5, <1>6, <2>1, <2>2 DEF MerkleRoot
<1>7. CASE n > 1
  <2>1. PICK h : AreLayers(h, end, txHashes)
    BY <1>1, LayersExist
  <2>2. PICK s : AreLayers(s, d, txHashes)
    BY <1>1, LayersExist
  <2>3. s[d] = h[d] /\ g[n] = h[n]
    BY <1>1, <1>5, <2>1, <2>2, LayersShorter
  <2>4. Len(s[d]) = 1 /\ Len(g[n]) = 1
    <3>1. Len(s[d]) = 1
      BY <1>1, <1>4, <2>2, HalvedToOne
    <3>2. Len(g[n]) = 1
      BY <1>1, <1>2, <1>3, <1>5, OneHashLeft
    <3> QED
      BY <3>1, <3>2
  <2>5. \A i \in 1 .. end : h[i] = LayerAfter(h[i - 1])
    BY <1>1, <1>3, <2>1, LayersAreLists
  <2>6. h[end] = h[d] /\ h[end] = h[n]
    <3>1. Len(h[d]) = 1 /\ Len(h[n]) = 1
      BY <2>3, <2>4
    <3>2. d \in 0 .. end /\ n \in 0 .. end /\ end \in d .. end /\ end \in n .. end
      BY <1>1
    <3> QED
      BY <1>1, <2>5, <3>1, <3>2, LastLayer
  <2>7. PICK r : AreRounds(r, Layers, FirstLayer(txHashes)) /\ Rounds(txHashes) = r
    BY RoundsAre
  <2>8. PICK k : RoundShows(r[d], s[d], k)
    <3>1. d \in 0 .. d
      BY <1>1
    <3> QED
      BY <1>1, <1>7, <2>2, <2>7, <3>1, RoundsShowLayers
  <2> DEFINE x == r[d]
             y == s[d]
  <2>9. RoundShows(x, y, k) /\ Len(y) = 1
    BY <2>4, <2>8
  <2>10. MerkleRoot(txHashes) = IF x.size = 1 THEN x.data[x.read + 1] ELSE NoRoot
    BY <1>2, <1>7, <2>7 DEF MerkleRoot, d
  <2>11. TreeRoot(txHashes) = y[1]
    BY <1>5, <2>3, <2>6
  <2> HIDE DEF x, y
  <2>12. k = 1
    BY <2>9, ListIs DEF RoundShows
  <2>13. x.size = 1 /\ x.data[x.read + 1] = y[1]
    BY <2>9, <2>12 DEF RoundShows
  <2> QED
    BY <2>10, <2>11, <2>13
<1> QED
  BY <1>1, <1>6, <1>7

LEMMA PairLeft ==
  ASSUME NEW a, NEW b
  PROVE  HashOfPair(a, b).left = a
BY DEF HashOfPair

(* Trees of equally many hashes that begin with different ones have *)
(* different roots.                                                 *)
THEOREM FirstHashReachesRoot ==
  ASSUME NEW first, NEW other, NEW n, IsList(first, n), IsList(other, n), n > 0,
         first[1] # other[1]
  PROVE  TreeRoot(first) # TreeRoot(other)
<1>1. n \in Nat /\ Len(first) = n /\ Len(other) = n
  BY ListIs DEF IsList
<1>2. IsLayer(first) /\ IsLayer(other)
  BY <1>1 DEF IsLayer
<1>3. PICK g : AreLayers(g, n, first) /\ TreeRoot(first) = g[n][1]
  BY <1>1, LayersAre
<1>4. PICK h : AreLayers(h, n, other) /\ TreeRoot(other) = h[n][1]
  BY <1>1, LayersAre
<1>5. /\ g[0] = first /\ h[0] = other
      /\ \A i \in 1 .. n : g[i] = LayerAfter(g[i - 1]) /\ h[i] = LayerAfter(h[i - 1])
  BY <1>1, <1>2, <1>3, <1>4, LayersAreLists
<1> DEFINE Differ(f) == \E k \in Nat : /\ k > 0 /\ IsList(g[f], k) /\ IsList(h[f], k)
                                       /\ g[f][1] # h[f][1]
           t == [f \in 0 .. n |-> IF Differ(f) THEN 1 ELSE 0]
           T == {1}
<1>6. t[0] \in T
  BY <1>1, <1>5
<1>7. ASSUME NEW f \in 1 .. n, t[f - 1] \in T PROVE t[f] \in T
  <2> DEFINE x == g[f - 1]
             y == h[f - 1]
             v == LayerAfter(x)
             w == LayerAfter(y)
  <2>1. f \in 0 .. n /\ f - 1 \in 0 .. n
    BY <1>1
  <2>2. PICK k \in Nat : k > 0 /\ IsList(x, k) /\ IsList(y, k) /\ x[1] # y[1]
    BY <1>7, <2>1
  <2>3. g[f] = v /\ h[f] = w
    BY <1>5
  <2> HIDE DEF x, y
  <2>4. \E l \in Nat : l > 0 /\ IsList(v, l) /\ IsList(w, l) /\ v[1] # w[1]
    <3>1. CASE k = 1
      <4>1. v = x /\ w = y
        BY <2>2, <3>1, LayerLength
      <4> QED
        BY <2>2, <4>1
    <3>2. CASE k > 1
      <4>1. v = PairUp(x) /\ w = PairUp(y)
        BY <2>2, <3>2, LayerLength
      <4> DEFINE l == Half(k)
      <4>2. l \in Nat /\ l > 0 /\ 1 \in 1 .. l /\ 2 * 1 - 1 = 1
        BY <2>2, <3>2, HalfIs
      <4>3. IsList(PairUp(x), l) /\ IsList(PairUp(y), l)
        BY <2>2, PairUpIs
      <4>4. PairUp(x)[1].left = x[1] /\ PairUp(y)[1].left = y[1]
        <5>1. ASSUME NEW z, IsList(z, k) PROVE PairUp(z)[1].left = z[1]
          <6>1. \A i \in 1 .. l :
                  PairUp(z)[i] = HashOfPair(z[2 * i - 1], IF 2 * i <= k THEN z[2 * i] ELSE z[2 * i - 1])
            BY <2>2, <5>1, PairUpIs
          <6>2. \A i \in 1 .. l : PairUp(z)[i].left = z[2 * i - 1]
            BY <6>1, PairLeft
          <6> DEFINE one == 1
          <6>3. one \in 1 .. l /\ 2 * one - 1 = one
            BY <4>2
          <6> HIDE DEF one
          <6>4. PairUp(z)[one].left = z[one]
            BY <6>2, <6>3
          <6> QED
            BY <6>4 DEF one
        <5> QED
          BY <2>2, <5>1
      <4> QED
        BY <2>2, <4>1, <4>2, <4>3, <4>4
    <3> QED
      BY <2>2, <3>1, <3>2
  <2>5. Differ(f)
    BY <2>3, <2>4
  <2> QED
    BY <2>1, <2>5
<1>8. \A f \in 0 .. n : t[f] \in T
  <2> HIDE DEF t, T
  <2> QED
    BY <1>1, <1>6, <1>7, Carried
<1>9. Differ(n)
  <2>1. n \in 0 .. n
    BY <1>1
  <2> QED
    BY <1>8, <2>1
<1> QED
  BY <1>3, <1>4, <1>9

LEMMA PowerSum ==
  ASSUME NEW b \in Nat, NEW m \in Nat
  PROVE  \A n \in Nat : Power(b, m + n) = Power(b, m) * Power(b, n)
<1> DEFINE S == {n \in Nat : Power(b, m + n) = Power(b, m) * Power(b, n)}
<1>1. Power(b, m) \in Nat
  BY PowerGrows
<1>2. 0 \in S
  <2> DEFINE zero == 0
  <2>1. Power(b, zero) = 1 /\ m + zero = m
    BY PowerGrows
  <2> QED
    BY <1>1, <2>1
<1>3. ASSUME NEW n \in S \cap Nat PROVE n + 1 \in S
  <2> DEFINE k == m + n
             p == Power(b, m)
             q == Power(b, n)
  <2>1. k \in Nat /\ m + (n + 1) = k + 1 /\ Power(b, k) = p * q
    BY <1>3
  <2>2. Power(b, k + 1) = b * Power(b, k) /\ Power(b, n + 1) = b * q /\ q \in Nat
    <3> HIDE DEF k
    <3> QED
      BY <2>1, PowerGrows
  <2> HIDE DEF k, p, q
  <2>3. p \in Nat
    BY <1>1 DEF p
  <2>4. b * (p * q) = p * (b * q)
    BY <2>2, <2>3
  <2>5. Power(b, k + 1) = p * Power(b, n + 1)
    BY <2>1, <2>2, <2>4
  <2> QED
    BY <2>1, <2>5 DEF p
<1> HIDE DEF S
<1>4. Nat \subseteq S
  BY <1>2, <1>3, SetInduction
<1> QED
  BY <1>4 DEF S

LEMMA PowerProduct ==
  ASSUME NEW b \in Nat, NEW m \in Nat
  PROVE  \A n \in Nat : Power(Power(b, m), n) = Power(b, n * m)
<1> DEFINE p == Power(b, m)
           S == {n \in Nat : Power(p, n) = Power(b, n * m)}
<1>1. p \in Nat
  BY PowerGrows
<1> HIDE DEF p
<1>2. 0 \in S
  <2> DEFINE zero == 0
  <2>1. zero * m = zero
    OBVIOUS
  <2>2. Power(p, 0) = 1 /\ Power(b, 0) = 1
    BY <1>1, PowerGrows
  <2> QED
    BY <2>1, <2>2
<1>3. ASSUME NEW n \in S \cap Nat PROVE n + 1 \in S
  <2> DEFINE k == n * m
  <2>1. k \in Nat /\ (n + 1) * m = m + k /\ Power(p, n) = Power(b, k)
    BY <1>3
  <2> HIDE DEF k
  <2>2. Power(p, n + 1) = p * Power(p, n)
    BY <1>1, PowerGrows
  <2>3. Power(b, m + k) = p * Power(b, k)
    BY <2>1, PowerSum DEF p
  <2> QED
    BY <2>1, <2>2, <2>3
<1> HIDE DEF S
<1>4. Nat \subseteq S
  BY <1>2, <1>3, SetInduction
<1> QED
  BY <1>4 DEF S, p

(* Larger exponents give powers that are not smaller. *)
LEMMA PowerOrder ==
  ASSUME NEW b \in Nat, b > 0, NEW m \in Nat, NEW n \in Nat, m <= n
  PROVE  Power(b, m) <= Power(b, n)
<1> DEFINE k == n - m
           p == Power(b, m)
           q == Power(b, k)
<1>1. k \in Nat /\ m + k = n
  OBVIOUS
<1>2. p \in Nat /\ q \in Nat /\ q > 0 /\ Power(b, m + k) = p * q
  <2> HIDE DEF k
  <2> QED
    BY <1>1, PowerPositive, PowerSum
<1> HIDE DEF p, q
<1>3. p * 1 <= p * q
  BY <1>2, Products
<1> QED
  BY <1>1, <1>2, <1>3 DEF p

-----------------------------------------------------------------------------
(* Arrays of words and their values *)

WordValues == 0 .. Word - 1

LEMMA WordIs ==
  /\ Word \in Nat /\ DigitBase \in Nat /\ DigitBase >= 2 /\ DigitBase < Word
  /\ AddrBase \in Nat /\ AddrBase >= 2 /\ WordBytes \in Nat /\ WordBytes >= 1
BY AddressAssumption, PowerGrows DEF Word

IsValue(v, a, n) ==
  /\ v \in [0 .. n -> Nat] /\ v[0] = 0
  /\ \A i \in 1 .. n : v[i] = v[i - 1] + a[i] * Power(Word, i - 1)

LEMMA PlaceNat ==
  ASSUME NEW i \in Nat
  PROVE  /\ Power(Word, i) \in Nat /\ Power(Word, i) > 0
         /\ Power(Word, i + 1) = Word * Power(Word, i)
         /\ Power(Word, 0) = 1
<1>1. Word \in Nat /\ Word > 0
  BY WordIs
<1> QED
  BY <1>1, PowerPositive, PowerGrows

LEMMA ValueExists ==
  ASSUME NEW n \in Nat, NEW a \in [1 .. n -> WordValues]
  PROVE  \E v : IsValue(v, a, n)
<1> DEFINE step == [i \in 1 .. n |-> [x \in Nat |-> x + a[i] * Power(Word, i - 1)]]
           all == Nat
<1>0. ASSUME NEW i \in 1 .. n PROVE a[i] \in Nat /\ Power(Word, i - 1) \in Nat
  <2> DEFINE j == i - 1
  <2>1. j \in Nat /\ a[i] \in WordValues
    OBVIOUS
  <2> HIDE DEF j
  <2>2. Power(Word, j) \in Nat
    BY <2>1, PlaceNat
  <2> QED
    BY <2>1, <2>2, WordIs DEF WordValues, j
<1>1. step \in Steps(n, all) /\ 0 \in all
  <2>1. \A i \in 1 .. n : \A x \in Nat : x + a[i] * Power(Word, i - 1) \in Nat
    <3> SUFFICES ASSUME NEW i \in 1 .. n, NEW x \in Nat
                 PROVE  x + a[i] * Power(Word, i - 1) \in Nat
      OBVIOUS
    <3> DEFINE y == a[i]
               z == Power(Word, i - 1)
    <3>1. y \in Nat /\ z \in Nat
      BY <1>0
    <3> HIDE DEF y, z
    <3>2. x + y * z \in Nat
      BY <3>1
    <3> QED
      BY <3>2 DEF y, z
  <2> QED
    BY <2>1 DEF Steps
<1>2. PICK v \in [0 .. n -> all] :
        v[0] = 0 /\ \A i \in 1 .. n : v[i] = step[i][v[i - 1]]
  <2> HIDE DEF all, step
  <2>1. n \in Nat /\ 0 \in all /\ step \in Steps(n, all)
    BY <1>1
  <2> QED
    BY <2>1, Iteration, SMTT(60)
<1>3. ASSUME NEW i \in 1 .. n PROVE v[i] = v[i - 1] + a[i] * Power(Word, i - 1)
  <2>1. v[i - 1] \in Nat
    <3> HIDE DEF step
    <3>1. i - 1 \in 0 .. n
      OBVIOUS
    <3> QED
      BY <1>2, <3>1
  <2> QED
    BY <1>2, <2>1
<1> QED
  BY <1>2, <1>3 DEF IsValue

LEMMA ValueIsOne ==
  ASSUME NEW n \in Nat, NEW a, NEW v, NEW w, IsValue(v, a, n), IsValue(w, a, n)
  PROVE  \A i \in 0 .. n : v[i] = w[i]
<1>1. v[0] = w[0]
  BY DEF IsValue
<1>2. ASSUME NEW i \in 1 .. n, v[i - 1] = w[i - 1] PROVE v[i] = w[i]
  BY <1>2 DEF IsValue
<1> QED
  BY <1>1, <1>2, Determined

(* A value is below the power of the length, and reaches the place of the *)
(* highest word unless that is 0.                                         *)
LEMMA ValueBound ==
  ASSUME NEW n \in Nat, NEW a \in [1 .. n -> WordValues], NEW v, IsValue(v, a, n)
  PROVE  \A i \in 0 .. n : v[i] \in Nat /\ v[i] < Power(Word, i)
<1> DEFINE S == {i \in Nat : i <= n => v[i] < Power(Word, i)}
<1>0. \A i \in 0 .. n : v[i] \in Nat
  BY DEF IsValue
<1>1. 0 \in S
  <2>1. Power(Word, 0) = 1
    BY PlaceNat
  <2> QED
    BY <2>1 DEF IsValue
<1>2. ASSUME NEW i \in S \cap Nat PROVE i + 1 \in S
  <2> SUFFICES ASSUME i + 1 <= n PROVE v[i + 1] < Power(Word, i + 1)
    OBVIOUS
  <2> DEFINE p == Power(Word, i)
             x == a[i + 1]
             u == v[i]
             w == v[i + 1]
  <2>1. p \in Nat /\ p > 0 /\ Power(Word, i + 1) = Word * p
    BY PlaceNat
  <2>2. x \in Nat /\ x <= Word - 1 /\ Word \in Nat
    <3>1. i + 1 \in 1 .. n
      OBVIOUS
    <3>2. x \in WordValues
      BY <3>1
    <3> QED
      BY <3>2, WordIs DEF WordValues
  <2>3. u \in Nat /\ u < p
    BY <1>0, <1>2
  <2>4. w = u + x * p
    <3>1. i + 1 \in 1 .. n /\ (i + 1) - 1 = i
      OBVIOUS
    <3> QED
      BY <3>1 DEF IsValue
  <2> HIDE DEF p, x, u, w
  <2>5. x * p <= (Word - 1) * p
    BY <2>1, <2>2, Products
  <2>6. (Word - 1) * p = Word * p - p
    BY <2>1, <2>2
  <2>7. Word * p \in Nat /\ x * p \in Nat
    BY <2>1, <2>2
  <2>8. w < Word * p
    <3> DEFINE wp == Word * p
               xp == x * p
    <3>1. xp <= wp - p /\ w = u + xp /\ wp \in Nat /\ xp \in Nat
      BY <2>4, <2>5, <2>6, <2>7
    <3> HIDE DEF wp, xp
    <3>2. w < wp
      BY <2>1, <2>3, <3>1
    <3> QED
      BY <3>2 DEF wp
  <2> QED
    BY <2>1, <2>8 DEF w
<1>3. Nat \subseteq S
  <2> HIDE DEF S
  <2> QED
    BY <1>1, <1>2, SetInduction
<1> QED
  BY <1>0, <1>3

(* What adding a carry from place b on makes of an array of n words. *)
IsAdded(r, m, a, n, b, carry) ==
  /\ m \in Nat /\ m \in {n, n + 1} /\ r \in [1 .. m -> WordValues]
  /\ \A i \in 1 .. n : i < b => r[i] = a[i]
  /\ m = n + 1 => r[m] # 0
  /\ m = n /\ b = n + 1 => carry = 0
  /\ m = n /\ n > 0 /\ b <= n => (a[n] # 0 => r[n] # 0)
  /\ \A v, w : IsValue(v, a, n) /\ IsValue(w, r, m) =>
       w[m] = v[n] + carry * Power(Word, b - 1)

(* The carries into the places from b on. *)
AreCarries(c, a, n, b, carry) ==
  /\ c \in [b .. n + 1 -> WordValues] /\ c[b] = carry
  /\ \A i \in b .. n : c[i + 1] = (a[i] + c[i]) \div Word

LEMMA CarryStep ==
  ASSUME NEW x \in WordValues, NEW y \in WordValues
  PROVE  /\ (x + y) \div Word \in WordValues /\ (x + y) % Word \in WordValues
         /\ (x + y) = Word * ((x + y) \div Word) + ((x + y) % Word)
         /\ x # 0 /\ (x + y) % Word = 0 => (x + y) \div Word # 0
<1> DEFINE s == x + y
           d == s \div Word
           r == s % Word
<1>1. Word \in Nat /\ Word >= 3 /\ x \in Nat /\ y \in Nat /\ x <= Word - 1 /\ y <= Word - 1
  BY WordIs DEF WordValues
<1>2. s \in Nat /\ d \in Nat /\ r \in 0 .. Word - 1 /\ s = Word * d + r
  <2>1. s \in Nat /\ Word \in Nat \ {0}
    BY <1>1
  <2> HIDE DEF s
  <2> QED
    BY <2>1, Division
<1> HIDE DEF d, r
<1>3. d < 2
  <2> SUFFICES ASSUME d >= 2 PROVE FALSE
    BY <1>2
  <2>1. 2 * Word <= d * Word
    BY <1>1, <1>2, Products
  <2>2. d * Word = Word * d
    BY <1>1, <1>2
  <2> QED
    BY <1>1, <1>2, <2>1, <2>2
<1>4. d \in WordValues /\ r \in WordValues
  BY <1>1, <1>2, <1>3 DEF WordValues
<1>5. x # 0 /\ r = 0 => d # 0
  BY <1>1, <1>2
<1> QED
  BY <1>2, <1>4, <1>5 DEF s, d, r

LEMMA CarriesExist ==
  ASSUME NEW n \in Nat, NEW a \in [1 .. n -> WordValues], NEW b \in 1 .. n + 1,
         NEW carry \in WordValues
  PROVE  \E c : /\ AreCarries(c, a, n, b, carry)
                /\ AddCarry(a, b, carry) =
                     LET sums == [i \in 1 .. n |->
                                    IF i < b THEN a[i] ELSE (a[i] + c[i]) % Word]
                     IN IF c[n + 1] = 0 THEN sums ELSE Append(sums, c[n + 1])
<1> DEFINE end  == n + 1
           step == [i \in b + 1 .. end |-> [x \in WordValues |-> (a[i - 1] + x) \div Word]]
           next(g, i) == IF i = b THEN carry ELSE (a[i - 1] + g[i - 1]) \div Word
           Rec(g) == g = [i \in b .. Len(a) + 1 |-> next(g, i)]
           Result(f) == LET sums == [i \in 1 .. Len(a) |->
                                       IF i < b THEN a[i] ELSE (a[i] + f[i]) % Word]
                        IN IF f[Len(a) + 1] = 0 THEN sums ELSE Append(sums, f[Len(a) + 1])
<1>1. end \in Int /\ b \in Int /\ b <= end /\ end - 1 = n
  OBVIOUS
<1>2. step \in [b + 1 .. end -> [WordValues -> WordValues]]
  <2>1. ASSUME NEW i \in b + 1 .. end, NEW x \in WordValues
        PROVE  (a[i - 1] + x) \div Word \in WordValues
    <3>1. i - 1 \in 1 .. n
      OBVIOUS
    <3>2. a[i - 1] \in WordValues
      BY <3>1
    <3> QED
      BY <3>2, CarryStep
  <2> QED
    BY <2>1
<1>3. PICK c : Runs(c, b, end, WordValues, carry, step)
  <2> HIDE DEF step, end
  <2> QED
    BY <1>1, <1>2, IterationFrom
<1>4. AreCarries(c, a, n, b, carry)
  <2>1. c \in [b .. n + 1 -> WordValues] /\ c[b] = carry
    BY <1>3 DEF Runs
  <2>2. ASSUME NEW i \in b .. n PROVE c[i + 1] = (a[i] + c[i]) \div Word
    <3> DEFINE j == i + 1
    <3>1. j \in b + 1 .. end /\ j - 1 = i /\ i \in b .. n + 1
      OBVIOUS
    <3>2. c[j] = step[j][c[j - 1]] /\ c[i] \in WordValues
      <4> HIDE DEF step, j
      <4> QED
        BY <1>3, <2>1, <3>1 DEF Runs
    <3>3. c[j] = step[j][c[i]]
      BY <3>1, <3>2
    <3>4. step[j] = [x \in WordValues |-> (a[i] + x) \div Word]
      BY <3>1
    <3> QED
      BY <3>2, <3>3, <3>4
  <2> QED
    BY <2>1, <2>2 DEF AreCarries
<1>6. Len(a) = n
  BY FunctionIsSequence
<1>5. Rec(c)
  <2>1. ASSUME NEW i \in b .. n + 1 PROVE c[i] = next(c, i)
    <3>1. CASE i = b
      BY <1>4, <3>1 DEF AreCarries
    <3>2. CASE i # b
      <4>1. i - 1 \in b .. n /\ (i - 1) + 1 = i
        BY <3>2
      <4>2. c[(i - 1) + 1] = (a[i - 1] + c[i - 1]) \div Word
        BY <1>4, <4>1 DEF AreCarries
      <4> QED
        BY <3>2, <4>1, <4>2
    <3> QED
      BY <3>1, <3>2
  <2>2. c = [i \in b .. n + 1 |-> c[i]]
    BY <1>4 DEF AreCarries
  <2>3. c = [i \in b .. n + 1 |-> next(c, i)]
    <3> HIDE DEF next
    <3> QED
      BY <2>1, <2>2
  <2> HIDE DEF next
  <2>4. b .. Len(a) + 1 = b .. n + 1
    BY <1>6
  <2> QED
    BY <2>3, <2>4, Zenon
<1>7. PICK f : Rec(f) /\ AddCarry(a, b, carry) = Result(f)
  <2> DEFINE chosen == CHOOSE g : Rec(g)
  <2>1. Rec(chosen)
    <3> HIDE DEF Rec
    <3> QED
      BY <1>5
  <2>2. AddCarry(a, b, carry) = Result(chosen)
    BY Zenon DEF AddCarry
  <2> HIDE DEF chosen
  <2> QED
    BY <2>1, <2>2, Zenon
<1>8. Agree(f, c, b, end)
  <2>1. \A i \in b .. end : f[i] = next(f, i) /\ c[i] = next(c, i)
    BY <1>5, <1>6, <1>7
  <2>2. f[b] = c[b]
    BY <1>1, <2>1
  <2>3. ASSUME NEW i \in b + 1 .. end, f[i - 1] = c[i - 1] PROVE f[i] = c[i]
    <3>1. i \in b .. end /\ i # b
      OBVIOUS
    <3> QED
      BY <2>1, <2>3, <3>1
  <2> HIDE DEF end
  <2> QED
    BY <1>1, <2>2, <2>3, DeterminedFrom
<1>9. Result(f) = Result(c)
  <2>1. f[n + 1] = c[n + 1]
    <3>1. n + 1 \in b .. end
      BY <1>1
    <3> QED
      BY <1>8, <3>1 DEF Agree
  <2>2. \A i \in 1 .. n : ~(i < b) => f[i] = c[i]
    <3> SUFFICES ASSUME NEW i \in 1 .. n, ~(i < b) PROVE f[i] = c[i]
      OBVIOUS
    <3>1. i \in b .. end
      OBVIOUS
    <3> QED
      BY <1>8, <3>1 DEF Agree
  <2>3. [i \in 1 .. n |-> IF i < b THEN a[i] ELSE (a[i] + f[i]) % Word]
          = [i \in 1 .. n |-> IF i < b THEN a[i] ELSE (a[i] + c[i]) % Word]
    BY <2>2
  <2> QED
    BY <1>6, <2>1, <2>3
<1>10. AddCarry(a, b, carry) = Result(c)
  BY <1>7, <1>9
<1> QED
  BY <1>4, <1>6, <1>10

LEMMA AddCarryIs ==
  ASSUME NEW n \in Nat, NEW a \in [1 .. n -> WordValues], NEW b \in 1 .. n + 1,
         NEW carry \in WordValues
  PROVE  \E m \in Nat : IsAdded(AddCarry(a, b, carry), m, a, n, b, carry)
<1> DEFINE Sums(c) == [i \in 1 .. n |-> IF i < b THEN a[i] ELSE (a[i] + c[i]) % Word]
<1>1. PICK c : /\ AreCarries(c, a, n, b, carry)
               /\ AddCarry(a, b, carry) =
                    IF c[n + 1] = 0 THEN Sums(c) ELSE Append(Sums(c), c[n + 1])
  BY CarriesExist
<1> DEFINE sums == Sums(c)
           over == c[n + 1]
<1>2. /\ \A i \in b .. n + 1 : c[i] \in WordValues
      /\ c[b] = carry
      /\ \A i \in b .. n : c[i + 1] = (a[i] + c[i]) \div Word
  BY <1>1 DEF AreCarries
<1>3. \A i \in 1 .. n : a[i] \in WordValues
  OBVIOUS
<1>4. over \in WordValues
  <2>1. n + 1 \in b .. n + 1
    OBVIOUS
  <2> QED
    BY <1>2, <2>1
<1>5. /\ \A i \in 1 .. n : i < b => sums[i] = a[i]
      /\ \A i \in b .. n : sums[i] = (a[i] + c[i]) % Word
  OBVIOUS
<1>6. sums \in [1 .. n -> WordValues]
  <2> SUFFICES ASSUME NEW i \in 1 .. n, ~(i < b) PROVE (a[i] + c[i]) % Word \in WordValues
    BY <1>3
  <2>1. i \in b .. n + 1
    OBVIOUS
  <2> HIDE DEF sums, over
  <2> QED
    BY <1>2, <1>3, <2>1, CarryStep
<1> HIDE DEF sums
<1>7. n > 0 /\ b <= n /\ a[n] # 0 /\ sums[n] = 0 => over # 0
  <2> SUFFICES ASSUME n > 0, b <= n, a[n] # 0, sums[n] = 0 PROVE over # 0
    OBVIOUS
  <2>1. n \in b .. n /\ n \in 1 .. n /\ n \in b .. n + 1
    OBVIOUS
  <2> HIDE DEF over
  <2>2. a[n] \in WordValues /\ c[n] \in WordValues /\ sums[n] = (a[n] + c[n]) % Word
    BY <1>2, <1>3, <1>5, <2>1
  <2>3. over = (a[n] + c[n]) \div Word
    BY <1>2, <2>1 DEF over
  <2> DEFINE x == a[n]
             y == c[n]
  <2>4. x \in WordValues /\ y \in WordValues /\ x # 0 /\ (x + y) % Word = 0 /\ over = (x + y) \div Word
    BY <2>2, <2>3
  <2> HIDE DEF x, y
  <2> QED
    BY <2>4, CarryStep
<1>8. b = n + 1 => over = carry
  BY <1>2
(* The values of the prefixes. *)
<1>9. ASSUME NEW v, NEW w, IsValue(v, a, n), IsValue(w, sums, n)
      PROVE  w[n] + over * Power(Word, n) = v[n] + carry * Power(Word, b - 1)
  <2> DEFINE B == b - 1
             extra == carry * Power(Word, B)
             f == [k \in B .. n |-> w[k] + c[k + 1] * Power(Word, k)]
             g == [k \in B .. n |-> v[k] + extra]
  <2>1. B \in Nat /\ B \in 0 .. n /\ B + 1 = b /\ B <= n /\ n \in Int
    OBVIOUS
  <2>2. /\ v[0] = 0 /\ w[0] = 0
        /\ \A i \in 0 .. n : v[i] \in Nat /\ w[i] \in Nat
        /\ \A i \in 1 .. n : /\ v[i] = v[i - 1] + a[i] * Power(Word, i - 1)
                             /\ w[i] = w[i - 1] + sums[i] * Power(Word, i - 1)
    BY <1>9 DEF IsValue
  <2>3. v[B] = w[B]
    <3> DEFINE zero == 0
    <3>1. ASSUME NEW i \in zero + 1 .. B, v[i - 1] = w[i - 1] PROVE v[i] = w[i]
      <4>1. i \in 1 .. n /\ i < b
        BY <2>1
      <4>2. sums[i] = a[i]
        BY <1>5, <4>1
      <4> QED
        BY <2>2, <3>1, <4>1, <4>2
    <3>2. zero \in Int /\ B \in Int /\ zero <= B /\ v[zero] = w[zero] /\ B \in zero .. B
      BY <2>1, <2>2
    <3> HIDE DEF B, zero
    <3>3. Agree(v, w, zero, B)
      BY <3>1, <3>2, DeterminedFrom
    <3> QED
      BY <3>2, <3>3 DEF Agree
  <2>4. f[B] = g[B]
    <3>1. B \in B .. n /\ c[B + 1] = carry
      BY <1>2, <2>1
    <3> HIDE DEF B
    <3> QED
      BY <2>3, <3>1
  <2>5. ASSUME NEW k \in B + 1 .. n, f[k - 1] = g[k - 1] PROVE f[k] = g[k]
    <3>1. k \in 1 .. n /\ k \in b .. n /\ k - 1 \in Nat /\ (k - 1) + 1 = k /\ k \in b .. n + 1
          /\ k \in B .. n /\ k - 1 \in B .. n /\ k - 1 \in 0 .. n /\ k \in 0 .. n
          /\ k + 1 \in b .. n + 1
      BY <2>1
    <3> DEFINE j == k - 1
               p == Power(Word, j)
               x == a[k]
               y == c[k]
               z == c[k + 1]
               vj == v[j]
               wj == w[j]
               s == sums[k]
    <3>2. p \in Nat /\ Power(Word, k) = Word * p
      <4>1. j + 1 = k /\ j \in Nat
        BY <3>1
      <4> HIDE DEF j
      <4>2. Power(Word, j) \in Nat /\ Power(Word, j + 1) = Word * Power(Word, j)
        BY <4>1, PlaceNat
      <4> QED
        BY <4>1, <4>2
    <3>3. /\ x \in WordValues /\ y \in WordValues
          /\ z = (x + y) \div Word /\ s = (x + y) % Word
      BY <1>2, <1>3, <1>5, <3>1
    <3>4. vj \in Nat /\ wj \in Nat /\ v[k] = vj + x * p /\ w[k] = wj + s * p
      BY <2>2, <3>1
    <3>5. wj + y * p = vj + extra
      BY <2>5, <3>1
    <3>6. extra \in Nat
      <4> HIDE DEF B
      <4>1. Power(Word, B) \in Nat
        BY <2>1, PlaceNat
      <4>2. carry \in Nat
        BY WordIs DEF WordValues
      <4> QED
        BY <4>1, <4>2
    <3>7. f[k] = (wj + s * p) + z * (Word * p) /\ g[k] = (vj + x * p) + extra
      BY <3>1, <3>2, <3>4
    <3> HIDE DEF j, p, x, y, z, vj, wj, s, extra
    <3>8. x + y = Word * z + s /\ x \in Nat /\ y \in Nat /\ z \in Nat /\ s \in Nat /\ Word \in Nat
      BY <3>3, CarryStep, WordIs DEF WordValues
    <3>9. s * p + z * (Word * p) = x * p + y * p
      <4>1. s * p + z * (Word * p) = (Word * z + s) * p
        BY <3>2, <3>8
      <4>2. (x + y) * p = x * p + y * p
        BY <3>2, <3>8
      <4> QED
        BY <3>8, <4>1, <4>2
    <3> DEFINE sp == s * p
               zp == z * (Word * p)
               xp == x * p
               yp == y * p
    <3>10. sp \in Nat /\ zp \in Nat /\ xp \in Nat /\ yp \in Nat
      BY <3>2, <3>8
    <3>11. /\ sp + zp = xp + yp /\ wj + yp = vj + extra
           /\ f[k] = (wj + sp) + zp /\ g[k] = (vj + xp) + extra
      BY <3>5, <3>7, <3>9
    <3> HIDE DEF sp, zp, xp, yp, f, g
    <3> QED
      BY <3>4, <3>6, <3>10, <3>11
  <2>6. Agree(f, g, B, n)
    <3>1. B \in Int
      BY <2>1
    <3> HIDE DEF f, g, B
    <3> QED
      BY <2>1, <2>4, <2>5, <3>1, DeterminedFrom
  <2>7. f[n] = g[n] /\ n \in B .. n
    <3> HIDE DEF f, g, B
    <3>1. n \in B .. n
      BY <2>1
    <3> QED
      BY <2>6, <3>1 DEF Agree
  <2> HIDE DEF B
  <2> QED
    BY <2>7 DEF B
<1>10. CASE over = 0
  <2> DEFINE r == AddCarry(a, b, carry)
  <2>1. r = sums
    BY <1>1, <1>10 DEF sums
  <2> HIDE DEF r
  <2>2. ASSUME NEW v, NEW w, IsValue(v, a, n), IsValue(w, r, n)
        PROVE  w[n] = v[n] + carry * Power(Word, b - 1)
    <3>1. w[n] + over * Power(Word, n) = v[n] + carry * Power(Word, b - 1)
      BY <1>9, <2>1, <2>2
    <3>2. Power(Word, n) \in Nat /\ w[n] \in Nat
      BY <2>2, PlaceNat DEF IsValue
    <3> HIDE DEF over
    <3>3. w[n] + over * Power(Word, n) = w[n]
      BY <1>10, <3>2
    <3> QED
      BY <3>1, <3>3
  <2> HIDE DEF over
  <2>3. IsAdded(r, n, a, n, b, carry)
    BY <1>5, <1>6, <1>7, <1>8, <1>10, <2>1, <2>2 DEF IsAdded
  <2> QED
    BY <2>3 DEF r
<1>11. CASE over # 0
  <2> DEFINE r   == AddCarry(a, b, carry)
             m   == n + 1
  <2>1. r = Append(sums, over)
    BY <1>1, <1>11 DEF sums
  <2> HIDE DEF r, over
  <2>2. IsAppended(r, sums, n, over)
    <3>1. IsList(sums, n)
      BY <1>6 DEF IsList
    <3>2. IsAppended(Append(sums, over), sums, n, over)
      BY <3>1, ListAppended
    <3> QED
      BY <2>1, <3>2
  <2>3. IsList(r, m) /\ (\A i \in 1 .. n : r[i] = sums[i]) /\ r[m] = over
    BY <2>2 DEF IsAppended
  <2>4. r \in [1 .. m -> WordValues]
    <3>1. ASSUME NEW i \in 1 .. m PROVE r[i] \in WordValues
      <4>1. CASE i = m
        BY <1>4, <2>3, <4>1
      <4>2. CASE i # m
        <5>1. i \in 1 .. n
          BY <4>2
        <5> QED
          BY <1>6, <2>3, <5>1
      <4> QED
        BY <4>1, <4>2
    <3> QED
      BY <2>3, <3>1 DEF IsList
  <2>5. ASSUME NEW v, NEW w, IsValue(v, a, n), IsValue(w, r, m)
        PROVE  w[m] = v[n] + carry * Power(Word, b - 1)
    <3> DEFINE u == [i \in 0 .. n |-> w[i]]
    <3>1. IsValue(u, sums, n)
      <4>1. ASSUME NEW i \in 1 .. n PROVE u[i] = u[i - 1] + sums[i] * Power(Word, i - 1)
        <5>1. i \in 1 .. m /\ i \in 0 .. n /\ i - 1 \in 0 .. n
          OBVIOUS
        <5>2. w[i] = w[i - 1] + r[i] * Power(Word, i - 1)
          BY <2>5, <5>1 DEF IsValue
        <5> QED
          BY <2>3, <5>1, <5>2
      <4>2. u \in [0 .. n -> Nat] /\ u[0] = 0
        BY <2>5 DEF IsValue
      <4> HIDE DEF u
      <4> QED
        BY <4>1, <4>2 DEF IsValue
    <3>2. u[n] + over * Power(Word, n) = v[n] + carry * Power(Word, b - 1)
      <4> HIDE DEF u
      <4> QED
        BY <1>9, <2>5, <3>1
    <3>3. w[m] = w[n] + over * Power(Word, n)
      <4>1. m \in 1 .. m /\ m - 1 = n
        OBVIOUS
      <4> HIDE DEF m
      <4>2. w[m] = w[m - 1] + r[m] * Power(Word, m - 1)
        BY <2>5, <4>1 DEF IsValue
      <4> QED
        BY <2>3, <4>1, <4>2
    <3>4. u[n] = w[n]
      OBVIOUS
    <3> QED
      BY <3>2, <3>3, <3>4
  <2>6. /\ m \in Nat /\ m \in {n, n + 1} /\ m # n
        /\ \A i \in 1 .. n : i < b => r[i] = a[i]
    BY <1>5, <2>3
  <2>7. IsAdded(r, m, a, n, b, carry)
    <3> HIDE DEF m
    <3> QED
      BY <1>11, <2>3, <2>4, <2>5, <2>6 DEF IsAdded
  <2> QED
    BY <2>6, <2>7 DEF r
<1> QED
  BY <1>10, <1>11

(* One word replaced. *)
IsReplaced(y, x, m, b, e) ==
  /\ y \in [1 .. m -> WordValues] /\ y[b] = e
  /\ \A i \in 1 .. m : i # b => y[i] = x[i]
  /\ \A v, w : IsValue(v, x, m) /\ IsValue(w, y, m) =>
       w[m] + x[b] * Power(Word, b - 1) = v[m] + e * Power(Word, b - 1)

LEMMA ReplaceIs ==
  ASSUME NEW m \in Nat, NEW x \in [1 .. m -> WordValues], NEW b \in 1 .. m,
         NEW e \in WordValues
  PROVE  IsReplaced(ReplaceAt(x, b, e), x, m, b, e)
<1> DEFINE y == ReplaceAt(x, b, e)
<1>1. /\ y \in [1 .. m -> WordValues] /\ y[b] = e
      /\ \A i \in 1 .. m : i # b => y[i] = x[i]
  BY DEF ReplaceAt
<1> HIDE DEF y
<1>2. ASSUME NEW v, NEW w, IsValue(v, x, m), IsValue(w, y, m)
      PROVE  w[m] + x[b] * Power(Word, b - 1) = v[m] + e * Power(Word, b - 1)
  <2> DEFINE B == b - 1
             zero == 0
             old == x[b] * Power(Word, B)
             new == e * Power(Word, B)
             f == [k \in b .. m |-> w[k] + old]
             g == [k \in b .. m |-> v[k] + new]
  <2>1. B \in Nat /\ zero \in Int /\ zero <= B /\ b \in Nat /\ b <= m /\ b \in 1 .. m
    OBVIOUS
  <2>2. /\ v[0] = 0 /\ w[0] = 0
        /\ \A i \in 0 .. m : v[i] \in Nat /\ w[i] \in Nat
        /\ \A i \in 1 .. m : /\ v[i] = v[i - 1] + x[i] * Power(Word, i - 1)
                             /\ w[i] = w[i - 1] + y[i] * Power(Word, i - 1)
    BY <1>2 DEF IsValue
  <2>3. v[B] = w[B]
    <3>1. ASSUME NEW i \in zero + 1 .. B, v[i - 1] = w[i - 1] PROVE v[i] = w[i]
      <4>1. i \in 1 .. m /\ i # b
        BY <2>1
      <4>2. y[i] = x[i]
        BY <1>1, <4>1
      <4> QED
        BY <2>2, <3>1, <4>1, <4>2
    <3>2. B \in Int /\ v[zero] = w[zero] /\ B \in zero .. B
      BY <2>1, <2>2
    <3> HIDE DEF B, zero
    <3>3. Agree(v, w, zero, B)
      BY <2>1, <3>1, <3>2, DeterminedFrom
    <3> QED
      BY <3>2, <3>3 DEF Agree
  <2>4. \A i \in 1 .. m : x[i] \in Nat /\ y[i] \in Nat
    BY <1>1, WordIs DEF WordValues
  <2>5. old \in Nat /\ new \in Nat
    <3> HIDE DEF B
    <3>1. Power(Word, B) \in Nat
      BY <2>1, PlaceNat
    <3>2. x[b] \in Nat /\ e \in Nat
      BY <1>1, <2>1, <2>4
    <3> QED
      BY <3>1, <3>2
  <2>6. f[b] = g[b]
    <3>1. v[b] = v[B] + old /\ w[b] = w[B] + new /\ v[B] \in Nat
      <4>1. B \in 0 .. m
        BY <2>1
      <4> QED
        BY <1>1, <2>1, <2>2, <4>1
    <3>2. b \in b .. m
      BY <2>1
    <3> HIDE DEF B, old, new
    <3> QED
      BY <2>3, <2>5, <3>1, <3>2
  <2>7. ASSUME NEW k \in b + 1 .. m, f[k - 1] = g[k - 1] PROVE f[k] = g[k]
    <3> DEFINE j == k - 1
               t == x[k] * Power(Word, j)
    <3>1. k \in 1 .. m /\ k # b /\ k \in b .. m /\ j \in b .. m /\ j \in Nat /\ j \in 0 .. m
      BY <2>1
    <3>2. v[k] = v[j] + t /\ w[k] = w[j] + t /\ v[j] \in Nat /\ w[j] \in Nat
      BY <1>1, <2>2, <3>1
    <3>3. t \in Nat
      <4> HIDE DEF j
      <4>1. Power(Word, j) \in Nat /\ x[k] \in Nat
        BY <2>4, <3>1, PlaceNat
      <4> QED
        BY <4>1
    <3>4. w[j] + old = v[j] + new
      BY <2>7, <3>1
    <3>5. f[k] = w[k] + old /\ g[k] = v[k] + new
      BY <3>1
    <3> DEFINE vj == v[j]
               wj == w[j]
               vk == v[k]
               wk == w[k]
    <3>6. vk = vj + t /\ wk = wj + t /\ vj \in Nat /\ wj \in Nat /\ wj + old = vj + new
      BY <3>2, <3>4
    <3> HIDE DEF f, g, j, t, old, new, B
    <3>7. f[k] = wk + old /\ g[k] = vk + new
      BY <3>5
    <3> HIDE DEF vj, wj, vk, wk
    <3> QED
      BY <2>5, <3>3, <3>6, <3>7
  <2>8. Agree(f, g, b, m)
    <3>1. b \in Int /\ m \in Int
      BY <2>1
    <3> HIDE DEF f, g
    <3> QED
      BY <2>1, <2>6, <2>7, <3>1, DeterminedFrom
  <2>9. f[m] = g[m] /\ m \in b .. m
    <3> HIDE DEF f, g
    <3>1. m \in b .. m
      BY <2>1
    <3> QED
      BY <2>8, <3>1 DEF Agree
  <2> QED
    BY <2>9
<1>3. IsReplaced(y, x, m, b, e)
  BY <1>1, <1>2 DEF IsReplaced
<1> QED
  BY <1>3 DEF y

(* One word times DigitBase, its carry added behind it. *)
MultiplyAt(x, b) ==
  AddCarry(ReplaceAt(x, b, (x[b] * DigitBase) % Word), b + 1, (x[b] * DigitBase) \div Word)

(* The words from b on have been multiplied. *)
IsMultiplied(x, m, a, n, b) ==
  /\ m \in Nat /\ m >= n /\ x \in [1 .. m -> WordValues]
  /\ \A i \in 1 .. n : i < b => x[i] = a[i]
  /\ a[n] # 0 => x[m] # 0
  /\ \A v, w : IsValue(v, a, n) /\ IsValue(w, x, m) =>
       w[m] + (DigitBase - 1) * v[b - 1] = DigitBase * v[n]

LEMMA ProductCarry ==
  ASSUME NEW d \in WordValues
  PROVE  /\ (d * DigitBase) % Word \in WordValues /\ (d * DigitBase) \div Word \in WordValues
         /\ d * DigitBase = Word * ((d * DigitBase) \div Word) + ((d * DigitBase) % Word)
         /\ d # 0 /\ (d * DigitBase) \div Word = 0 => (d * DigitBase) % Word # 0
<1> DEFINE p == d * DigitBase
           q == p \div Word
           r == p % Word
<1>1. /\ Word \in Nat \ {0} /\ DigitBase \in Nat /\ DigitBase >= 2 /\ DigitBase < Word
      /\ d \in Nat /\ d <= Word - 1
  BY WordIs DEF WordValues
<1>2. p \in Nat
  BY <1>1
<1>3. q \in Nat /\ r \in 0 .. Word - 1 /\ p = Word * q + r
  <2> HIDE DEF p
  <2> QED
    BY <1>1, <1>2, Division
<1> HIDE DEF q, r
<1>4. q < DigitBase
  <2> SUFFICES ASSUME q >= DigitBase PROVE FALSE
    BY <1>1, <1>3
  <2>1. DigitBase * Word <= q * Word
    BY <1>1, <1>3, Products
  <2>2. d * DigitBase <= (Word - 1) * DigitBase
    BY <1>1, Products
  <2>3. (Word - 1) * DigitBase = DigitBase * Word - DigitBase /\ q * Word = Word * q
    BY <1>1, <1>3
  <2> DEFINE x == DigitBase * Word
             y == Word * q
  <2>4. x \in Nat /\ y \in Nat
    BY <1>1, <1>3
  <2>5. x <= y /\ p <= x - DigitBase /\ p = y + r
    BY <1>3, <2>1, <2>2, <2>3
  <2> HIDE DEF x, y, p
  <2> QED
    BY <1>1, <1>2, <1>3, <2>4, <2>5
<1>5. q \in WordValues /\ r \in WordValues
  BY <1>1, <1>3, <1>4 DEF WordValues
<1>6. d # 0 /\ q = 0 => r # 0
  <2> SUFFICES ASSUME d # 0, q = 0, r = 0 PROVE FALSE
    OBVIOUS
  <2>1. p = 0
    BY <1>1, <1>3
  <2>2. 1 * DigitBase <= d * DigitBase
    BY <1>1, Products
  <2> QED
    BY <1>1, <2>1, <2>2
<1> QED
  BY <1>3, <1>5, <1>6 DEF p, q, r

LEMMA MultiplyAtType ==
  ASSUME NEW m \in Nat, NEW x \in [1 .. m -> WordValues], NEW b \in 1 .. m
  PROVE  \E k \in Nat : k >= m /\ MultiplyAt(x, b) \in [1 .. k -> WordValues]
<1> DEFINE e == (x[b] * DigitBase) % Word
           carry == (x[b] * DigitBase) \div Word
           y == ReplaceAt(x, b, e)
           c == b + 1
<1>1. e \in WordValues /\ carry \in WordValues
  <2> DEFINE d == x[b]
  <2>1. d \in WordValues
    OBVIOUS
  <2> HIDE DEF d
  <2>2. (d * DigitBase) % Word \in WordValues /\ (d * DigitBase) \div Word \in WordValues
    BY <2>1, ProductCarry
  <2> QED
    BY <2>2 DEF d
<1>2. MultiplyAt(x, b) = AddCarry(y, c, carry)
  BY DEF MultiplyAt
<1> HIDE DEF e, carry
<1>3. y \in [1 .. m -> WordValues]
  BY <1>1, ReplaceIs DEF IsReplaced
<1>4. c \in 1 .. m + 1
  OBVIOUS
<1> HIDE DEF y, c
<1>5. PICK k \in Nat : IsAdded(AddCarry(y, c, carry), k, y, m, c, carry)
  BY <1>1, <1>3, <1>4, AddCarryIs
<1>6. k >= m /\ AddCarry(y, c, carry) \in [1 .. k -> WordValues]
  BY <1>5 DEF IsAdded
<1> QED
  BY <1>2, <1>6

LEMMA MultiplyAtIs ==
  ASSUME NEW n \in Nat, NEW a \in [1 .. n -> WordValues], NEW b \in 1 .. n,
         NEW m, NEW x, IsMultiplied(x, m, a, n, b + 1)
  PROVE  \E k : IsMultiplied(MultiplyAt(x, b), k, a, n, b)
<1> DEFINE d == x[b]
           p == d * DigitBase
           e == p % Word
           carry == p \div Word
           y == ReplaceAt(x, b, e)
           c == b + 1
           r == AddCarry(y, c, carry)
<1>1. /\ m \in Nat /\ m >= n /\ x \in [1 .. m -> WordValues]
      /\ \A i \in 1 .. n : i < c => x[i] = a[i]
      /\ a[n] # 0 => x[m] # 0
      /\ \A v, w : IsValue(v, a, n) /\ IsValue(w, x, m) =>
           w[m] + (DigitBase - 1) * v[c - 1] = DigitBase * v[n]
  BY DEF IsMultiplied
<1>2. b \in 1 .. m /\ c \in 1 .. m + 1 /\ c \in Nat /\ c - 1 = b /\ b \in Nat
  BY <1>1
<1>3. d \in WordValues /\ d = a[b]
  BY <1>1, <1>2
<1>4. MultiplyAt(x, b) = r
  BY DEF MultiplyAt
<1> HIDE DEF d, r
<1>5. /\ e \in WordValues /\ carry \in WordValues
      /\ p = Word * carry + e
      /\ d # 0 /\ carry = 0 => e # 0
  BY <1>3, ProductCarry
<1> HIDE DEF p, e, carry
<1>6. /\ y \in [1 .. m -> WordValues] /\ y[b] = e
      /\ \A i \in 1 .. m : i # b => y[i] = x[i]
      /\ \A v, w : IsValue(v, x, m) /\ IsValue(w, y, m) =>
           w[m] + x[b] * Power(Word, b - 1) = v[m] + e * Power(Word, b - 1)
  <2>1. IsReplaced(ReplaceAt(x, b, e), x, m, b, e)
    BY <1>1, <1>2, <1>5, ReplaceIs
  <2>2. IsReplaced(y, x, m, b, e)
    BY <2>1
  <2> HIDE DEF y
  <2> QED
    BY <2>2 DEF IsReplaced
<1> HIDE DEF y, c
<1>7. PICK k \in Nat : IsAdded(r, k, y, m, c, carry)
  <2>1. \E k \in Nat : IsAdded(AddCarry(y, c, carry), k, y, m, c, carry)
    BY <1>1, <1>2, <1>5, <1>6, AddCarryIs
  <2> QED
    BY <2>1 DEF r
<1>8. /\ k \in {m, m + 1} /\ r \in [1 .. k -> WordValues]
      /\ \A i \in 1 .. m : i < c => r[i] = y[i]
      /\ k = m + 1 => r[k] # 0
      /\ k = m /\ c = m + 1 => carry = 0
      /\ k = m /\ m > 0 /\ c <= m => (y[m] # 0 => r[m] # 0)
      /\ \A v, w : IsValue(v, y, m) /\ IsValue(w, r, k) =>
           w[k] = v[m] + carry * Power(Word, c - 1)
  BY <1>7 DEF IsAdded
<1>9. \A i \in 1 .. n : i < b => r[i] = a[i]
  <2> SUFFICES ASSUME NEW i \in 1 .. n, i < b PROVE r[i] = a[i]
    OBVIOUS
  <2>1. i \in 1 .. m /\ i < c /\ i # b
    BY <1>1 DEF c
  <2> QED
    BY <1>1, <1>6, <1>8, <2>1
<1>10. ASSUME a[n] # 0 PROVE r[k] # 0
  <2>1. x[m] # 0
    BY <1>1, <1>10
  <2>2. CASE k = m + 1
    BY <1>8, <2>2
  <2>3. CASE k = m /\ b < m
    <3>1. m \in 1 .. m /\ m # b /\ c <= m /\ m > 0
      BY <1>1, <1>2, <2>3 DEF c
    <3>2. y[m] # 0
      BY <1>6, <2>1, <3>1
    <3> QED
      BY <1>8, <2>3, <3>1, <3>2
  <2>4. CASE k = m /\ b = m
    <3>1. c = m + 1 /\ m \in 1 .. m /\ m < c
      BY <1>1, <1>2, <2>4 DEF c
    <3>2. carry = 0 /\ r[m] = y[m] /\ y[m] = e
      BY <1>6, <1>8, <2>4, <3>1
    <3>3. d # 0
      BY <2>1, <2>4 DEF d
    <3> QED
      BY <1>5, <2>4, <3>2, <3>3
  <2> QED
    BY <1>2, <1>8, <2>2, <2>3, <2>4
<1>11. ASSUME NEW v, NEW w, IsValue(v, a, n), IsValue(w, r, k)
       PROVE  w[k] + (DigitBase - 1) * v[b - 1] = DigitBase * v[n]
  <2>1. PICK vx : IsValue(vx, x, m)
    BY <1>1, ValueExists
  <2>2. PICK vy : IsValue(vy, y, m)
    BY <1>1, <1>6, ValueExists
  <2> DEFINE B == b - 1
             place == Power(Word, B)
             next == Power(Word, b)
             D == DigitBase - 1
             X == vx[m]
             Y == vy[m]
             R == w[k]
             V == v[n]
             below == v[B]
             upto == v[b]
  <2>3. /\ X + D * upto = DigitBase * V
        /\ Y + d * place = X + e * place
        /\ R = Y + carry * next
    BY <1>1, <1>2, <1>6, <1>8, <1>11, <2>1, <2>2 DEF d
  <2>4. next = Word * place /\ place \in Nat
    <3>1. B \in Nat /\ B + 1 = b
      BY <1>2
    <3> HIDE DEF B
    <3>2. Power(Word, B + 1) = Word * Power(Word, B) /\ Power(Word, B) \in Nat
      BY <3>1, PlaceNat
    <3> QED
      BY <3>1, <3>2
  <2>5. upto = below + d * place
    BY <1>2, <1>3, <1>11 DEF IsValue
  <2>6. X \in Nat /\ Y \in Nat /\ R \in Nat /\ V \in Nat /\ below \in Nat
    <3>1. B \in 0 .. n /\ n \in 0 .. n /\ m \in 0 .. m /\ k \in 0 .. k
      BY <1>1, <1>2
    <3> HIDE DEF B
    <3> QED
      BY <1>11, <2>1, <2>2, <3>1 DEF IsValue
  <2>7. d \in Nat /\ e \in Nat /\ carry \in Nat /\ Word \in Nat /\ DigitBase \in Nat /\ D \in Int
        /\ D = DigitBase - 1
    BY <1>3, <1>5, WordIs DEF WordValues
  <2>8. d * DigitBase = Word * carry + e
    BY <1>5 DEF p
  <2> HIDE DEF B, place, next, X, Y, R, V, below, upto
  <2>9. /\ carry * next = (Word * carry) * place
        /\ (Word * carry) * place + e * place = (d * DigitBase) * place
        /\ (d * DigitBase) * place = D * (d * place) + d * place
        /\ D * upto = D * below + D * (d * place)
    <3>1. carry * (Word * place) = (Word * carry) * place
      BY <2>4, <2>7
    <3>2. (Word * carry) * place + e * place = (Word * carry + e) * place
      BY <2>4, <2>7
    <3>3. (d * DigitBase) * place = D * (d * place) + d * place
      BY <2>4, <2>7
    <3>4. D * (below + d * place) = D * below + D * (d * place)
      BY <2>4, <2>6, <2>7
    <3> QED
      BY <2>4, <2>5, <2>8, <3>1, <3>2, <3>3, <3>4
  <2> DEFINE cp == (Word * carry) * place
             ep == e * place
             dp == d * place
             Ddp == D * (d * place)
             Db == D * below
             DV == DigitBase * V
  <2>10. cp \in Nat /\ ep \in Nat /\ dp \in Nat /\ Ddp \in Int /\ Db \in Int /\ DV \in Nat
    BY <2>4, <2>6, <2>7
  <2>11. /\ X + (Db + Ddp) = DV /\ Y + dp = X + ep /\ R = Y + cp /\ cp + ep = Ddp + dp
    BY <2>3, <2>9
  <2> HIDE DEF cp, ep, dp, Ddp, Db, DV, D
  <2>12. R + Db = DV
    BY <2>6, <2>10, <2>11
  <2> QED
    BY <2>12 DEF R, Db, DV, D, below, V, B
<1>12. k \in Nat /\ k >= n
  BY <1>1, <1>7, <1>8
<1>13. IsMultiplied(r, k, a, n, b)
  BY <1>8, <1>9, <1>10, <1>11, <1>12 DEF IsMultiplied
<1> QED
  BY <1>4, <1>13

(* What Multiply makes of an array of n words. *)
IsProduct(r, m, a, n) ==
  /\ m \in Nat /\ m >= n /\ r \in [1 .. m -> WordValues]
  /\ a[n] # 0 => r[m] # 0
  /\ \A v, w : IsValue(v, a, n) /\ IsValue(w, r, m) => w[m] = DigitBase * v[n]

(* The arrays the words from b on have been multiplied in, b counting down. *)
AreProducts(f, a, n) ==
  f = [b \in 1 .. n + 1 |-> IF b = n + 1 THEN a ELSE MultiplyAt(f[b + 1], b)]

LEMMA ProductsExist ==
  ASSUME NEW n \in Nat, NEW a \in [1 .. n -> WordValues]
  PROVE  \E f : AreProducts(f, a, n)
<1> DEFINE Lengths == {m \in Nat : m >= n}
           T == UNION {[1 .. m -> WordValues] : m \in Lengths}
           step == [k \in 1 .. n |-> [x \in T |-> MultiplyAt(x, (n + 1) - k)]]
<1>1. a \in T
  BY n \in Lengths
<1>2. step \in Steps(n, T)
  <2>1. ASSUME NEW k \in 1 .. n, NEW x \in T PROVE MultiplyAt(x, (n + 1) - k) \in T
    <3> DEFINE b == (n + 1) - k
    <3>1. PICK m \in Nat : m >= n /\ x \in [1 .. m -> WordValues]
      OBVIOUS
    <3>2. b \in 1 .. m
      BY <3>1
    <3> HIDE DEF b, T
    <3>3. PICK j \in Nat : j >= m /\ MultiplyAt(x, b) \in [1 .. j -> WordValues]
      BY <3>1, <3>2, MultiplyAtType
    <3>4. j \in Lengths
      BY <3>1, <3>3
    <3>5. MultiplyAt(x, b) \in T
      BY <3>3, <3>4 DEF T
    <3> QED
      BY <3>5 DEF b
  <2> HIDE DEF T
  <2> QED
    BY <2>1 DEF Steps
<1> HIDE DEF T
<1>3. PICK g \in [0 .. n -> T] :
        g[0] = a /\ \A k \in 1 .. n : g[k] = step[k][g[k - 1]]
  <2> HIDE DEF step
  <2> QED
    BY <1>1, <1>2, Iteration, Z3T(30)
<1> DEFINE f == [b \in 1 .. n + 1 |-> g[(n + 1) - b]]
           next == [b \in 1 .. n + 1 |-> IF b = n + 1 THEN a ELSE MultiplyAt(f[b + 1], b)]
<1>4. ASSUME NEW b \in 1 .. n + 1
      PROVE  f[b] = IF b = n + 1 THEN a ELSE MultiplyAt(f[b + 1], b)
  <2>1. CASE b = n + 1
    <3>1. (n + 1) - b = 0
      BY <2>1
    <3> QED
      BY <1>3, <2>1, <3>1
  <2>2. CASE b # n + 1
    <3> DEFINE k == (n + 1) - b
    <3>1. /\ k \in 1 .. n /\ k \in 0 .. n /\ k - 1 \in 0 .. n /\ (n + 1) - k = b
          /\ k - 1 = (n + 1) - (b + 1) /\ b + 1 \in 1 .. n + 1
      BY <2>2
    <3>2. f[b] = g[k] /\ f[b + 1] = g[k - 1]
      BY <3>1
    <3>3. g[k] = step[k][g[k - 1]] /\ g[k - 1] \in T
      <4> HIDE DEF step, k
      <4> QED
        BY <1>3, <3>1
    <3>4. step[k] = [x \in T |-> MultiplyAt(x, (n + 1) - k)]
      BY <3>1
    <3> HIDE DEF f, step, k
    <3>5. g[k] = MultiplyAt(g[k - 1], b)
      BY <3>1, <3>3, <3>4
    <3> QED
      BY <2>2, <3>2, <3>5
  <2> QED
    BY <2>1, <2>2
<1>5. f = [b \in 1 .. n + 1 |-> f[b]]
  OBVIOUS
<1> HIDE DEF f
<1>6. f = next
  BY <1>4, <1>5
<1> QED
  BY <1>6 DEF AreProducts

LEMMA MultiplyIs ==
  ASSUME NEW n \in Nat, NEW a \in [1 .. n -> WordValues]
  PROVE  \E m : IsProduct(Multiply(a), m, a, n)
<1>1. Len(a) = n
  BY FunctionIsSequence
<1>2. \E f : AreProducts(f, a, n) /\ Multiply(a) = f[1]
  <2> DEFINE Rec(g) ==
        g = [b \in 1 .. Len(a) + 1 |->
               IF b = Len(a) + 1 THEN a
               ELSE LET product == g[b + 1][b] * DigitBase
                    IN AddCarry(ReplaceAt(g[b + 1], b, product % Word), b + 1,
                                product \div Word)]
             chosen == CHOOSE g : Rec(g)
  <2>1. \A g : Rec(g) <=> AreProducts(g, a, n)
    BY <1>1 DEF AreProducts, MultiplyAt
  <2>2. Multiply(a) = chosen[1]
    BY Zenon DEF Multiply
  <2>3. \E g : Rec(g)
    <3> HIDE DEF Rec
    <3> QED
      BY <2>1, ProductsExist
  <2>4. Rec(chosen)
    <3> HIDE DEF Rec
    <3> QED
      BY <2>3
  <2> HIDE DEF Rec, chosen
  <2> QED
    BY <2>1, <2>2, <2>4
<1>3. PICK f : AreProducts(f, a, n) /\ Multiply(a) = f[1]
  BY <1>2
<1>4. /\ f[n + 1] = a
      /\ \A b \in 1 .. n : f[b] = MultiplyAt(f[b + 1], b)
  <2>1. \A b \in 1 .. n + 1 : f[b] = IF b = n + 1 THEN a ELSE MultiplyAt(f[b + 1], b)
    BY <1>3 DEF AreProducts
  <2> QED
    BY <2>1
<1> DEFINE S == {k \in Nat : k <= n =>
                   \E m : IsMultiplied(f[(n + 1) - k], m, a, n, (n + 1) - k)}
<1>5. 0 \in S
  <2>1. \A v, w : IsValue(v, a, n) /\ IsValue(w, a, n) =>
          w[n] + (DigitBase - 1) * v[n] = DigitBase * v[n]
    <3> SUFFICES ASSUME NEW v, NEW w, IsValue(v, a, n), IsValue(w, a, n)
                 PROVE  w[n] + (DigitBase - 1) * v[n] = DigitBase * v[n]
      OBVIOUS
    <3>1. n \in 0 .. n
      OBVIOUS
    <3>2. v[n] = w[n]
      BY <3>1, ValueIsOne
    <3>3. v[n] \in Nat
      BY <3>1 DEF IsValue
    <3> DEFINE x == v[n]
    <3>4. w[n] = x /\ x \in Nat
      BY <3>2, <3>3
    <3> HIDE DEF x
    <3>5. x + (DigitBase - 1) * x = DigitBase * x
      BY <3>4, WordIs
    <3> QED
      BY <3>4, <3>5 DEF x
  <2> DEFINE c == n + 1
  <2>2. c - 1 = n /\ (n + 1) - 0 = c /\ f[c] = a
    BY <1>4
  <2> HIDE DEF c
  <2>3. IsMultiplied(a, n, a, n, c)
    BY <2>1, <2>2 DEF IsMultiplied
  <2> QED
    BY <2>2, <2>3
<1>6. ASSUME NEW k \in S \cap Nat PROVE k + 1 \in S
  <2> SUFFICES ASSUME k + 1 <= n
               PROVE  \E m : IsMultiplied(f[(n + 1) - (k + 1)], m, a, n, (n + 1) - (k + 1))
    OBVIOUS
  <2> DEFINE b == (n + 1) - (k + 1)
  <2>1. b \in 1 .. n /\ b + 1 = (n + 1) - k
    OBVIOUS
  <2>2. \E m : IsMultiplied(f[(n + 1) - k], m, a, n, (n + 1) - k)
    BY <1>6
  <2> HIDE DEF b
  <2>3. PICK m : IsMultiplied(f[b + 1], m, a, n, b + 1)
    BY <2>1, <2>2
  <2>4. \E m1 : IsMultiplied(MultiplyAt(f[b + 1], b), m1, a, n, b)
    BY <2>1, <2>3, MultiplyAtIs
  <2>5. \E m1 : IsMultiplied(f[b], m1, a, n, b)
    BY <1>4, <2>1, <2>4
  <2> QED
    BY <2>5 DEF b
<1>7. Nat \subseteq S
  <2> HIDE DEF S
  <2> QED
    BY <1>5, <1>6, SetInduction
<1> DEFINE one == 1
           zero == 0
<1>8. \E m : IsMultiplied(f[one], m, a, n, one)
  <2>1. n \in S /\ (n + 1) - n = one
    BY <1>7
  <2> QED
    BY <2>1
<1>9. one - 1 = zero /\ Multiply(a) = f[one]
  BY <1>3
<1> HIDE DEF S, one
<1>10. PICK m : IsMultiplied(Multiply(a), m, a, n, one)
  BY <1>8, <1>9
<1> DEFINE r == Multiply(a)
<1>11. ASSUME NEW v, NEW w, IsValue(v, a, n), IsValue(w, r, m) PROVE w[m] = DigitBase * v[n]
  <2>1. w[m] + (DigitBase - 1) * v[zero] = DigitBase * v[n]
    <3> HIDE DEF r, zero
    <3> QED
      BY <1>9, <1>10, <1>11 DEF IsMultiplied, r
  <2>2. v[zero] = 0
    BY <1>11 DEF IsValue
  <2>3. w[m] \in Nat /\ v[n] \in Nat
    <3>1. m \in Nat
      BY <1>10 DEF IsMultiplied
    <3>2. m \in 0 .. m /\ n \in 0 .. n
      BY <3>1
    <3> HIDE DEF r
    <3> QED
      BY <1>11, <3>2 DEF IsValue
  <2> DEFINE x == w[m]
             y == DigitBase * v[n]
  <2>4. x + (DigitBase - 1) * 0 = y /\ (DigitBase - 1) * 0 = 0 /\ x \in Nat
    BY <2>1, <2>2, <2>3, WordIs
  <2> HIDE DEF x, y
  <2>5. x = y
    BY <2>4
  <2> QED
    BY <2>5 DEF x, y
<1>12. IsProduct(r, m, a, n)
  <2> HIDE DEF r
  <2> QED
    BY <1>10, <1>11 DEF IsMultiplied, IsProduct, r
<1> QED
  BY <1>12

-----------------------------------------------------------------------------
(* The track and the length of the output *)

LEMMA DigitFits ==
  /\ DigitBase - 1 \in WordValues /\ DigitBase - 1 # 0
  /\ \A d \in 0 .. DigitBase - 1 : d \in WordValues /\ d \in Nat
BY WordIs DEF WordValues

(* The largest number of i digits but the lowest, in m words. *)
IsTrack(r, m, i) ==
  /\ m \in Nat /\ m >= 1 /\ r \in [1 .. m -> WordValues] /\ r[m] # 0
  /\ \A v : IsValue(v, r, m) => v[m] = (DigitBase - 1) * Power(DigitBase, i - 1)

LEMMA FirstTrack == IsTrack(<<DigitBase - 1>>, 1, 1)
<1> DEFINE one == 1
           zero == 0
           r == <<DigitBase - 1>>
           d == DigitBase - 1
<1>1. r \in [1 .. one -> WordValues] /\ r[one] = d /\ d # 0
  BY DigitFits
<1>2. one \in 1 .. one /\ one - 1 = zero /\ one \in Nat /\ one >= 1
  OBVIOUS
<1>3. Power(Word, zero) = 1 /\ Power(DigitBase, zero) = 1
  BY PlaceNat, WordIs, PowerGrows
<1>4. d \in Nat
  BY WordIs
<1> HIDE DEF r, one, d
<1>5. ASSUME NEW v, IsValue(v, r, one) PROVE v[one] = d * Power(DigitBase, one - 1)
  <2>1. v[one] = v[one - 1] + r[one] * Power(Word, one - 1) /\ v[zero] = 0
    BY <1>2, <1>5 DEF IsValue
  <2>2. v[one] = 0 + d * 1
    BY <1>1, <1>2, <1>3, <2>1
  <2> QED
    BY <1>2, <1>3, <1>4, <2>2
<1>6. IsTrack(r, one, one)
  BY <1>1, <1>2, <1>5 DEF IsTrack, d
<1> QED
  BY <1>6 DEF r, one

LEMMA NextTrack ==
  ASSUME NEW i \in Nat \ {0}, NEW m, NEW r, IsTrack(r, m, i)
  PROVE  \E k : IsTrack(Multiply(r), k, i + 1)
<1>1. /\ m \in Nat /\ m >= 1 /\ r \in [1 .. m -> WordValues] /\ r[m] # 0
      /\ \A v : IsValue(v, r, m) => v[m] = (DigitBase - 1) * Power(DigitBase, i - 1)
  BY DEF IsTrack
<1>2. PICK k : IsProduct(Multiply(r), k, r, m)
  BY <1>1, MultiplyIs
<1> DEFINE s == Multiply(r)
<1>3. /\ k \in Nat /\ k >= 1 /\ s \in [1 .. k -> WordValues] /\ s[k] # 0
      /\ \A v, w : IsValue(v, r, m) /\ IsValue(w, s, k) => w[k] = DigitBase * v[m]
  <2> HIDE DEF s
  <2> QED
    BY <1>1, <1>2 DEF IsProduct, s
<1> HIDE DEF s
<1>4. ASSUME NEW w, IsValue(w, s, k) PROVE w[k] = (DigitBase - 1) * Power(DigitBase, i)
  <2>1. PICK v : IsValue(v, r, m)
    BY <1>1, ValueExists
  <2> DEFINE j == i - 1
             p == Power(DigitBase, j)
             d == DigitBase - 1
  <2>2. w[k] = DigitBase * (d * p)
    BY <1>1, <1>3, <1>4, <2>1
  <2>3. j \in Nat /\ j + 1 = i
    OBVIOUS
  <2>4. p \in Nat /\ Power(DigitBase, i) = DigitBase * p
    <3> HIDE DEF j
    <3>1. Power(DigitBase, j) \in Nat /\ Power(DigitBase, j + 1) = DigitBase * Power(DigitBase, j)
      BY <2>3, WordIs, PowerGrows
    <3> QED
      BY <2>3, <3>1
  <2>5. d \in Int /\ DigitBase \in Int
    BY WordIs
  <2> HIDE DEF p, d
  <2>6. DigitBase * (d * p) = d * (DigitBase * p)
    BY <2>4, <2>5
  <2> QED
    BY <2>2, <2>4, <2>6 DEF d
<1> DEFINE c == i + 1
<1>5. c - 1 = i
  OBVIOUS
<1> HIDE DEF c
<1>6. IsTrack(s, k, c)
  BY <1>3, <1>4, <1>5 DEF IsTrack
<1> QED
  BY <1>6 DEF s, c

AreTracks(f, n) ==
  f = [i \in 1 .. n |-> IF i = 1 THEN <<DigitBase - 1>> ELSE Multiply(f[i - 1])]

LEMMA TracksExist ==
  ASSUME NEW n \in Nat \ {0}
  PROVE  \E f : AreTracks(f, n)
<1> DEFINE Lengths == Nat
           T == UNION {[1 .. m -> WordValues] : m \in Lengths}
           base == <<DigitBase - 1>>
           one == 1
           step == [k \in one + 1 .. n |-> [x \in T |-> Multiply(x)]]
<1>1. base \in T
  <2>1. base \in [1 .. 1 -> WordValues]
    BY DigitFits
  <2> HIDE DEF base
  <2> QED
    BY <2>1
<1>2. step \in [one + 1 .. n -> [T -> T]]
  <2>1. ASSUME NEW x \in T PROVE Multiply(x) \in T
    <3>1. PICK m \in Nat : x \in [1 .. m -> WordValues]
      OBVIOUS
    <3>2. PICK k : IsProduct(Multiply(x), k, x, m)
      BY <3>1, MultiplyIs
    <3>3. k \in Nat /\ Multiply(x) \in [1 .. k -> WordValues]
      BY <3>2 DEF IsProduct
    <3> QED
      BY <3>3
  <2> HIDE DEF T, one
  <2> QED
    BY <2>1
<1>3. one \in Int /\ n \in Int /\ one <= n
  OBVIOUS
<1>4. PICK g : Runs(g, one, n, T, base, step)
  <2> HIDE DEF T, base, step, one
  <2> QED
    BY <1>1, <1>2, <1>3, IterationFrom
<1>5. /\ g \in [one .. n -> T] /\ g[one] = base
      /\ \A i \in one + 1 .. n : g[i] = step[i][g[i - 1]]
  <2> HIDE DEF T, base, step, one
  <2> QED
    BY <1>4 DEF Runs
<1>6. ASSUME NEW i \in 1 .. n
      PROVE  g[i] = IF i = 1 THEN base ELSE Multiply(g[i - 1])
  <2>1. CASE i = 1
    <3> HIDE DEF T, base
    <3> QED
      BY <1>5, <2>1
  <2>2. CASE i # 1
    <3>1. i \in one + 1 .. n /\ i - 1 \in one .. n
      BY <2>2
    <3>2. g[i - 1] \in T /\ g[i] = step[i][g[i - 1]]
      <4> HIDE DEF T, base, step, one
      <4> QED
        BY <1>5, <3>1
    <3>3. step[i] = [x \in T |-> Multiply(x)]
      <4> HIDE DEF T, one
      <4> QED
        BY <3>1
    <3> HIDE DEF step, T
    <3> QED
      BY <2>2, <3>2, <3>3
  <2> QED
    BY <2>1, <2>2
<1>7. g = [i \in 1 .. n |-> g[i]]
  <2> HIDE DEF T
  <2> QED
    BY <1>5
<1> HIDE DEF base
<1>8. g = [i \in 1 .. n |-> IF i = 1 THEN base ELSE Multiply(g[i - 1])]
  BY <1>6, <1>7
<1>9. AreTracks(g, n)
  BY <1>8 DEF AreTracks, base
<1> QED
  BY <1>9

LEMMA TrackIs ==
  ASSUME NEW n \in Nat \ {0}
  PROVE  \E m : IsTrack(Track(n), m, n)
<1>1. \E f : AreTracks(f, n) /\ Track(n) = f[n]
  <2> DEFINE chosen == CHOOSE f : AreTracks(f, n)
  <2>1. Track(n) = chosen[n]
    BY Zenon DEF Track, AreTracks
  <2>2. AreTracks(chosen, n)
    BY TracksExist
  <2> HIDE DEF chosen
  <2> QED
    BY <2>1, <2>2
<1>2. PICK f : AreTracks(f, n) /\ Track(n) = f[n]
  BY <1>1
<1>3. \A i \in 1 .. n : f[i] = IF i = 1 THEN <<DigitBase - 1>> ELSE Multiply(f[i - 1])
  BY <1>2 DEF AreTracks
<1> DEFINE S == {k \in Nat : k + 1 <= n => \E m : IsTrack(f[k + 1], m, k + 1)}
<1>4. 0 \in S
  <2> DEFINE one == 1
  <2>1. IsTrack(f[one], one, one)
    <3>1. f[one] = <<DigitBase - 1>>
      BY <1>3
    <3> QED
      BY <3>1, FirstTrack
  <2>2. 0 + 1 = one
    OBVIOUS
  <2> HIDE DEF one
  <2> QED
    BY <2>1, <2>2
<1>5. ASSUME NEW k \in S \cap Nat PROVE k + 1 \in S
  <2> SUFFICES ASSUME (k + 1) + 1 <= n PROVE \E m : IsTrack(f[(k + 1) + 1], m, (k + 1) + 1)
    OBVIOUS
  <2> DEFINE i == k + 1
  <2>1. i \in Nat \ {0} /\ i + 1 \in 1 .. n /\ i + 1 # 1 /\ (i + 1) - 1 = i
    OBVIOUS
  <2>2. \E m : IsTrack(f[i], m, i)
    BY <1>5
  <2> HIDE DEF i, S
  <2>3. f[i + 1] = Multiply(f[i])
    BY <1>3, <2>1
  <2>4. \E m : IsTrack(f[i + 1], m, i + 1)
    BY <2>1, <2>2, <2>3, NextTrack
  <2> QED
    BY <2>4 DEF i
<1>6. Nat \subseteq S
  <2> HIDE DEF S
  <2> QED
    BY <1>4, <1>5, SetInduction
<1>7. n - 1 \in S /\ (n - 1) + 1 = n
  BY <1>6
<1>8. \E m : IsTrack(f[n], m, n)
  BY <1>7
<1> QED
  BY <1>2, <1>8

LEMMA UsedBytesAre ==
  ASSUME NEW word \in WordValues, word # 0
  PROVE  /\ UsedBytes(word) \in 1 .. WordBytes
         /\ word < Power(AddrBase, UsedBytes(word))
         /\ word >= Power(AddrBase, UsedBytes(word) - 1)
<1> DEFINE Enough(k) == word < Power(AddrBase, k)
           T == {k \in Nat : k >= 1 /\ Enough(k)}
           one == 1
           zero == 0
<1>1. word \in Nat /\ word >= 1 /\ Enough(WordBytes) /\ WordBytes \in Nat /\ WordBytes >= 1
  BY WordIs DEF WordValues, Word
<1>2. WordBytes \in T
  BY <1>1
<1>3. PICK k \in T : \A y \in T : k <= y
  <2>1. T \in SUBSET Nat /\ T # {}
    BY <1>2
  <2> HIDE DEF T
  <2> QED
    BY <2>1, Least
<1>4. k \in 1 .. WordBytes /\ Enough(k)
  <2>1. k \in Nat /\ k >= 1 /\ Enough(k) /\ k <= WordBytes
    BY <1>2, <1>3
  <2> QED
    BY <1>1, <2>1
<1>5. k = 1 \/ word >= Power(AddrBase, k - 1)
  <2> SUFFICES ASSUME k # 1, ~(word >= Power(AddrBase, k - 1)) PROVE FALSE
    OBVIOUS
  <2> DEFINE j == k - 1
  <2>1. j \in Nat /\ j >= 1 /\ j < k
    BY <1>4
  <2>2. Enough(j)
    <3> HIDE DEF j
    <3>1. Power(AddrBase, j) \in Nat
      BY <2>1, WordIs, PowerGrows
    <3>2. ~(word >= Power(AddrBase, j))
      BY DEF j
    <3> QED
      BY <1>1, <3>1, <3>2
  <2>3. j \in T
    BY <2>1, <2>2
  <2> HIDE DEF T, j
  <2>4. k <= j /\ k \in Nat
    BY <1>3, <1>4, <2>3
  <2> QED
    BY <2>1, <2>4
<1> DEFINE u == UsedBytes(word)
<1>6. /\ u \in 1 .. WordBytes
      /\ word < Power(AddrBase, u)
      /\ u = 1 \/ word >= Power(AddrBase, u - 1)
  BY <1>4, <1>5 DEF UsedBytes
<1> HIDE DEF u
<1>7. Power(AddrBase, zero) = 1 /\ one - 1 = zero
  BY WordIs, PowerGrows
<1>8. u = one => word >= Power(AddrBase, u - 1)
  <2> HIDE DEF one, zero
  <2> QED
    BY <1>1, <1>7
<1>9. word >= Power(AddrBase, u - 1)
  BY <1>6, <1>8
<1> QED
  BY <1>6, <1>9 DEF u

LEMMA ByteNat ==
  ASSUME NEW n \in Nat
  PROVE  /\ Power(AddrBase, n) \in Nat /\ Power(AddrBase, n) > 0
         /\ Power(AddrBase, n + 1) = AddrBase * Power(AddrBase, n)
         /\ Power(AddrBase, 0) = 1
<1>1. AddrBase \in Nat /\ AddrBase > 0
  BY WordIs
<1> QED
  BY <1>1, PowerPositive, PowerGrows

(* A word is WordBytes bytes. *)
LEMMA PlacesAreBytes ==
  ASSUME NEW q \in Nat, NEW r \in Nat
  PROVE  Power(AddrBase, q * WordBytes + r) = Power(Word, q) * Power(AddrBase, r)
<1>1. q * WordBytes \in Nat /\ WordBytes \in Nat /\ AddrBase \in Nat
  BY WordIs
<1> DEFINE k == q * WordBytes
<1>2. Power(Word, q) = Power(AddrBase, k)
  BY <1>1, PowerProduct DEF Word
<1>3. Power(AddrBase, k + r) = Power(AddrBase, k) * Power(AddrBase, r)
  <2>1. k \in Nat
    BY <1>1
  <2> HIDE DEF k
  <2> QED
    BY <1>1, <2>1, PowerSum
<1> QED
  BY <1>2, <1>3

(* The length of the output holds the track, and no shorter one does. *)
IsLength(L, n, m) ==
  /\ L \in Nat /\ L >= 1 /\ L <= m * WordBytes
  /\ Power(AddrBase, L - 1) <= (DigitBase - 1) * Power(DigitBase, n - 1)
  /\ (DigitBase - 1) * Power(DigitBase, n - 1) < Power(AddrBase, L)

LEMMA OutputLengthIs ==
  ASSUME NEW n \in Nat \ {0}
  PROVE  \E m : IsTrack(Track(n), m, n) /\ IsLength(OutputLength(n), n, m)
<1>1. PICK m : IsTrack(Track(n), m, n)
  BY TrackIs
<1> DEFINE a == Track(n)
           top == a[m]
           u == UsedBytes(top)
           j == m - 1
           p == Power(AddrBase, u)
           o == Power(AddrBase, u - 1)
           q == Power(Word, j)
           L == j * WordBytes + u
           t == (DigitBase - 1) * Power(DigitBase, n - 1)
<1>2. /\ m \in Nat /\ m >= 1 /\ a \in [1 .. m -> WordValues] /\ top # 0
      /\ \A v : IsValue(v, a, m) => v[m] = t
  <2> HIDE DEF a
  <2> QED
    BY <1>1 DEF IsTrack, a
<1> HIDE DEF a
<1>3. j \in Nat /\ m \in 1 .. m /\ j \in 0 .. m /\ j + 1 = m
  BY <1>2
<1>4. top \in WordValues /\ top # 0
  BY <1>2, <1>3
<1>5. OutputLength(n) = L
  <2>1. Len(a) = m
    BY <1>2, FunctionIsSequence
  <2> QED
    BY <2>1 DEF OutputLength, Last, a
<1>6. u \in 1 .. WordBytes /\ top < p /\ top >= o
  <2> HIDE DEF top
  <2> QED
    BY <1>4, UsedBytesAre
<1>7. WordBytes \in Nat /\ top \in Nat /\ u \in Nat /\ u >= 1 /\ u <= WordBytes
  BY <1>4, <1>6, WordIs DEF WordValues
<1> HIDE DEF u, top, j
<1>8. p \in Nat /\ o \in Nat /\ q \in Nat /\ q > 0
  <2>1. u - 1 \in Nat
    BY <1>7
  <2> QED
    BY <1>3, <1>7, <2>1, ByteNat, PlaceNat
<1>9. Power(AddrBase, L) = q * p
  BY <1>3, <1>7, PlacesAreBytes
<1>10. Power(AddrBase, L - 1) = q * o
  <2> DEFINE w == u - 1
             k == j * WordBytes
  <2>1. w \in Nat
    BY <1>7
  <2>2. k + w = L - 1
    <3>1. k \in Nat
      BY <1>3, <1>7
    <3> HIDE DEF k
    <3>2. k + (u - 1) = (k + u) - 1
      BY <1>7, <3>1
    <3> QED
      BY <3>2 DEF k
  <2> HIDE DEF w
  <2>3. Power(AddrBase, k + w) = q * Power(AddrBase, w)
    BY <1>3, <2>1, PlacesAreBytes
  <2> HIDE DEF k, L, q
  <2> QED
    BY <2>2, <2>3 DEF w
<1>11. PICK v : IsValue(v, a, m)
  BY <1>2, ValueExists
<1>12. t = v[j] + top * q /\ v[j] \in Nat /\ v[j] < q
  <2>1. v[m] = v[m - 1] + a[m] * Power(Word, m - 1)
    BY <1>3, <1>11 DEF IsValue
  <2>2. v[m] = v[j] + top * q
    BY <2>1 DEF j, top
  <2>3. v[m] = t
    BY <1>2, <1>11
  <2>4. v[j] \in Nat /\ v[j] < q
    BY <1>2, <1>3, <1>11, ValueBound
  <2> QED
    BY <2>2, <2>3, <2>4
<1> DEFINE x == v[j]
<1>13. t = x + top * q /\ x \in Nat /\ x < q
  BY <1>12
<1> HIDE DEF p, o, q, t, x
<1>14. q * o <= t /\ t < q * p
  <2>1. top * q <= (p - 1) * q /\ o * q <= top * q
    BY <1>6, <1>7, <1>8, Products
  <2>2. (p - 1) * q = q * p - q /\ o * q = q * o
    BY <1>8
  <2> DEFINE tq == top * q
             qp == q * p
             qo == q * o
  <2>3. tq <= qp - q /\ qo <= tq /\ t = x + tq
    BY <1>13, <2>1, <2>2
  <2>4. tq \in Nat /\ qp \in Nat /\ qo \in Nat
    BY <1>7, <1>8
  <2> HIDE DEF tq, qp, qo
  <2>5. qo <= t /\ t < qp
    BY <1>8, <1>13, <2>3, <2>4
  <2> QED
    BY <2>5 DEF qo, qp
<1>15. L \in Nat /\ L >= 1 /\ L <= m * WordBytes
  <2> DEFINE k == j * WordBytes
  <2>1. k \in Nat /\ m * WordBytes = k + WordBytes
    <3>1. (j + 1) * WordBytes = j * WordBytes + WordBytes
      BY <1>3, <1>7
    <3> QED
      BY <1>3, <1>7, <3>1
  <2> HIDE DEF k
  <2>2. L = k + u
    BY DEF k
  <2> HIDE DEF L
  <2> QED
    BY <1>7, <2>1, <2>2
<1> HIDE DEF L
<1>16. IsLength(L, n, m)
  BY <1>9, <1>10, <1>14, <1>15 DEF IsLength, t
<1> QED
  BY <1>1, <1>5, <1>16

-----------------------------------------------------------------------------
(* Numerals *)

IsNumeral(u, digits, base, n) ==
  /\ u \in [0 .. n -> Nat] /\ u[0] = 0
  /\ \A i \in 1 .. n : u[i] = u[i - 1] * base + digits[i]

LEMMA NumeralExists ==
  ASSUME NEW n \in Nat, NEW base \in Nat, NEW digits \in [1 .. n -> Nat]
  PROVE  \E u : IsNumeral(u, digits, base, n)
<1> DEFINE step == [i \in 1 .. n |-> [x \in Nat |-> x * base + digits[i]]]
           all == Nat
<1>0. \A i \in 1 .. n : digits[i] \in Nat
  OBVIOUS
<1>1. step \in Steps(n, all) /\ 0 \in all
  <2>1. \A i \in 1 .. n : \A x \in Nat : x * base + digits[i] \in Nat
    <3> SUFFICES ASSUME NEW i \in 1 .. n, NEW x \in Nat
                 PROVE  x * base + digits[i] \in Nat
      OBVIOUS
    <3> DEFINE y == digits[i]
    <3>1. y \in Nat
      BY <1>0
    <3> HIDE DEF y
    <3>2. x * base + y \in Nat
      BY <3>1
    <3> QED
      BY <3>2 DEF y
  <2> QED
    BY <2>1 DEF Steps
<1>2. PICK u \in [0 .. n -> all] :
        u[0] = 0 /\ \A i \in 1 .. n : u[i] = step[i][u[i - 1]]
  <2> HIDE DEF all, step
  <2> QED
    BY <1>1, Iteration, Z3T(30)
<1>3. ASSUME NEW i \in 1 .. n PROVE u[i] = u[i - 1] * base + digits[i]
  <2>1. u[i - 1] \in Nat
    <3> HIDE DEF step
    <3>1. i - 1 \in 0 .. n
      OBVIOUS
    <3> QED
      BY <1>2, <3>1
  <2> QED
    BY <1>2, <2>1
<1> QED
  BY <1>2, <1>3 DEF IsNumeral

LEMMA NumeralIs ==
  ASSUME NEW n \in Nat, NEW base \in Nat, NEW digits \in [1 .. n -> Nat],
         NEW u, IsNumeral(u, digits, base, n)
  PROVE  Numeral(digits, base) = u[n]
<1>1. Len(digits) = n
  BY FunctionIsSequence
<1> DEFINE next(g, i) == IF i = 0 THEN 0 ELSE g[i - 1] * base + digits[i]
           Rec(g) == g = [i \in 0 .. Len(digits) |->
                            IF i = 0 THEN 0 ELSE g[i - 1] * base + digits[i]]
           chosen == CHOOSE g : Rec(g)
<1>2. Numeral(digits, base) = chosen[n]
  <2>1. Numeral(digits, base) = chosen[Len(digits)]
    BY Zenon DEF Numeral
  <2> HIDE DEF chosen
  <2> QED
    BY <1>1, <2>1
<1>3. Rec(u)
  <2>1. ASSUME NEW i \in 0 .. n PROVE u[i] = next(u, i)
    BY DEF IsNumeral
  <2>2. u = [i \in 0 .. n |-> u[i]]
    BY DEF IsNumeral
  <2>3. u = [i \in 0 .. n |-> next(u, i)]
    <3> HIDE DEF next
    <3> QED
      BY <2>1, <2>2
  <2> QED
    BY <1>1, <2>3
<1>4. Rec(chosen)
  <2> HIDE DEF Rec
  <2> QED
    BY <1>3
<1>5. \A i \in 0 .. n : chosen[i] = next(chosen, i)
  <2> HIDE DEF chosen
  <2> QED
    BY <1>1, <1>4
<1>6. chosen[n] = u[n]
  <2> HIDE DEF chosen
  <2>1. chosen[0] = u[0]
    BY <1>5 DEF IsNumeral
  <2>2. ASSUME NEW i \in 1 .. n, chosen[i - 1] = u[i - 1] PROVE chosen[i] = u[i]
    BY <1>5, <2>2 DEF IsNumeral
  <2> DEFINE zero == 0
  <2>3. /\ zero \in Int /\ n \in Int /\ zero <= n /\ chosen[zero] = u[zero]
        /\ \A i \in zero + 1 .. n : chosen[i - 1] = u[i - 1] => chosen[i] = u[i]
    BY <2>1, <2>2
  <2> HIDE DEF zero
  <2>4. Agree(chosen, u, zero, n)
    BY <2>3, DeterminedFrom
  <2>5. n \in zero .. n
    BY <2>3
  <2> QED
    BY <2>4, <2>5 DEF Agree
<1> HIDE DEF chosen
<1> QED
  BY <1>2, <1>6

(* A numeral is below the power of its length. *)
LEMMA NumeralBound ==
  ASSUME NEW n \in Nat, NEW base \in Nat, base > 0,
         NEW digits \in [1 .. n -> 0 .. base - 1], NEW u, IsNumeral(u, digits, base, n)
  PROVE  u[n] \in Nat /\ u[n] < Power(base, n)
<1> DEFINE S == {i \in Nat : i <= n => u[i] < Power(base, i)}
<1>1. 0 \in S
  <2>1. Power(base, 0) = 1
    BY PowerGrows
  <2> QED
    BY <2>1 DEF IsNumeral
<1>2. ASSUME NEW i \in S \cap Nat PROVE i + 1 \in S
  <2> SUFFICES ASSUME i + 1 <= n PROVE u[i + 1] < Power(base, i + 1)
    OBVIOUS
  <2> DEFINE j == i + 1
             d == digits[j]
             x == u[i]
             y == u[j]
             p == Power(base, i)
  <2>1. j \in 1 .. n /\ j - 1 = i /\ i \in 0 .. n
    OBVIOUS
  <2>2. y = x * base + d
    BY <2>1 DEF IsNumeral
  <2>3. x \in Nat /\ x < p
    BY <1>2, <2>1 DEF IsNumeral
  <2>4. d \in 0 .. base - 1
    BY <2>1
  <2>5. p \in Nat /\ Power(base, j) = base * p
    BY PowerGrows
  <2> HIDE DEF d, x, y, p, j
  <2>6. x * base <= (p - 1) * base
    BY <2>3, <2>5, Products
  <2>7. (p - 1) * base = base * p - base
    BY <2>5
  <2> DEFINE xb == x * base
             pb == base * p
  <2>8. xb <= pb - base /\ y = xb + d /\ xb \in Nat /\ pb \in Nat
    BY <2>2, <2>3, <2>5, <2>6, <2>7
  <2> HIDE DEF xb, pb
  <2>9. y < pb
    BY <2>4, <2>8
  <2> QED
    BY <2>5, <2>9 DEF pb, y, j
<1>3. Nat \subseteq S
  <2> HIDE DEF S
  <2> QED
    BY <1>1, <1>2, SetInduction
<1>4. n \in S /\ n \in 0 .. n
  BY <1>3
<1> QED
  BY <1>4 DEF IsNumeral

-----------------------------------------------------------------------------
(* The number *)

(* An array of at least m words of which x is the value. *)
HoldsValue(r, m, x) ==
  \E k \in Nat : /\ k >= m /\ r \in [1 .. k -> WordValues]
                 /\ \A v : IsValue(v, r, k) => v[k] = x

LEMMA ZerosHold ==
  ASSUME NEW m \in Nat
  PROVE  HoldsValue([b \in 1 .. m |-> 0], m, 0)
<1> DEFINE r == [b \in 1 .. m |-> 0]
           zero == 0
<1>1. r \in [1 .. m -> WordValues] /\ \A i \in 1 .. m : r[i] = zero
  BY WordIs DEF WordValues
<1> HIDE DEF r
<1>2. ASSUME NEW v, IsValue(v, r, m) PROVE v[m] = zero
  <2> DEFINE T == {zero}
  <2>1. v[0] \in T
    BY <1>2 DEF IsValue
  <2>2. ASSUME NEW i \in 1 .. m, v[i - 1] \in T PROVE v[i] \in T
    <3> DEFINE p == Power(Word, i - 1)
    <3>1. v[i] = v[i - 1] + zero * p
      BY <1>1, <1>2 DEF IsValue
    <3>2. p \in Nat
      <4> DEFINE j == i - 1
      <4>1. j \in Nat
        OBVIOUS
      <4> HIDE DEF j
      <4>2. Power(Word, j) \in Nat
        BY <4>1, PlaceNat
      <4> QED
        BY <4>2 DEF j
    <3> HIDE DEF p
    <3>3. v[i] = 0
      BY <2>2, <3>1, <3>2
    <3> QED
      BY <3>3
  <2> HIDE DEF T
  <2>3. \A i \in 0 .. m : v[i] \in T
    BY <2>1, <2>2, Carried
  <2>4. m \in 0 .. m
    OBVIOUS
  <2> QED
    BY <2>3, <2>4 DEF T
<1>3. HoldsValue(r, m, zero)
  <2> HIDE DEF zero
  <2>1. m >= m
    OBVIOUS
  <2> QED
    BY <1>1, <1>2, <2>1 DEF HoldsValue
<1> QED
  BY <1>3 DEF r

(* One digit more. *)
LEMMA NextHolds ==
  ASSUME NEW m \in Nat, NEW r, NEW x, HoldsValue(r, m, x), NEW d \in 0 .. DigitBase - 1
  PROVE  HoldsValue(AddCarry(Multiply(r), 1, d), m, x * DigitBase + d)
<1> DEFINE one == 1
           zero == 0
           y == Multiply(r)
           z == AddCarry(y, one, d)
<1>1. PICK k \in Nat : /\ k >= m /\ r \in [1 .. k -> WordValues]
                       /\ \A v : IsValue(v, r, k) => v[k] = x
  BY DEF HoldsValue
<1>2. PICK j : IsProduct(y, j, r, k)
  BY <1>1, MultiplyIs
<1> HIDE DEF y
<1>3. /\ j \in Nat /\ j >= k /\ y \in [1 .. j -> WordValues]
      /\ \A v, w : IsValue(v, r, k) /\ IsValue(w, y, j) => w[j] = DigitBase * v[k]
  BY <1>2 DEF IsProduct
<1>4. d \in WordValues /\ d \in Nat
  BY DigitFits
<1>5. one \in 1 .. j + 1 /\ one - 1 = zero
  BY <1>3
<1> HIDE DEF one
<1>6. PICK l \in Nat : IsAdded(z, l, y, j, one, d)
  BY <1>3, <1>4, <1>5, AddCarryIs
<1> HIDE DEF z
<1>7. /\ l \in {j, j + 1} /\ z \in [1 .. l -> WordValues]
      /\ \A v, w : IsValue(v, y, j) /\ IsValue(w, z, l) =>
           w[l] = v[j] + d * Power(Word, one - 1)
  BY <1>6 DEF IsAdded
<1>8. ASSUME NEW w, IsValue(w, z, l) PROVE w[l] = x * DigitBase + d
  <2>1. PICK vr : IsValue(vr, r, k)
    BY <1>1, ValueExists
  <2>2. PICK vy : IsValue(vy, y, j)
    BY <1>3, ValueExists
  <2>3. vr[k] = x /\ vy[j] = DigitBase * vr[k] /\ vr[k] \in Nat
    <3>1. k \in 0 .. k
      OBVIOUS
    <3> QED
      BY <1>1, <1>3, <2>1, <2>2, <3>1 DEF IsValue
  <2>4. w[l] = vy[j] + d * Power(Word, zero)
    BY <1>5, <1>7, <1>8, <2>2
  <2>5. Power(Word, zero) = 1
    BY PlaceNat
  <2>6. x \in Nat /\ DigitBase \in Nat
    BY <2>3, WordIs
  <2>7. DigitBase * x + d * 1 = x * DigitBase + d
    BY <1>4, <2>6
  <2> QED
    BY <2>3, <2>4, <2>5, <2>7
<1>9. l >= m
  BY <1>1, <1>3, <1>7
<1>10. HoldsValue(z, m, x * DigitBase + d)
  BY <1>7, <1>8, <1>9 DEF HoldsValue
<1> QED
  BY <1>10 DEF z, y, one

AreConverted(f, digits, n, m) ==
  f = [i \in 0 .. n |-> IF i = 0 THEN [b \in 1 .. m |-> 0]
                        ELSE AddCarry(Multiply(f[i - 1]), 1, digits[i])]

LEMMA ConvertedExist ==
  ASSUME NEW n \in Nat, NEW m \in Nat, NEW digits \in [1 .. n -> 0 .. DigitBase - 1]
  PROVE  \E f : AreConverted(f, digits, n, m)
<1> DEFINE Lengths == Nat
           T == UNION {[1 .. k -> WordValues] : k \in Lengths}
           base == [b \in 1 .. m |-> 0]
           step == [i \in 1 .. n |-> [x \in T |-> AddCarry(Multiply(x), 1, digits[i])]]
<1>1. base \in T
  <2>1. base \in [1 .. m -> WordValues]
    BY WordIs DEF WordValues
  <2> HIDE DEF base
  <2> QED
    BY <2>1
<1>2. step \in Steps(n, T)
  <2>1. ASSUME NEW i \in 1 .. n, NEW x \in T
        PROVE  AddCarry(Multiply(x), 1, digits[i]) \in T
    <3> DEFINE y == Multiply(x)
               d == digits[i]
               z == AddCarry(y, 1, d)
    <3>1. PICK k \in Nat : x \in [1 .. k -> WordValues]
      OBVIOUS
    <3>2. PICK j : IsProduct(y, j, x, k)
      BY <3>1, MultiplyIs
    <3> HIDE DEF y
    <3>3. j \in Nat /\ y \in [1 .. j -> WordValues] /\ 1 \in 1 .. j + 1
      BY <3>2 DEF IsProduct
    <3>4. d \in WordValues
      <4>1. d \in 0 .. DigitBase - 1
        OBVIOUS
      <4> HIDE DEF d
      <4> QED
        BY <4>1, DigitFits
    <3> HIDE DEF d
    <3>5. PICK l \in Nat : IsAdded(z, l, y, j, 1, d)
      BY <3>3, <3>4, AddCarryIs
    <3>6. z \in [1 .. l -> WordValues]
      BY <3>5 DEF IsAdded
    <3> HIDE DEF z
    <3>7. z \in T
      BY <3>6
    <3> QED
      BY <3>7 DEF z, y, d
  <2> HIDE DEF T
  <2> QED
    BY <2>1 DEF Steps
<1> HIDE DEF T, base
<1>3. PICK f \in [0 .. n -> T] :
        f[0] = base /\ \A i \in 1 .. n : f[i] = step[i][f[i - 1]]
  <2> HIDE DEF step
  <2> QED
    BY <1>1, <1>2, Iteration, Z3T(30)
<1>4. ASSUME NEW i \in 0 .. n
      PROVE  f[i] = IF i = 0 THEN base ELSE AddCarry(Multiply(f[i - 1]), 1, digits[i])
  <2>1. CASE i = 0
    BY <1>3, <2>1
  <2>2. CASE i # 0
    <3>1. i \in 1 .. n /\ i - 1 \in 0 .. n
      BY <2>2
    <3>2. f[i - 1] \in T /\ f[i] = step[i][f[i - 1]]
      <4> HIDE DEF step
      <4> QED
        BY <1>3, <3>1
    <3>3. step[i] = [x \in T |-> AddCarry(Multiply(x), 1, digits[i])]
      BY <3>1
    <3> HIDE DEF step
    <3>4. f[i] = AddCarry(Multiply(f[i - 1]), 1, digits[i])
      BY <3>2, <3>3
    <3> QED
      BY <2>2, <3>4
  <2> QED
    BY <2>1, <2>2
<1>5. f = [i \in 0 .. n |-> f[i]]
  BY <1>3
<1>6. f = [i \in 0 .. n |-> IF i = 0 THEN base ELSE AddCarry(Multiply(f[i - 1]), 1, digits[i])]
  BY <1>4, <1>5
<1>7. AreConverted(f, digits, n, m)
  BY <1>6 DEF AreConverted, base
<1> QED
  BY <1>7

(* As many words as the track has hold the numeral. *)
LEMMA ConvertedIs ==
  ASSUME NEW n \in Nat \ {0}, NEW digits \in [1 .. n -> 0 .. DigitBase - 1],
         NEW m \in Nat, Len(Track(n)) = m, NEW u, IsNumeral(u, digits, DigitBase, n)
  PROVE  HoldsValue(Converted(digits), m, u[n])
<1>0. Len(digits) = n
  BY FunctionIsSequence
<1>1. \E f : AreConverted(f, digits, n, m) /\ Converted(digits) = f[n]
  <2> DEFINE Rec(g) ==
        g = [i \in 0 .. Len(digits) |->
               IF i = 0 THEN [b \in 1 .. Len(Track(Len(digits))) |-> 0]
               ELSE AddCarry(Multiply(g[i - 1]), 1, digits[i])]
             chosen == CHOOSE g : Rec(g)
  <2>1. \A g : Rec(g) <=> AreConverted(g, digits, n, m)
    BY <1>0 DEF AreConverted
  <2>2. Converted(digits) = chosen[Len(digits)]
    BY Zenon DEF Converted
  <2>3. Rec(chosen)
    <3> HIDE DEF Rec
    <3>1. \E g : Rec(g)
      BY <2>1, ConvertedExist
    <3> QED
      BY <3>1
  <2> HIDE DEF Rec, chosen
  <2> QED
    BY <1>0, <2>1, <2>2, <2>3
<1>2. PICK f : AreConverted(f, digits, n, m) /\ Converted(digits) = f[n]
  BY <1>1
<1>3. \A i \in 0 .. n : f[i] = IF i = 0 THEN [b \in 1 .. m |-> 0]
                               ELSE AddCarry(Multiply(f[i - 1]), 1, digits[i])
  BY <1>2 DEF AreConverted
<1> DEFINE S == {i \in Nat : i <= n => HoldsValue(f[i], m, u[i])}
<1>4. 0 \in S
  <2>1. u[0] = 0
    BY DEF IsNumeral
  <2>2. f[0] = [b \in 1 .. m |-> 0]
    <3>1. 0 \in 0 .. n
      OBVIOUS
    <3> QED
      BY <1>3, <3>1, Zenon
  <2>3. HoldsValue(f[0], m, u[0])
    BY <2>1, <2>2, ZerosHold
  <2> QED
    BY <2>3
<1>5. ASSUME NEW i \in S \cap Nat PROVE i + 1 \in S
  <2> SUFFICES ASSUME i + 1 <= n PROVE HoldsValue(f[i + 1], m, u[i + 1])
    OBVIOUS
  <2> DEFINE j == i + 1
             d == digits[j]
  <2>1. j \in 0 .. n /\ j # 0 /\ j \in 1 .. n /\ j - 1 = i
    OBVIOUS
  <2>2. HoldsValue(f[i], m, u[i])
    BY <1>5
  <2>3. d \in 0 .. DigitBase - 1
    BY <2>1
  <2>4. f[j] = AddCarry(Multiply(f[i]), 1, d) /\ u[j] = u[i] * DigitBase + d
    BY <1>3, <2>1 DEF IsNumeral
  <2> HIDE DEF d, j
  <2>5. HoldsValue(f[j], m, u[j])
    BY <2>2, <2>3, <2>4, NextHolds
  <2> QED
    BY <2>5 DEF j
<1>6. Nat \subseteq S
  <2> HIDE DEF S
  <2> QED
    BY <1>4, <1>5, SetInduction
<1>7. HoldsValue(f[n], m, u[n])
  BY <1>6
<1> QED
  BY <1>2, <1>7

-----------------------------------------------------------------------------
(* The bytes of the array *)

(* What the words from q + 1 on add to a value is a multiple of the place. *)
LEMMA RestOfValue ==
  ASSUME NEW n \in Nat, NEW a \in [1 .. n -> WordValues], NEW v, IsValue(v, a, n),
         NEW q \in 0 .. n
  PROVE  \E rest \in Nat : v[n] = v[q] + Power(Word, q) * rest
<1> DEFINE Q == Power(Word, q)
           S == {k \in Nat : q + k <= n => \E rest \in Nat : v[q + k] = v[q] + Q * rest}
<1>1. Q \in Nat /\ v[q] \in Nat /\ \A i \in 0 .. n : v[i] \in Nat
  <2>1. q \in Nat
    OBVIOUS
  <2> QED
    BY <2>1, PlaceNat DEF IsValue
<1>2. 0 \in S
  <2> HIDE DEF Q
  <2>1. v[q + 0] = v[q] + Q * 0
    BY <1>1
  <2> QED
    BY <2>1
<1>3. ASSUME NEW k \in S \cap Nat PROVE k + 1 \in S
  <2> SUFFICES ASSUME q + (k + 1) <= n
               PROVE  \E rest \in Nat : v[q + (k + 1)] = v[q] + Q * rest
    OBVIOUS
  <2>1. PICK rest \in Nat : v[q + k] = v[q] + Q * rest
    BY <1>3
  <2> DEFINE i == q + k
             j == q + (k + 1)
             d == a[j]
             p == Power(Word, k)
  <2>2. j \in 1 .. n /\ j - 1 = i /\ k \in Nat /\ q \in Nat
    OBVIOUS
  <2>3. v[j] = v[i] + d * Power(Word, i)
    BY <2>2 DEF IsValue
  <2>4. d \in Nat
    <3>1. d \in WordValues
      BY <2>2
    <3> QED
      BY <3>1, WordIs DEF WordValues
  <2>5. Power(Word, i) = Q * p /\ p \in Nat
    <3>1. Word \in Nat
      BY WordIs
    <3>2. p \in Nat
      BY <2>2, PlaceNat
    <3>3. Power(Word, q + k) = Power(Word, q) * Power(Word, k)
      BY <2>2, <3>1, PowerSum
    <3> QED
      BY <3>2, <3>3
  <2> DEFINE x == v[q]
             more == rest + d * p
             y == v[j]
  <2>6. y = (x + Q * rest) + d * (Q * p) /\ x \in Nat
    BY <1>1, <2>1, <2>3, <2>5
  <2> HIDE DEF Q, d, p, x, y
  <2>7. y = x + Q * more /\ more \in Nat
    BY <1>1, <2>4, <2>5, <2>6
  <2> QED
    BY <2>7 DEF y, x
<1>4. Nat \subseteq S
  <2> HIDE DEF S
  <2> QED
    BY <1>2, <1>3, SetInduction
<1>5. n - q \in S /\ n - q \in Nat /\ q + (n - q) = n
  BY <1>4
<1> QED
  BY <1>5

LEMMA RemainderSame ==
  ASSUME NEW e \in Nat, NEW p \in Nat \ {0}, NEW y \in Nat
  PROVE  (e + p * y) % p = e % p
<1> DEFINE d == e \div p
           r == e % p
           x == e + p * y
<1>1. d \in Nat /\ r \in 0 .. p - 1 /\ e = p * d + r
  BY Division
<1> HIDE DEF d, r
<1>2. x = p * (d + y) + r /\ d + y \in Nat /\ x \in Nat
  BY <1>1
<1> HIDE DEF x
<1>3. x % p = r
  BY <1>1, <1>2, DivisionIs
<1> QED
  BY <1>3 DEF x, r

(* Byte r of word q + 1 is the one at its place in the value. *)
LEMMA ByteOfValue ==
  ASSUME NEW n \in Nat, NEW a \in [1 .. n -> WordValues], NEW v, IsValue(v, a, n),
         NEW q \in 0 .. n - 1, NEW r \in 0 .. WordBytes - 1
  PROVE  (a[q + 1] \div Power(AddrBase, r)) % AddrBase
           = (v[n] \div Power(AddrBase, q * WordBytes + r)) % AddrBase
<1> DEFINE j == q + 1
           Q == Power(Word, q)
           R == Power(AddrBase, r)
           z == (WordBytes - r) - 1
           Z == Power(AddrBase, z)
           d == a[j]
           e == d \div R
           f == d % R
           x == v[q]
           V == v[n]
<1>1. j \in 1 .. n /\ j \in 0 .. n /\ j - 1 = q /\ q \in Nat /\ r \in Nat /\ q \in 0 .. n
  BY WordIs
<1>2. z \in Nat /\ (r + 1) + z = WordBytes /\ r + 1 \in Nat /\ AddrBase \in Nat \ {0}
  BY WordIs
<1>3. Q \in Nat /\ Q > 0 /\ R \in Nat /\ R > 0 /\ Z \in Nat
  <2> HIDE DEF z
  <2> QED
    BY <1>1, <1>2, PlaceNat, ByteNat
<1>4. Word = (AddrBase * R) * Z /\ Word \in Nat
  <2> DEFINE s == r + 1
  <2>1. Power(AddrBase, s) = AddrBase * R
    BY <1>1, ByteNat
  <2>2. s \in Nat /\ s + z = WordBytes
    BY <1>2
  <2> HIDE DEF s, z
  <2>3. Power(AddrBase, s + z) = Power(AddrBase, s) * Power(AddrBase, z)
    BY <1>2, <2>2, PowerSum
  <2>4. Word = Power(AddrBase, s) * Power(AddrBase, z)
    BY <2>2, <2>3 DEF Word
  <2> QED
    BY <2>1, <2>4, WordIs DEF z
<1>5. d \in Nat /\ e \in Nat /\ f \in Nat /\ f <= R - 1 /\ d = R * e + f
  <2>1. d \in WordValues
    BY <1>1
  <2>2. d \in Nat /\ R \in Nat \ {0}
    BY <1>3, <2>1, WordIs DEF WordValues
  <2> HIDE DEF d, R
  <2>3. e \in Nat /\ f \in 0 .. R - 1 /\ d = R * e + f
    BY <2>2, Division
  <2> HIDE DEF e, f
  <2> QED
    BY <2>2, <2>3
<1>6. x \in Nat /\ x < Q /\ V \in Nat
  <2>1. n \in 0 .. n
    OBVIOUS
  <2> QED
    BY <1>1, <2>1, ValueBound
<1>7. v[j] = x + d * Q
  BY <1>1 DEF IsValue
<1>8. PICK rest \in Nat : V = v[j] + (Word * Q) * rest
  <2>1. \E rest \in Nat : V = v[j] + Power(Word, j) * rest
    <3> HIDE DEF j
    <3> QED
      BY <1>1, RestOfValue
  <2>2. Power(Word, j) = Word * Q
    BY <1>1, PlaceNat
  <2> QED
    BY <2>1, <2>2
<1> DEFINE y == Z * rest
           P == Q * R
           m == e + AddrBase * y
           low == x + Q * f
<1> HIDE DEF j, Q, R, Z, z, d, e, f, x, V
<1>9. V = P * m + low
  <2>1. V = (x + (R * e + f) * Q) + (((AddrBase * R) * Z) * Q) * rest
    BY <1>4, <1>5, <1>7, <1>8
  <2>2. (R * e + f) * Q = P * e + Q * f
    BY <1>3, <1>5
  <2>3. (((AddrBase * R) * Z) * Q) * rest = P * (AddrBase * y)
    <3>1. (((AddrBase * R) * Z) * Q) * rest = (Q * R) * (AddrBase * (Z * rest))
      BY <1>2, <1>3
    <3> QED
      BY <3>1
  <2> DEFINE Ay == AddrBase * y
  <2>4. P \in Nat /\ Ay \in Nat
    BY <1>2, <1>3
  <2>5. P * (e + Ay) = P * e + P * Ay
    <3> HIDE DEF P, Ay
    <3> QED
      BY <1>5, <2>4
  <2> DEFINE Pe == P * e
             PA == P * Ay
             Qf == Q * f
  <2>6. V = (x + (Pe + Qf)) + PA /\ P * m = Pe + PA /\ Pe \in Nat /\ PA \in Nat /\ Qf \in Nat
    BY <1>3, <1>5, <2>1, <2>2, <2>3, <2>4, <2>5
  <2> DEFINE Pm == P * m
  <2>7. low = x + Qf /\ Pm = Pe + PA
    BY <2>6
  <2> HIDE DEF Pe, PA, Qf, Pm, low, P, m
  <2>8. V = Pm + low
    BY <1>6, <2>6, <2>7
  <2> QED
    BY <2>8 DEF Pm
<1>10. low \in 0 .. P - 1 /\ P \in Nat \ {0} /\ m \in Nat
  <2>1. f * Q <= (R - 1) * Q /\ (R - 1) * Q = Q * R - Q /\ f * Q = Q * f
    BY <1>3, <1>5, Products
  <2> DEFINE Qf == Q * f
             QR == Q * R
  <2>2. Qf \in Nat /\ QR \in Nat /\ Qf <= QR - Q
    BY <1>3, <1>5, <2>1
  <2>3. m \in Nat
    BY <1>2, <1>3, <1>5
  <2> HIDE DEF Qf, QR, m
  <2>4. x + Qf \in 0 .. QR - 1 /\ QR \in Nat \ {0}
    BY <1>3, <1>6, <2>2
  <2> QED
    BY <2>3, <2>4 DEF Qf, QR
<1>11. V \div P = m
  <2> HIDE DEF P, m, low
  <2> QED
    BY <1>6, <1>9, <1>10, DivisionIs
<1>12. m % AddrBase = e % AddrBase
  <2>1. y \in Nat
    BY <1>3
  <2> HIDE DEF y
  <2> QED
    BY <1>2, <1>5, <2>1, RemainderSame
<1>13. Power(AddrBase, q * WordBytes + r) = P
  BY <1>1, PlacesAreBytes DEF Q, R
<1> HIDE DEF P, m
<1>14. e % AddrBase = (V \div P) % AddrBase
  BY <1>11, <1>12
<1> QED
  BY <1>13, <1>14 DEF e, d, j, R, V

(* A quotient by one byte less has one digit more. *)
LEMMA QuotientStep ==
  ASSUME NEW V \in Nat, NEW P \in Nat \ {0}
  PROVE  V \div P = (V \div (AddrBase * P)) * AddrBase + ((V \div P) % AddrBase)
<1> DEFINE z == V \div P
           s == V % P
           g == z \div AddrBase
           h == z % AddrBase
           B == AddrBase * P
           low == P * h + s
<1>1. AddrBase \in Nat \ {0}
  BY WordIs
<1>2. z \in Nat /\ s \in 0 .. P - 1 /\ V = P * z + s
  BY Division
<1> HIDE DEF z, s
<1>3. g \in Nat /\ h \in 0 .. AddrBase - 1 /\ z = AddrBase * g + h
  BY <1>1, <1>2, Division
<1> HIDE DEF g, h
<1>4. V = B * g + low
  <2>1. V = P * (AddrBase * g + h) + s
    BY <1>2, <1>3
  <2>2. P * (AddrBase * g + h) = (AddrBase * P) * g + P * h
    BY <1>1, <1>3
  <2> DEFINE Bg == (AddrBase * P) * g
             Ph == P * h
  <2>3. V = (Bg + Ph) + s /\ Bg \in Nat /\ Ph \in Nat
    BY <1>1, <1>3, <2>1, <2>2
  <2>4. low = Ph + s /\ B * g = Bg
    OBVIOUS
  <2> HIDE DEF Bg, Ph, low, B
  <2> QED
    BY <1>2, <2>3, <2>4
<1>5. low \in 0 .. B - 1 /\ B \in Nat \ {0}
  <2>1. h * P <= (AddrBase - 1) * P /\ (AddrBase - 1) * P = AddrBase * P - P /\ h * P = P * h
    BY <1>1, <1>3, Products
  <2> DEFINE Ph == P * h
             AP == AddrBase * P
  <2>2. Ph \in Nat /\ AP \in Nat /\ Ph <= AP - P
    BY <1>1, <1>3, <2>1
  <2> HIDE DEF Ph, AP
  <2>3. Ph + s \in 0 .. AP - 1 /\ AP \in Nat \ {0}
    BY <1>2, <2>2
  <2> QED
    BY <2>3 DEF Ph, AP
<1> HIDE DEF low, B
<1>6. V \div B = g
  BY <1>3, <1>4, <1>5, DivisionIs
<1>7. z = (V \div B) * AddrBase + h
  BY <1>1, <1>3, <1>6
<1> QED
  BY <1>7 DEF B, h, z

LEMMA BytesAre ==
  ASSUME NEW m \in Nat, NEW a \in [1 .. m -> WordValues], NEW L \in Nat, L <= m * WordBytes,
         NEW v, IsValue(v, a, m), v[m] < Power(AddrBase, L)
  PROVE  /\ Bytes(a, L) \in [1 .. L -> Nat]
         /\ Numeral(Bytes(a, L), AddrBase) = v[m]
<1> DEFINE V == v[m]
           bytes == Bytes(a, L)
           Place(k) == Power(AddrBase, L - k)
           u == [k \in 0 .. L |-> V \div Place(k)]
<1>0. /\ V \in Nat /\ AddrBase \in Nat \ {0} /\ WordBytes \in Nat \ {0}
      /\ \A k \in 0 .. L : L - k \in Nat
  <2>1. m \in 0 .. m
    OBVIOUS
  <2> QED
    BY <2>1, WordIs DEF IsValue
<1> HIDE DEF V
<1>1. \A k \in 0 .. L : Place(k) \in Nat \ {0}
  <2> SUFFICES ASSUME NEW k \in 0 .. L PROVE Place(k) \in Nat \ {0}
    OBVIOUS
  <2> DEFINE i == L - k
             P == Power(AddrBase, i)
  <2>1. i \in Nat
    BY <1>0
  <2>2. P \in Nat /\ P > 0
    <3> HIDE DEF i
    <3> QED
      BY <2>1, ByteNat
  <2>3. Place(k) = P
    OBVIOUS
  <2> HIDE DEF P, Place
  <2> QED
    BY <2>2, <2>3
<1>2. ASSUME NEW k \in 1 .. L
      PROVE  bytes[k] = (V \div Place(k)) % AddrBase
  <2> DEFINE i == L - k
             q == i \div WordBytes
             r == i % WordBytes
  <2>1. i \in Nat /\ i < L
    OBVIOUS
  <2>2. bytes[k] = (a[q + 1] \div Power(AddrBase, r)) % AddrBase
    BY DEF Bytes
  <2> HIDE DEF i, bytes
  <2>3. q \in Nat /\ r \in 0 .. WordBytes - 1 /\ i = WordBytes * q + r
    BY <1>0, <2>1, Division
  <2> HIDE DEF q, r
  <2>4. q \in 0 .. m - 1
    <3> SUFFICES ASSUME q >= m PROVE FALSE
      BY <2>3
    <3>1. m * WordBytes <= q * WordBytes
      BY <1>0, <2>3, Products
    <3> DEFINE x == m * WordBytes
               y == WordBytes * q
    <3>2. x <= y /\ x \in Nat /\ y \in Nat /\ i = y + r /\ L <= x
      BY <1>0, <2>3, <3>1
    <3> HIDE DEF x, y
    <3> QED
      BY <2>1, <2>3, <3>2
  <2>5. bytes[k] = (V \div Power(AddrBase, q * WordBytes + r)) % AddrBase
    BY <2>2, <2>3, <2>4, ByteOfValue DEF V
  <2>6. q * WordBytes + r = i
    BY <1>0, <2>3
  <2> QED
    BY <2>5, <2>6 DEF i
<1>3. bytes \in [1 .. L -> Nat]
  <2>1. \A k \in 1 .. L : bytes[k] \in Nat
    <3> SUFFICES ASSUME NEW k \in 1 .. L PROVE bytes[k] \in Nat
      OBVIOUS
    <3> DEFINE P == Place(k)
               z == V \div P
    <3>1. P \in Nat \ {0} /\ bytes[k] = z % AddrBase
      BY <1>1, <1>2
    <3> HIDE DEF P, bytes
    <3>2. z \in Nat
      BY <1>0, <3>1, Division
    <3> HIDE DEF z
    <3>3. z % AddrBase \in 0 .. AddrBase - 1
      BY <1>0, <3>2, Division
    <3> QED
      BY <1>0, <3>1, <3>3
  <2>2. bytes = [k \in 1 .. L |-> bytes[k]]
    BY DEF Bytes
  <2> HIDE DEF bytes
  <2> QED
    BY <2>1, <2>2
<1> HIDE DEF bytes
<1>4. u \in [0 .. L -> Nat]
  <2>1. \A k \in 0 .. L : V \div Place(k) \in Nat
    <3> SUFFICES ASSUME NEW k \in 0 .. L PROVE V \div Place(k) \in Nat
      OBVIOUS
    <3> DEFINE P == Place(k)
    <3>1. P \in Nat \ {0}
      BY <1>1
    <3> HIDE DEF P
    <3>2. V \div P \in Nat
      BY <1>0, <3>1, Division
    <3> QED
      BY <3>2 DEF P
  <2> HIDE DEF Place
  <2> QED
    BY <2>1
<1>5. u[0] = 0
  <2> DEFINE zero == 0
             P == Place(zero)
  <2>1. P \in Nat \ {0} /\ P = Power(AddrBase, L) /\ zero \in 0 .. L
    <3>1. zero \in 0 .. L /\ L - zero = L
      OBVIOUS
    <3> HIDE DEF Place, zero
    <3>2. Place(zero) \in Nat \ {0}
      BY <1>1, <3>1
    <3> QED
      BY <3>1, <3>2 DEF Place
  <2>2. u[zero] = V \div P
    BY <2>1
  <2> HIDE DEF P, u
  <2>3. V = P * 0 + V /\ V \in 0 .. P - 1 /\ 0 \in Nat
    BY <1>0, <2>1 DEF V
  <2>4. V \div P = 0
    BY <1>0, <2>1, <2>3, DivisionIs
  <2> QED
    BY <2>2, <2>4
<1>6. ASSUME NEW k \in 1 .. L PROVE u[k] = u[k - 1] * AddrBase + bytes[k]
  <2> DEFINE i == L - k
             j == k - 1
             P == Place(k)
  <2>1. k \in 0 .. L /\ j \in 0 .. L /\ L - j = i + 1 /\ i \in Nat
    OBVIOUS
  <2>2. P \in Nat \ {0}
    BY <1>1, <2>1
  <2>3. Place(j) = AddrBase * P
    <3>1. Power(AddrBase, i + 1) = AddrBase * Power(AddrBase, i)
      <4> HIDE DEF i
      <4> QED
        BY <2>1, ByteNat
    <3> QED
      BY <2>1, <3>1
  <2>4. u[k] = V \div P /\ u[j] = V \div Place(j)
    <3> HIDE DEF Place
    <3> QED
      BY <2>1
  <2>5. bytes[k] = (V \div P) % AddrBase
    BY <1>2
  <2> HIDE DEF P, Place, u
  <2>6. V \div P = (V \div (AddrBase * P)) * AddrBase + ((V \div P) % AddrBase)
    BY <1>0, <2>2, QuotientStep
  <2> QED
    BY <2>3, <2>4, <2>5, <2>6
<1>7. IsNumeral(u, bytes, AddrBase, L)
  <2> HIDE DEF u
  <2> QED
    BY <1>4, <1>5, <1>6 DEF IsNumeral
<1>8. Numeral(bytes, AddrBase) = u[L]
  <2> HIDE DEF u
  <2> QED
    BY <1>0, <1>3, <1>7, NumeralIs
<1>9. u[L] = V
  <2> DEFINE P == Place(L)
             one == 1
  <2>1. L \in 0 .. L /\ L - L = 0
    OBVIOUS
  <2>2. P = one
    <3>1. Power(AddrBase, 0) = 1
      BY ByteNat
    <3> QED
      BY <2>1, <3>1
  <2>3. u[L] = V \div P
    BY <2>1
  <2> HIDE DEF P, u
  <2>4. V \div one = V
    BY <1>0
  <2> QED
    BY <2>2, <2>3, <2>4
<1> QED
  BY <1>3, <1>8, <1>9 DEF bytes, V

-----------------------------------------------------------------------------
(* The inputs *)

LEMMA InputOfKind ==
  ASSUME input \in Inputs
  PROVE  /\ Is("compact") => input.value \in Compacts
         /\ Is("block") => input.value \in Blocks
         /\ Is("address") => input.value \in Addresses
         /\ Is("sieve") => input.value \in SieveTargets
         /\ Is("login") => input.value \in Logins
         /\ Is("share") => input.value \in Shares
         /\ Is("ping") => input.value \in {0, MaxU64}
BY DEF Inputs, Is

(* The input does not change, so what holds of every input always holds.   *)
LEMMA AlwaysAnInput == Spec => [](input \in Inputs)
<1>1. Init => input \in Inputs
  BY DEF Init
<1>2. input \in Inputs /\ [Next]_input => (input \in Inputs)'
  BY DEF Next
<1> QED
  BY <1>1, <1>2, PTL DEF Spec

(* Every compact target is shifted to its place in the words, whatever     *)
(* their number and sizes.                                                 *)
THEOREM TargetsAreShifted == Spec => []TargetIsShifted
<1>1. input \in Inputs => TargetIsShifted
  BY InputOfKind, InputAssumption, CompactIsShifted DEF TargetIsShifted
<1> QED
  BY <1>1, AlwaysAnInput, PTL

-----------------------------------------------------------------------------
(* Coinbase and merkle root *)

LEMMA BlockTypes ==
  ASSUME NEW block \in Blocks
  PROVE  /\ block.coinBase1 \in Seq(Byte) /\ block.coinBase2 \in Seq(Byte)
         /\ Len(block.txHashes) \in Nat
         /\ IsList(block.txHashes, Len(block.txHashes))
         /\ \A seed \in block.seeds : seed \in Nat /\ seed <= MaxU32
<1> DEFINE T == [kind : {"data"}, bytes : Seq(Byte)]
<1>1. /\ block.coinBase1 \in Seq(Byte) /\ block.coinBase2 \in Seq(Byte)
      /\ block.txHashes \in Seq(T)
      /\ block.seeds \subseteq 0 .. MaxU32
  BY InputAssumption
<1> DEFINE hashes == block.txHashes
<1> HIDE DEF T, hashes
<1>2. IsList(hashes, Len(hashes)) /\ Len(hashes) \in Nat
  <2>1. hashes \in Seq(T)
    BY <1>1 DEF hashes
  <2> QED
    BY <2>1, ListOf, LenProperties
<1>3. MaxU32 \in Int
  BY BaseAssumption DEF MaxU32
<1> QED
  BY <1>1, <1>2, <1>3 DEF hashes

LEMMA LeavesAre ==
  ASSUME NEW block \in Blocks, NEW seed
  PROVE  /\ IsList(Leaves(block, seed), 1 + Len(block.txHashes))
         /\ Leaves(block, seed)[1] = TxHash(block.coinBase1, Digits(seed, 4), block.coinBase2)
<1> DEFINE x      == TxHash(block.coinBase1, Digits(seed, 4), block.coinBase2)
           hashes == block.txHashes
           n      == Len(hashes)
           alone  == <<x>>
           leaves == alone \o hashes
<1>1. IsList(hashes, n)
  BY BlockTypes
<1>2. Leaves(block, seed) = leaves
  BY DEF Leaves
<1> HIDE DEF x, hashes, n
<1>3. IsList(alone, 1) /\ alone[1] = x
  BY DEF IsList
<1> HIDE DEF alone
<1>4. IsJoined(alone \o hashes, alone, 1, hashes, n)
  BY <1>1, <1>3, ListJoined
<1>5. IsJoined(leaves, alone, 1, hashes, n)
  BY <1>4
<1> HIDE DEF leaves
<1>6. IsList(leaves, 1 + n) /\ leaves[1] = x
  BY <1>3, <1>5 DEF IsJoined
<1> QED
  BY <1>2, <1>6 DEF x, hashes, n

(* What is around the extra nonce does not hide it. *)
LEMMA MiddleTells ==
  ASSUME NEW before \in Seq(Byte), NEW after \in Seq(Byte),
         NEW v \in Seq(Byte), NEW w \in Seq(Byte), Len(v) = Len(w),
         before \o v \o after = before \o w \o after
  PROVE  v = w
<1> DEFINE m == Len(before)
           n == Len(v)
<1>1. m \in Nat /\ n \in Nat
  BY LenProperties
<1>2. ASSUME NEW u \in Seq(Byte), Len(u) = n
      PROVE  \A i \in 1 .. n : (before \o u \o after)[m + i] = u[i]
  <2> DEFINE x == before \o u
             y == x \o after
  <2>1. /\ x \in Seq(Byte) /\ Len(x) = m + n
        /\ \A i \in 1 .. m + n : x[i] = IF i <= m THEN before[i] ELSE u[i - m]
    <3>1. x \in Seq(Byte) /\ Len(x) = Len(before) + Len(u)
      BY ConcatProperties
    <3>2. \A i \in 1 .. Len(before) + Len(u) :
            x[i] = IF i <= Len(before) THEN before[i] ELSE u[i - Len(before)]
      BY ConcatProperties
    <3> QED
      BY <1>2, <3>1, <3>2
  <2> HIDE DEF x
  <2>2. \A i \in 1 .. m + n : y[i] = x[i]
    <3>1. Len(after) \in Nat
      BY LenProperties
    <3> QED
      BY <1>1, <2>1, <3>1, ConcatProperties
  <2> SUFFICES ASSUME NEW i \in 1 .. n PROVE y[m + i] = u[i]
    BY DEF x
  <2> HIDE DEF y
  <2>3. m + i \in 1 .. m + n /\ ~(m + i <= m) /\ (m + i) - m = i
    BY <1>1
  <2> QED
    BY <2>1, <2>2, <2>3
<1>3. \A i \in 1 .. n : v[i] = w[i]
  <2>1. \A i \in 1 .. n : (before \o v \o after)[m + i] = v[i]
    BY <1>2
  <2>2. \A i \in 1 .. n : (before \o w \o after)[m + i] = w[i]
    BY <1>2
  <2> QED
    BY <2>1, <2>2
<1>4. v = [i \in 1 .. n |-> v[i]] /\ w = [i \in 1 .. n |-> w[i]]
  <2>1. IsList(v, n) /\ IsList(w, n)
    BY ListOf
  <2> QED
    BY <2>1 DEF IsList
<1> QED
  BY <1>3, <1>4

(* The seed can be read back from the hash of the coinbase. *)
LEMMA SeedInHash ==
  ASSUME NEW before \in Seq(Byte), NEW after \in Seq(Byte),
         NEW s \in Nat, s <= MaxU32, NEW t \in Nat, t <= MaxU32,
         TxHash(before, Digits(s, 4), after) = TxHash(before, Digits(t, 4), after)
  PROVE  s = t
<1> DEFINE v == Digits(s, 4)
           w == Digits(t, 4)
<1>1. v \in Seq(Byte) /\ Len(v) = 4 /\ w \in Seq(Byte) /\ Len(w) = 4
  <2> DEFINE four == 4
  <2>1. four \in Nat
    OBVIOUS
  <2> HIDE DEF four
  <2>2. Digits(s, four) \in [1 .. four -> Byte] /\ Digits(t, four) \in [1 .. four -> Byte]
    BY <2>1, DigitsType
  <2>3. /\ Digits(s, four) \in Seq(Byte) /\ Len(Digits(s, four)) = four
        /\ Digits(t, four) \in Seq(Byte) /\ Len(Digits(t, four)) = four
    BY <2>1, <2>2, FunctionIsSequence
  <2> QED
    BY <2>3 DEF four
<1>2. Number(v) = s /\ Number(w) = t
  BY NumberReadsBack
<1> HIDE DEF v, w
<1>3. before \o v \o after = before \o w \o after
  <2>1. TxHash(before, v, after) = TxHash(before, w, after)
    BY DEF v, w
  <2>2. TxHash(before, v, after).bytes = TxHash(before, w, after).bytes
    BY <2>1
  <2> QED
    BY <2>2 DEF TxHash, HashOf
<1> QED
  BY <1>1, <1>2, <1>3, MiddleTells

LEMMA RoomIsNatural == Power(2, Layers - 1) \in Nat
<1> DEFINE e == Layers - 1
<1>1. e \in Nat /\ 2 \in Nat
  BY LayersAssumption
<1> HIDE DEF e
<1>2. Power(2, e) \in Nat
  BY <1>1, PowerGrows
<1> QED
  BY <1>2 DEF e

(* The root of the rounds is the root of the merkle tree, for any number   *)
(* of layers and any transactions they have room for.                      *)
THEOREM RootsAreTrees == Spec => []RootIsTree
<1>1. ASSUME NEW block \in Blocks, Len(block.txHashes) < Power(2, Layers - 1), NEW seed
      PROVE  Root(block, seed) = TreeRoot(Leaves(block, seed))
  <2> DEFINE n == 1 + Len(block.txHashes)
             leaves == Leaves(block, seed)
  <2>1. IsList(leaves, n)
    BY LeavesAre
  <2>2. n > 0 /\ n <= Power(2, Layers - 1)
    BY <1>1, RoomIsNatural, BlockTypes
  <2> HIDE DEF n, leaves
  <2>3. MerkleRoot(leaves) = TreeRoot(leaves)
    BY <2>1, <2>2, RootOfRoundsIsTree
  <2> QED
    BY <2>3 DEF Root, leaves
<1>2. input \in Inputs => RootIsTree
  BY <1>1, InputOfKind DEF RootIsTree
<1> QED
  BY <1>2, AlwaysAnInput, PTL

(* Different merkle seeds give different roots of the same transactions.   *)
THEOREM SeedsReachRoots == Spec => []SeedsGiveRoots
<1>1. ASSUME NEW block \in Blocks, Len(block.txHashes) < Power(2, Layers - 1),
             NEW s \in block.seeds, NEW t \in block.seeds,
             Root(block, s) = Root(block, t)
      PROVE  s = t
  <2> DEFINE n == 1 + Len(block.txHashes)
             first == Leaves(block, s)
             other == Leaves(block, t)
  <2>1. IsList(first, n) /\ IsList(other, n)
    BY LeavesAre
  <2>2. n > 0 /\ n <= Power(2, Layers - 1)
    BY <1>1, RoomIsNatural, BlockTypes
  <2> HIDE DEF n, first, other
  <2>3. MerkleRoot(first) = TreeRoot(first) /\ MerkleRoot(other) = TreeRoot(other)
    BY <2>1, <2>2, RootOfRoundsIsTree
  <2>4. TreeRoot(first) = TreeRoot(other)
    BY <1>1, <2>3 DEF Root, first, other
  <2>5. first[1] = other[1]
    BY <2>1, <2>2, <2>4, FirstHashReachesRoot
  <2>6. TxHash(block.coinBase1, Digits(s, 4), block.coinBase2)
          = TxHash(block.coinBase1, Digits(t, 4), block.coinBase2)
    BY <2>5, LeavesAre DEF first, other
  <2> QED
    BY <2>6, BlockTypes, SeedInHash
<1>2. input \in Inputs => SeedsGiveRoots
  BY <1>1, InputOfKind DEF SeedsGiveRoots
<1> QED
  BY <1>2, AlwaysAnInput, PTL

-----------------------------------------------------------------------------
(* Addresses *)

(* The decoded bytes stand for the same number and are as many as the      *)
(* largest number of so many digits needs.                                 *)
LEMMA DecodedIs ==
  ASSUME NEW n \in Nat \ {0}, NEW chars \in [1 .. n -> 0 .. DigitBase - 1], TrackTells(n)
  PROVE  LET bytes == Bytes(Converted(chars), OutputLength(n))
         IN /\ Numeral(bytes, AddrBase) = Numeral(chars, DigitBase)
            /\ Power(DigitBase, n) - 1 < Power(AddrBase, Len(bytes))
            /\ (DigitBase - 1) * Power(DigitBase, n - 1) >= Power(AddrBase, Len(bytes) - 1)
<1> DEFINE L == OutputLength(n)
           t == (DigitBase - 1) * Power(DigitBase, n - 1)
           most == Power(DigitBase, n) - 1
           a == Converted(chars)
           bytes == Bytes(a, L)
<1>1. PICK m : IsTrack(Track(n), m, n) /\ IsLength(L, n, m)
  BY OutputLengthIs
<1>2. /\ L \in Nat /\ L >= 1 /\ L <= m * WordBytes
      /\ Power(AddrBase, L - 1) <= t /\ t < Power(AddrBase, L)
  <2> HIDE DEF L
  <2> QED
    BY <1>1 DEF IsLength
<1>3. m \in Nat /\ Len(Track(n)) = m
  <2> DEFINE track == Track(n)
  <2>1. m \in Nat /\ track \in [1 .. m -> WordValues]
    <3> HIDE DEF track
    <3> QED
      BY <1>1 DEF IsTrack, track
  <2> HIDE DEF track
  <2>2. Len(track) = m
    BY <2>1, FunctionIsSequence
  <2> QED
    BY <2>1, <2>2 DEF track
<1>4. DigitBase \in Nat /\ DigitBase > 0 /\ AddrBase \in Nat /\ AddrBase > 0 /\ WordBytes \in Nat
  BY WordIs
<1>5. chars \in [1 .. n -> Nat]
  BY <1>4
<1>6. PICK u : IsNumeral(u, chars, DigitBase, n)
  BY <1>4, <1>5, NumeralExists
<1>7. Numeral(chars, DigitBase) = u[n]
  BY <1>4, <1>5, <1>6, NumeralIs
<1>8. u[n] \in Nat /\ u[n] < Power(DigitBase, n)
  BY <1>4, <1>6, NumeralBound
<1>9. HoldsValue(a, m, u[n])
  BY <1>3, <1>6, ConvertedIs
<1>10. PICK N \in 1 .. n * WordBytes : Power(AddrBase, N - 1) <= t /\ most < Power(AddrBase, N)
  BY DEF TrackTells
(* N is L. *)
<1>11. most < Power(AddrBase, L)
  <2> DEFINE j == N - 1
             x == Power(AddrBase, j)
             y == Power(AddrBase, L)
             z == Power(AddrBase, N)
  <2>1. N \in Nat /\ j \in Nat /\ j + 1 = N
    BY <1>10
  <2> HIDE DEF L, t, most, j
  <2>2. x \in Nat /\ y \in Nat /\ z \in Nat
    BY <1>2, <2>1, ByteNat
  <2>3. x <= t /\ t < y /\ most < z
    BY <1>2, <1>10 DEF j
  <2>4. t \in Int /\ most \in Int
    <3> DEFINE k == n - 1
    <3>1. k \in Nat
      OBVIOUS
    <3> HIDE DEF k
    <3>2. Power(DigitBase, k) \in Nat /\ Power(DigitBase, n) \in Nat
      BY <1>4, <3>1, PowerGrows
    <3> DEFINE p == Power(DigitBase, k)
    <3> HIDE DEF p
    <3>3. (DigitBase - 1) * p \in Int
      BY <1>4, <3>2 DEF p
    <3> QED
      BY <3>2, <3>3 DEF p, k, t, most
  <2>5. j < L
    <3> SUFFICES ASSUME L <= j PROVE FALSE
      BY <1>2, <2>1
    <3>1. y <= x
      BY <1>2, <1>4, <2>1, PowerOrder
    <3> HIDE DEF x, y
    <3> QED
      BY <2>2, <2>3, <2>4, <3>1
  <2>6. N <= L
    BY <1>2, <2>1, <2>5
  <2>7. z <= y
    BY <1>2, <1>4, <2>1, <2>6, PowerOrder
  <2> HIDE DEF y, z
  <2>8. most < y
    BY <2>2, <2>3, <2>4, <2>7
  <2> QED
    BY <2>8 DEF y
<1>12. u[n] < Power(AddrBase, L)
  <2> DEFINE x == u[n]
             p == Power(DigitBase, n)
             y == Power(AddrBase, L)
  <2>1. x \in Nat /\ p \in Nat /\ y \in Nat
    <3> HIDE DEF L
    <3> QED
      BY <1>2, <1>4, <1>8, PowerGrows
  <2>2. x < p /\ p - 1 < y
    BY <1>8, <1>11
  <2> HIDE DEF x, p, y
  <2>3. x < y
    BY <2>1, <2>2
  <2> QED
    BY <2>3 DEF x, y
<1>13. PICK k \in Nat : /\ k >= m /\ a \in [1 .. k -> WordValues]
                        /\ \A v : IsValue(v, a, k) => v[k] = u[n]
  <2> HIDE DEF a
  <2> QED
    BY <1>9 DEF HoldsValue
<1> HIDE DEF a, L
<1>14. PICK v : IsValue(v, a, k)
  BY <1>13, ValueExists
<1>15. v[k] = u[n]
  BY <1>13, <1>14
<1>16. L <= k * WordBytes
  <2>1. m * WordBytes <= k * WordBytes
    BY <1>3, <1>4, <1>13, Products
  <2> DEFINE x == m * WordBytes
             y == k * WordBytes
  <2>2. x <= y /\ L <= x /\ x \in Nat /\ y \in Nat
    BY <1>2, <1>3, <1>4, <2>1
  <2> HIDE DEF x, y
  <2>3. L <= y
    BY <1>2, <2>2
  <2> QED
    BY <2>3 DEF y
<1>17. bytes \in [1 .. L -> Nat] /\ Numeral(bytes, AddrBase) = v[k]
  BY <1>2, <1>12, <1>13, <1>14, <1>15, <1>16, BytesAre
<1> HIDE DEF bytes
<1>18. Len(bytes) = L
  BY <1>2, <1>17, FunctionIsSequence
<1>19. /\ Numeral(bytes, AddrBase) = Numeral(chars, DigitBase)
       /\ most < Power(AddrBase, Len(bytes))
       /\ Power(AddrBase, Len(bytes) - 1) <= t
  BY <1>2, <1>7, <1>11, <1>15, <1>17, <1>18
<1>20. t >= Power(AddrBase, Len(bytes) - 1)
  BY <1>19
<1> QED
  BY <1>19, <1>20 DEF bytes, a, L

LEMMA AddressDecodes ==
  ASSUME Is("address"), input.value \in Addresses
  PROVE  AddressIsNumber
<1> DEFINE chars == input.value
           n == Len(chars)
           C == {NoDigit} \cup 0 .. DigitBase - 1
           good == chars # <<>> /\ NoDigit \notin ToSet(chars)
           bytes == Bytes(Converted(chars), OutputLength(n))
           decoded == DecodeBase58(chars)
<1>1. /\ chars \in Seq(C) /\ n <= MaxInput
      /\ chars # <<>> => TrackTells(n)
  BY InputAssumption DEF Characters
<1>2. n \in Nat /\ chars \in [1 .. n -> C] /\ DOMAIN chars = 1 .. n
  <2> HIDE DEF chars, C
  <2> QED
    BY <1>1, LenProperties
<1>3. ToSet(chars) = {chars[i] : i \in 1 .. n} /\ (Contains(chars, NoDigit) <=> NoDigit \in ToSet(chars))
  <2> HIDE DEF chars
  <2> QED
    BY <1>2 DEF ToSet, Contains
<1>4. chars # <<>> <=> n # 0
  <2> HIDE DEF chars, C
  <2> QED
    BY <1>1, EmptySeq
<1>5. ~(n > MaxInput)
  <2> HIDE DEF chars, C, n
  <2>1. MaxInput \in Nat
    BY AddressAssumption
  <2> QED
    BY <1>1, <1>2, <2>1
<1>6. decoded = IF good THEN [ok |-> TRUE, bytes |-> bytes] ELSE Undecodable
  <2>1. good <=> ~(chars = <<>> \/ n > MaxInput \/ Contains(chars, NoDigit))
    <3> HIDE DEF chars, n
    <3> QED
      BY <1>1, <1>2, <1>3, <1>5
  <2> HIDE DEF chars, bytes, good
  <2> QED
    BY <2>1 DEF DecodeBase58, bytes
<1>7. decoded.ok <=> good
  <2> HIDE DEF decoded, good, bytes
  <2> QED
    BY <1>6 DEF Undecodable
<1>8. ASSUME good
      PROVE  /\ decoded.bytes = bytes
             /\ Numeral(bytes, AddrBase) = Numeral(chars, DigitBase)
             /\ Power(DigitBase, n) - 1 < Power(AddrBase, Len(bytes))
             /\ (DigitBase - 1) * Power(DigitBase, n - 1) >= Power(AddrBase, Len(bytes) - 1)
  <2>1. n \in Nat \ {0} /\ TrackTells(n)
    <3> HIDE DEF n
    <3> QED
      BY <1>1, <1>2, <1>4, <1>8
  <2>2. chars \in [1 .. n -> 0 .. DigitBase - 1]
    <3>1. \A i \in 1 .. n : chars[i] \in 0 .. DigitBase - 1
      <4> HIDE DEF chars, n
      <4> QED
        BY <1>2, <1>3, <1>8
    <3> HIDE DEF chars, n
    <3> QED
      BY <1>2, <3>1
  <2>3. decoded.bytes = bytes
    <3> HIDE DEF bytes, decoded, good
    <3> QED
      BY <1>6, <1>8
  <2> HIDE DEF chars, n
  <2>4. /\ Numeral(bytes, AddrBase) = Numeral(chars, DigitBase)
        /\ Power(DigitBase, n) - 1 < Power(AddrBase, Len(bytes))
        /\ (DigitBase - 1) * Power(DigitBase, n - 1) >= Power(AddrBase, Len(bytes) - 1)
    BY <2>1, <2>2, DecodedIs
  <2> QED
    BY <2>3, <2>4
<1> HIDE DEF bytes, decoded, chars, n
<1>9. decoded.ok =>
        /\ Numeral(decoded.bytes, AddrBase) = Numeral(chars, DigitBase)
        /\ Power(DigitBase, n) - 1 < Power(AddrBase, Len(decoded.bytes))
        /\ (DigitBase - 1) * Power(DigitBase, n - 1) >= Power(AddrBase, Len(decoded.bytes) - 1)
  <2> HIDE DEF good
  <2> QED
    BY <1>7, <1>8
<1> QED
  BY <1>7, <1>9, Zenon DEF AddressIsNumber, decoded, chars, n

(* A decoded address is the number its digits stand for, whatever the      *)
(* bases and the size of the words.                                        *)
THEOREM AddressesAreNumbers == Spec => []AddressIsNumber
<1>1. input \in Inputs => AddressIsNumber
  <2> SUFFICES ASSUME input \in Inputs PROVE AddressIsNumber
    OBVIOUS
  <2>1. CASE Is("address")
    BY <2>1, InputOfKind, AddressDecodes
  <2>2. CASE ~Is("address")
    BY <2>2 DEF AddressIsNumber
  <2> QED
    BY <2>1, <2>2
<1> QED
  BY <1>1, AlwaysAnInput, PTL

-----------------------------------------------------------------------------
(* The table of primes *)

(* What factor f does to the marks. *)
MarkedAfter(f, m) ==
  IF f * f >= PrimeLimit \/ f \in m THEN m
  ELSE m \cup {f * k : k \in f .. (PrimeLimit - 1) \div f}

IsMarking(g) ==
  /\ g \in [1 .. PrimeLimit -> SUBSET Nat] /\ g[1] = {}
  /\ \A f \in 2 .. PrimeLimit : g[f] = MarkedAfter(f, g[f - 1])

LEMMA MarksAreNumbers ==
  ASSUME NEW f \in Nat, NEW m \in SUBSET Nat
  PROVE  MarkedAfter(f, m) \in SUBSET Nat
<1>1. \A k \in f .. (PrimeLimit - 1) \div f : f * k \in Nat
  <2> SUFFICES ASSUME NEW k \in f .. (PrimeLimit - 1) \div f PROVE f * k \in Nat
    OBVIOUS
  <2>1. k \in Nat
    OBVIOUS
  <2> QED
    BY <2>1
<1> QED
  BY <1>1 DEF MarkedAfter

LEMMA CompositeMarked ==
  \E g : IsMarking(g) /\ Composite = g[PrimeLimit]
<1> DEFINE all == SUBSET Nat
           step == [f \in 2 .. PrimeLimit |-> [m \in all |-> MarkedAfter(f, m)]]
           zero == {}
           next(g, f) == IF f = 1 THEN {}
                         ELSE IF f * f >= PrimeLimit \/ f \in g[f - 1] THEN g[f - 1]
                         ELSE g[f - 1] \cup {f * k : k \in f .. (PrimeLimit - 1) \div f}
           Rec(g) == g = [f \in 1 .. PrimeLimit |-> next(g, f)]
           chosen == CHOOSE g : Rec(g)
<1>1. PrimeLimit \in Nat /\ PrimeLimit >= 2
  BY SieveAssumption
<1>2. PICK g : Runs(g, 1, PrimeLimit, all, zero, step)
  <2>1. step \in [2 .. PrimeLimit -> [all -> all]]
    <3>1. \A f \in 2 .. PrimeLimit : \A m \in all : MarkedAfter(f, m) \in all
      BY <1>1, MarksAreNumbers
    <3> QED
      BY <3>1
  <2>2. zero \in all
    OBVIOUS
  <2> HIDE DEF all, step, zero
  <2> DEFINE one == 1
  <2>3. one \in Int /\ PrimeLimit \in Int /\ one <= PrimeLimit /\ one + 1 = 2
    BY <1>1
  <2> HIDE DEF one
  <2>4. step \in [one + 1 .. PrimeLimit -> [all -> all]]
    <3>1. one + 1 .. PrimeLimit = 2 .. PrimeLimit
      BY <2>3
    <3> QED
      BY <2>1, <3>1, Zenon
  <2>6. \E g : Runs(g, one, PrimeLimit, all, zero, step)
    BY <2>2, <2>3, <2>4, IterationFrom
  <2> QED
    BY <2>6 DEF one
<1>3. g \in [1 .. PrimeLimit -> all] /\ g[1] = {}
  BY <1>2 DEF Runs
<1>4. ASSUME NEW f \in 2 .. PrimeLimit PROVE g[f] = MarkedAfter(f, g[f - 1])
  <2>1. f \in 1 + 1 .. PrimeLimit /\ f - 1 \in 1 .. PrimeLimit
    BY <1>1
  <2>2. g[f] = step[f][g[f - 1]] /\ g[f - 1] \in all
    BY <1>2, <1>3, <2>1 DEF Runs
  <2> HIDE DEF all
  <2> QED
    BY <2>2
<1>5. Rec(g)
  <2>1. ASSUME NEW f \in 1 .. PrimeLimit PROVE g[f] = next(g, f)
    <3>1. CASE f = 1
      BY <1>3, <3>1
    <3>2. CASE f \in 2 .. PrimeLimit
      <4>1. f # 1 /\ g[f] = MarkedAfter(f, g[f - 1])
        BY <1>4, <3>2
      <4> QED
        BY <4>1 DEF MarkedAfter
    <3> QED
      BY <3>1, <3>2
  <2>2. g = [f \in 1 .. PrimeLimit |-> g[f]]
    BY <1>3
  <2> HIDE DEF next
  <2> QED
    BY <2>1, <2>2
<1>6. Rec(chosen)
  <2> HIDE DEF Rec
  <2> QED
    BY <1>5
<1>7. Composite = chosen[PrimeLimit]
  BY Zenon DEF Composite
<1> HIDE DEF chosen
<1>8. \A f \in 1 .. PrimeLimit : chosen[f] = next(chosen, f)
  BY <1>6
<1>9. chosen[1] = {} /\ DOMAIN chosen = 1 .. PrimeLimit
  BY <1>1, <1>6, <1>8
<1> HIDE DEF Rec
<1>10. ASSUME NEW f \in 2 .. PrimeLimit PROVE chosen[f] = MarkedAfter(f, chosen[f - 1])
  <2>1. f \in 1 .. PrimeLimit /\ f # 1
    BY <1>1
  <2> QED
    BY <1>8, <2>1 DEF MarkedAfter
<1> HIDE DEF next
<1>11. Agree(g, chosen, 1, PrimeLimit)
  <2> DEFINE one == 1
  <2>1. \A f \in one + 1 .. PrimeLimit : g[f - 1] = chosen[f - 1] => g[f] = chosen[f]
    BY <1>4, <1>10
  <2>2. one \in Int /\ PrimeLimit \in Int /\ one <= PrimeLimit /\ g[one] = chosen[one]
    BY <1>1, <1>3, <1>9
  <2> HIDE DEF one
  <2>3. Agree(g, chosen, one, PrimeLimit)
    BY <2>1, <2>2, DeterminedFrom
  <2> QED
    BY <2>3 DEF one
<1>12. Composite = g[PrimeLimit]
  <2>1. PrimeLimit \in 1 .. PrimeLimit
    BY <1>1
  <2> QED
    BY <1>7, <1>11, <2>1 DEF Agree
<1>13. IsMarking(g)
  BY <1>3, <1>4 DEF IsMarking
<1> QED
  BY <1>12, <1>13

LEMMA MultipleIs ==
  ASSUME NEW n \in Nat, NEW d \in Nat, d > 0
  PROVE  n % d = 0 <=> \E k \in Nat : n = d * k
<1>1. ASSUME n % d = 0 PROVE \E k \in Nat : n = d * k
  <2>1. n \div d \in Nat /\ n = d * (n \div d) + 0
    BY <1>1, Division
  <2> QED
    BY <2>1
<1>2. ASSUME NEW k \in Nat, n = d * k PROVE n % d = 0
  <2> DEFINE zero == 0
  <2>1. zero \in 0 .. d - 1 /\ n = d * k + zero
    BY <1>2
  <2> HIDE DEF zero
  <2>2. n % d = zero
    BY <2>1, DivisionIs
  <2> QED
    BY <2>2 DEF zero
<1> QED
  BY <1>1, <1>2

HasDivisor(n) == \E d \in 2 .. n - 1 : n % d = 0

(* Only multiples are marked: *)
LEMMA MarkedHaveDivisor ==
  ASSUME NEW g, IsMarking(g), NEW f \in 1 .. PrimeLimit
  PROVE  \A n \in g[f] : n \in Nat /\ HasDivisor(n)
<1> DEFINE T == {m \in SUBSET Nat : \A n \in m : HasDivisor(n)}
<1>1. PrimeLimit \in Nat /\ PrimeLimit >= 2
  BY SieveAssumption
<1>2. ASSUME NEW k \in 2 .. PrimeLimit, g[k - 1] \in T PROVE g[k] \in T
  <2>1. g[k] = MarkedAfter(k, g[k - 1])
    BY DEF IsMarking
  <2>2. ASSUME NEW j \in k .. (PrimeLimit - 1) \div k PROVE k * j \in Nat /\ HasDivisor(k * j)
    <3> DEFINE n == k * j
    <3>1. k \in Nat /\ j \in Nat /\ k >= 2 /\ j >= 2
      OBVIOUS
    <3>2. n \in Nat
      BY <3>1
    <3>3. 2 * k <= n
      <4>1. 2 * k <= j * k /\ j * k = k * j
        BY <3>1, Products
      <4> QED
        BY <4>1
    <3>4. n % k = 0
      <4> HIDE DEF n
      <4>1. n = k * j
        BY DEF n
      <4> QED
        BY <3>1, <3>2, <4>1, MultipleIs
    <3>5. k \in 2 .. n - 1
      <4> HIDE DEF n
      <4> QED
        BY <3>1, <3>2, <3>3
    <3> HIDE DEF n
    <3>6. n \in Nat /\ HasDivisor(n)
      BY <3>2, <3>4, <3>5 DEF HasDivisor
    <3> QED
      BY <3>6 DEF n
  <2>3. \A n \in {k * j : j \in k .. (PrimeLimit - 1) \div k} : n \in Nat /\ HasDivisor(n)
    BY <2>2
  <2> QED
    BY <1>2, <2>1, <2>3 DEF MarkedAfter
<1>3. g[1] \in T
  BY DEF IsMarking
<1> DEFINE S == {k \in Nat : k + 1 <= PrimeLimit => g[k + 1] \in T}
<1>4. 0 \in S
  BY <1>3
<1>5. ASSUME NEW k \in S \cap Nat PROVE k + 1 \in S
  <2> SUFFICES ASSUME (k + 1) + 1 <= PrimeLimit PROVE g[(k + 1) + 1] \in T
    OBVIOUS
  <2> DEFINE i == (k + 1) + 1
  <2>1. i \in 2 .. PrimeLimit /\ i - 1 = k + 1 /\ g[k + 1] \in T
    BY <1>1, <1>5
  <2> HIDE DEF i, T
  <2> QED
    BY <1>2, <2>1 DEF i
<1> HIDE DEF T
<1>6. Nat \subseteq S
  <2> HIDE DEF S
  <2> QED
    BY <1>4, <1>5, SetInduction
<1>7. f - 1 \in S /\ (f - 1) + 1 = f
  <2>1. f - 1 \in Nat /\ (f - 1) + 1 = f
    BY <1>1
  <2> HIDE DEF S
  <2> QED
    BY <1>6, <2>1
<1>8. g[f] \in T
  <2>1. f <= PrimeLimit /\ f \in Int
    BY <1>1
  <2> QED
    BY <1>7, <2>1
<1> QED
  BY <1>8 DEF T

(* ... and all multiples from the square on: *)
LEMMA SquaresMarked ==
  ASSUME NEW g, IsMarking(g)
  PROVE  \A f \in 1 .. PrimeLimit :
           \A n \in 2 .. PrimeLimit - 1, d \in 2 .. f :
             d * d <= n /\ n % d = 0 => n \in g[f]
<1> DEFINE Done(f) == \A n \in 2 .. PrimeLimit - 1, d \in 2 .. f :
                        d * d <= n /\ n % d = 0 => n \in g[f]
           S == {k \in Nat : k + 1 <= PrimeLimit => Done(k + 1)}
<1>1. PrimeLimit \in Nat /\ PrimeLimit >= 2
  BY SieveAssumption
<1>2. ASSUME NEW f \in 2 .. PrimeLimit, Done(f - 1) PROVE Done(f)
  <2> SUFFICES ASSUME NEW n \in 2 .. PrimeLimit - 1, NEW d \in 2 .. f, d * d <= n, n % d = 0
               PROVE  n \in g[f]
    OBVIOUS
  <2>1. g[f] = MarkedAfter(f, g[f - 1])
    BY DEF IsMarking
  <2>2. g[f - 1] \subseteq g[f]
    BY <2>1 DEF MarkedAfter
  <2>3. CASE d <= f - 1
    <3>1. d \in 2 .. f - 1
      BY <2>3
    <3>2. n \in g[f - 1]
      BY <1>2, <3>1
    <3> QED
      BY <2>2, <3>2
  <2>4. CASE d = f
    <3>1. f \in Nat /\ n \in Nat /\ f >= 2 /\ n <= PrimeLimit - 1
      BY <1>1
    <3>2. f * f <= n /\ n % f = 0 /\ f > 0
      BY <2>4, <3>1
    <3>3. PICK k \in Nat : n = f * k
      <4>1. \E k \in Nat : n = f * k
        BY <3>1, <3>2, MultipleIs
      <4> QED
        BY <4>1
    <3>4. CASE f \in g[f - 1]
      <4>1. f - 1 \in 1 .. PrimeLimit
        BY <1>1
      <4>2. HasDivisor(f)
        BY <3>4, <4>1, MarkedHaveDivisor
      <4>3. PICK e \in 2 .. f - 1 : f % e = 0
        BY <4>2 DEF HasDivisor
      <4>4. e \in Nat /\ e >= 2 /\ e <= f
        BY <3>1
      <4>5. PICK j \in Nat : f = e * j
        <5>1. f \in Nat /\ e > 0 /\ f % e = 0
          BY <3>1, <4>3, <4>4
        <5>2. \E j \in Nat : f = e * j
          BY <4>4, <5>1, MultipleIs
        <5> QED
          BY <5>2
      <4>6. n % e = 0
        <5>1. (e * j) * k = e * (j * k) /\ j * k \in Nat
          OBVIOUS
        <5>2. n = e * (j * k)
          BY <3>3, <4>5, <5>1
        <5>3. e > 0
          BY <4>4
        <5> QED
          BY <3>1, <4>4, <5>1, <5>2, <5>3, MultipleIs
      <4>7. e * e <= n
        <5>1. e * e <= f * e
          BY <3>1, <4>4, Products
        <5>2. f * e <= f * f
          BY <3>1, <4>4, Products
        <5>3. e * e \in Nat /\ f * e \in Nat /\ f * f \in Nat
          BY <3>1, <4>4
        <5> QED
          BY <3>1, <3>2, <5>1, <5>2, <5>3
      <4>8. n \in g[f - 1]
        BY <1>2, <4>6, <4>7
      <4> QED
        BY <2>2, <4>8
    <3>5. CASE f \notin g[f - 1]
      <4>1. k >= f
        <5> SUFFICES ASSUME k + 1 <= f PROVE FALSE
          BY <3>1
        <5>1. (k + 1) * f <= f * f
          BY <3>1, Products
        <5>2. (k + 1) * f = f * k + f
          BY <3>1
        <5>3. f * k \in Nat /\ f * f \in Nat
          BY <3>1
        <5> QED
          BY <3>1, <3>2, <3>3, <5>1, <5>2, <5>3
      <4>2. k <= (PrimeLimit - 1) \div f
        <5> DEFINE m == PrimeLimit - 1
                   q == m \div f
                   r == m % f
        <5>1. m \in Nat /\ n <= m
          BY <1>1, <3>1
        <5> HIDE DEF m
        <5>2. q \in Nat /\ r \in 0 .. f - 1 /\ m = f * q + r
          <6>1. f \in Nat \ {0}
            BY <3>1
          <6> QED
            BY <5>1, <6>1, Division
        <5> HIDE DEF q, r
        <5> SUFFICES ASSUME q + 1 <= k PROVE FALSE
          BY <5>2 DEF q, m
        <5>3. f * (q + 1) <= f * k
          BY <3>1, <5>2, Products
        <5>4. f * (q + 1) = f * q + f /\ f * q \in Nat /\ f * k \in Nat
          BY <3>1, <5>2
        <5> QED
          BY <3>1, <3>3, <5>1, <5>2, <5>3, <5>4
      <4>3. k \in f .. (PrimeLimit - 1) \div f
        BY <3>1, <4>1, <4>2
      <4>4. ~(f * f >= PrimeLimit)
        <5>1. f * f \in Nat
          BY <3>1
        <5> QED
          BY <1>1, <3>1, <3>2, <5>1
      <4>5. g[f] = g[f - 1] \cup {f * i : i \in f .. (PrimeLimit - 1) \div f}
        BY <2>1, <3>5, <4>4 DEF MarkedAfter
      <4> QED
        BY <3>3, <4>3, <4>5
    <3> QED
      BY <3>4, <3>5
  <2> QED
    BY <2>3, <2>4
<1>3. 0 \in S
  OBVIOUS
<1> HIDE DEF Done
<1>4. ASSUME NEW k \in S \cap Nat PROVE k + 1 \in S
  <2> SUFFICES ASSUME (k + 1) + 1 <= PrimeLimit PROVE Done((k + 1) + 1)
    OBVIOUS
  <2> DEFINE i == (k + 1) + 1
  <2>1. i \in 2 .. PrimeLimit /\ i - 1 = k + 1 /\ Done(k + 1)
    BY <1>1, <1>4
  <2>2. Done(i - 1)
    BY <2>1
  <2> HIDE DEF i
  <2> QED
    BY <1>2, <2>1, <2>2 DEF i
<1>5. Nat \subseteq S
  <2> HIDE DEF S
  <2> QED
    BY <1>3, <1>4, SetInduction
<1>6. ASSUME NEW f \in 1 .. PrimeLimit PROVE Done(f)
  <2>1. f - 1 \in Nat /\ (f - 1) + 1 = f /\ f <= PrimeLimit
    BY <1>1
  <2>2. Done((f - 1) + 1)
    BY <1>5, <2>1
  <2> QED
    BY <2>1, <2>2
<1> QED
  BY <1>6 DEF Done

(* ... so that the numbers left are the primes. *)
LEMMA CompositeIs ==
  ASSUME NEW n \in 2 .. PrimeLimit - 1
  PROVE  n \in Composite <=> ~IsPrime(n)
<1>1. PrimeLimit \in Nat /\ PrimeLimit >= 2 /\ PrimeLimit \in 1 .. PrimeLimit /\ n \in Nat
  BY SieveAssumption
<1>2. PICK g : IsMarking(g) /\ Composite = g[PrimeLimit]
  BY CompositeMarked
<1>3. n >= 2 /\ n <= PrimeLimit - 1
  BY <1>1
<1>4. IsPrime(n) <=> ~HasDivisor(n)
  BY <1>3 DEF IsPrime, HasDivisor
<1>5. n \in Composite => HasDivisor(n)
  BY <1>1, <1>2, MarkedHaveDivisor
<1>6. ASSUME HasDivisor(n) PROVE n \in Composite
  <2>1. PICK d \in 2 .. n - 1 : n % d = 0
    BY <1>6 DEF HasDivisor
  <2>2. d \in Nat /\ d >= 2 /\ d <= n - 1
    BY <1>1
  <2>3. PICK k \in Nat : n = d * k
    <3>1. \E k \in Nat : n = d * k
      BY <1>1, <2>1, <2>2, MultipleIs
    <3> QED
      BY <3>1
  <2>4. k >= 2
    <3>1. CASE k = 0
      <4>1. n = 0
        BY <2>2, <2>3, <3>1
      <4> QED
        BY <1>3, <4>1
    <3>2. CASE k = 1
      <4>1. n = d
        BY <2>2, <2>3, <3>2
      <4> QED
        BY <1>1, <2>2, <4>1
    <3> QED
      BY <3>1, <3>2
  <2>5. k <= n /\ n % k = 0
    <3>1. 1 * k <= d * k
      BY <2>2, Products
    <3>2. d * k = k * d
      BY <2>2
    <3>3. n % k = 0
      BY <1>1, <2>2, <2>3, <2>4, <3>2, MultipleIs
    <3> QED
      BY <2>3, <3>1, <3>3
  <2>6. CASE d <= k
    <3>1. d * d <= d * k
      BY <2>2, <2>6, Products
    <3>2. d \in 2 .. PrimeLimit /\ d * d <= n
      BY <1>1, <1>3, <2>2, <2>3, <3>1
    <3> QED
      BY <1>1, <1>2, <2>1, <3>2, SquaresMarked
  <2>7. CASE k <= d
    <3>1. k * k <= d * k
      BY <2>2, <2>7, Products
    <3>2. k \in 2 .. PrimeLimit /\ k * k <= n
      BY <1>1, <1>3, <2>3, <2>4, <2>5, <3>1
    <3> QED
      BY <1>1, <1>2, <2>5, <3>2, SquaresMarked
  <2> QED
    BY <2>2, <2>6, <2>7
<1> QED
  BY <1>4, <1>5, <1>6

TableAfter(n, t) == IF n \in Composite THEN t ELSE Append(t, n)

IsTable(g, last) ==
  /\ g \in [1 .. last -> Seq(Nat)] /\ g[1] = <<>>
  /\ \A n \in 2 .. last : g[n] = TableAfter(n, g[n - 1])

LEMMA TableExtended ==
  \E g : IsTable(g, PrimeLimit - 1) /\ PrimeTable = g[PrimeLimit - 1]
<1> DEFINE all == Seq(Nat)
           last == PrimeLimit - 1
           step == [n \in 2 .. last |-> [t \in all |-> TableAfter(n, t)]]
           empty == << >>
           next(g, n) == IF n = 1 THEN <<>>
                         ELSE IF n \in Composite THEN g[n - 1]
                         ELSE Append(g[n - 1], n)
           Rec(g) == g = [n \in 1 .. PrimeLimit - 1 |-> next(g, n)]
           chosen == CHOOSE g : Rec(g)
<1>1. last \in Nat /\ last >= 1
  BY SieveAssumption
<1>2. PICK g : Runs(g, 1, last, all, empty, step)
  <2> DEFINE one == 1
  <2>1. step \in [2 .. last -> [all -> all]]
    <3>1. \A n \in 2 .. last : \A t \in all : TableAfter(n, t) \in all
      <4>1. \A n \in 2 .. last : n \in Nat
        BY <1>1
      <4> QED
        BY <4>1 DEF TableAfter
    <3> HIDE DEF all
    <3> QED
      BY <3>1
  <2>2. empty \in all
    OBVIOUS
  <2> HIDE DEF all, step, empty, last
  <2>3. one \in Int /\ last \in Int /\ one <= last /\ one + 1 = 2
    BY <1>1
  <2> HIDE DEF one
  <2>4. step \in [one + 1 .. last -> [all -> all]]
    <3>1. one + 1 .. last = 2 .. last
      BY <2>3
    <3> QED
      BY <2>1, <3>1, Zenon
  <2>5. \E g : Runs(g, one, last, all, empty, step)
    BY <2>2, <2>3, <2>4, IterationFrom
  <2> QED
    BY <2>5 DEF one
<1>3. g \in [1 .. last -> all] /\ g[1] = <<>>
  BY <1>2 DEF Runs
<1>4. ASSUME NEW n \in 2 .. last PROVE g[n] = TableAfter(n, g[n - 1])
  <2>1. n \in 1 + 1 .. last /\ n - 1 \in 1 .. last
    BY <1>1
  <2> HIDE DEF last, all
  <2>2. g[n] = step[n][g[n - 1]] /\ g[n - 1] \in all
    BY <1>2, <1>3, <2>1 DEF Runs
  <2> QED
    BY <2>2
<1>5. Rec(g)
  <2>1. ASSUME NEW n \in 1 .. last PROVE g[n] = next(g, n)
    <3>1. CASE n = 1
      BY <1>3, <3>1
    <3>2. CASE n \in 2 .. last
      <4>1. n # 1 /\ g[n] = TableAfter(n, g[n - 1])
        BY <1>4, <3>2
      <4> QED
        BY <4>1 DEF TableAfter
    <3> QED
      BY <3>1, <3>2
  <2>2. g = [n \in 1 .. last |-> g[n]]
    BY <1>3
  <2> HIDE DEF next
  <2> QED
    BY <2>1, <2>2
<1>6. Rec(chosen)
  <2> HIDE DEF Rec
  <2> QED
    BY <1>5
<1>7. PrimeTable = chosen[last]
  BY Zenon DEF PrimeTable
<1> HIDE DEF chosen
<1>8. \A n \in 1 .. last : chosen[n] = next(chosen, n)
  BY <1>6
<1>9. chosen[1] = <<>>
  BY <1>1, <1>8
<1> HIDE DEF Rec
<1>10. ASSUME NEW n \in 2 .. last PROVE chosen[n] = TableAfter(n, chosen[n - 1])
  <2>1. n \in 1 .. last /\ n # 1
    BY <1>1
  <2> QED
    BY <1>8, <2>1 DEF TableAfter
<1> HIDE DEF next
<1>11. Agree(g, chosen, 1, last)
  <2> DEFINE one == 1
  <2>1. \A n \in one + 1 .. last : g[n - 1] = chosen[n - 1] => g[n] = chosen[n]
    BY <1>4, <1>10
  <2>2. one \in Int /\ last \in Int /\ one <= last /\ g[one] = chosen[one]
    BY <1>1, <1>3, <1>9
  <2> HIDE DEF one, last
  <2>3. Agree(g, chosen, one, last)
    BY <2>1, <2>2, DeterminedFrom
  <2> QED
    BY <2>3 DEF one
<1>12. PrimeTable = g[last]
  <2>1. last \in 1 .. last
    BY <1>1
  <2> QED
    BY <1>7, <1>11, <2>1 DEF Agree
<1>13. IsTable(g, last)
  BY <1>3, <1>4 DEF IsTable
<1> QED
  BY <1>12, <1>13

(* The table holds the primes below the limit. *)
Holding(t, S) == t \in Seq(Nat) /\ \A m : m \in S <=> \E i \in 1 .. Len(t) : t[i] = m

LEMMA TableStep ==
  ASSUME NEW t, NEW S, Holding(t, S), NEW n \in Nat
  PROVE  Holding(Append(t, n), S \cup {n})
<1> DEFINE u == Append(t, n)
<1>1. t \in Seq(Nat) /\ \A m : m \in S <=> \E i \in 1 .. Len(t) : t[i] = m
  BY DEF Holding
<1>2. /\ u \in Seq(Nat) /\ Len(u) = Len(t) + 1 /\ Len(t) \in Nat
      /\ \A i \in 1 .. Len(t) : u[i] = t[i]
      /\ u[Len(t) + 1] = n
  BY <1>1
<1> HIDE DEF u
<1>3. ASSUME NEW m PROVE m \in S \cup {n} <=> \E i \in 1 .. Len(u) : u[i] = m
  <2>1. ASSUME m \in S PROVE \E i \in 1 .. Len(u) : u[i] = m
    <3>1. PICK i \in 1 .. Len(t) : t[i] = m
      BY <1>1, <2>1
    <3>2. i \in 1 .. Len(u) /\ u[i] = m
      BY <1>2, <3>1
    <3> QED
      BY <3>2
  <2>2. ASSUME m = n PROVE \E i \in 1 .. Len(u) : u[i] = m
    <3>1. Len(t) + 1 \in 1 .. Len(u) /\ u[Len(t) + 1] = m
      BY <1>2, <2>2
    <3> QED
      BY <3>1
  <2>3. ASSUME NEW i \in 1 .. Len(u), u[i] = m PROVE m \in S \cup {n}
    <3>1. CASE i \in 1 .. Len(t)
      BY <1>1, <1>2, <2>3, <3>1
    <3>2. CASE i = Len(t) + 1
      BY <1>2, <2>3, <3>2
    <3> QED
      BY <1>2, <3>1, <3>2
  <2> QED
    BY <2>1, <2>2, <2>3
<1>4. Holding(u, S \cup {n})
  BY <1>2, <1>3 DEF Holding
<1> QED
  BY <1>4 DEF u

LEMMA TableIsPrimes ==
  Holding(PrimeTable, SmallPrimes)
<1> DEFINE last == PrimeLimit - 1
           Found(n) == {m \in 2 .. n : m \notin Composite}
<1>1. last \in Nat /\ last >= 1 /\ PrimeLimit = last + 1
  BY SieveAssumption
<1>2. PICK g : IsTable(g, last) /\ PrimeTable = g[last]
  BY TableExtended
<1> HIDE DEF last
<1> DEFINE S == {k \in Nat : k + 1 <= last => Holding(g[k + 1], Found(k + 1))}
<1>3. 0 \in S
  <2>1. g[0 + 1] = << >> /\ Found(0 + 1) = {}
    BY <1>2 DEF IsTable
  <2>2. << >> \in Seq(Nat) /\ Len(<< >>) = 0 /\ 1 .. 0 = {}
    OBVIOUS
  <2>3. Holding(<< >>, {})
    BY <2>2 DEF Holding
  <2> QED
    BY <2>1, <2>3
<1>4. ASSUME NEW k \in S \cap Nat PROVE k + 1 \in S
  <2> SUFFICES ASSUME (k + 1) + 1 <= last PROVE Holding(g[(k + 1) + 1], Found((k + 1) + 1))
    OBVIOUS
  <2> DEFINE n == (k + 1) + 1
             m == k + 1
  <2>1. n \in 2 .. last /\ n - 1 = m /\ n \in Nat /\ m \in Nat /\ n = m + 1 /\ m >= 1
    BY <1>1
  <2>2. Holding(g[m], Found(m))
    <3>1. k \in S /\ k + 1 <= last
      BY <1>1, <1>4
    <3> HIDE DEF Found
    <3> QED
      BY <3>1
  <2> HIDE DEF n, m
  <2>3. g[n] = TableAfter(n, g[m])
    BY <1>2, <2>1 DEF IsTable
  <2>4. CASE n \in Composite
    <3>1. Found(n) = Found(m)
      BY <2>1, <2>4
    <3>2. g[n] = g[m]
      BY <2>3, <2>4 DEF TableAfter
    <3> HIDE DEF Found
    <3> QED
      BY <2>2, <3>1, <3>2 DEF n
  <2>5. CASE n \notin Composite
    <3>1. Found(n) = Found(m) \cup {n}
      BY <2>1, <2>5
    <3>2. g[n] = Append(g[m], n)
      BY <2>3, <2>5 DEF TableAfter
    <3> HIDE DEF Found
    <3>3. Holding(Append(g[m], n), Found(m) \cup {n})
      BY <2>1, <2>2, TableStep
    <3> QED
      BY <3>1, <3>2, <3>3 DEF n
  <2> QED
    BY <2>4, <2>5
<1>5. Nat \subseteq S
  <2> HIDE DEF S
  <2> QED
    BY <1>3, <1>4, SetInduction
<1>6. Holding(g[last], Found(last))
  <2>1. last - 1 \in Nat /\ (last - 1) + 1 = last /\ last <= last
    BY <1>1
  <2> HIDE DEF Found
  <2>2. Holding(g[(last - 1) + 1], Found((last - 1) + 1))
    BY <1>5, <2>1
  <2> QED
    BY <2>1, <2>2
<1>7. Found(last) = SmallPrimes
  <2>1. ASSUME NEW m \in 2 .. last PROVE m \notin Composite <=> IsPrime(m)
    <3>1. m \in 2 .. PrimeLimit - 1
      BY <1>1
    <3> QED
      BY <3>1, CompositeIs
  <2>2. \A m : IsPrime(m) => m >= 2
    BY DEF IsPrime
  <2>3. SmallPrimes = {m \in 1 .. last : IsPrime(m)}
    <3>1. PrimeLimit - 1 = last
      BY <1>1
    <3> QED
      BY <3>1 DEF SmallPrimes
  <2>4. ASSUME NEW m PROVE m \in SmallPrimes <=> m \in Found(last)
    <3>1. m \in 2 .. last => m \in 1 .. last
      BY <1>1
    <3>2. m \in 1 .. last /\ m >= 2 => m \in 2 .. last
      BY <1>1
    <3> QED
      BY <2>1, <2>2, <2>3, <3>1, <3>2
  <2> HIDE DEF Found
  <2> QED
    BY <2>4
<1> HIDE DEF Found
<1> QED
  BY <1>2, <1>6, <1>7

-----------------------------------------------------------------------------
(* Sieving *)

(* A remainder may be taken before an addition. *)
LEMMA RemainderPlus ==
  ASSUME NEW x \in Nat, NEW p \in Nat \ {0}, NEW k \in Nat
  PROVE  ((x % p) + k) % p = (x + k) % p
<1> DEFINE d == x \div p
           m == x % p
           e == (m + k) \div p
           r == (m + k) % p
<1>1. d \in Nat /\ m \in Nat /\ x = p * d + m
  BY Division
<1> HIDE DEF d, m
<1>2. m + k \in Nat
  BY <1>1
<1>3. e \in Nat /\ r \in 0 .. p - 1 /\ m + k = p * e + r
  BY <1>2, Division
<1> HIDE DEF e, r
<1>4. x + k = p * (d + e) + r
  <2>1. p * (d + e) = p * d + p * e
    BY <1>1, <1>3
  <2>2. p * d \in Nat /\ p * e \in Nat
    BY <1>1, <1>3
  <2> QED
    BY <1>1, <1>3, <2>1, <2>2
<1>5. (x + k) % p = r
  <2> DEFINE y == x + k
             q == d + e
  <2>1. y \in Nat /\ q \in Nat /\ y = p * q + r
    BY <1>1, <1>3, <1>4
  <2> HIDE DEF y, q
  <2>2. y % p = r
    BY <1>3, <2>1, DivisionIs
  <2> QED
    BY <2>2 DEF y
<1> QED
  BY <1>5 DEF m, r

(* Adding a multiple leaves the remainder. *)
LEMMA MultipleAdded ==
  ASSUME NEW x \in Nat, NEW p \in Nat \ {0}, NEW k \in Nat
  PROVE  (x + p * k) % p = x % p
<1> DEFINE d == x \div p
           m == x % p
           y == x + p * k
           q == d + k
<1>1. d \in Nat /\ m \in 0 .. p - 1 /\ x = p * d + m
  BY Division
<1> HIDE DEF d, m
<1>2. p * (d + k) = p * d + p * k /\ p * k \in Nat
  BY <1>1
<1>3. y \in Nat /\ q \in Nat /\ y = p * q + m
  BY <1>1, <1>2
<1> HIDE DEF y, q
<1>4. y % p = m
  BY <1>1, <1>3, DivisionIs
<1> QED
  BY <1>4 DEF y, m

MakesUp(i, a, p, c, v) ==
  i % p = (((p - (a % p)) % p) * v) % p <=> (a + c * i) % p = 0

(* The first marked position is the one that makes up for the remainder. *)
LEMMA MarkedDivides ==
  ASSUME NEW a \in Nat, NEW p \in Nat \ {0}, NEW c \in Nat, NEW v \in Nat,
         (c * v) % p = 1, NEW i \in Nat
  PROVE  MakesUp(i, a, p, c, v)
<1> DEFINE r  == a % p
           pa == p - r
           w  == pa % p
           f  == (w * v) % p
           n  == a + c * i
           x  == c * i
           y  == c * v
<1>1. r \in Nat /\ r < p /\ pa \in Nat /\ r + pa = p
  BY Division
<1>2. w \in Nat /\ w < p /\ y \in Nat /\ x \in Nat /\ n \in Nat /\ n = a + x
  BY <1>1, Division
<1>3. f \in 0 .. p - 1 /\ w * v \in Nat
  <2>1. w * v \in Nat
    BY <1>2
  <2> HIDE DEF w
  <2> QED
    BY <2>1, Division
<1>4. y % p = 1
  OBVIOUS
<1> HIDE DEF r, pa, w, f, n, x, y
<1>5. n % p = (r + x) % p
  BY <1>1, <1>2, RemainderPlus DEF r
<1>6. (r + w) % p = 0
  <2>1. (w + r) % p = (pa + r) % p
    BY <1>1, RemainderPlus, ZenonT(60) DEF w
  <2>2. pa + r = 0 + p * 1
    BY <1>1
  <2>3. (0 + p * 1) % p = 0 % p
    BY MultipleAdded
  <2>4. 0 % p = 0
    OBVIOUS
  <2>5. w + r = r + w
    BY <1>1, <1>2
  <2> QED
    BY <2>1, <2>2, <2>3, <2>4, <2>5
(* The multiples of the inverse: c * (w * v) = w modulo p. *)
<1>7. (c * f) % p = w
  <2> DEFINE z == w * v
  <2>1. z \in Nat
    BY <1>3
  <2>2. f = z % p
    BY DEF f
  <2> HIDE DEF z
  <2>3. (f * c) % p = (z * c) % p
    BY <2>1, <2>2, RemainderTimes
  <2>4. z * c = y * w
    BY <1>2 DEF z, y
  <2>5. ((y % p) * w) % p = (y * w) % p
    <3>1. y \in Nat /\ w \in Nat
      BY <1>2
    <3> QED
      BY <3>1, RemainderTimes, Zenon
  <2>6. (1 * w) % p = w
    <3>1. 1 * w = p * 0 + w /\ w \in 0 .. p - 1
      BY <1>2
    <3>2. w % p = w
      BY <1>2
    <3> QED
      BY <3>1, <3>2
  <2>7. f * c = c * f
    BY <1>3
  <2> QED
    BY <1>4, <2>3, <2>4, <2>5, <2>6, <2>7
<1>8. ASSUME i % p = f PROVE n % p = 0
  <2>1. (i * c) % p = (f * c) % p
    BY <1>8, RemainderTimes
  <2>2. i * c = x /\ f * c = c * f
    BY <1>3 DEF x
  <2>3. x % p = w
    BY <1>7, <2>1, <2>2
  <2>4. (w + r) % p = (x + r) % p
    <3>1. ((x % p) + r) % p = (x + r) % p
      <4>1. x \in Nat /\ r \in Nat
        BY <1>1, <1>2
      <4> QED
        BY <4>1, RemainderPlus, ZenonT(60)
    <3> QED
      BY <2>3, <3>1
  <2>5. w + r = r + w /\ x + r = r + x
    BY <1>1, <1>2
  <2> QED
    BY <1>5, <1>6, <2>4, <2>5
<1>9. ASSUME n % p = 0 PROVE i % p = f
  <2>1. x % p = w
    <3>1. (r + x) % p = 0
      BY <1>5, <1>9
    <3>2. (((r + x) % p) + pa) % p = ((r + x) + pa) % p
      <4> DEFINE s == r + x
      <4>1. s \in Nat
        BY <1>1, <1>2
      <4> HIDE DEF s
      <4>2. ((s % p) + pa) % p = (s + pa) % p
        BY <1>1, <4>1, RemainderPlus
      <4> QED
        BY <4>2 DEF s
    <3>3. (r + x) + pa = x + p * 1 /\ 0 + pa = pa
      BY <1>1, <1>2
    <3>4. (x + p * 1) % p = x % p
      BY <1>2, MultipleAdded
    <3> QED
      BY <3>1, <3>2, <3>3, <3>4 DEF w
  <2>2. (w * v) % p = (x * v) % p
    <3>1. ((x % p) * v) % p = (x * v) % p
      <4>1. x \in Nat /\ v \in Nat
        BY <1>2
      <4> QED
        BY <4>1, RemainderTimes, Zenon
    <3> QED
      BY <2>1, <3>1, Zenon
  <2>3. x * v = y * i
    <3>1. (c * i) * v = (c * v) * i
      <4>1. (c * i) * v = c * (i * v) /\ (c * v) * i = c * (v * i) /\ i * v = v * i
        OBVIOUS
      <4> QED
        BY <4>1
    <3> QED
      BY <3>1, Zenon DEF x, y
  <2>4. (y * i) % p = ((y % p) * i) % p
    <3>1. y \in Nat
      BY <1>2
    <3> QED
      BY <3>1, RemainderTimes
  <2>5. 1 * i = i
    OBVIOUS
  <2> QED
    BY <1>4, <2>2, <2>3, <2>4, <2>5 DEF f
<1>10. i % p = f <=> n % p = 0
  BY <1>8, <1>9
<1> QED
  BY <1>10 DEF MakesUp, f, w, pa, r, n

LEMMA SieveConstants ==
  /\ Skipped \in Nat /\ Primorial \in Nat /\ Primorial > 0
  /\ \A bias \in Bias : bias \in Nat
  /\ StartResidue \in Nat
BY SieveAssumption DEF Bias, StartResidue

LEMMA TableEntry ==
  ASSUME NEW n \in 1 .. Len(PrimeTable)
  PROVE  PrimeTable[n] \in SmallPrimes /\ PrimeTable[n] \in Nat /\ PrimeTable[n] >= 2
<1>1. PrimeTable[n] \in SmallPrimes
  BY TableIsPrimes DEF Holding
<1>2. \A m \in SmallPrimes : m \in Nat /\ m >= 2
  BY SieveAssumption DEF SmallPrimes, IsPrime
<1> QED
  BY <1>1, <1>2

(* The first number of position 0 is StartResidue modulo Primorial. *)
LEMMA OffsetIs ==
  ASSUME NEW target \in Nat
  PROVE  /\ Offset(target) \in Nat
         /\ \E k \in Nat : target + Offset(target) = StartResidue + Primorial * k
<1> DEFINE q == target \div Primorial
           r == target % Primorial
           w == (Primorial - r) % Primorial
<1>1. Primorial \in Nat \ {0} /\ Primorial > 0 /\ StartResidue \in Nat
  BY SieveConstants
<1>2. q \in Nat /\ r \in 0 .. Primorial - 1 /\ target = Primorial * q + r
  BY <1>1, Division
<1>3. w = IF r = 0 THEN 0 ELSE Primorial - r
  <2> HIDE DEF r
  <2>1. CASE r = 0
    <3>1. Primorial - r = 0 + Primorial * 1
      BY <1>1, <2>1
    <3>2. (0 + Primorial * 1) % Primorial = 0 % Primorial
      BY <1>1, MultipleAdded
    <3>3. 0 % Primorial = 0
      BY <1>1
    <3> QED
      BY <2>1, <3>1, <3>2, <3>3
  <2>2. CASE r # 0
    <3>1. Primorial - r \in Nat /\ Primorial - r < Primorial
      BY <1>1, <1>2, <2>2
    <3>2. (Primorial - r) % Primorial = Primorial - r
      BY <1>1, <3>1
    <3> QED
      BY <2>2, <3>2
  <2> QED
    BY <2>1, <2>2
<1>4. Offset(target) = w + StartResidue
  BY DEF Offset
<1> HIDE DEF q, r, w
<1>5. w \in Nat
  BY <1>1, <1>2, <1>3
<1>6. \E k \in Nat : target + w = Primorial * k
  <2>1. CASE r = 0
    BY <1>1, <1>2, <1>3, <2>1
  <2>2. CASE r # 0
    <3>1. Primorial * (q + 1) = Primorial * q + Primorial /\ Primorial * q \in Nat
      BY <1>1, <1>2
    <3>2. target + w = Primorial * (q + 1) /\ q + 1 \in Nat
      BY <1>1, <1>2, <1>3, <2>2, <3>1
    <3> QED
      BY <3>2
  <2> QED
    BY <2>1, <2>2
<1>7. PICK k \in Nat : target + w = Primorial * k
  BY <1>6
<1>8. Primorial * k \in Nat
  BY <1>1
<1>9. target + Offset(target) = StartResidue + Primorial * k
  BY <1>1, <1>4, <1>5, <1>7, <1>8
<1> QED
  BY <1>1, <1>4, <1>5, <1>9

(* A skipped prime divides none of the numbers. *)
LEMMA SkippedDivideNone ==
  ASSUME NEW target \in Nat, NEW n \in 1 .. Len(PrimeTable), n <= Skipped,
         NEW i \in Nat, NEW bias \in Bias
  PROVE  (target + Offset(target) + Primorial * i + bias) % PrimeTable[n] # 0
<1> DEFINE p == PrimeTable[n]
           number == target + Offset(target) + Primorial * i + bias
           first == StartResidue + bias
<1>1. p \in Nat /\ p >= 2 /\ p > 0 /\ p \in Nat \ {0}
  BY TableEntry
<1>2. Primorial % p = 0 /\ first % p # 0
  BY PrimorialAssumption
<1>3. Primorial \in Nat /\ bias \in Nat /\ StartResidue \in Nat /\ first \in Nat
  BY SieveConstants
<1> HIDE DEF p, first
<1>4. PICK k \in Nat : target + Offset(target) = StartResidue + Primorial * k
  BY OffsetIs
<1>5. PICK j \in Nat : Primorial = p * j
  <2>1. \E j \in Nat : Primorial = p * j
    BY <1>1, <1>2, <1>3, MultipleIs
  <2> QED
    BY <2>1
<1>6. number = first + p * (j * (k + i))
  <2>1. number = StartResidue + Primorial * k + Primorial * i + bias
    BY <1>4
  <2>2. Primorial * k + Primorial * i = Primorial * (k + i)
    BY <1>3
  <2>3. Primorial * (k + i) = p * (j * (k + i))
    <3>1. (p * j) * (k + i) = p * (j * (k + i))
      BY <1>1
    <3> QED
      BY <1>5, <3>1
  <2>4. Primorial * k \in Nat /\ Primorial * i \in Nat
    BY <1>3
  <2>5. number = (StartResidue + bias) + (Primorial * k + Primorial * i)
    BY <1>3, <2>1, <2>4
  <2> QED
    BY <2>2, <2>3, <2>5 DEF first
<1>7. number % p = first % p
  <2> DEFINE m == j * (k + i)
  <2>1. m \in Nat
    OBVIOUS
  <2> HIDE DEF m
  <2>2. (first + p * m) % p = first % p
    BY <1>1, <1>3, <2>1, MultipleAdded
  <2> HIDE DEF number
  <2> QED
    BY <1>6, <2>2 DEF m
<1> QED
  BY <1>2, <1>7 DEF p, number

(* Another one divides the numbers of the positions it marks. *)
LEMMA MarkedByPrime ==
  ASSUME NEW target \in Nat, NEW n \in 1 .. Len(PrimeTable), n > Skipped,
         NEW i \in Nat, NEW bias \in Bias
  PROVE  LET number == target + Offset(target)
             p == PrimeTable[n]
         IN i % p = FirstMarked(number, bias, p)
              <=> (number + Primorial * i + bias) % p = 0
<1> DEFINE number == target + Offset(target)
           p == PrimeTable[n]
           v == InverseOf(p)
           a == number + bias
           remainder == ((number % p) + bias) % p
           pa == IF p < remainder THEN p - remainder + p ELSE p - remainder
<1>1. p \in Nat /\ p >= 2 /\ p \in Nat \ {0}
  BY TableEntry
<1>2. v \in 1 .. p - 1 /\ (Primorial * v) % p = 1
  <2>1. ~(n <= Skipped)
    BY SieveConstants
  <2>2. \E x \in 1 .. p - 1 : (Primorial * x) % p = 1
    BY <2>1, PrimorialAssumption
  <2> HIDE DEF p
  <2> QED
    BY <2>2 DEF InverseOf
<1>3. Primorial \in Nat /\ bias \in Nat
  BY SieveConstants
<1>4. number \in Nat
  <2>1. Offset(target) \in Nat
    BY OffsetIs
  <2> QED
    BY <2>1
<1>5. FirstMarked(number, bias, p) = ((pa % p) * v) % p
  BY DEF FirstMarked
<1> HIDE DEF p, v, number
<1>6. a \in Nat /\ v \in Nat
  BY <1>1, <1>2, <1>3, <1>4
<1>7. remainder = a % p
  BY <1>1, <1>3, <1>4, RemainderPlus
<1> HIDE DEF a, remainder
<1>8. a % p \in Nat /\ a % p < p
  <2>1. a % p \in 0 .. p - 1
    BY <1>1, <1>6, Division
  <2> QED
    BY <1>1, <2>1
<1>9. pa = p - (a % p)
  BY <1>1, <1>7, <1>8
<1> HIDE DEF pa
<1>10. i % p = (((p - (a % p)) % p) * v) % p <=> (a + Primorial * i) % p = 0
  <2>1. (Primorial * v) % p = 1 /\ a \in Nat /\ v \in Nat /\ p \in Nat \ {0}
    BY <1>1, <1>2, <1>6
  <2>2. Primorial \in Nat
    BY <1>3
  <2>3. MakesUp(i, a, p, Primorial, v)
    BY <2>1, <2>2, MarkedDivides
  <2> QED
    BY <2>3 DEF MakesUp
<1>11. a + Primorial * i = number + Primorial * i + bias
  <2>1. Primorial * i \in Nat
    BY <1>3
  <2> QED
    BY <1>3, <1>4, <2>1 DEF a
<1>12. i % p = FirstMarked(number, bias, p) <=> (number + Primorial * i + bias) % p = 0
  BY <1>5, <1>9, <1>10, <1>11
<1> QED
  BY <1>12 DEF p, number

LEMMA CandidatesAre ==
  ASSUME NEW target \in Nat, NEW i \in 1 .. SieveSize - 1
  PROVE  i \in Candidates(target) <=>
           \A n \in Skipped + 1 .. Len(PrimeTable), bias \in Bias :
             i % PrimeTable[n] # FirstMarked(target + Offset(target), bias, PrimeTable[n])
<1>1. i \in 0 .. SieveSize - 1
  BY SieveAssumption
<1> DEFINE Hit(n, bias) ==
      i % PrimeTable[n] = FirstMarked(target + Offset(target), bias, PrimeTable[n])
<1>2. i \in Marked(target) <=>
        \E n \in Skipped + 1 .. Len(PrimeTable), bias \in Bias : Hit(n, bias)
  <2> DEFINE hits(n, bias) == {j \in 0 .. SieveSize - 1 :
        j % PrimeTable[n] = FirstMarked(target + Offset(target), bias, PrimeTable[n])}
  <2>1. Marked(target) = UNION {hits(n, bias) : n \in Skipped + 1 .. Len(PrimeTable),
                                               bias \in Bias}
    BY DEF Marked
  <2>2. \A n, bias : i \in hits(n, bias) <=> Hit(n, bias)
    BY <1>1, Zenon
  <2> HIDE DEF hits, Hit
  <2> QED
    BY <2>1, <2>2
<1> HIDE DEF Hit
<1>3. i \in Candidates(target) <=> i \notin Marked(target)
  BY DEF Candidates
<1>4. i \in Candidates(target) <=>
        \A n \in Skipped + 1 .. Len(PrimeTable), bias \in Bias : ~Hit(n, bias)
  BY <1>2, <1>3
<1> QED
  BY <1>4 DEF Hit

LEMMA SieveFinds ==
  ASSUME NEW target \in Nat, NEW i \in 1 .. SieveSize - 1
  PROVE  i \in Candidates(target) <=>
           \A number \in Sextuple(target, i), p \in SmallPrimes : number % p # 0
<1> DEFINE Member(bias) == target + Offset(target) + Primorial * i + bias
           Hit(n, bias) ==
             i % PrimeTable[n] = FirstMarked(target + Offset(target), bias, PrimeTable[n])
<1>1. i \in Nat /\ Skipped \in Nat /\ Len(PrimeTable) \in Nat
  BY SieveConstants, TableIsPrimes DEF Holding
<1>2. \A p : p \in SmallPrimes <=> \E n \in 1 .. Len(PrimeTable) : PrimeTable[n] = p
  BY TableIsPrimes DEF Holding
<1>3. ASSUME NEW n \in 1 .. Len(PrimeTable), NEW bias \in Bias, n <= Skipped
      PROVE  Member(bias) % PrimeTable[n] # 0
  BY <1>1, <1>3, SkippedDivideNone
<1>4. ASSUME NEW n \in Skipped + 1 .. Len(PrimeTable), NEW bias \in Bias
      PROVE  Hit(n, bias) <=> Member(bias) % PrimeTable[n] = 0
  <2>1. n \in 1 .. Len(PrimeTable) /\ n > Skipped
    BY <1>1
  <2> QED
    BY <1>1, <2>1, MarkedByPrime
<1>5. i \in Candidates(target) <=>
        \A n \in Skipped + 1 .. Len(PrimeTable), bias \in Bias : ~Hit(n, bias)
  BY CandidatesAre
<1>6. Sextuple(target, i) = {Member(bias) : bias \in Bias}
  BY DEF Sextuple
<1> HIDE DEF Member, Hit
<1>7. ASSUME i \in Candidates(target), NEW number \in Sextuple(target, i), NEW p \in SmallPrimes
      PROVE  number % p # 0
  <2>1. PICK bias \in Bias : number = Member(bias)
    BY <1>6
  <2>2. PICK n \in 1 .. Len(PrimeTable) : PrimeTable[n] = p
    BY <1>2
  <2>3. CASE n <= Skipped
    BY <1>3, <2>1, <2>2, <2>3
  <2>4. CASE n \in Skipped + 1 .. Len(PrimeTable)
    BY <1>4, <1>5, <1>7, <2>1, <2>2, <2>4
  <2> QED
    BY <1>1, <2>3, <2>4
<1>8. ASSUME \A number \in Sextuple(target, i), p \in SmallPrimes : number % p # 0,
             NEW n \in Skipped + 1 .. Len(PrimeTable), NEW bias \in Bias
      PROVE  ~Hit(n, bias)
  <2>1. n \in 1 .. Len(PrimeTable)
    BY <1>1
  <2>2. PrimeTable[n] \in SmallPrimes /\ Member(bias) \in Sextuple(target, i)
    BY <1>2, <1>6, <2>1
  <2> QED
    BY <1>4, <1>8, <2>2
<1> QED
  BY <1>5, <1>7, <1>8

(* Every candidate of the sieve is a position whose six numbers no prime   *)
(* below the limit divides, and every such position but 0 is a candidate:  *)
(* riecoin_process skips the primes of the primorial and still loses and   *)
(* keeps none wrongly.                                                     *)
THEOREM SievesAreExact == Spec => []SieveIsExact
<1>1. ASSUME input \in Inputs PROVE SieveIsExact
  <2> SUFFICES ASSUME Is("sieve") PROVE SieveIsExact
    BY DEF SieveIsExact
  <2> DEFINE target == input.value
  <2>1. target \in Nat
    BY <1>1, InputOfKind, InputAssumption
  <2> HIDE DEF target
  <2>2. \A i \in Candidates(target) : i \in 1 .. SieveSize - 1
    BY DEF Candidates
  <2>3. \A i \in 1 .. SieveSize - 1 :
          i \in Candidates(target) <=>
            \A number \in Sextuple(target, i), p \in SmallPrimes : number % p # 0
    BY <2>1, SieveFinds
  <2>4. Candidates(target) =
          {i \in 1 .. SieveSize - 1 :
             \A number \in Sextuple(target, i), p \in SmallPrimes : number % p # 0}
    BY <2>2, <2>3, Zenon
  <2> QED
    BY <2>4 DEF SieveIsExact, target
<1> QED
  BY <1>1, AlwaysAnInput, PTL

-----------------------------------------------------------------------------
(* Packets of the client *)

LEMMA BytesType ==
  ASSUME NEW m \in Nat, NEW a \in [1 .. m -> WordValues], NEW L \in Nat, L <= m * WordBytes
  PROVE  Bytes(a, L) \in [1 .. L -> 0 .. AddrBase - 1]
<1> DEFINE bytes == Bytes(a, L)
<1>1. AddrBase \in Nat \ {0} /\ WordBytes \in Nat \ {0}
  BY WordIs
<1>2. ASSUME NEW k \in 1 .. L PROVE bytes[k] \in 0 .. AddrBase - 1
  <2> DEFINE i == L - k
             q == i \div WordBytes
             r == i % WordBytes
             d == a[q + 1]
             P == Power(AddrBase, r)
             x == d \div P
  <2>1. i \in Nat /\ i < L
    OBVIOUS
  <2>2. bytes[k] = x % AddrBase
    BY DEF Bytes
  <2> HIDE DEF i, bytes
  <2>3. q \in Nat /\ r \in 0 .. WordBytes - 1 /\ i = WordBytes * q + r
    BY <1>1, <2>1, Division
  <2> HIDE DEF q, r
  <2>4. q + 1 \in 1 .. m
    <3> SUFFICES ASSUME q >= m PROVE FALSE
      BY <2>3
    <3>1. m * WordBytes <= q * WordBytes
      BY <1>1, <2>3, Products
    <3> DEFINE y == m * WordBytes
               z == WordBytes * q
    <3>2. y <= z /\ y \in Nat /\ z \in Nat /\ i = z + r /\ L <= y
      BY <1>1, <2>3, <3>1
    <3> HIDE DEF y, z
    <3> QED
      BY <2>1, <2>3, <3>2
  <2>5. d \in Nat
    <3>1. d \in WordValues
      BY <2>4
    <3> QED
      BY <3>1, WordIs DEF WordValues
  <2>6. r \in Nat
    <3>1. r \in 0 .. WordBytes - 1
      BY <2>3
    <3> QED
      BY <1>1, <3>1
  <2>7. P \in Nat \ {0}
    <3>1. Power(AddrBase, r) \in Nat /\ Power(AddrBase, r) > 0
      BY <2>6, ByteNat, Zenon
    <3> HIDE DEF d
    <3>2. P \in Nat /\ P > 0
      BY <3>1, Zenon
    <3> HIDE DEF P
    <3> QED
      BY <3>2
  <2> HIDE DEF d, P
  <2>8. x \in Nat
    BY <2>5, <2>7, Division
  <2> HIDE DEF x
  <2>9. x % AddrBase \in 0 .. AddrBase - 1
    BY <1>1, <2>8, Division
  <2> QED
    BY <2>2, <2>9
<1>3. bytes = [k \in 1 .. L |-> bytes[k]]
  BY DEF Bytes
<1> HIDE DEF bytes
<1>4. bytes \in [1 .. L -> 0 .. AddrBase - 1]
  BY <1>2, <1>3
<1> QED
  BY <1>4 DEF bytes

LEMMA DecodedType ==
  ASSUME NEW chars \in Seq(Characters), DecodeBase58(chars).ok
  PROVE  DecodeBase58(chars).bytes \in Seq(Byte)
<1> DEFINE n == Len(chars)
           a == Converted(chars)
           L == OutputLength(n)
           bytes == Bytes(a, L)
<1>1. n \in Nat /\ chars \in [1 .. n -> Characters]
  BY LenProperties
<1>2. ~(chars = <<>> \/ n > MaxInput \/ Contains(chars, NoDigit))
  BY DEF DecodeBase58, Undecodable
<1>3. DecodeBase58(chars).bytes = bytes
  <2> HIDE DEF bytes
  <2>1. DecodeBase58(chars) = [ok |-> TRUE, bytes |-> bytes]
    BY <1>2 DEF DecodeBase58, bytes
  <2> QED
    BY <2>1
<1>4. n # 0
  BY <1>2, EmptySeq
<1>5. chars \in [1 .. n -> 0 .. DigitBase - 1]
  <2>1. \A i \in 1 .. n : chars[i] # NoDigit
    BY <1>2 DEF Contains
  <2>2. \A i \in 1 .. n : chars[i] \in 0 .. DigitBase - 1
    BY <1>1, <2>1 DEF Characters
  <2> HIDE DEF n
  <2> QED
    BY <1>1, <2>2
<1> HIDE DEF n, L
<1>6. PICK m : IsTrack(Track(n), m, n) /\ IsLength(L, n, m)
  BY <1>1, <1>4, OutputLengthIs DEF L
<1>7. m \in Nat /\ Len(Track(n)) = m
  <2> DEFINE track == Track(n)
  <2>1. m \in Nat /\ track \in [1 .. m -> WordValues]
    <3> HIDE DEF track
    <3> QED
      BY <1>6 DEF IsTrack, track
  <2> HIDE DEF track
  <2>2. Len(track) = m
    BY <2>1, FunctionIsSequence
  <2> QED
    BY <2>1, <2>2 DEF track
<1>8. PICK u : IsNumeral(u, chars, DigitBase, n)
  <2>1. DigitBase \in Nat /\ chars \in [1 .. n -> Nat]
    BY <1>5, WordIs
  <2> QED
    BY <1>1, <2>1, NumeralExists
<1>9. HoldsValue(a, m, u[n])
  BY <1>1, <1>4, <1>5, <1>7, <1>8, ConvertedIs
<1>10. PICK k \in Nat : k >= m /\ a \in [1 .. k -> WordValues]
  <2> HIDE DEF a
  <2> QED
    BY <1>9 DEF HoldsValue
<1> HIDE DEF a
<1>11. L \in Nat /\ L <= k * WordBytes
  <2>1. L \in Nat /\ L <= m * WordBytes
    BY <1>6 DEF IsLength
  <2>2. WordBytes \in Nat
    BY WordIs
  <2>3. m * WordBytes <= k * WordBytes
    BY <1>7, <1>10, <2>2, Products
  <2> DEFINE x == m * WordBytes
             y == k * WordBytes
  <2>4. x <= y /\ L <= x /\ x \in Nat /\ y \in Nat
    BY <1>7, <1>10, <2>1, <2>2, <2>3
  <2> HIDE DEF x, y
  <2>5. L <= y
    BY <2>1, <2>4
  <2> QED
    BY <2>1, <2>5 DEF y
<1>12. bytes \in [1 .. L -> 0 .. AddrBase - 1]
  BY <1>10, <1>11, BytesType
<1>13. 0 .. AddrBase - 1 = Byte
  BY InputAssumption DEF Byte
<1> HIDE DEF bytes
<1>14. bytes \in Seq(Byte)
  BY <1>11, <1>12, <1>13, FunctionIsSequence
<1> QED
  BY <1>3, <1>14

(* The key of a valid address. *)
KeyOf(decoded) == SubSeq(decoded.bytes, 2, RawLength - CheckLength)

LEMMA KeyType ==
  ASSUME NEW address \in Seq(Characters), ValidAddress(DecodeBase58(address))
  PROVE  KeyOf(DecodeBase58(address)) \in [1 .. KeySize -> Byte] /\ KeySize \in Nat
<1> DEFINE decoded == DecodeBase58(address)
           bytes == decoded.bytes
           one == 1
           n == (RawLength - CheckLength) - 1
<1>1. decoded.ok /\ Len(bytes) = RawLength
  <2>1. ValidAddress(decoded)
    OBVIOUS
  <2> HIDE DEF decoded
  <2> QED
    BY <2>1 DEF ValidAddress
<1>2. bytes \in Seq(Byte)
  BY <1>1, DecodedType
<1> HIDE DEF bytes, decoded
<1>3. RawLength \in Nat /\ n \in Nat /\ one \in Nat /\ one + n <= RawLength
  BY AddressAssumption
<1>4. bytes \in [1 .. RawLength -> Byte]
  BY <1>1, <1>2, <1>3, FunctionIsSequence
<1>5. one + 1 = 2 /\ one + n = RawLength - CheckLength /\ n = KeySize
  BY AddressAssumption, InputAssumption
<1> HIDE DEF one, n
<1>6. SubSeq(bytes, one + 1, one + n) \in [1 .. n -> Byte]
  BY <1>3, <1>4, Slice, SMTT(30)
<1> QED
  BY <1>3, <1>5, <1>6 DEF KeyOf, bytes, decoded

Fee == [pubKeyHash : [1 .. KeySize -> Byte], devFee : 0 .. MaxU16]

FeeItem == [address : Seq(Characters), fee : 0 .. MaxU16]

(* What one entry of the list adds to the fees. *)
FeeOf(item) == [pubKeyHash |-> KeyOf(DecodeBase58(item.address)), devFee |-> item.fee]
Added(fees, item) ==
  IF ValidAddress(DecodeBase58(item.address)) /\ Len(fees) < MaxFees
  THEN Append(fees, FeeOf(item)) ELSE fees

LEMMA AddedIs ==
  ASSUME NEW fees, NEW item
  PROVE  AddFee(fees, item.address, item.fee) = Added(fees, item)
BY DEF AddFee, Added, FeeOf, KeyOf

LEMMA AddedType ==
  ASSUME NEW fees \in Seq(Fee), NEW item \in FeeItem
  PROVE  /\ Added(fees, item) \in Seq(Fee)
         /\ ValidAddress(DecodeBase58(item.address)) => FeeOf(item) \in Fee
<1>1. item.address \in Seq(Characters) /\ item.fee \in 0 .. MaxU16
  BY DEF FeeItem
<1>2. ASSUME ValidAddress(DecodeBase58(item.address)) PROVE FeeOf(item) \in Fee
  <2> DEFINE key == KeyOf(DecodeBase58(item.address))
  <2>1. key \in [1 .. KeySize -> Byte]
    BY <1>1, <1>2, KeyType
  <2> HIDE DEF key
  <2>2. [pubKeyHash |-> key, devFee |-> item.fee] \in Fee
    BY <1>1, <2>1 DEF Fee
  <2> QED
    BY <2>2 DEF FeeOf, key
<1>3. ASSUME ValidAddress(DecodeBase58(item.address)) PROVE Append(fees, FeeOf(item)) \in Seq(Fee)
  <2>1. FeeOf(item) \in Fee
    BY <1>2, <1>3
  <2> QED
    BY <2>1, AppendProperties
<1>4. Added(fees, item) \in Seq(Fee)
  BY <1>3 DEF Added
<1> QED
  BY <1>2, <1>4

LEMMA LoginFees ==
  ASSUME NEW login \in Logins
  PROVE  Len(login.fees) \in Nat /\ \A i \in 1 .. Len(login.fees) : login.fees[i] \in FeeItem
<1> DEFINE fees == login.fees
<1>1. fees \in Seq(FeeItem)
  BY InputAssumption DEF FeeItem
<1> HIDE DEF fees
<1>2. Len(fees) \in Nat /\ \A i \in 1 .. Len(fees) : fees[i] \in FeeItem
  BY <1>1, LenProperties, ElementOfSeq
<1> QED
  BY <1>2 DEF fees

(* The list of fees as it grows. *)
LEMMA FeesSteps ==
  ASSUME NEW login \in Logins
  PROVE  \E added : /\ added[0] = <<>> /\ Fees(login) = added[Len(login.fees)]
                    /\ \A i \in 1 .. Len(login.fees) : added[i] = Added(added[i - 1], login.fees[i])
                    /\ \A i \in 0 .. Len(login.fees) : added[i] \in Seq(Fee)
<1> DEFINE n == Len(login.fees)
           T == Seq(Fee)
           item(i) == login.fees[i]
           step == [i \in 1 .. n |-> [x \in T |-> Added(x, item(i))]]
           base == <<>>
           next(g, i) == IF i = 0 THEN <<>>
                         ELSE AddFee(g[i - 1], login.fees[i].address, login.fees[i].fee)
           Rec(g) == g = [i \in 0 .. Len(login.fees) |->
                            IF i = 0 THEN <<>>
                            ELSE AddFee(g[i - 1], login.fees[i].address, login.fees[i].fee)]
<1>1. n \in Nat /\ \A i \in 1 .. n : item(i) \in FeeItem
  BY LoginFees
<1>2. step \in Steps(n, T) /\ base \in T
  <2>1. \A i \in 1 .. n : \A x \in T : Added(x, item(i)) \in T
    <3> HIDE DEF n, item
    <3> QED
      BY <1>1, AddedType
  <2>2. base \in T
    OBVIOUS
  <2> HIDE DEF T, n, item, base
  <2> QED
    BY <2>1, <2>2 DEF Steps
<1>3. PICK g \in [0 .. n -> T] :
        g[0] = base /\ \A i \in 1 .. n : g[i] = step[i][g[i - 1]]
  <2> HIDE DEF step, T, n, base
  <2> QED
    BY <1>1, <1>2, Iteration, Z3T(30)
<1>4. \A f, i : next(f, i) = IF i = 0 THEN <<>> ELSE Added(f[i - 1], item(i))
  BY AddedIs
<1>5. Rec(g)
  <2>1. ASSUME NEW i \in 0 .. n PROVE g[i] = next(g, i)
    <3>1. CASE i = 0
      BY <1>3, <3>1
    <3>2. CASE i # 0
      <4>1. i \in 1 .. n /\ i - 1 \in 0 .. n
        BY <3>2
      <4>2. g[i - 1] \in T /\ g[i] = step[i][g[i - 1]]
        <5> HIDE DEF step, T, n
        <5> QED
          BY <1>3, <4>1
      <4>3. step[i] = [x \in T |-> Added(x, item(i))]
        <5> HIDE DEF T, n, item
        <5> QED
          BY <4>1
      <4> HIDE DEF step, T, item, next
      <4>4. g[i] = Added(g[i - 1], item(i))
        BY <4>2, <4>3
      <4> QED
        BY <1>4, <3>2, <4>4
    <3> QED
      BY <3>1, <3>2
  <2>2. g = [i \in 0 .. n |-> g[i]]
    <3> HIDE DEF T, n
    <3> QED
      BY <1>3
  <2>3. g = [i \in 0 .. n |-> next(g, i)]
    <3> HIDE DEF next, n
    <3> QED
      BY <2>1, <2>2
  <2> QED
    BY <2>3, Zenon
<1> DEFINE chosen == CHOOSE f : Rec(f)
<1>6. Fees(login) = chosen[n]
  BY Zenon DEF Fees
<1>7. Rec(chosen)
  <2> HIDE DEF Rec
  <2> QED
    BY <1>5
<1> HIDE DEF chosen
<1>8. \A i \in 0 .. n : chosen[i] = next(chosen, i)
  <2>1. chosen = [i \in 0 .. n |-> next(chosen, i)]
    BY <1>7, Zenon
  <2> HIDE DEF n, next
  <2> QED
    BY <2>1
<1> HIDE DEF Rec, next
<1>9. chosen[0] = <<>>
  <2>1. 0 \in 0 .. n
    BY <1>1
  <2> QED
    BY <1>4, <1>8, <2>1
<1>10. \A i \in 1 .. n : chosen[i] = Added(chosen[i - 1], item(i))
  <2> SUFFICES ASSUME NEW i \in 1 .. n PROVE chosen[i] = Added(chosen[i - 1], item(i))
    OBVIOUS
  <2>1. i \in 0 .. n /\ i # 0
    OBVIOUS
  <2> HIDE DEF item, n
  <2> QED
    BY <1>4, <1>8, <2>1
<1>11. \A i \in 0 .. n : chosen[i] \in T
  <2>1. chosen[0] \in T
    BY <1>9
  <2>2. ASSUME NEW i \in 1 .. n, chosen[i - 1] \in T PROVE chosen[i] \in T
    <3> HIDE DEF n, item
    <3> QED
      BY <1>1, <1>10, <2>2, AddedType
  <2> HIDE DEF T, n
  <2> QED
    BY <1>1, <2>1, <2>2, Carried
<1> QED
  BY <1>6, <1>9, <1>10, <1>11

LEMMA FeesType ==
  ASSUME NEW login \in Logins
  PROVE  Fees(login) \in Seq(Fee)
<1> DEFINE n == Len(login.fees)
<1>1. n \in Nat /\ n \in 0 .. n
  BY LoginFees
<1> HIDE DEF n
<1>2. PICK added : Fees(login) = added[n] /\ \A i \in 0 .. n : added[i] \in Seq(Fee)
  BY FeesSteps DEF n
<1> QED
  BY <1>1, <1>2

(* Lists of calls that write. *)
IsItems(f, n) == IsList(f, n) /\ \A i \in 1 .. n : IsItem(f[i])

LEMMA ItemsJoined ==
  ASSUME NEW f, NEW g, NEW m, NEW n, IsItems(f, m), IsItems(g, n)
  PROVE  IsItems(f \o g, m + n)
<1> DEFINE h == f \o g
<1>1. IsList(f, m) /\ IsList(g, n) /\ m \in Nat /\ n \in Nat
  BY DEF IsItems, IsList
<1>2. IsJoined(h, f, m, g, n)
  BY <1>1, ListJoined
<1> HIDE DEF h
<1>3. /\ IsList(h, m + n)
      /\ \A i \in 1 .. m : h[i] = f[i]
      /\ \A i \in 1 .. n : h[m + i] = g[i]
  BY <1>2 DEF IsJoined
<1>4. ASSUME NEW i \in 1 .. m + n PROVE IsItem(h[i])
  <2>1. CASE i <= m
    <3>1. i \in 1 .. m
      BY <1>1, <2>1
    <3>2. IsItem(f[i])
      BY <3>1 DEF IsItems
    <3> QED
      BY <1>3, <3>1, <3>2
  <2>2. CASE ~(i <= m)
    <3> DEFINE j == i - m
    <3>1. j \in 1 .. n /\ m + j = i
      BY <1>1, <2>2
    <3> HIDE DEF j
    <3>2. IsItem(g[j]) /\ h[m + j] = g[j]
      BY <1>3, <3>1 DEF IsItems
    <3> QED
      BY <3>1, <3>2
  <2> QED
    BY <2>1, <2>2
<1>5. IsItems(h, m + n)
  BY <1>3, <1>4 DEF IsItems
<1> QED
  BY <1>5 DEF h

LEMMA NumberItems ==
  ASSUME NEW v \in Nat
  PROVE  IsItem(U8(v)) /\ IsItem(U16(v)) /\ IsItem(U32(v)) /\ IsItem(U64(v))
BY DEF IsItem, U8, U16, U32, U64

LEMMA ByteItems ==
  ASSUME NEW bytes \in Seq(Byte)
  PROVE  /\ IsItem(Raw(bytes)) /\ IsItem(U8(Len(bytes)))
         /\ \A max \in Nat : IsItem(Text(bytes, max))
<1>1. Len(bytes) \in Nat
  BY LenProperties
<1> QED
  BY <1>1, NumberItems DEF IsItem, Raw, Text

LEMMA NameType ==
  ASSUME NEW name \in Seq(Byte)
  PROVE  CopiedName(name) \in Seq(Byte)
<1> DEFINE m == Len(name)
           n == Lesser(m, MaxName - 1)
<1>1. m \in Nat /\ name \in [1 .. m -> Byte]
  BY LenProperties
<1>2. n \in 0 .. m /\ n \in Nat
  <2> HIDE DEF m
  <2> QED
    BY <1>1, PacketAssumption DEF Lesser
<1> HIDE DEF n, m
<1>3. SubSeq(name, 1, n) \in [1 .. n -> Byte]
  BY <1>1, <1>2, FrontPart
<1>4. SubSeq(name, 1, n) \in Seq(Byte)
  BY <1>2, <1>3, FunctionIsSequence
<1> QED
  BY <1>4 DEF CopiedName, n, m

LEMMA FeeFields ==
  ASSUME NEW fee \in Fee
  PROVE  /\ fee.devFee \in 0 .. MaxU16 /\ fee.devFee \in Nat
         /\ fee.pubKeyHash \in Seq(Byte) /\ Len(fee.pubKeyHash) = KeySize
<1>1. fee.devFee \in 0 .. MaxU16 /\ fee.pubKeyHash \in [1 .. KeySize -> Byte]
  BY DEF Fee
<1>2. KeySize \in Nat
  BY PacketAssumption
<1> QED
  BY <1>1, <1>2, FunctionIsSequence

LEMMA LoginIsItems ==
  ASSUME NEW user \in Seq(Byte), NEW pass \in Seq(Byte), NEW fees \in Seq(Fee)
  PROVE  \E n : IsItems(LoginItems(user, pass, fees), n)
<1> DEFINE n == Len(fees)
           u == CopiedName(user)
           p == CopiedName(pass)
           head == <<U32(6), Text(u, MaxName), Text(p, MaxName),
                     Text(Version, MaxVersion), U8(n)>>
           item(i) == LET fee == fees[(i + 1) \div 2]
                      IN IF i % 2 = 1 THEN U16(fee.devFee) ELSE Raw(fee.pubKeyHash)
           tail == [i \in 1 .. 2 * n |-> item(i)]
<1>1. n \in Nat /\ \A i \in 1 .. n : fees[i] \in Fee
  BY LenProperties, ElementOfSeq
<1>2. u \in Seq(Byte) /\ p \in Seq(Byte)
  BY NameType
<1>3. IsItems(head, 5)
  <2> HIDE DEF n, u, p
  <2> DEFINE a == U32(6)
             b == Text(u, MaxName)
             c == Text(p, MaxName)
             d == Text(Version, MaxVersion)
             e == U8(n)
  <2>1. IsItem(a) /\ IsItem(b) /\ IsItem(c) /\ IsItem(d) /\ IsItem(e)
    BY <1>1, <1>2, PacketAssumption, NumberItems, ByteItems
  <2> HIDE DEF a, b, c, d, e
  <2>2. IsList(<<a, b, c, d, e>>, 5)
    BY DEF IsList
  <2>3. IsItems(<<a, b, c, d, e>>, 5)
    BY <2>1, <2>2 DEF IsItems
  <2> QED
    BY <2>3 DEF a, b, c, d, e
<1>4. IsItems(tail, 2 * n)
  <2>1. ASSUME NEW i \in 1 .. 2 * n PROVE IsItem(item(i))
    <3> DEFINE j == (i + 1) \div 2
               fee == fees[j]
    <3>1. j \in 1 .. n
      BY <1>1
    <3>2. fee \in Fee
      <4> HIDE DEF j, n
      <4> QED
        BY <1>1, <3>1
    <3> HIDE DEF fee
    <3>3. fee.devFee \in Nat /\ fee.pubKeyHash \in Seq(Byte)
      BY <3>2, FeeFields
    <3>4. IsItem(U16(fee.devFee)) /\ IsItem(Raw(fee.pubKeyHash))
      BY <3>3, NumberItems, ByteItems
    <3>5. item(i) = IF i % 2 = 1 THEN U16(fee.devFee) ELSE Raw(fee.pubKeyHash)
      BY Zenon DEF fee
    <3> HIDE DEF item
    <3> QED
      BY <3>4, <3>5
  <2>2. \A i \in 1 .. 2 * n : tail[i] = item(i)
    <3> HIDE DEF item, n
    <3> QED
      OBVIOUS
  <2>3. IsList(tail, 2 * n)
    <3>1. 2 * n \in Nat
      BY <1>1
    <3> HIDE DEF item, n
    <3> QED
      BY <3>1 DEF IsList
  <2> HIDE DEF tail, item, n
  <2> QED
    BY <2>1, <2>2, <2>3 DEF IsItems
<1>5. LoginItems(user, pass, fees) = head \o tail
  BY DEF LoginItems
<1> HIDE DEF head, tail, n
<1>6. IsItems(head \o tail, 5 + 2 * n)
  BY <1>3, <1>4, ItemsJoined
<1> QED
  BY <1>5, <1>6

LEMMA ExtraNonceIsItems ==
  ASSUME NEW share, IsShare(share)
  PROVE  IsItems(ExtraNonce(share), 2)
<1> DEFINE x == share.userExtraNonceData
           a == U8(Len(x))
           b == Raw(x)
<1>1. x \in Seq(Byte)
  BY DEF IsShare
<1>2. IsItem(a) /\ IsItem(b)
  <2> HIDE DEF x
  <2> QED
    BY <1>1, ByteItems
<1> HIDE DEF a, b
<1>3. IsItems(<<a, b>>, 2)
  BY <1>2 DEF IsItems, IsList
<1> QED
  BY <1>3 DEF ExtraNonce, a, b, x

LEMMA ShareNumbers ==
  ASSUME NEW share, IsShare(share)
  PROVE  /\ IsItem(U32(share.version)) /\ IsItem(U32(share.nTime)) /\ IsItem(U32(share.nonce))
         /\ IsItem(U32(share.nBits)) /\ IsItem(U32(share.sieveSize))
         /\ IsItem(U32(share.sieveCandidate)) /\ IsItem(U32(share.nBirthdayA))
         /\ IsItem(U32(share.nBirthdayB)) /\ IsItem(U32(0))
<1>1. /\ share.version \in Nat /\ share.nTime \in Nat /\ share.nonce \in Nat
      /\ share.nBits \in Nat /\ share.sieveSize \in Nat /\ share.sieveCandidate \in Nat
      /\ share.nBirthdayA \in Nat /\ share.nBirthdayB \in Nat /\ 0 \in Nat
  <2>1. {share.version, share.nTime, share.nonce, share.nBits, share.sieveSize,
         share.sieveCandidate, share.nBirthdayA, share.nBirthdayB} \subseteq 0 .. MaxU32
    BY DEF IsShare
  <2>2. 0 .. MaxU32 \subseteq Nat /\ 0 \in Nat
    OBVIOUS
  <2> QED
    BY <2>1, <2>2, Zenon
<1> QED
  BY <1>1, NumberItems

LEMMA ShareBytes ==
  ASSUME NEW share, IsShare(share)
  PROVE  /\ IsItem(Raw(share.merkleRoot)) /\ IsItem(Raw(share.prevBlockHash))
         /\ IsItem(Raw(share.fixedMultiplier)) /\ IsItem(U8(Len(share.fixedMultiplier)))
         /\ IsItem(Raw(share.chainMultiplier)) /\ IsItem(U8(Len(share.chainMultiplier)))
         /\ IsItem(Raw(share.nOffset)) /\ IsItem(Raw(share.merkleRootOriginal))
<1>1. /\ share.merkleRoot \in Seq(Byte) /\ share.prevBlockHash \in Seq(Byte)
      /\ share.fixedMultiplier \in Seq(Byte) /\ share.chainMultiplier \in Seq(Byte)
      /\ share.nOffset \in Seq(Byte) /\ share.merkleRootOriginal \in Seq(Byte)
  BY DEF IsShare
<1> QED
  BY <1>1, ByteItems

LEMMA AlgorithmIsItems ==
  ASSUME NEW share, IsShare(share)
  PROVE  \E n : IsItems(AlgorithmItems(share), n)
<1> DEFINE a == U32(share.sieveSize)
           b == U32(share.sieveCandidate)
           c == U8(Len(share.fixedMultiplier))
           d == Raw(share.fixedMultiplier)
           e == U8(Len(share.chainMultiplier))
           f == Raw(share.chainMultiplier)
           g == U32(share.nBirthdayA)
           h == U32(share.nBirthdayB)
           k == Raw(share.merkleRootOriginal)
           l == Raw(share.nOffset)
           extra == ExtraNonce(share)
           prime == <<a, b, c, d, e, f>>
           birthday == <<g, h, k>>
           riecoin == <<l, k>>
           other == <<k>>
<1>1. /\ IsItem(a) /\ IsItem(b) /\ IsItem(c) /\ IsItem(d) /\ IsItem(e) /\ IsItem(f)
      /\ IsItem(g) /\ IsItem(h) /\ IsItem(k) /\ IsItem(l)
  BY ShareNumbers, ShareBytes
<1>2. AlgorithmItems(share) \in {prime, birthday \o extra, riecoin \o extra, other \o extra}
  BY Zenon DEF AlgorithmItems
<1>3. IsItems(extra, 2)
  BY ExtraNonceIsItems
<1> HIDE DEF a, b, c, d, e, f, g, h, k, l, extra
<1>4. IsItems(prime, 6)
  <2>1. IsList(prime, 6)
    BY DEF IsList
  <2> QED
    BY <1>1, <2>1 DEF IsItems
<1>5. IsItems(birthday, 3) /\ IsItems(riecoin, 2) /\ IsItems(other, 1)
  BY <1>1 DEF IsItems, IsList
<1> HIDE DEF prime, birthday, riecoin, other
<1>6. /\ IsItems(birthday \o extra, 3 + 2)
      /\ IsItems(riecoin \o extra, 2 + 2)
      /\ IsItems(other \o extra, 1 + 2)
  BY <1>3, <1>5, ItemsJoined
<1> QED
  BY <1>2, <1>4, <1>6

LEMMA ShareIsItems ==
  ASSUME NEW share, IsShare(share)
  PROVE  \E n : IsItems(ShareItems(share), n)
<1> DEFINE a == Raw(share.merkleRoot)
           b == Raw(share.prevBlockHash)
           c == U32(share.version)
           d == U32(share.nTime)
           e == U32(share.nonce)
           f == U32(share.nBits)
           z == U32(0)
           head == <<a, b, c, d, e, f>>
           middle == AlgorithmItems(share)
           last == <<z>>
<1>1. /\ IsItem(a) /\ IsItem(b) /\ IsItem(c) /\ IsItem(d) /\ IsItem(e) /\ IsItem(f)
      /\ IsItem(z)
  BY ShareNumbers, ShareBytes
<1>2. ShareItems(share) = (head \o middle) \o last
  BY DEF ShareItems
<1>3. PICK n : IsItems(middle, n)
  BY AlgorithmIsItems
<1> HIDE DEF a, b, c, d, e, f, z, middle
<1>4. IsItems(head, 6) /\ IsItems(last, 1)
  <2>1. IsList(head, 6) /\ IsList(last, 1)
    BY DEF IsList
  <2> QED
    BY <1>1, <2>1 DEF IsItems
<1> HIDE DEF head, last
<1>5. IsItems(head \o middle, 6 + n)
  BY <1>3, <1>4, ItemsJoined
<1>6. IsItems((head \o middle) \o last, (6 + n) + 1)
  BY <1>4, <1>5, ItemsJoined
<1> QED
  BY <1>2, <1>6

(* However many of the writes fail. *)
LEMMA ComposedTells ==
  ASSUME NEW items, NEW n, IsItems(items, n), NEW opcode \in Nat
  PROVE  LET bytes == Compose(SendLimit, opcode, items)
         IN Number(SubSeq(bytes, 2, 4)) = Len(bytes) - 4
<1>1. IsList(items, n) /\ \A i \in 1 .. n : IsItem(items[i])
  BY DEF IsItems
<1>2. Len(items) = n /\ n \in Nat
  BY <1>1, ListIs DEF IsList
<1>3. SendLimit \in Nat /\ SendLimit >= 4 /\ SendLimit < DataLimit + 4
  BY PacketAssumption
<1>4. Len(items) \in Nat /\ \A i \in 1 .. Len(items) : IsItem(items[i])
  BY <1>1, <1>2
<1> QED
  BY <1>3, <1>4, HeaderIsSize

LEMMA LongestNumber == MaxU64 \in Nat
<1> DEFINE b == Base * Base * Base * Base
<1>1. b \in Nat /\ b > 0
  <2>1. Base \in Nat /\ Base > 0
    BY BaseAssumption
  <2>2. Base * Base \in Nat /\ Base * Base > 0
    BY <2>1
  <2> DEFINE c == Base * Base
  <2> HIDE DEF c
  <2>3. c * Base \in Nat /\ c * Base > 0
    BY <2>1, <2>2 DEF c
  <2> DEFINE d == c * Base
  <2> HIDE DEF d
  <2>4. d * Base \in Nat /\ d * Base > 0
    BY <2>1, <2>3 DEF d
  <2> QED
    BY <2>4 DEF d, c
<1>2. (MaxU32 + 1) = b
  BY <1>1 DEF MaxU32
<1> HIDE DEF b
<1>3. b * b - 1 \in Nat
  BY <1>1
<1> QED
  BY <1>2, <1>3 DEF MaxU64

LEMMA HeadersTell ==
  ASSUME input \in Inputs
  PROVE  HeaderTellsSize
<1> DEFINE login == input.value
           share == input.value
           bytes == Composition
           Tells(x) == Number(SubSeq(x, 2, 4)) = Len(x) - 4
<1>1. ASSUME Is("login") PROVE Tells(Composition)
  <2>1. input.value \in Logins
    BY <1>1, InputOfKind
  <2>2. Composition = SendWorkerLogin(input.value.user, input.value.pass, Fees(input.value))
    BY <1>1 DEF Composition, Is
  <2> DEFINE user == input.value.user
             pass == input.value.pass
             fees == Fees(input.value)
             items == LoginItems(user, pass, fees)
  <2>3. user \in Seq(Byte) /\ pass \in Seq(Byte)
    BY <2>1, InputAssumption
  <2>4. fees \in Seq(Fee)
    BY <2>1, FeesType
  <2> HIDE DEF user, pass, fees
  <2>5. PICK n : IsItems(items, n)
    BY <2>3, <2>4, LoginIsItems
  <2> HIDE DEF items
  <2>6. Tells(Compose(SendLimit, AUTH_REQ, items))
    BY <2>5, ComposedTells DEF AUTH_REQ
  <2>7. Composition = Compose(SendLimit, AUTH_REQ, items)
    BY <2>2 DEF SendWorkerLogin, items, user, pass, fees
  <2> HIDE DEF Tells
  <2> QED
    BY <2>6, <2>7
<1>2. ASSUME Is("share") PROVE Tells(Composition)
  <2>1. input.value \in Shares
    BY <1>2, InputOfKind
  <2>2. Composition = SendShare(input.value)
    BY <1>2 DEF Composition, Is
  <2> DEFINE items == ShareItems(input.value)
  <2>3. IsShare(input.value)
    BY <2>1, InputAssumption
  <2>4. PICK n : IsItems(items, n)
    BY <2>3, ShareIsItems
  <2> HIDE DEF items
  <2>5. Tells(Compose(SendLimit, SUBMIT_SHARE, items))
    BY <2>4, ComposedTells DEF SUBMIT_SHARE
  <2>6. Composition = Compose(SendLimit, SUBMIT_SHARE, items)
    BY <2>2 DEF SendShare, items
  <2> HIDE DEF Tells
  <2> QED
    BY <2>5, <2>6
<1>3. ASSUME Is("ping") PROVE Tells(Composition)
  <2>1. input.value \in {0, MaxU64}
    BY <1>3, InputOfKind
  <2>2. Composition = SendPing(input.value)
    BY <1>3 DEF Composition, Is
  <2>3. input.value \in Nat
    <3>1. MaxU64 \in Nat
      BY LongestNumber
    <3> QED
      BY <2>1, <3>1
  <2> DEFINE x == U64(input.value)
             items == <<x>>
  <2>4. IsItem(x)
    BY <2>3, NumberItems
  <2> HIDE DEF x
  <2>5. IsItems(items, 1)
    BY <2>4 DEF IsItems, IsList
  <2> HIDE DEF items
  <2>6. Tells(Compose(SendLimit, PING, items))
    BY <2>5, ComposedTells DEF PING
  <2>7. Composition = Compose(SendLimit, PING, items)
    BY <2>2 DEF SendPing, items, x
  <2> HIDE DEF Tells
  <2> QED
    BY <2>6, <2>7
<1> HIDE DEF Tells
<1>4. input.kind \in {"login", "share", "ping"} => Tells(Composition)
  BY <1>1, <1>2, <1>3 DEF Is
<1> QED
  BY <1>4 DEF HeaderTellsSize, Tells

(* The header of every packet composed tells how many bytes follow it,     *)
(* whatever the names, fees and fields and however many writes fail.       *)
THEOREM HeadersTellSize == Spec => []HeaderTellsSize
BY HeadersTell, AlwaysAnInput, PTL

-----------------------------------------------------------------------------
(* Sequences of bytes one after the other *)

(* parts[i] ends at ends[i] in flat. *)
IsPlaced(flat, parts, n, ends) ==
  /\ n \in Nat /\ flat \in Seq(Byte)
  /\ ends \in [0 .. n -> Nat] /\ ends[0] = 0 /\ ends[n] = Len(flat)
  /\ \A i \in 1 .. n : /\ parts[i] \in Seq(Byte)
                       /\ ends[i] = ends[i - 1] + Len(parts[i])
                       /\ \A j \in 1 .. Len(parts[i]) : flat[ends[i - 1] + j] = parts[i][j]

IsConcat(flat, parts, n) == \E ends : IsPlaced(flat, parts, n, ends)

LEMMA EndsWithin ==
  ASSUME NEW flat, NEW parts, NEW n, NEW ends, IsPlaced(flat, parts, n, ends),
         NEW i \in 0 .. n
  PROVE  ends[i] \in Nat /\ ends[i] <= Len(flat)
<1> DEFINE S == {k \in Nat : k <= n => ends[n - k] <= Len(flat)}
<1>1. n \in Nat /\ ends \in [0 .. n -> Nat] /\ ends[n] = Len(flat)
  BY DEF IsPlaced
<1>2. 0 \in S
  <2>1. n - 0 = n /\ n \in 0 .. n
    BY <1>1
  <2> QED
    BY <1>1, <2>1
<1>3. ASSUME NEW k \in S \cap Nat PROVE k + 1 \in S
  <2> SUFFICES ASSUME k + 1 <= n PROVE ends[n - (k + 1)] <= Len(flat)
    OBVIOUS
  <2> DEFINE j == n - k
  <2>1. j \in 1 .. n /\ j \in 0 .. n /\ j - 1 \in 0 .. n /\ j - 1 = n - (k + 1)
    BY <1>1
  <2>2. ends[j] <= Len(flat)
    BY <1>1, <1>3
  <2> HIDE DEF j
  <2>3. parts[j] \in Seq(Byte) /\ ends[j] = ends[j - 1] + Len(parts[j])
    BY <2>1 DEF IsPlaced
  <2>4. Len(parts[j]) \in Nat /\ ends[j] \in Nat /\ ends[j - 1] \in Nat
    BY <1>1, <2>1, <2>3, LenProperties
  <2>5. Len(flat) \in Nat
    <3>1. n \in 0 .. n
      BY <1>1
    <3> QED
      BY <1>1, <3>1
  <2>6. ends[j - 1] <= Len(flat)
    BY <2>2, <2>3, <2>4, <2>5
  <2> QED
    BY <2>1, <2>6
<1>4. Nat \subseteq S
  <2> HIDE DEF S
  <2> QED
    BY <1>2, <1>3, SetInduction
<1>5. n - i \in Nat /\ n - i <= n /\ n - (n - i) = i
  BY <1>1
<1>6. ends[i] <= Len(flat)
  <2>1. ends[n - (n - i)] <= Len(flat)
    BY <1>4, <1>5
  <2> QED
    BY <1>5, <2>1
<1> QED
  BY <1>1, <1>6

(* Every byte belongs to a part. *)
LEMMA EndsCover ==
  ASSUME NEW flat, NEW parts, NEW n, NEW ends, IsPlaced(flat, parts, n, ends),
         NEW q \in 1 .. Len(flat)
  PROVE  \E i \in 1 .. n : \E j \in 1 .. Len(parts[i]) : q = ends[i - 1] + j
<1> DEFINE Covered(k) == \E i \in 1 .. k : \E j \in 1 .. Len(parts[i]) : q = ends[i - 1] + j
           S == {k \in Nat : k <= n /\ q <= ends[k] => Covered(k)}
<1>1. n \in Nat /\ ends \in [0 .. n -> Nat] /\ ends[0] = 0 /\ ends[n] = Len(flat)
  BY DEF IsPlaced
<1>2. Len(flat) \in Nat
  BY LenProperties DEF IsPlaced
<1>3. 0 \in S
  BY <1>1
<1>4. ASSUME NEW k \in S \cap Nat PROVE k + 1 \in S
  <2> SUFFICES ASSUME k + 1 <= n, q <= ends[k + 1] PROVE Covered(k + 1)
    OBVIOUS
  <2> DEFINE i == k + 1
  <2>1. i \in 1 .. n /\ i - 1 = k /\ i \in 0 .. n /\ k \in 0 .. n /\ i \in 1 .. i
    BY <1>1
  <2>2. parts[i] \in Seq(Byte) /\ ends[i] = ends[k] + Len(parts[i])
    <3> HIDE DEF i
    <3> QED
      BY <2>1 DEF IsPlaced
  <2>3. Len(parts[i]) \in Nat /\ ends[i] \in Nat /\ ends[k] \in Nat
    <3> HIDE DEF i
    <3> QED
      BY <1>1, <2>1, <2>2, LenProperties
  <2>4. CASE q <= ends[k]
    <3>1. Covered(k)
      BY <1>1, <1>4, <2>4
    <3> QED
      BY <3>1
  <2>5. CASE ~(q <= ends[k])
    <3> DEFINE j == q - ends[k]
    <3>1. q <= ends[i]
      OBVIOUS
    <3> HIDE DEF i
    <3>2. j \in 1 .. Len(parts[i]) /\ q = ends[k] + j
      BY <1>2, <2>2, <2>3, <2>5, <3>1
    <3> HIDE DEF j
    <3>3. Covered(i)
      BY <2>1, <3>2
    <3> QED
      BY <3>3 DEF i
  <2> QED
    BY <2>4, <2>5
<1>5. Nat \subseteq S
  <2> HIDE DEF S
  <2> QED
    BY <1>3, <1>4, SetInduction
<1>6. n \in S /\ n <= n /\ q <= ends[n]
  <2>1. n \in S
    <3> HIDE DEF S
    <3> QED
      BY <1>1, <1>5
  <2> QED
    BY <1>1, <1>2, <2>1
<1> QED
  BY <1>6

LEMMA ConcatEmpty ==
  ASSUME NEW parts
  PROVE  IsConcat(<<>>, parts, 0)
<1> DEFINE ends == [i \in 0 .. 0 |-> 0]
           flat == << >>
<1>1. flat \in Seq(Byte) /\ Len(flat) = 0
  OBVIOUS
<1>2. ends \in [0 .. 0 -> Nat] /\ ends[0] = 0
  OBVIOUS
<1> HIDE DEF ends, flat
<1>3. IsPlaced(flat, parts, 0, ends)
  BY <1>1, <1>2 DEF IsPlaced
<1> QED
  BY <1>3 DEF IsConcat, flat

LEMMA ConcatOne ==
  ASSUME NEW parts, parts[1] \in Seq(Byte)
  PROVE  IsConcat(parts[1], parts, 1)
<1> DEFINE flat == parts[1]
           size == Len(flat)
           ends == [i \in 0 .. 1 |-> IF i = 0 THEN 0 ELSE size]
<1>1. flat \in Seq(Byte) /\ size \in Nat
  BY LenProperties
<1> HIDE DEF flat, size
<1>2. ends \in [0 .. 1 -> Nat] /\ ends[0] = 0 /\ ends[1] = size
  BY <1>1
<1> HIDE DEF ends
<1>3. ASSUME NEW i \in 1 .. 1
      PROVE  /\ parts[i] \in Seq(Byte)
             /\ ends[i] = ends[i - 1] + Len(parts[i])
             /\ \A j \in 1 .. Len(parts[i]) : flat[ends[i - 1] + j] = parts[i][j]
  <2>1. i = 1 /\ i - 1 = 0 /\ parts[i] = flat /\ Len(parts[i]) = size
    BY DEF flat, size
  <2>2. \A j \in 1 .. size : 0 + j = j
    BY <1>1
  <2>3. 0 + size = size
    BY <1>1
  <2> QED
    BY <1>1, <1>2, <2>1, <2>2, <2>3
<1>4. IsPlaced(flat, parts, 1, ends)
  BY <1>1, <1>2, <1>3 DEF IsPlaced, size
<1> QED
  BY <1>4 DEF IsConcat, flat

LEMMA BytesJoined ==
  ASSUME NEW f \in Seq(Byte), NEW g \in Seq(Byte)
  PROVE  /\ f \o g \in Seq(Byte) /\ Len(f \o g) = Len(f) + Len(g)
         /\ \A i \in 1 .. Len(f) : (f \o g)[i] = f[i]
         /\ \A i \in 1 .. Len(g) : (f \o g)[Len(f) + i] = g[i]
<1> DEFINE h == f \o g
           m == Len(f)
           n == Len(g)
<1>1. IsList(f, m) /\ IsList(g, n)
  BY ListOf
<1>2. IsJoined(h, f, m, g, n) /\ h \in Seq(Byte)
  <2>1. h \in Seq(Byte)
    BY ConcatProperties
  <2> HIDE DEF m, n
  <2> QED
    BY <1>1, <2>1, ListJoined
<1> HIDE DEF h, m, n
<1>3. Len(h) = m + n
  BY <1>2, ListIs DEF IsJoined
<1>4. /\ \A i \in 1 .. m : h[i] = f[i]
      /\ \A i \in 1 .. n : h[m + i] = g[i]
  BY <1>2 DEF IsJoined
<1> QED
  BY <1>2, <1>3, <1>4 DEF h, m, n

LEMMA ConcatJoined ==
  ASSUME NEW f, NEW p, NEW m, IsConcat(f, p, m),
         NEW g, NEW r, NEW n, IsConcat(g, r, n),
         NEW s, \A i \in 1 .. m : s[i] = p[i], \A i \in 1 .. n : s[m + i] = r[i]
  PROVE  IsConcat(f \o g, s, m + n)
<1>1. PICK a : IsPlaced(f, p, m, a)
  BY DEF IsConcat
<1>2. PICK b : IsPlaced(g, r, n, b)
  BY DEF IsConcat
<1> DEFINE h == f \o g
           size == Len(f)
           ends == [i \in 0 .. m + n |-> IF i <= m THEN a[i] ELSE size + b[i - m]]
<1>3. /\ m \in Nat /\ f \in Seq(Byte) /\ a \in [0 .. m -> Nat] /\ a[0] = 0 /\ a[m] = size
      /\ n \in Nat /\ g \in Seq(Byte) /\ b \in [0 .. n -> Nat] /\ b[0] = 0 /\ b[n] = Len(g)
  BY <1>1, <1>2 DEF IsPlaced
<1>4. size \in Nat /\ Len(g) \in Nat
  BY <1>3, LenProperties
<1>5. /\ h \in Seq(Byte) /\ Len(h) = size + Len(g)
      /\ \A i \in 1 .. size : h[i] = f[i]
      /\ \A i \in 1 .. Len(g) : h[size + i] = g[i]
  BY <1>3, BytesJoined
<1> HIDE DEF h, size
<1>6. ends \in [0 .. m + n -> Nat]
  <2>1. ASSUME NEW i \in 0 .. m + n PROVE (IF i <= m THEN a[i] ELSE size + b[i - m]) \in Nat
    <3>1. CASE i <= m
      <4>1. i \in 0 .. m
        BY <1>3, <3>1
      <4> QED
        BY <1>3, <3>1, <4>1
    <3>2. CASE ~(i <= m)
      <4>1. i - m \in 0 .. n
        BY <1>3, <3>2
      <4> QED
        BY <1>3, <1>4, <3>2, <4>1
    <3> QED
      BY <3>1, <3>2
  <2> QED
    BY <2>1
<1>7. \A i \in 0 .. m : ends[i] = a[i]
  BY <1>3
<1>8. \A i \in 0 .. n : ends[m + i] = size + b[i]
  <2> SUFFICES ASSUME NEW i \in 0 .. n PROVE ends[m + i] = size + b[i]
    OBVIOUS
  <2>1. CASE i = 0
    <3>1. m + i = m /\ m \in 0 .. m /\ b[i] = 0
      BY <1>3, <2>1
    <3>2. ends[m] = size
      BY <1>3, <1>7, <3>1
    <3> HIDE DEF ends
    <3> QED
      BY <1>4, <3>1, <3>2
  <2>2. CASE i # 0
    <3>1. m + i \in 0 .. m + n /\ ~(m + i <= m) /\ (m + i) - m = i
      BY <1>3, <2>2
    <3> QED
      BY <3>1
  <2> QED
    BY <2>1, <2>2
<1> HIDE DEF ends
<1>9. ends[0] = 0 /\ ends[m + n] = Len(h)
  <2>1. 0 \in 0 .. m /\ n \in 0 .. n
    BY <1>3
  <2>2. ends[0] = 0
    BY <1>3, <1>7, <2>1
  <2>3. ends[m + n] = size + b[n]
    BY <1>8, <2>1
  <2> QED
    BY <1>3, <1>5, <2>2, <2>3
<1>10. ASSUME NEW i \in 1 .. m + n
       PROVE  /\ s[i] \in Seq(Byte)
              /\ ends[i] = ends[i - 1] + Len(s[i])
              /\ \A j \in 1 .. Len(s[i]) : h[ends[i - 1] + j] = s[i][j]
  <2>1. CASE i <= m
    <3>1. i \in 1 .. m /\ i \in 0 .. m /\ i - 1 \in 0 .. m
      BY <1>3, <2>1
    <3>2. /\ p[i] \in Seq(Byte) /\ a[i] = a[i - 1] + Len(p[i])
          /\ \A j \in 1 .. Len(p[i]) : f[a[i - 1] + j] = p[i][j]
      BY <1>1, <3>1 DEF IsPlaced
    <3>3. s[i] = p[i] /\ ends[i] = a[i] /\ ends[i - 1] = a[i - 1]
      BY <1>7, <3>1
    <3>4. Len(p[i]) \in Nat /\ a[i - 1] \in Nat
      BY <1>3, <3>1, <3>2, LenProperties
    <3>5. a[i] <= size
      BY <1>1, <3>1, EndsWithin DEF size
    <3>6. ASSUME NEW j \in 1 .. Len(p[i]) PROVE h[a[i - 1] + j] = p[i][j]
      <4>1. a[i - 1] + j \in 1 .. size
        BY <1>4, <3>2, <3>4, <3>5
      <4>2. h[a[i - 1] + j] = f[a[i - 1] + j]
        BY <1>5, <4>1
      <4> QED
        BY <3>2, <4>2
    <3> QED
      BY <3>2, <3>3, <3>6
  <2>2. CASE ~(i <= m)
    <3> DEFINE k == i - m
    <3>1. k \in 1 .. n /\ k \in 0 .. n /\ k - 1 \in 0 .. n /\ m + k = i /\ m + (k - 1) = i - 1
      BY <1>3, <2>2
    <3> HIDE DEF k
    <3>2. /\ r[k] \in Seq(Byte) /\ b[k] = b[k - 1] + Len(r[k])
          /\ \A j \in 1 .. Len(r[k]) : g[b[k - 1] + j] = r[k][j]
      BY <1>2, <3>1 DEF IsPlaced
    <3>3. s[i] = r[k]
      <4>1. s[m + k] = r[k]
        BY <3>1
      <4> QED
        BY <3>1, <4>1
    <3>4. ends[i] = size + b[k] /\ ends[i - 1] = size + b[k - 1]
      <4>1. ends[m + k] = size + b[k] /\ ends[m + (k - 1)] = size + b[k - 1]
        BY <1>8, <3>1
      <4> QED
        BY <3>1, <4>1
    <3>5. Len(r[k]) \in Nat /\ b[k - 1] \in Nat /\ b[k] \in Nat
      BY <1>3, <3>1, <3>2, LenProperties
    <3>6. b[k] <= Len(g)
      BY <1>2, <3>1, EndsWithin
    <3>7. ASSUME NEW j \in 1 .. Len(r[k]) PROVE h[ends[i - 1] + j] = r[k][j]
      <4>1. b[k - 1] + j \in 1 .. Len(g)
        BY <1>4, <3>2, <3>5, <3>6
      <4>2. ends[i - 1] + j = size + (b[k - 1] + j)
        BY <1>4, <3>4, <3>5
      <4>3. h[size + (b[k - 1] + j)] = g[b[k - 1] + j]
        BY <1>5, <4>1
      <4> QED
        BY <3>2, <4>2, <4>3
    <3>8. ends[i] = ends[i - 1] + Len(r[k])
      BY <1>4, <3>2, <3>4, <3>5
    <3> QED
      BY <3>2, <3>3, <3>7, <3>8
  <2> QED
    BY <2>1, <2>2
<1>11. m + n \in Nat
  BY <1>3
<1>12. IsPlaced(h, s, m + n, ends)
  BY <1>5, <1>6, <1>9, <1>10, <1>11 DEF IsPlaced
<1> QED
  BY <1>12 DEF IsConcat, h

LEMMA ConcatLength ==
  ASSUME NEW f, NEW p, NEW n, IsConcat(f, p, n)
  PROVE  f \in Seq(Byte) /\ Len(f) \in Nat /\ n \in Nat
<1>1. PICK a : IsPlaced(f, p, n, a)
  BY DEF IsConcat
<1>2. f \in Seq(Byte) /\ n \in Nat
  BY <1>1 DEF IsPlaced
<1> QED
  BY <1>2, LenProperties

(* Parts of at most so many bytes can be put one after the other. *)
LEMMA ConcatExists ==
  ASSUME NEW n \in Nat, NEW parts, NEW longest \in Nat,
         \A i \in 1 .. n : parts[i] \in Seq(Byte) /\ Len(parts[i]) <= longest
  PROVE  \E flat : IsConcat(flat, parts, n) /\ Len(flat) <= n * longest
<1> DEFINE S == {k \in Nat : k <= n => \E flat : IsConcat(flat, parts, k) /\ Len(flat) <= k * longest}
<1>1. 0 \in S
  <2>1. IsConcat(<<>>, parts, 0) /\ Len(<<>>) = 0 /\ 0 * longest = 0
    BY ConcatEmpty
  <2> QED
    BY <2>1
<1>2. ASSUME NEW k \in S \cap Nat PROVE k + 1 \in S
  <2> SUFFICES ASSUME k + 1 <= n
               PROVE  \E flat : IsConcat(flat, parts, k + 1) /\ Len(flat) <= (k + 1) * longest
    OBVIOUS
  <2>1. PICK f : IsConcat(f, parts, k) /\ Len(f) <= k * longest
    BY <1>2
  <2> DEFINE i == k + 1
             g == parts[i]
             last == [j \in 1 .. 1 |-> g]
  <2>2. i \in 1 .. n
    OBVIOUS
  <2> HIDE DEF i
  <2>3. g \in Seq(Byte) /\ Len(g) <= longest /\ Len(g) \in Nat
    BY <2>2, LenProperties
  <2>4. last[1] = g
    OBVIOUS
  <2> HIDE DEF last, g
  <2>5. IsConcat(g, last, 1)
    <3>1. last[1] \in Seq(Byte)
      BY <2>3, <2>4
    <3>2. IsConcat(last[1], last, 1)
      BY <3>1, ConcatOne
    <3> QED
      BY <2>4, <3>2
  <2>6. \A j \in 1 .. 1 : parts[k + j] = last[j]
    <3> SUFFICES ASSUME NEW j \in 1 .. 1 PROVE parts[k + j] = last[j]
      OBVIOUS
    <3>1. j = 1 /\ k + j = i
      BY DEF i
    <3> QED
      BY <2>4, <3>1 DEF g
  <2>7. IsConcat(f \o g, parts, k + 1)
    <3> DEFINE one == 1
    <3>1. IsConcat(g, last, one) /\ \A j \in 1 .. one : parts[k + j] = last[j]
      BY <2>5, <2>6
    <3>2. \A j \in 1 .. k : parts[j] = parts[j]
      OBVIOUS
    <3> HIDE DEF one
    <3>3. IsConcat(f \o g, parts, k + one)
      BY <2>1, <3>1, <3>2, ConcatJoined
    <3> QED
      BY <3>3 DEF one
  <2>8. Len(f \o g) = Len(f) + Len(g) /\ Len(f) \in Nat
    BY <2>1, <2>3, ConcatLength, BytesJoined
  <2>9. (k + 1) * longest = k * longest + longest /\ k * longest \in Nat
    OBVIOUS
  <2>10. Len(f \o g) <= (k + 1) * longest
    BY <2>1, <2>3, <2>8, <2>9
  <2> QED
    BY <2>7, <2>10
<1>3. Nat \subseteq S
  <2> HIDE DEF S
  <2> QED
    BY <1>1, <1>2, SetInduction
<1> QED
  BY <1>3

-----------------------------------------------------------------------------
(* What the pool reads at once *)

Chunk(kind, v) ==
  CASE kind = "u8"    -> Digits(v, 1)
    [] kind = "u16"   -> Digits(v, 2)
    [] kind = "u32"   -> Digits(v, 4)
    [] kind = "u64"   -> Digits(v, 8)
    [] kind = "hash"  -> v
    [] kind = "key"   -> v
    [] kind = "bytes" -> Digits(Len(v), 1) \o v

(* A value the pool can get. *)
Sound(kind, v) ==
  \/ kind = "u8" /\ v \in 0 .. MaxU8
  \/ kind = "u16" /\ v \in 0 .. MaxU16
  \/ kind = "u32" /\ v \in 0 .. MaxU32
  \/ kind = "u64" /\ v \in 0 .. MaxU64
  \/ kind = "hash" /\ v \in Seq(Byte) /\ Len(v) = HashSize
  \/ kind = "key" /\ v \in Seq(Byte) /\ Len(v) = KeySize
  \/ kind = "bytes" /\ v \in Seq(Byte) /\ Len(v) <= MaxU8

LEMMA DigitsAre ==
  ASSUME NEW v \in Nat, NEW n \in Nat
  PROVE  Digits(v, n) \in Seq(Byte) /\ Len(Digits(v, n)) = n
BY DigitsType, FunctionIsSequence

LEMMA ChunkIs ==
  ASSUME NEW kind, NEW v, Sound(kind, v), NEW longest \in Nat, Room(longest)
  PROVE  Chunk(kind, v) \in Seq(Byte) /\ Len(Chunk(kind, v)) <= longest
<1>1. \A size \in {8, HashSize, KeySize, Base} : size <= longest
  BY DEF Room
<1>2. 8 <= longest /\ HashSize <= longest /\ KeySize <= longest /\ Base <= longest
  BY <1>1
<1>3. ASSUME NEW n \in {1, 2, 4, 8}, v \in Nat
      PROVE  Digits(v, n) \in Seq(Byte) /\ Len(Digits(v, n)) <= 8
  <2>1. n \in Nat /\ n <= 8
    OBVIOUS
  <2> QED
    BY <1>3, <2>1, DigitsAre
<1>4. CASE kind \in {"u8", "u16", "u32", "u64"}
  <2>1. v \in Nat
    BY <1>4 DEF Sound
  <2>2. \E n \in {1, 2, 4, 8} : Chunk(kind, v) = Digits(v, n)
    BY <1>4 DEF Chunk
  <2>3. PICK n \in {1, 2, 4, 8} : Chunk(kind, v) = Digits(v, n)
    BY <2>2
  <2> DEFINE d == Digits(v, n)
  <2>4. d \in Seq(Byte) /\ Len(d) <= 8 /\ Len(d) \in Nat
    BY <1>3, <2>1, LenProperties
  <2> HIDE DEF d
  <2>5. Chunk(kind, v) = d
    BY <2>3 DEF d
  <2> QED
    BY <1>2, <2>4, <2>5
<1>5. CASE kind \in {"hash", "key"}
  BY <1>2, <1>5 DEF Chunk, Sound
<1>6. CASE kind = "bytes"
  <2>1. v \in Seq(Byte) /\ Len(v) <= MaxU8 /\ Len(v) \in Nat
    BY <1>6, LenProperties DEF Sound
  <2> DEFINE prefix == Digits(Len(v), 1)
  <2>2. prefix \in Seq(Byte) /\ Len(prefix) = 1
    BY <2>1, DigitsAre
  <2> HIDE DEF prefix
  <2>3. prefix \o v \in Seq(Byte) /\ Len(prefix \o v) = 1 + Len(v)
    BY <2>1, <2>2, BytesJoined
  <2>4. 1 + Len(v) <= Base /\ Base \in Int
    BY <2>1, BaseAssumption DEF MaxU8
  <2>5. Chunk(kind, v) = prefix \o v
    BY <1>6 DEF Chunk, prefix
  <2> HIDE DEF prefix
  <2>6. Len(prefix \o v) <= longest
    BY <1>2, <2>1, <2>3, <2>4
  <2> QED
    BY <2>3, <2>5, <2>6
<1> QED
  BY <1>4, <1>5, <1>6 DEF Sound

(* One call writes what the pool reads at once. *)
Carries(item, kind, v) ==
  FitsItem(item) /\ Sound(kind, v) /\ Encoded(item) = Chunk(kind, v)

IsParts(parts, items, n) == \A i \in 1 .. n : parts[i] = Encoded(items[i])
IsChunks(parts, kinds, values, k) == \A j \in 1 .. k : parts[j] = Chunk(kinds[j], values[j])

(* The calls write the same bytes that the pool reads as these values. *)
Conveys(items, n, kinds, values, k, size) ==
  /\ IsList(items, n) /\ \A i \in 1 .. n : FitsItem(items[i])
  /\ IsList(kinds, k) /\ IsList(values, k) /\ \A j \in 1 .. k : Sound(kinds[j], values[j])
  /\ \E flat, parts, chunks :
       /\ IsConcat(flat, parts, n) /\ IsParts(parts, items, n)
       /\ IsConcat(flat, chunks, k) /\ IsChunks(chunks, kinds, values, k)
       /\ Len(flat) <= size

LEMMA ConveysEach ==
  ASSUME NEW n \in Nat, NEW items, NEW kinds, NEW values, NEW longest \in Nat, Room(longest),
         IsList(items, n), IsList(kinds, n), IsList(values, n),
         \A i \in 1 .. n : Carries(items[i], kinds[i], values[i])
  PROVE  Conveys(items, n, kinds, values, n, n * longest)
<1> DEFINE parts == [i \in 1 .. n |-> Chunk(kinds[i], values[i])]
<1>1. \A i \in 1 .. n : parts[i] = Chunk(kinds[i], values[i])
  OBVIOUS
<1> HIDE DEF parts
<1>2. \A i \in 1 .. n : /\ FitsItem(items[i]) /\ Sound(kinds[i], values[i])
                        /\ parts[i] = Encoded(items[i])
  BY <1>1 DEF Carries
<1>3. \A i \in 1 .. n : parts[i] \in Seq(Byte) /\ Len(parts[i]) <= longest
  BY <1>1, <1>2, ChunkIs
<1>4. PICK flat : IsConcat(flat, parts, n) /\ Len(flat) <= n * longest
  BY <1>3, ConcatExists
<1>5. IsParts(parts, items, n) /\ IsChunks(parts, kinds, values, n)
  BY <1>1, <1>2 DEF IsParts, IsChunks
<1> QED
  BY <1>2, <1>4, <1>5 DEF Conveys

(* A length and as many bytes, written by two calls. *)
LEMMA ConveysCounted ==
  ASSUME NEW bytes \in Seq(Byte), Len(bytes) <= MaxU8, NEW longest \in Nat, Room(longest)
  PROVE  Conveys(<<U8(Len(bytes)), Raw(bytes)>>, 2, <<"bytes">>, <<bytes>>, 1, longest)
<1> DEFINE length == U8(Len(bytes))
           raw == Raw(bytes)
           prefix == Digits(Len(bytes), 1)
           flat == prefix \o bytes
           parts == <<prefix, bytes>>
           first == <<prefix>>
           second == <<bytes>>
           chunks == <<flat>>
           items == <<length, raw>>
           kinds == <<"bytes">>
           values == <<bytes>>
<1>1. Len(bytes) \in Nat /\ Sound("bytes", bytes)
  BY LenProperties DEF Sound
<1>2. prefix \in Seq(Byte) /\ Len(prefix) = 1 /\ Encoded(length) = prefix
  <2>1. prefix \in Seq(Byte) /\ Len(prefix) = 1
    BY <1>1, DigitsAre
  <2>2. Encoded(length) = prefix
    BY DEF Encoded, U8
  <2> QED
    BY <2>1, <2>2
<1>3. Encoded(raw) = bytes
  BY DEF Encoded, Raw
<1>4. Chunk("bytes", bytes) = flat
  BY DEF Chunk
<1>5. Len(bytes) < DataLimit /\ 1 < DataLimit
  <2>1. Base \in Nat /\ Base >= 3
    BY BaseAssumption
  <2>2. Base * Base \in Nat /\ Base * Base >= Base
    <3>1. 1 * Base <= Base * Base
      BY <2>1, Products
    <3> QED
      BY <2>1, <3>1
  <2> DEFINE sq == Base * Base
  <2>3. sq \in Nat /\ sq >= Base
    BY <2>2
  <2> HIDE DEF sq
  <2>4. 1 * Base <= sq * Base
    BY <2>1, <2>3, Products
  <2>5. sq * Base \in Nat
    BY <2>1, <2>3
  <2>6. DataLimit = sq * Base
    BY DEF DataLimit, sq
  <2> QED
    BY <1>1, <2>1, <2>4, <2>5, <2>6 DEF MaxU8
<1>6. FitsItem(length) /\ FitsItem(raw)
  <2>1. IsItem(length) /\ IsItem(raw)
    BY ByteItems
  <2>2. length.kind = "number" /\ raw.kind = "data"
    BY DEF U8, Raw
  <2> HIDE DEF length, raw
  <2> QED
    BY <1>2, <1>3, <1>5, <2>1, <2>2 DEF FitsItem
<1>7. Len(flat) <= longest
  <2>1. Chunk("bytes", bytes) \in Seq(Byte) /\ Len(Chunk("bytes", bytes)) <= longest
    BY <1>1, ChunkIs
  <2> QED
    BY <1>4, <2>1
<1> HIDE DEF length, raw, prefix
<1>8. IsConcat(flat, parts, 2)
  <2>1. IsConcat(prefix, first, 1)
    <3>1. first[1] = prefix
      OBVIOUS
    <3> QED
      BY <1>2, <3>1, ConcatOne
  <2>2. IsConcat(bytes, second, 1)
    <3>1. second[1] = bytes
      OBVIOUS
    <3> QED
      BY <3>1, ConcatOne
  <2> DEFINE one == 1
  <2>3. /\ \A i \in 1 .. one : parts[i] = first[i]
        /\ \A i \in 1 .. one : parts[one + i] = second[i]
        /\ one + one = 2
    OBVIOUS
  <2>4. IsConcat(prefix, first, one) /\ IsConcat(bytes, second, one)
    BY <2>1, <2>2
  <2> HIDE DEF parts, first, second, one
  <2>5. IsConcat(prefix \o bytes, parts, one + one)
    BY <2>3, <2>4, ConcatJoined
  <2> QED
    BY <2>3, <2>5
<1>9. IsConcat(flat, chunks, 1)
  <2>1. chunks[1] = flat
    OBVIOUS
  <2>2. flat \in Seq(Byte)
    BY <1>2, BytesJoined, Zenon
  <2> HIDE DEF flat, chunks
  <2> QED
    BY <2>1, <2>2, ConcatOne
<1>10. IsParts(parts, items, 2)
  BY <1>2, <1>3 DEF IsParts
<1>11. IsChunks(chunks, kinds, values, 1)
  <2>1. chunks[1] = flat /\ kinds[1] = "bytes" /\ values[1] = bytes
    OBVIOUS
  <2> HIDE DEF flat, chunks, kinds, values
  <2>2. chunks[1] = Chunk(kinds[1], values[1])
    BY <1>4, <2>1, Zenon
  <2> QED
    BY <2>2 DEF IsChunks
<1>12. /\ IsList(items, 2) /\ \A i \in 1 .. 2 : FitsItem(items[i])
  BY <1>6 DEF IsList
<1>13. /\ IsList(kinds, 1) /\ IsList(values, 1) /\ \A j \in 1 .. 1 : Sound(kinds[j], values[j])
  BY <1>1 DEF IsList
<1> HIDE DEF flat, parts, chunks, items, kinds, values
<1>14. Conveys(items, 2, kinds, values, 1, longest)
  BY <1>7, <1>8, <1>9, <1>10, <1>11, <1>12, <1>13 DEF Conveys
<1> QED
  BY <1>14 DEF items, kinds, values, length, raw

LEMMA ConveysJoined ==
  ASSUME NEW i1, NEW n1, NEW k1, NEW v1, NEW m1, NEW s1 \in Nat, Conveys(i1, n1, k1, v1, m1, s1),
         NEW i2, NEW n2, NEW k2, NEW v2, NEW m2, NEW s2 \in Nat, Conveys(i2, n2, k2, v2, m2, s2),
         NEW items, IsJoined(items, i1, n1, i2, n2),
         NEW kinds, IsJoined(kinds, k1, m1, k2, m2),
         NEW values, IsJoined(values, v1, m1, v2, m2)
  PROVE  Conveys(items, n1 + n2, kinds, values, m1 + m2, s1 + s2)
<1>1. PICK f1, p1, c1 :
        /\ IsConcat(f1, p1, n1) /\ IsParts(p1, i1, n1)
        /\ IsConcat(f1, c1, m1) /\ IsChunks(c1, k1, v1, m1)
        /\ Len(f1) <= s1
  BY DEF Conveys
<1>2. PICK f2, p2, c2 :
        /\ IsConcat(f2, p2, n2) /\ IsParts(p2, i2, n2)
        /\ IsConcat(f2, c2, m2) /\ IsChunks(c2, k2, v2, m2)
        /\ Len(f2) <= s2
  BY DEF Conveys
<1> DEFINE parts == [i \in 1 .. n1 + n2 |-> Encoded(items[i])]
           chunks == [j \in 1 .. m1 + m2 |-> Chunk(kinds[j], values[j])]
           flat == f1 \o f2
<1>3. n1 \in Nat /\ n2 \in Nat /\ m1 \in Nat /\ m2 \in Nat
  BY DEF Conveys, IsList
<1>4. /\ IsList(items, n1 + n2)
      /\ \A i \in 1 .. n1 : items[i] = i1[i]
      /\ \A i \in 1 .. n2 : items[n1 + i] = i2[i]
  BY DEF IsJoined
<1>5. /\ IsList(kinds, m1 + m2) /\ IsList(values, m1 + m2)
      /\ \A i \in 1 .. m1 : kinds[i] = k1[i] /\ values[i] = v1[i]
      /\ \A i \in 1 .. m2 : kinds[m1 + i] = k2[i] /\ values[m1 + i] = v2[i]
  BY DEF IsJoined
<1>6. IsConcat(flat, parts, n1 + n2)
  <2>1. \A i \in 1 .. n1 : parts[i] = p1[i]
    <3> SUFFICES ASSUME NEW i \in 1 .. n1 PROVE parts[i] = p1[i]
      OBVIOUS
    <3>1. i \in 1 .. n1 + n2
      BY <1>3
    <3> QED
      BY <1>1, <1>4, <3>1 DEF IsParts
  <2>2. \A i \in 1 .. n2 : parts[n1 + i] = p2[i]
    <3> SUFFICES ASSUME NEW i \in 1 .. n2 PROVE parts[n1 + i] = p2[i]
      OBVIOUS
    <3>1. n1 + i \in 1 .. n1 + n2
      BY <1>3
    <3> QED
      BY <1>2, <1>4, <3>1 DEF IsParts
  <2> HIDE DEF parts
  <2> QED
    BY <1>1, <1>2, <2>1, <2>2, ConcatJoined
<1>7. IsConcat(flat, chunks, m1 + m2)
  <2>1. \A j \in 1 .. m1 : chunks[j] = c1[j]
    <3> SUFFICES ASSUME NEW j \in 1 .. m1 PROVE chunks[j] = c1[j]
      OBVIOUS
    <3>1. j \in 1 .. m1 + m2
      BY <1>3
    <3> QED
      BY <1>1, <1>5, <3>1 DEF IsChunks
  <2>2. \A j \in 1 .. m2 : chunks[m1 + j] = c2[j]
    <3> SUFFICES ASSUME NEW j \in 1 .. m2 PROVE chunks[m1 + j] = c2[j]
      OBVIOUS
    <3>1. m1 + j \in 1 .. m1 + m2
      BY <1>3
    <3> QED
      BY <1>2, <1>5, <3>1 DEF IsChunks
  <2> HIDE DEF chunks
  <2> QED
    BY <1>1, <1>2, <2>1, <2>2, ConcatJoined
<1>8. IsParts(parts, items, n1 + n2) /\ IsChunks(chunks, kinds, values, m1 + m2)
  BY DEF IsParts, IsChunks
<1>9. Len(flat) <= s1 + s2
  <2>1. f1 \in Seq(Byte) /\ f2 \in Seq(Byte) /\ Len(f1) \in Nat /\ Len(f2) \in Nat
    BY <1>1, <1>2, ConcatLength
  <2>2. Len(flat) = Len(f1) + Len(f2)
    BY <2>1, BytesJoined
  <2> HIDE DEF flat
  <2> QED
    BY <1>1, <1>2, <2>1, <2>2
<1> HIDE DEF parts, chunks, flat
<1>10. ASSUME NEW i \in 1 .. n1 + n2 PROVE FitsItem(items[i])
  <2>1. CASE i <= n1
    <3>1. i \in 1 .. n1
      BY <1>3, <2>1
    <3> QED
      BY <1>4, <3>1 DEF Conveys
  <2>2. CASE ~(i <= n1)
    <3> DEFINE j == i - n1
    <3>1. j \in 1 .. n2 /\ n1 + j = i
      BY <1>3, <2>2
    <3> HIDE DEF j
    <3>2. items[n1 + j] = i2[j] /\ FitsItem(i2[j])
      BY <1>4, <3>1 DEF Conveys
    <3> QED
      BY <3>1, <3>2
  <2> QED
    BY <2>1, <2>2
<1>11. ASSUME NEW i \in 1 .. m1 + m2 PROVE Sound(kinds[i], values[i])
  <2>1. CASE i <= m1
    <3>1. i \in 1 .. m1
      BY <1>3, <2>1
    <3> QED
      BY <1>5, <3>1 DEF Conveys
  <2>2. CASE ~(i <= m1)
    <3> DEFINE j == i - m1
    <3>1. j \in 1 .. m2 /\ m1 + j = i
      BY <1>3, <2>2
    <3> HIDE DEF j
    <3>2. kinds[m1 + j] = k2[j] /\ values[m1 + j] = v2[j] /\ Sound(k2[j], v2[j])
      BY <1>5, <3>1 DEF Conveys
    <3> QED
      BY <3>1, <3>2
  <2> QED
    BY <2>1, <2>2
<1> QED
  BY <1>4, <1>5, <1>6, <1>7, <1>8, <1>9, <1>10, <1>11 DEF Conveys

(* What Compose() puts behind the header. *)
LEMMA ComposedBytes ==
  ASSUME NEW items, NEW n, IsList(items, n), \A i \in 1 .. n : FitsItem(items[i]),
         NEW opcode \in Nat, NEW flat, NEW parts, IsConcat(flat, parts, n),
         IsParts(parts, items, n), 4 + Len(flat) <= SendLimit
  PROVE  LET bytes == Compose(SendLimit, opcode, items)
         IN /\ bytes \in [1 .. 4 + Len(flat) -> Byte]
            /\ \A q \in 1 .. Len(flat) : bytes[4 + q] = flat[q]
<1> DEFINE bytes == Compose(SendLimit, opcode, items)
<1>1. PICK e : IsPlaced(flat, parts, n, e)
  BY DEF IsConcat
<1> DEFINE ends == [i \in 0 .. n |-> 4 + e[i]]
<1>2. n \in Nat /\ Len(items) = n
  BY ListIs DEF IsList
<1>3. /\ e \in [0 .. n -> Nat] /\ e[0] = 0 /\ e[n] = Len(flat)
      /\ \A i \in 1 .. n : /\ parts[i] = Encoded(items[i])
                           /\ e[i] = e[i - 1] + Len(parts[i])
                           /\ \A j \in 1 .. Len(parts[i]) : flat[e[i - 1] + j] = parts[i][j]
  BY <1>1 DEF IsPlaced, IsParts
<1>4. \A i \in 0 .. n : ends[i] = 4 + e[i]
  OBVIOUS
<1>5. ends \in [0 .. n -> Nat]
  BY <1>3
<1> HIDE DEF ends
<1>6. IsEnds(ends, items)
  <2>1. ends[0] = 4
    <3>1. 0 \in 0 .. n /\ 4 + 0 = 4
      BY <1>2
    <3> QED
      BY <1>3, <1>4, <3>1
  <2>2. ASSUME NEW i \in 1 .. n PROVE ends[i] = ends[i - 1] + Len(Encoded(items[i]))
    <3>1. i \in 0 .. n /\ i - 1 \in 0 .. n
      BY <1>2
    <3>2. e[i] = e[i - 1] + Len(Encoded(items[i])) /\ e[i - 1] \in Nat /\ e[i] \in Nat
      BY <1>3, <3>1
    <3>3. Len(Encoded(items[i])) \in Nat
      BY EncodedType DEF FitsItem
    <3>4. ends[i] = 4 + e[i] /\ ends[i - 1] = 4 + e[i - 1]
      BY <1>4, <3>1
    <3> QED
      BY <3>2, <3>3, <3>4
  <2> QED
    BY <1>2, <1>5, <2>1, <2>2 DEF IsEnds
<1>7. ends[n] = 4 + Len(flat)
  <2>1. n \in 0 .. n
    BY <1>2
  <2> QED
    BY <1>3, <1>4, <2>1
<1>8. bytes \in [1 .. ends[n] -> Byte] /\ Holds(bytes, ends, items, n)
  <2>1. SendLimit \in Nat /\ SendLimit >= 4 /\ ends[n] <= SendLimit
    BY <1>7, PacketAssumption
  <2>2. Len(items) \in Nat /\ \A i \in 1 .. Len(items) : FitsItem(items[i])
    BY <1>2
  <2> QED
    BY <1>2, <1>6, <2>1, <2>2, ComposeHolds
<1> HIDE DEF bytes
<1>9. ASSUME NEW q \in 1 .. Len(flat) PROVE bytes[4 + q] = flat[q]
  <2>1. PICK i \in 1 .. n : \E j \in 1 .. Len(parts[i]) : q = e[i - 1] + j
    BY <1>1, EndsCover
  <2>2. PICK j \in 1 .. Len(parts[i]) : q = e[i - 1] + j
    BY <2>1
  <2>3. flat[q] = Encoded(items[i])[j] /\ j \in 1 .. Len(Encoded(items[i]))
    BY <1>3, <2>2
  <2>4. bytes[ends[i - 1] + j] = Encoded(items[i])[j]
    BY <1>8, <2>3 DEF Holds
  <2>5. i - 1 \in 0 .. n
    BY <1>2
  <2>6. ends[i - 1] = 4 + e[i - 1] /\ e[i - 1] \in Nat
    BY <1>3, <1>4, <2>5
  <2>7. ends[i - 1] + j = 4 + q
    BY <2>2, <2>6
  <2> QED
    BY <2>3, <2>4, <2>7
<1> QED
  BY <1>7, <1>8, <1>9 DEF bytes

LEMMA LongReadsBack ==
  ASSUME NEW v \in 0 .. MaxU64
  PROVE  Number(Digits(v, 8)) = v
<1> DEFINE b2 == Base * Base
           b3 == b2 * Base
           b4 == b3 * Base
           b5 == b4 * Base
           b6 == b5 * Base
           b7 == b6 * Base
           b8 == b7 * Base
           power == [i \in 0 .. 8 |-> CASE i = 0 -> 1 [] i = 1 -> Base [] i = 2 -> b2
                                        [] i = 3 -> b3 [] i = 4 -> b4 [] i = 5 -> b5
                                        [] i = 6 -> b6 [] i = 7 -> b7 [] OTHER -> b8]
<1>1. Base \in Nat
  BY BaseAssumption
<1>2. b2 \in Nat
  BY <1>1
<1> HIDE DEF b2
<1>3. b3 \in Nat
  BY <1>1, <1>2
<1> HIDE DEF b3
<1>4. b4 \in Nat
  BY <1>1, <1>3
<1> HIDE DEF b4
<1>5. b5 \in Nat
  BY <1>1, <1>4
<1> HIDE DEF b5
<1>6. b6 \in Nat
  BY <1>1, <1>5
<1> HIDE DEF b6
<1>7. b7 \in Nat
  BY <1>1, <1>6
<1> HIDE DEF b7
<1>8. b8 \in Nat
  BY <1>1, <1>7
<1> HIDE DEF b8
<1>9. /\ b2 = Base * Base /\ b3 = Base * b2 /\ b4 = Base * b3 /\ b5 = Base * b4
      /\ b6 = Base * b5 /\ b7 = Base * b6 /\ b8 = Base * b7 /\ Base = Base * 1
  BY <1>1, <1>2, <1>3, <1>4, <1>5, <1>6, <1>7 DEF b2, b3, b4, b5, b6, b7, b8
<1>10. power \in [0 .. 8 -> Nat] /\ power[0] = 1 /\ power[8] = b8
  BY <1>1, <1>2, <1>3, <1>4, <1>5, <1>6, <1>7, <1>8
<1>11. /\ power[1] = Base /\ power[2] = b2 /\ power[3] = b3 /\ power[4] = b4
       /\ power[5] = b5 /\ power[6] = b6 /\ power[7] = b7
  OBVIOUS
<1> HIDE DEF power
<1>12. ASSUME NEW i \in 1 .. 8 PROVE power[i] = Base * power[i - 1]
  <2>1. /\ power[1] = Base * power[0] /\ power[2] = Base * power[1]
        /\ power[3] = Base * power[2] /\ power[4] = Base * power[3]
        /\ power[5] = Base * power[4] /\ power[6] = Base * power[5]
        /\ power[7] = Base * power[6] /\ power[8] = Base * power[7]
    BY <1>9, <1>10, <1>11, Zenon
  <2>2. \/ i = 1 \/ i = 2 \/ i = 3 \/ i = 4 \/ i = 5 \/ i = 6 \/ i = 7 \/ i = 8
    OBVIOUS
  <2>3. CASE i = 1
    <3>1. i - 1 = 0
      BY <2>3
    <3> QED
      BY <2>1, <2>3, <3>1, Zenon
  <2>4. CASE i = 2
    <3>1. i - 1 = 1
      BY <2>4
    <3> QED
      BY <2>1, <2>4, <3>1, Zenon
  <2>5. CASE i = 3
    <3>1. i - 1 = 2
      BY <2>5
    <3> QED
      BY <2>1, <2>5, <3>1, Zenon
  <2>6. CASE i = 4
    <3>1. i - 1 = 3
      BY <2>6
    <3> QED
      BY <2>1, <2>6, <3>1, Zenon
  <2>7. CASE i = 5
    <3>1. i - 1 = 4
      BY <2>7
    <3> QED
      BY <2>1, <2>7, <3>1, Zenon
  <2>8. CASE i = 6
    <3>1. i - 1 = 5
      BY <2>8
    <3> QED
      BY <2>1, <2>8, <3>1, Zenon
  <2>9. CASE i = 7
    <3>1. i - 1 = 6
      BY <2>9
    <3> QED
      BY <2>1, <2>9, <3>1, Zenon
  <2>10. CASE i = 8
    <3>1. i - 1 = 7
      BY <2>10
    <3> QED
      BY <2>1, <2>10, <3>1, Zenon
  <2> QED
    BY <2>2, <2>3, <2>4, <2>5, <2>6, <2>7, <2>8, <2>9, <2>10
<1>13. IsPowers(power, 8)
  BY <1>10, <1>12 DEF IsPowers
<1>14. b4 * b4 = b8
  <2>1. b4 * b4 = b4 * (b3 * Base) /\ b4 * (b3 * Base) = (b4 * Base) * b3
    BY <1>1, <1>3, <1>4 DEF b4
  <2>2. b5 * b3 = b5 * (b2 * Base) /\ b5 * (b2 * Base) = (b5 * Base) * b2
    BY <1>1, <1>2, <1>5 DEF b3
  <2>3. b6 * b2 = b6 * (Base * Base) /\ b6 * (Base * Base) = (b6 * Base) * Base
    BY <1>1, <1>6 DEF b2
  <2> QED
    BY <2>1, <2>2, <2>3 DEF b5, b6, b7, b8
<1>15. v \in Nat /\ v < power[8]
  <2>1. MaxU32 + 1 = b4
    <3>1. MaxU32 = b4 - 1
      BY DEF MaxU32, b2, b3, b4
    <3> QED
      BY <1>4, <3>1
  <2>2. MaxU64 = b4 * b4 - 1
    BY <2>1 DEF MaxU64
  <2>3. MaxU64 = b8 - 1
    BY <1>14, <2>2
  <2> QED
    BY <1>8, <1>10, <2>3
<1> QED
  BY <1>13, <1>15, NumberOfDigits

-----------------------------------------------------------------------------
(* The pool reads *)

(* The bytes lie in data behind the first of them. *)
LiesIn(data, first, n, bytes) == \A j \in 1 .. n : data[first + j] = bytes[j]

HasBytes(data, size) == data \in [1 .. size -> Byte]

(* A read got v from the n bytes at pb. *)
HasRead(item, data, size, pb, n, v) ==
  /\ item.pb \in Reader(data, size)
  /\ item.pb.index = pb.index + n /\ item.pb.err = FALSE
  /\ item.got = v

LEMMA AdvanceFits ==
  ASSUME NEW data, NEW size \in Nat, NEW pb \in Reader(data, size), NEW n \in Nat,
         pb.index + n <= size
  PROVE  /\ Fits(pb, n) /\ Advance(pb, n) \in Reader(data, size)
         /\ Advance(pb, n).index = pb.index + n /\ Advance(pb, n).err = FALSE
<1>1. /\ Advance(pb, n) \in Reader(data, size)
      /\ Fits(pb, n) <=> pb.index + n <= size
      /\ Fits(pb, n) => Advance(pb, n).index = pb.index + n /\ Advance(pb, n).err = FALSE
      /\ ~Fits(pb, n) => Advance(pb, n).index = size /\ Advance(pb, n).err = TRUE
  BY AdvanceGives
<1>2. Fits(pb, n)
  BY <1>1, Zenon
<1> QED
  BY <1>1, <1>2, Zenon

LEMMA NumberRead ==
  ASSUME NEW size \in Nat, NEW data, HasBytes(data, size), NEW pb \in Reader(data, size),
         NEW n \in Nat, NEW v \in Nat, Number(Digits(v, n)) = v, pb.index + n <= size,
         LiesIn(data, pb.index, n, Digits(v, n))
  PROVE  HasRead(ReadNumber(pb, n), data, size, pb, n, v)
<1> DEFINE bytes == Digits(v, n)
           item == ReadNumber(pb, n)
<1>1. bytes \in [1 .. n -> Byte]
  BY DigitsType
<1>2. /\ Fits(pb, n) /\ Advance(pb, n) \in Reader(data, size)
      /\ Advance(pb, n).index = pb.index + n /\ Advance(pb, n).err = FALSE
  BY AdvanceFits
<1>3. item.pb = Advance(pb, n) /\ item.got = IF Fits(pb, n) THEN Number(bytes) ELSE 0
  <2>1. \A j \in 1 .. n : pb.index + j <= size => data[pb.index + j] = bytes[j]
    BY DEF LiesIn
  <2> HIDE DEF bytes
  <2> QED
    BY <1>1, <2>1, ReadNumberGets DEF HasBytes
<1> HIDE DEF item
<1> QED
  BY <1>2, <1>3 DEF HasRead, item

LEMMA DataRead ==
  ASSUME NEW size \in Nat, NEW data, HasBytes(data, size), NEW pb \in Reader(data, size),
         NEW n \in Nat, n < DataLimit, NEW v, HasBytes(v, n), pb.index + n <= size,
         LiesIn(data, pb.index, n, v)
  PROVE  HasRead(ReadData(pb, n), data, size, pb, n, v)
<1> DEFINE item == ReadData(pb, n)
<1>1. v \in [1 .. n -> Byte]
  BY DEF HasBytes
<1>2. /\ Fits(pb, n) /\ Advance(pb, n) \in Reader(data, size)
      /\ Advance(pb, n).index = pb.index + n /\ Advance(pb, n).err = FALSE
  BY AdvanceFits
<1>3. item.pb = Advance(pb, n) /\ item.got = IF Fits(pb, n) THEN v ELSE <<>>
  <2>1. \A j \in 1 .. n : pb.index + j <= size => data[pb.index + j] = v[j]
    BY DEF LiesIn
  <2> QED
    BY <1>1, <2>1, ReadDataGets DEF HasBytes
<1> HIDE DEF item
<1> QED
  BY <1>2, <1>3 DEF HasRead, item

(* The read of each kind. *)
ReadOf(pb, kind) ==
  CASE kind = "u8"    -> ReadNumber(pb, 1)
    [] kind = "u16"   -> ReadNumber(pb, 2)
    [] kind = "u32"   -> ReadNumber(pb, 4)
    [] kind = "u64"   -> ReadNumber(pb, 8)
    [] kind = "hash"  -> ReadData(pb, HashSize)
    [] kind = "key"   -> ReadData(pb, KeySize)
    [] kind = "bytes" -> ReadData(ReadNumber(pb, 1).pb, ReadNumber(pb, 1).got)

LEMMA PoolReadsIs ==
  ASSUME NEW r, NEW kind
  PROVE  LET item == ReadOf(r.pb, kind)
         IN PoolReads(r, kind) = [pb |-> item.pb, got |-> Append(r.got, item.got)]
BY Zenon DEF PoolReads, ReadOf, ReadU8, ReadU16, ReadU32, ReadU64

LEMMA ChunkRead ==
  ASSUME NEW size \in Nat, size < DataLimit + 4, NEW data, HasBytes(data, size),
         NEW pb \in Reader(data, size), NEW kind, NEW v, Sound(kind, v),
         pb.index + Len(Chunk(kind, v)) <= size,
         LiesIn(data, pb.index, Len(Chunk(kind, v)), Chunk(kind, v))
  PROVE  HasRead(ReadOf(pb, kind), data, size, pb, Len(Chunk(kind, v)), v)
<1> DEFINE Done == HasRead(ReadOf(pb, kind), data, size, pb, Len(Chunk(kind, v)), v)
<1>1. pb.index \in Nat /\ pb.index >= 4
  BY ReaderFields
<1>2. DataLimit \in Nat
  BY BaseAssumption DEF DataLimit
<1>3. ASSUME NEW n \in {1, 2, 4, 8}, v \in Nat, Number(Digits(v, n)) = v,
             Chunk(kind, v) = Digits(v, n), ReadOf(pb, kind) = ReadNumber(pb, n)
      PROVE  Done
  <2>1. n \in Nat
    OBVIOUS
  <2>2. Len(Digits(v, n)) = n
    BY <1>3, <2>1, DigitsAre
  <2>3. pb.index + n <= size /\ LiesIn(data, pb.index, n, Digits(v, n))
    BY <1>3, <2>2
  <2>4. HasRead(ReadNumber(pb, n), data, size, pb, n, v)
    BY <1>3, <2>1, <2>3, NumberRead
  <2> QED
    BY <1>3, <2>2, <2>4
<1>4. CASE kind = "u8"
  <2>1. v \in Nat /\ v <= MaxU8
    BY <1>4 DEF Sound
  <2>2. Number(Digits(v, 1)) = v
    BY <2>1, NumberReadsBack
  <2>3. Chunk(kind, v) = Digits(v, 1) /\ ReadOf(pb, kind) = ReadNumber(pb, 1)
    BY <1>4 DEF Chunk, ReadOf
  <2> QED
    BY <1>3, <2>1, <2>2, <2>3
<1>5. CASE kind = "u16"
  <2>1. v \in Nat /\ v <= MaxU16
    BY <1>5 DEF Sound
  <2>2. Number(Digits(v, 2)) = v
    BY <2>1, NumberReadsBack
  <2>3. Chunk(kind, v) = Digits(v, 2) /\ ReadOf(pb, kind) = ReadNumber(pb, 2)
    BY <1>5 DEF Chunk, ReadOf
  <2> QED
    BY <1>3, <2>1, <2>2, <2>3
<1>6. CASE kind = "u32"
  <2>1. v \in Nat /\ v <= MaxU32
    BY <1>6 DEF Sound
  <2>2. Number(Digits(v, 4)) = v
    BY <2>1, NumberReadsBack
  <2>3. Chunk(kind, v) = Digits(v, 4) /\ ReadOf(pb, kind) = ReadNumber(pb, 4)
    BY <1>6 DEF Chunk, ReadOf
  <2> QED
    BY <1>3, <2>1, <2>2, <2>3
<1>7. CASE kind = "u64"
  <2>1. v \in 0 .. MaxU64 /\ v \in Nat
    BY <1>7 DEF Sound
  <2>2. Number(Digits(v, 8)) = v
    BY <2>1, LongReadsBack
  <2>3. Chunk(kind, v) = Digits(v, 8) /\ ReadOf(pb, kind) = ReadNumber(pb, 8)
    BY <1>7 DEF Chunk, ReadOf
  <2> QED
    BY <1>3, <2>1, <2>2, <2>3
<1>8. ASSUME NEW n, v \in Seq(Byte), Len(v) = n, Chunk(kind, v) = v,
             ReadOf(pb, kind) = ReadData(pb, n)
      PROVE  Done
  <2>1. n \in Nat
    BY <1>8, LenProperties
  <2>2. pb.index + n <= size /\ LiesIn(data, pb.index, n, v)
    BY <1>8
  <2>3. n < DataLimit
    BY <1>1, <1>2, <2>1, <2>2
  <2>4. HasBytes(v, n)
    BY <1>8, <2>1, FunctionIsSequence DEF HasBytes
  <2>5. HasRead(ReadData(pb, n), data, size, pb, n, v)
    BY <2>1, <2>2, <2>3, <2>4, DataRead
  <2> QED
    BY <1>8, <2>5
<1>9. CASE kind = "hash"
  <2>1. v \in Seq(Byte) /\ Len(v) = HashSize
    BY <1>9 DEF Sound
  <2>2. Chunk(kind, v) = v /\ ReadOf(pb, kind) = ReadData(pb, HashSize)
    BY <1>9 DEF Chunk, ReadOf
  <2> QED
    BY <1>8, <2>1, <2>2
<1>10. CASE kind = "key"
  <2>1. v \in Seq(Byte) /\ Len(v) = KeySize
    BY <1>10 DEF Sound
  <2>2. Chunk(kind, v) = v /\ ReadOf(pb, kind) = ReadData(pb, KeySize)
    BY <1>10 DEF Chunk, ReadOf
  <2> QED
    BY <1>8, <2>1, <2>2
<1>11. CASE kind = "bytes"
  <2> DEFINE m == Len(v)
             prefix == Digits(m, 1)
             length == ReadNumber(pb, 1)
             at == length.pb
  <2>1. v \in Seq(Byte) /\ m <= MaxU8 /\ m \in Nat
    BY <1>11, LenProperties DEF Sound
  <2>2. prefix \in Seq(Byte) /\ Len(prefix) = 1
    BY <2>1, DigitsAre
  <2>3. Chunk(kind, v) = prefix \o v /\ ReadOf(pb, kind) = ReadData(length.pb, length.got)
    BY <1>11 DEF Chunk, ReadOf
  <2> HIDE DEF length
  <2>4. /\ Len(prefix \o v) = 1 + m /\ (prefix \o v)[1] = prefix[1]
        /\ \A i \in 1 .. m : (prefix \o v)[1 + i] = v[i]
    <3> HIDE DEF prefix
    <3>1. /\ Len(prefix \o v) = Len(prefix) + m
          /\ \A i \in 1 .. Len(prefix) : (prefix \o v)[i] = prefix[i]
          /\ \A i \in 1 .. m : (prefix \o v)[Len(prefix) + i] = v[i]
      BY <2>1, <2>2, BytesJoined
    <3>2. 1 \in 1 .. 1
      OBVIOUS
    <3>3. (prefix \o v)[1] = prefix[1]
      BY <2>2, <3>1, <3>2, Zenon
    <3> QED
      BY <2>2, <3>1, <3>3, Zenon
  <2>5. /\ pb.index + (1 + m) <= size
        /\ \A j \in 1 .. 1 + m : data[pb.index + j] = (prefix \o v)[j]
    <3> HIDE DEF prefix, m
    <3> QED
      BY <2>3, <2>4 DEF LiesIn
  <2>6. HasRead(length, data, size, pb, 1, m)
    <3>1. Number(Digits(m, 1)) = m
      BY <2>1, NumberReadsBack
    <3>2. LiesIn(data, pb.index, 1, Digits(m, 1))
      <4> SUFFICES ASSUME NEW j \in 1 .. 1 PROVE data[pb.index + j] = Digits(m, 1)[j]
        BY DEF LiesIn
      <4>1. j = 1 /\ 1 \in 1 .. 1 + m
        BY <2>1
      <4>2. data[pb.index + 1] = (prefix \o v)[1]
        BY <2>5, <4>1
      <4>3. data[pb.index + 1] = prefix[1]
        BY <2>4, <4>2, Zenon
      <4> QED
        BY <4>1, <4>3, Zenon
    <3>3. pb.index + 1 <= size
      BY <1>1, <2>1, <2>5
    <3> DEFINE one == 1
    <3>4. /\ one \in Nat /\ Number(Digits(m, one)) = m /\ pb.index + one <= size
          /\ LiesIn(data, pb.index, one, Digits(m, one))
      BY <3>1, <3>2, <3>3
    <3> HIDE DEF one, m
    <3>5. HasRead(ReadNumber(pb, one), data, size, pb, one, m)
      BY <2>1, <3>4, NumberRead
    <3> QED
      BY <3>5 DEF one, length
  <2> HIDE DEF prefix
  <2>7. at \in Reader(data, size) /\ at.index = pb.index + 1 /\ length.got = m
    BY <2>6 DEF HasRead
  <2> HIDE DEF at, m
  <2>8. at.index + m <= size /\ m < DataLimit
    <3>1. m <= size - (pb.index + 1)
      BY <1>1, <2>1, <2>5
    <3> QED
      BY <1>1, <1>2, <2>1, <2>7, <3>1
  <2>9. LiesIn(data, at.index, m, v)
    <3> SUFFICES ASSUME NEW j \in 1 .. m PROVE data[at.index + j] = v[j]
      BY DEF LiesIn
    <3>1. 1 + j \in 1 .. 1 + m /\ at.index + j = pb.index + (1 + j)
      BY <1>1, <2>1, <2>7
    <3>2. data[pb.index + (1 + j)] = (prefix \o v)[1 + j]
      BY <2>5, <3>1
    <3> QED
      BY <2>4, <3>1, <3>2
  <2>10. HasRead(ReadData(at, m), data, size, at, m, v)
    <3>1. HasBytes(v, m)
      BY <2>1, FunctionIsSequence DEF HasBytes, m
    <3> QED
      BY <2>1, <2>7, <2>8, <2>9, <3>1, DataRead
  <2> DEFINE item == ReadData(at, m)
  <2>11. ReadOf(pb, kind) = item /\ Len(Chunk(kind, v)) = 1 + m
    BY <2>3, <2>4, <2>7 DEF at
  <2>12. /\ item.pb \in Reader(data, size) /\ item.pb.index = at.index + m
         /\ item.pb.err = FALSE /\ item.got = v
    BY <2>10 DEF HasRead
  <2> HIDE DEF item
  <2>13. at.index + m = pb.index + (1 + m)
    <3>1. at.index = pb.index + 1
      BY <2>7, Zenon
    <3> DEFINE x == pb.index
    <3>2. x \in Nat /\ m \in Nat
      BY <1>1, <2>1
    <3> HIDE DEF x
    <3>3. (x + 1) + m = x + (1 + m)
      BY <3>2
    <3> QED
      BY <3>1, <3>3, Zenon DEF x
  <2>14. HasRead(item, data, size, pb, 1 + m, v)
    BY <2>12, <2>13 DEF HasRead
  <2> QED
    BY <2>11, <2>14
<1> QED
  BY <1>4, <1>5, <1>6, <1>7, <1>9, <1>10, <1>11 DEF Sound

ReaderAt(data, size, i) ==
  [data |-> data, limit |-> size, size |-> size, index |-> i, err |-> FALSE]

LEMMA ReaderIs ==
  ASSUME NEW data, NEW size, NEW pb \in Reader(data, size), pb.err = FALSE
  PROVE  pb = ReaderAt(data, size, pb.index)
BY DEF Reader, ReaderAt

LEMMA ReaderAtType ==
  ASSUME NEW data, NEW size, NEW i \in 4 .. size
  PROVE  ReaderAt(data, size, i) \in Reader(data, size) /\ ReaderAt(data, size, i).index = i
BY DEF Reader, ReaderAt

Leading(values, j) == [i \in 1 .. j |-> values[i]]

LEMMA FrontGrows ==
  ASSUME NEW k, NEW values, IsList(values, k), NEW j \in 1 .. k
  PROVE  Append(Leading(values, j - 1), values[j]) = Leading(values, j)
<1> DEFINE m == j - 1
           f == Leading(values, m)
           h == Append(f, values[j])
<1>1. k \in Nat /\ m \in Nat /\ m + 1 = j
  BY DEF IsList
<1> HIDE DEF m
<1>2. IsList(f, m) /\ \A i \in 1 .. m : f[i] = values[i]
  BY <1>1 DEF Leading, IsList
<1> HIDE DEF f
<1>3. IsAppended(h, f, m, values[j])
  BY <1>2, ListAppended
<1> HIDE DEF h
<1>4. IsList(h, m + 1) /\ h[m + 1] = values[j] /\ \A i \in 1 .. m : h[i] = f[i]
  BY <1>3 DEF IsAppended
<1>5. h = [i \in 1 .. j |-> h[i]]
  BY <1>1, <1>4 DEF IsList
<1>6. ASSUME NEW i \in 1 .. j PROVE h[i] = values[i]
  <2>1. CASE i \in 1 .. m
    BY <1>2, <1>4, <2>1
  <2>2. CASE i = j
    BY <1>1, <1>4, <2>2
  <2>3. i \in 1 .. m \/ i = j
    BY <1>1
  <2> QED
    BY <2>1, <2>2, <2>3
<1>7. h = Leading(values, j)
  BY <1>5, <1>6, Zenon DEF Leading
<1> QED
  BY <1>7 DEF h, f, m

(* What the pool has read of the packet. *)
ReadTo(bytes, size, ends, values, j) ==
  [pb |-> ReaderAt(bytes, size, 4 + ends[j]), got |-> Leading(values, j)]

LEMMA ReadNext ==
  ASSUME NEW flat, NEW chunks, NEW k, NEW ends, IsPlaced(flat, chunks, k, ends),
         NEW kinds, NEW values, IsList(values, k), IsChunks(chunks, kinds, values, k),
         NEW size \in Nat, size = 4 + Len(flat), size < DataLimit + 4,
         NEW bytes, HasBytes(bytes, size), LiesIn(bytes, 4, Len(flat), flat),
         NEW j \in 1 .. k, Sound(kinds[j], values[j])
  PROVE  PoolReads(ReadTo(bytes, size, ends, values, j - 1), kinds[j])
           = ReadTo(bytes, size, ends, values, j)
<1> DEFINE before == ends[j - 1]
           pb == ReaderAt(bytes, size, 4 + before)
           chunk == Chunk(kinds[j], values[j])
           n == Len(chunk)
           item == ReadOf(pb, kinds[j])
<1>1. /\ k \in Nat /\ flat \in Seq(Byte) /\ ends \in [0 .. k -> Nat]
      /\ chunks[j] \in Seq(Byte) /\ ends[j] = ends[j - 1] + Len(chunks[j])
      /\ \A q \in 1 .. Len(chunks[j]) : flat[ends[j - 1] + q] = chunks[j][q]
  BY DEF IsPlaced
<1>2. chunk = chunks[j]
  BY DEF IsChunks
<1>3. Len(flat) \in Nat /\ n \in Nat
  BY <1>1, <1>2, LenProperties
<1>4. j - 1 \in 0 .. k /\ j \in 0 .. k
  BY <1>1
<1>5. before \in Nat /\ ends[j] = before + n
  BY <1>1, <1>2, <1>4
<1>6. ends[j] <= Len(flat)
  BY <1>4, EndsWithin
<1>7. \A q \in 1 .. n : flat[before + q] = chunk[q]
  BY <1>1, <1>2
<1> HIDE DEF before, chunk, n
<1>8. 4 + before \in 4 .. size
  BY <1>3, <1>5, <1>6
<1>9. pb \in Reader(bytes, size) /\ pb.index = 4 + before
  BY <1>8, ReaderAtType
<1> HIDE DEF pb
<1>10. LiesIn(bytes, pb.index, n, chunk)
  <2> SUFFICES ASSUME NEW q \in 1 .. n PROVE bytes[pb.index + q] = chunk[q]
    BY DEF LiesIn
  <2>1. before + q \in 1 .. Len(flat) /\ pb.index + q = 4 + (before + q)
    BY <1>3, <1>5, <1>6, <1>9
  <2>2. bytes[4 + (before + q)] = flat[before + q]
    BY <2>1 DEF LiesIn
  <2> QED
    BY <1>7, <2>1, <2>2
<1>11. pb.index + n <= size
  BY <1>3, <1>5, <1>6, <1>9
<1>12. HasRead(item, bytes, size, pb, n, values[j])
  BY <1>9, <1>10, <1>11, ChunkRead DEF n, chunk
<1> HIDE DEF item
<1>13. /\ item.pb \in Reader(bytes, size) /\ item.pb.index = pb.index + n
       /\ item.pb.err = FALSE /\ item.got = values[j]
  BY <1>12 DEF HasRead
<1>14. item.pb = ReaderAt(bytes, size, 4 + ends[j])
  <2>1. pb.index + n = 4 + ends[j]
    BY <1>3, <1>5, <1>9
  <2>2. item.pb = ReaderAt(bytes, size, item.pb.index)
    BY <1>13, ReaderIs
  <2> QED
    BY <1>13, <2>1, <2>2
<1>15. Append(Leading(values, j - 1), values[j]) = Leading(values, j)
  BY FrontGrows
<1> DEFINE r == ReadTo(bytes, size, ends, values, j - 1)
<1>16. r.pb = pb /\ r.got = Leading(values, j - 1)
  BY DEF ReadTo, pb, before
<1> HIDE DEF r
<1>17. PoolReads(r, kinds[j]) = [pb |-> item.pb, got |-> Append(Leading(values, j - 1), item.got)]
  <2>1. PoolReads(r, kinds[j]) =
          [pb |-> ReadOf(r.pb, kinds[j]).pb, got |-> Append(r.got, ReadOf(r.pb, kinds[j]).got)]
    BY PoolReadsIs
  <2> QED
    BY <1>16, <2>1 DEF item
<1> QED
  BY <1>13, <1>14, <1>15, <1>17 DEF ReadTo, r

(* What Parsed() gets from bytes that hold values of these kinds. *)
Gets(bytes, kinds, values) ==
  LET parsed == Parsed(bytes, kinds)
  IN ~parsed.pb.err /\ parsed.pb.index = parsed.pb.size /\ parsed.got = values

LEMMA ParsedGets ==
  ASSUME NEW flat, NEW chunks, NEW k, IsConcat(flat, chunks, k),
         NEW kinds, NEW values, IsList(kinds, k), IsList(values, k),
         IsChunks(chunks, kinds, values, k), \A j \in 1 .. k : Sound(kinds[j], values[j]),
         NEW size \in Nat, size = 4 + Len(flat), size < DataLimit + 4,
         NEW bytes, HasBytes(bytes, size), LiesIn(bytes, 4, Len(flat), flat)
  PROVE  Gets(bytes, kinds, values)
<1> DEFINE buffer == [Create(Len(bytes)) EXCEPT !.data = bytes, !.size = Len(bytes)]
           base == [pb |-> BeginRead(buffer), got |-> <<>>]
           next(f, i) == IF i = 0 THEN base ELSE PoolReads(f[i - 1], kinds[i])
           Rec(f) == f = [i \in 0 .. Len(kinds) |->
                            IF i = 0 THEN [pb |-> BeginRead(buffer), got |-> <<>>]
                            ELSE PoolReads(f[i - 1], kinds[i])]
<1>1. PICK ends : IsPlaced(flat, chunks, k, ends)
  BY DEF IsConcat
<1> DEFINE g == [j \in 0 .. k |-> ReadTo(bytes, size, ends, values, j)]
<1>2. /\ k \in Nat /\ ends \in [0 .. k -> Nat] /\ ends[0] = 0 /\ ends[k] = Len(flat)
      /\ Len(flat) \in Nat
  BY <1>1, LenProperties DEF IsPlaced
<1>3. Len(kinds) = k /\ Len(bytes) = size
  BY ListIs, FunctionIsSequence, ZenonT(60) DEF HasBytes
<1>4. base = ReadTo(bytes, size, ends, values, 0)
  <2> DEFINE begun == BeginRead(buffer)
             m == Len(bytes)
  <2>1. begun = [data |-> bytes, limit |-> m, size |-> m, index |-> 4, err |-> FALSE]
    <3> DEFINE created == Create(m)
    <3>1. created = [data |-> Unset(m), limit |-> m, size |-> 0, index |-> 0, err |-> FALSE]
      BY DEF Create
    <3>2. buffer = [created EXCEPT !.data = bytes, !.size = m]
      OBVIOUS
    <3> HIDE DEF m, created, buffer
    <3>3. buffer = [data |-> bytes, limit |-> m, size |-> m, index |-> 0, err |-> FALSE]
      BY <3>1, <3>2
    <3>4. begun = [buffer EXCEPT !.index = 4, !.err = FALSE]
      BY Zenon DEF BeginRead
    <3> HIDE DEF begun
    <3> QED
      BY <3>3, <3>4
  <2>2. 4 + ends[0] = 4
    BY <1>2
  <2> HIDE DEF begun, m
  <2>3. begun = ReaderAt(bytes, size, 4 + ends[0])
    BY <1>3, <2>1, <2>2 DEF ReaderAt, m
  <2>4. Leading(values, 0) = <<>>
    <3>1. IsList(Leading(values, 0), 0)
      BY DEF IsList, Leading
    <3>2. Len(Leading(values, 0)) = 0 /\ Leading(values, 0) \in Seq({Leading(values, 0)[i] : i \in 1 .. 0})
      BY <3>1, ListIs, Zenon
    <3> QED
      BY <3>2, EmptySeq
  <2>5. base = [pb |-> begun, got |-> <<>>]
    BY Zenon DEF begun
  <2> HIDE DEF base
  <2> QED
    BY <2>3, <2>4, <2>5, Zenon DEF ReadTo
<1> HIDE DEF base
<1>5. ASSUME NEW j \in 1 .. k
      PROVE  PoolReads(ReadTo(bytes, size, ends, values, j - 1), kinds[j])
               = ReadTo(bytes, size, ends, values, j)
  BY <1>1, ReadNext
<1>6. \A j \in 0 .. k : g[j] = ReadTo(bytes, size, ends, values, j)
  OBVIOUS
<1>7. \A i \in 0 .. k : g[i] = next(g, i)
  <2> SUFFICES ASSUME NEW i \in 0 .. k PROVE g[i] = next(g, i)
    OBVIOUS
  <2>1. CASE i = 0
    <3>1. g[i] = ReadTo(bytes, size, ends, values, 0)
      BY <1>6, <2>1
    <3> QED
      BY <1>4, <2>1, <3>1
  <2>2. CASE i # 0
    <3>1. i \in 1 .. k /\ i - 1 \in 0 .. k
      BY <1>2, <2>2
    <3>2. /\ g[i] = ReadTo(bytes, size, ends, values, i)
          /\ g[i - 1] = ReadTo(bytes, size, ends, values, i - 1)
      BY <1>6, <3>1
    <3> HIDE DEF g
    <3>3. g[i] = PoolReads(g[i - 1], kinds[i])
      BY <1>5, <3>1, <3>2
    <3> QED
      BY <2>2, <3>3
  <2> QED
    BY <2>1, <2>2
<1>8. Rec(g)
  <2>1. g = [i \in 0 .. k |-> g[i]]
    OBVIOUS
  <2> HIDE DEF g, next
  <2>2. g = [i \in 0 .. k |-> next(g, i)]
    BY <1>7, <2>1, Zenon
  <2> QED
    BY <1>3, <2>2, Zenon DEF next, base
<1> DEFINE chosen == CHOOSE f : Rec(f)
<1>9. Parsed(bytes, kinds) = chosen[Len(kinds)]
  BY Zenon DEF Parsed
<1>10. Rec(chosen)
  <2> HIDE DEF Rec, g
  <2> QED
    BY <1>8
<1> HIDE DEF chosen
<1>11. \A i \in 0 .. k : chosen[i] = next(chosen, i)
  <2>1. chosen = [i \in 0 .. k |-> next(chosen, i)]
    BY <1>3, <1>10, Zenon DEF base
  <2> HIDE DEF next
  <2> QED
    BY <2>1
<1> HIDE DEF Rec
<1> DEFINE same == [i \in 0 .. k |-> chosen[i] = g[i]]
<1>12. \A i \in 0 .. k : same[i] \in {TRUE}
  <2>1. same[0] \in {TRUE}
    <3>1. chosen[0] = g[0] /\ 0 \in 0 .. k
      <4>1. 0 \in 0 .. k
        BY <1>2
      <4>2. next(chosen, 0) = base /\ next(g, 0) = base
        OBVIOUS
      <4> HIDE DEF next, g
      <4> QED
        BY <1>7, <1>11, <4>1, <4>2
    <3> HIDE DEF g
    <3> QED
      BY <3>1
  <2>2. ASSUME NEW i \in 1 .. k, same[i - 1] \in {TRUE} PROVE same[i] \in {TRUE}
    <3>1. i - 1 \in 0 .. k /\ i \in 0 .. k /\ i # 0
      BY <1>2
    <3> HIDE DEF g
    <3>2. chosen[i - 1] = g[i - 1]
      BY <2>2, <3>1
    <3>3. chosen[i] = PoolReads(chosen[i - 1], kinds[i]) /\ g[i] = PoolReads(g[i - 1], kinds[i])
      BY <1>7, <1>11, <3>1
    <3>4. chosen[i] = g[i]
      BY <3>2, <3>3
    <3> QED
      BY <3>1, <3>4
  <2> HIDE DEF same
  <2> QED
    BY <1>2, <2>1, <2>2, Carried
<1>13. chosen[k] = ReadTo(bytes, size, ends, values, k)
  <2>1. k \in 0 .. k
    BY <1>2
  <2>2. g[k] = ReadTo(bytes, size, ends, values, k)
    BY <1>6, <2>1
  <2> HIDE DEF g
  <2>3. chosen[k] = g[k]
    BY <1>12, <2>1
  <2> QED
    BY <2>2, <2>3
<1> DEFINE parsed == Parsed(bytes, kinds)
<1>14. parsed = ReadTo(bytes, size, ends, values, k)
  BY <1>3, <1>9, <1>13
<1> HIDE DEF parsed, g, same
<1>15. parsed.pb = ReaderAt(bytes, size, 4 + ends[k]) /\ parsed.got = Leading(values, k)
  BY <1>14 DEF ReadTo
<1>16. parsed.pb.err = FALSE /\ parsed.pb.index = size /\ parsed.pb.size = size
  BY <1>2, <1>15 DEF ReaderAt
<1>17. Leading(values, k) = values
  BY DEF IsList, Leading
<1> QED
  BY <1>15, <1>16, <1>17 DEF Gets, parsed

(* A packet whose calls write what the pool reads, and fit the buffer. *)
LEMMA PoolGets ==
  ASSUME NEW items, NEW n, NEW kinds, NEW values, NEW k, NEW size \in Nat,
         Conveys(items, n, kinds, values, k, size), 4 + size <= SendLimit,
         NEW opcode \in Nat
  PROVE  Gets(Compose(SendLimit, opcode, items), kinds, values)
<1> DEFINE bytes == Compose(SendLimit, opcode, items)
<1>1. PICK flat, parts, chunks :
        /\ IsConcat(flat, parts, n) /\ IsParts(parts, items, n)
        /\ IsConcat(flat, chunks, k) /\ IsChunks(chunks, kinds, values, k)
        /\ Len(flat) <= size
  BY DEF Conveys
<1>2. Len(flat) \in Nat
  BY <1>1, ConcatLength
<1>3. 4 + Len(flat) <= SendLimit /\ 4 + Len(flat) < DataLimit + 4 /\ 4 + Len(flat) \in Nat
  <2>1. DataLimit \in Nat
    BY BaseAssumption DEF DataLimit
  <2> QED
    BY <1>1, <1>2, <2>1, PacketAssumption
<1>4. /\ IsList(items, n) /\ \A i \in 1 .. n : FitsItem(items[i])
      /\ IsList(kinds, k) /\ IsList(values, k) /\ \A j \in 1 .. k : Sound(kinds[j], values[j])
  BY DEF Conveys
<1>5. /\ bytes \in [1 .. 4 + Len(flat) -> Byte]
      /\ \A q \in 1 .. Len(flat) : bytes[4 + q] = flat[q]
  BY <1>1, <1>3, <1>4, ComposedBytes
<1> HIDE DEF bytes
<1> DEFINE m == 4 + Len(flat)
<1>6. HasBytes(bytes, m) /\ LiesIn(bytes, 4, Len(flat), flat)
  BY <1>5 DEF HasBytes, LiesIn
<1>7. m \in Nat /\ m = 4 + Len(flat) /\ m < DataLimit + 4
  BY <1>3
<1> HIDE DEF m
<1>8. Gets(bytes, kinds, values)
  BY <1>1, <1>4, <1>6, <1>7, ParsedGets
<1> QED
  BY <1>8 DEF bytes

-----------------------------------------------------------------------------
(* The fees of a login *)

(* What one entry adds to the fees that count. *)
GoodAdded(all, item) ==
  IF ValidAddress(DecodeBase58(item.address)) THEN Append(all, FeeOf(item)) ELSE all

Cut(all) == SubSeq(all, 1, Lesser(Len(all), MaxFees))

LEMMA GoodAddedType ==
  ASSUME NEW all \in Seq(Fee), NEW item \in FeeItem
  PROVE  GoodAdded(all, item) \in Seq(Fee)
<1>1. ASSUME ValidAddress(DecodeBase58(item.address)) PROVE Append(all, FeeOf(item)) \in Seq(Fee)
  <2>1. FeeOf(item) \in Fee
    BY <1>1, AddedType
  <2> QED
    BY <2>1, AppendProperties
<1> QED
  BY <1>1 DEF GoodAdded

LEMMA GoodSteps ==
  ASSUME NEW login \in Logins
  PROVE  \E good : /\ good[0] = <<>> /\ GoodFees(login) = Cut(good[Len(login.fees)])
                   /\ \A i \in 1 .. Len(login.fees) : good[i] = GoodAdded(good[i - 1], login.fees[i])
                   /\ \A i \in 0 .. Len(login.fees) : good[i] \in Seq(Fee)
<1> DEFINE n == Len(login.fees)
           T == Seq(Fee)
           item(i) == login.fees[i]
           step == [i \in 1 .. n |-> [x \in T |-> GoodAdded(x, item(i))]]
           base == <<>>
           key(decoded) == SubSeq(decoded.bytes, 2, RawLength - CheckLength)
           next(g, i) ==
             IF i = 0 THEN <<>>
             ELSE IF ValidAddress(DecodeBase58(login.fees[i].address))
             THEN Append(g[i - 1], [devFee |-> login.fees[i].fee,
                                    pubKeyHash |-> key(DecodeBase58(login.fees[i].address))])
             ELSE g[i - 1]
           Rec(g) ==
             g = [i \in 0 .. Len(login.fees) |->
                    IF i = 0 THEN <<>>
                    ELSE IF ValidAddress(DecodeBase58(login.fees[i].address))
                    THEN Append(g[i - 1], [devFee |-> login.fees[i].fee,
                                           pubKeyHash |-> key(DecodeBase58(login.fees[i].address))])
                    ELSE g[i - 1]]
<1>1. n \in Nat /\ \A i \in 1 .. n : item(i) \in FeeItem
  BY LoginFees
<1>2. step \in Steps(n, T) /\ base \in T
  <2>1. \A i \in 1 .. n : \A x \in T : GoodAdded(x, item(i)) \in T
    <3> HIDE DEF n, item
    <3> QED
      BY <1>1, GoodAddedType
  <2>2. base \in T
    OBVIOUS
  <2> HIDE DEF T, n, item, base
  <2> QED
    BY <2>1, <2>2 DEF Steps
<1>3. PICK g \in [0 .. n -> T] :
        g[0] = base /\ \A i \in 1 .. n : g[i] = step[i][g[i - 1]]
  <2> HIDE DEF step, T, n, base
  <2> QED
    BY <1>1, <1>2, Iteration, Z3T(30)
<1>4. \A f, i : next(f, i) = IF i = 0 THEN <<>> ELSE GoodAdded(f[i - 1], item(i))
  <2> SUFFICES ASSUME NEW f, NEW i
               PROVE  next(f, i) = IF i = 0 THEN <<>> ELSE GoodAdded(f[i - 1], item(i))
    OBVIOUS
  <2> DEFINE x == item(i)
             decoded == DecodeBase58(x.address)
  <2>1. [devFee |-> x.fee, pubKeyHash |-> key(decoded)] = FeeOf(x)
    <3> DEFINE k == key(decoded)
    <3>1. FeeOf(x) = [pubKeyHash |-> k, devFee |-> x.fee]
      BY Zenon DEF FeeOf, KeyOf
    <3> HIDE DEF k, x
    <3> QED
      BY <3>1 DEF k
  <2>2. GoodAdded(f[i - 1], x) = IF ValidAddress(decoded) THEN Append(f[i - 1], FeeOf(x)) ELSE f[i - 1]
    BY DEF GoodAdded
  <2>3. next(f, i) = IF i = 0 THEN <<>>
                     ELSE IF ValidAddress(decoded)
                     THEN Append(f[i - 1], [devFee |-> x.fee, pubKeyHash |-> key(decoded)])
                     ELSE f[i - 1]
    BY Zenon
  <2> HIDE DEF next, x, decoded, key
  <2>4. next(f, i) = IF i = 0 THEN <<>> ELSE GoodAdded(f[i - 1], x)
    BY <2>1, <2>2, <2>3
  <2> QED
    BY <2>4 DEF x
<1>5. Rec(g)
  <2>1. ASSUME NEW i \in 0 .. n PROVE g[i] = next(g, i)
    <3>1. CASE i = 0
      BY <1>3, <3>1
    <3>2. CASE i # 0
      <4>1. i \in 1 .. n /\ i - 1 \in 0 .. n
        BY <3>2
      <4>2. g[i - 1] \in T /\ g[i] = step[i][g[i - 1]]
        <5> HIDE DEF step, T, n
        <5> QED
          BY <1>3, <4>1
      <4>3. step[i] = [x \in T |-> GoodAdded(x, item(i))]
        <5> HIDE DEF T, n, item
        <5> QED
          BY <4>1
      <4> HIDE DEF step, T, item, next
      <4>4. g[i] = GoodAdded(g[i - 1], item(i))
        BY <4>2, <4>3
      <4> QED
        BY <1>4, <3>2, <4>4
    <3> QED
      BY <3>1, <3>2
  <2>2. g = [i \in 0 .. n |-> g[i]]
    <3> HIDE DEF T, n
    <3> QED
      BY <1>3
  <2>3. g = [i \in 0 .. n |-> next(g, i)]
    <3> HIDE DEF next, n
    <3> QED
      BY <2>1, <2>2
  <2> QED
    BY <2>3, Zenon
<1> DEFINE chosen == CHOOSE f : Rec(f)
<1>6. GoodFees(login) = Cut(chosen[n])
  BY Zenon DEF GoodFees, Cut
<1>7. Rec(chosen)
  <2> HIDE DEF Rec
  <2> QED
    BY <1>5
<1> HIDE DEF chosen
<1>8. \A i \in 0 .. n : chosen[i] = next(chosen, i)
  <2>1. chosen = [i \in 0 .. n |-> next(chosen, i)]
    BY <1>7, Zenon
  <2> HIDE DEF n, next
  <2> QED
    BY <2>1
<1> HIDE DEF Rec, next
<1>9. chosen[0] = <<>>
  <2>1. 0 \in 0 .. n
    BY <1>1
  <2> QED
    BY <1>4, <1>8, <2>1
<1>10. \A i \in 1 .. n : chosen[i] = GoodAdded(chosen[i - 1], item(i))
  <2> SUFFICES ASSUME NEW i \in 1 .. n PROVE chosen[i] = GoodAdded(chosen[i - 1], item(i))
    OBVIOUS
  <2>1. i \in 0 .. n /\ i # 0
    OBVIOUS
  <2> HIDE DEF item, n
  <2> QED
    BY <1>4, <1>8, <2>1
<1>11. \A i \in 0 .. n : chosen[i] \in T
  <2>1. chosen[0] \in T
    BY <1>9
  <2>2. ASSUME NEW i \in 1 .. n, chosen[i - 1] \in T PROVE chosen[i] \in T
    <3> HIDE DEF n, item
    <3> QED
      BY <1>1, <1>10, <2>2, GoodAddedType
  <2> HIDE DEF T, n
  <2> QED
    BY <1>1, <2>1, <2>2, Carried
<1> QED
  BY <1>6, <1>9, <1>10, <1>11

(* The first elements of a list as long as they may be. *)
LEMMA CutIs ==
  ASSUME NEW all \in Seq(Fee)
  PROVE  /\ Cut(all) \in Seq(Fee)
         /\ Len(Cut(all)) = Lesser(Len(all), MaxFees)
         /\ \A i \in 1 .. Lesser(Len(all), MaxFees) : Cut(all)[i] = all[i]
<1> DEFINE m == Len(all)
           n == Lesser(m, MaxFees)
<1>1. m \in Nat /\ all \in [1 .. m -> Fee]
  BY LenProperties
<1>2. MaxFees \in Nat
  BY AddressAssumption
<1> HIDE DEF m
<1>3. n \in 0 .. m /\ n \in Nat
  BY <1>1, <1>2 DEF Lesser
<1> HIDE DEF n
<1>4. /\ SubSeq(all, 1, n) \in [1 .. n -> Fee]
      /\ \A i \in 1 .. n : SubSeq(all, 1, n)[i] = all[i]
  BY <1>1, <1>3, FrontPart
<1>5. Cut(all) = SubSeq(all, 1, n)
  BY DEF Cut, n, m
<1>6. Cut(all) \in Seq(Fee) /\ Len(Cut(all)) = n
  <2> DEFINE cut == SubSeq(all, 1, n)
  <2>1. cut \in [1 .. n -> Fee]
    BY <1>4
  <2> HIDE DEF cut
  <2>2. cut \in Seq(Fee) /\ Len(cut) = n
    BY <1>3, <2>1, FunctionIsSequence
  <2> QED
    BY <1>5, <2>2 DEF cut
<1> QED
  BY <1>4, <1>5, <1>6 DEF n, m

LEMMA CutShort ==
  ASSUME NEW all \in Seq(Fee), Len(all) <= MaxFees
  PROVE  Cut(all) = all
<1>1. Len(all) \in Nat /\ MaxFees \in Nat
  BY LenProperties, AddressAssumption
<1>2. Lesser(Len(all), MaxFees) = Len(all)
  BY DEF Lesser
<1> DEFINE cut == Cut(all)
<1>3. cut \in Seq(Fee) /\ Len(cut) = Len(all) /\ \A i \in 1 .. Len(all) : cut[i] = all[i]
  BY <1>2, CutIs
<1> HIDE DEF cut
<1>4. \A i \in 1 .. Len(cut) : cut[i] = all[i]
  BY <1>3
<1>5. cut = all
  BY <1>3, <1>4, SeqEqual
<1> QED
  BY <1>5 DEF cut

(* Adding while there is room is cutting what was added. *)
LEMMA CutAdds ==
  ASSUME NEW all \in Seq(Fee), NEW item \in FeeItem
  PROVE  Added(Cut(all), item) = Cut(GoodAdded(all, item))
<1> DEFINE m == Len(all)
           x == FeeOf(item)
           more == Append(all, x)
           cut == Cut(all)
           valid == ValidAddress(DecodeBase58(item.address))
<1>1. m \in Nat /\ MaxFees \in Nat
  BY LenProperties, AddressAssumption
<1>2. cut \in Seq(Fee) /\ Len(cut) = Lesser(m, MaxFees) /\ \A i \in 1 .. Lesser(m, MaxFees) : cut[i] = all[i]
  BY CutIs
<1>3. Len(cut) < MaxFees <=> m < MaxFees
  <2> HIDE DEF m, cut
  <2> QED
    BY <1>1, <1>2 DEF Lesser
<1>4. CASE ~valid
  BY <1>4 DEF Added, GoodAdded
<1>5. CASE valid
  <2>1. x \in Fee
    BY <1>5, AddedType
  <2>2. GoodAdded(all, item) = more
    BY <1>5 DEF GoodAdded
  <2>3. Added(cut, item) = IF Len(cut) < MaxFees THEN Append(cut, x) ELSE cut
    BY <1>5 DEF Added
  <2> HIDE DEF x
  <2>4. more \in Seq(Fee) /\ Len(more) = m + 1 /\ \A i \in 1 .. m : more[i] = all[i]
    BY <2>1, AppendProperties
  <2> HIDE DEF more, valid
  <2>5. CASE m < MaxFees
    <3>1. cut = all
      BY <1>1, <2>5, CutShort
    <3>2. Cut(more) = more
      BY <1>1, <2>4, <2>5, CutShort
    <3>3. Added(cut, item) = Append(cut, x)
      BY <1>3, <2>3, <2>5
    <3> QED
      BY <2>2, <3>1, <3>2, <3>3 DEF more
  <2>6. CASE ~(m < MaxFees)
    <3> DEFINE longer == Cut(more)
    <3>1. Lesser(m, MaxFees) = MaxFees /\ Lesser(m + 1, MaxFees) = MaxFees
      BY <1>1, <2>6 DEF Lesser
    <3>2. /\ longer \in Seq(Fee) /\ Len(longer) = Lesser(Len(more), MaxFees)
          /\ \A i \in 1 .. Lesser(Len(more), MaxFees) : longer[i] = more[i]
      BY <2>4, CutIs
    <3> HIDE DEF longer, cut, m
    <3>3. Len(longer) = MaxFees /\ \A i \in 1 .. MaxFees : longer[i] = more[i]
      BY <2>4, <3>1, <3>2
    <3>4. Len(cut) = MaxFees /\ \A i \in 1 .. MaxFees : cut[i] = all[i]
      BY <1>2, <3>1
    <3>5. \A i \in 1 .. MaxFees : i \in 1 .. m
      BY <1>1, <2>6
    <3>6. \A i \in 1 .. Len(cut) : cut[i] = longer[i]
      BY <2>4, <3>3, <3>4, <3>5
    <3>7. cut = longer
      BY <1>2, <3>2, <3>3, <3>4, <3>6, SeqEqual
    <3>8. Added(cut, item) = cut
      BY <1>3, <2>3, <2>6
    <3> QED
      BY <2>2, <3>7, <3>8 DEF longer, cut
  <2> QED
    BY <2>5, <2>6
<1> QED
  BY <1>4, <1>5

(* The fees of the login packet are the first ones with a valid address.   *)
LEMMA FeesAreGood ==
  ASSUME NEW login \in Logins
  PROVE  /\ Fees(login) = GoodFees(login)
         /\ Fees(login) \in Seq(Fee) /\ Len(Fees(login)) <= MaxFees
<1> DEFINE n == Len(login.fees)
           item(i) == login.fees[i]
<1>1. n \in Nat /\ n \in 0 .. n /\ \A i \in 1 .. n : item(i) \in FeeItem
  BY LoginFees
<1>2. PICK added : /\ added[0] = <<>> /\ Fees(login) = added[n]
                   /\ \A i \in 1 .. n : added[i] = Added(added[i - 1], item(i))
  BY FeesSteps
<1>3. PICK good : /\ good[0] = <<>> /\ GoodFees(login) = Cut(good[n])
                  /\ \A i \in 1 .. n : good[i] = GoodAdded(good[i - 1], item(i))
                  /\ \A i \in 0 .. n : good[i] \in Seq(Fee)
  BY GoodSteps
<1> HIDE DEF n, item
<1> DEFINE same == [i \in 0 .. n |-> added[i] = Cut(good[i])]
<1>4. \A i \in 0 .. n : same[i] \in {TRUE}
  <2>1. same[0] \in {TRUE}
    <3> DEFINE none == <<>>
    <3>1. none \in Seq(Fee) /\ Len(none) <= MaxFees
      BY AddressAssumption
    <3> HIDE DEF none
    <3>2. Cut(none) = none
      BY <3>1, CutShort
    <3>3. added[0] = Cut(good[0]) /\ 0 \in 0 .. n
      BY <1>1, <1>2, <1>3, <3>2 DEF none
    <3> QED
      BY <3>3
  <2>2. ASSUME NEW i \in 1 .. n, same[i - 1] \in {TRUE} PROVE same[i] \in {TRUE}
    <3>1. i - 1 \in 0 .. n /\ i \in 0 .. n
      BY <1>1
    <3>2. added[i - 1] = Cut(good[i - 1])
      BY <2>2, <3>1
    <3>3. good[i - 1] \in Seq(Fee) /\ item(i) \in FeeItem
      BY <1>1, <1>3, <3>1
    <3>4. Added(Cut(good[i - 1]), item(i)) = Cut(GoodAdded(good[i - 1], item(i)))
      BY <3>3, CutAdds
    <3>5. added[i] = Cut(good[i])
      BY <1>2, <1>3, <3>2, <3>4
    <3> QED
      BY <3>1, <3>5
  <2> DEFINE yes == {TRUE}
  <2>3. n \in Nat
    BY <1>1
  <2>4. same[0] \in yes /\ \A i \in 1 .. n : same[i - 1] \in yes => same[i] \in yes
    <3> HIDE DEF same
    <3> QED
      BY <2>1, <2>2
  <2> HIDE DEF same, yes
  <2>5. \A i \in 0 .. n : same[i] \in yes
    BY <2>3, <2>4, Carried
  <2> QED
    BY <2>5 DEF yes
<1>5. added[n] = Cut(good[n])
  BY <1>1, <1>4
<1>6. Cut(good[n]) \in Seq(Fee) /\ Len(Cut(good[n])) = Lesser(Len(good[n]), MaxFees)
  BY <1>1, <1>3, CutIs
<1>7. Lesser(Len(good[n]), MaxFees) <= MaxFees
  <2>1. good[n] \in Seq(Fee)
    BY <1>1, <1>3
  <2>2. Len(good[n]) \in Nat /\ MaxFees \in Nat
    BY <2>1, LenProperties, AddressAssumption
  <2> QED
    BY <2>2 DEF Lesser
<1> QED
  BY <1>2, <1>3, <1>5, <1>6, <1>7

-----------------------------------------------------------------------------
(* What the calls of the client carry *)

LEMMA RoomLimits ==
  ASSUME NEW longest \in Nat, Room(longest)
  PROVE  /\ longest < DataLimit
         /\ \A n \in Nat : n <= 2 * MaxFees + 13 => 4 + n * longest <= SendLimit
<1> DEFINE most == 2 * MaxFees + 13
           x == most * longest
<1>1. MaxFees \in Nat /\ SendLimit \in Nat /\ SendLimit < DataLimit + 4 /\ DataLimit \in Nat
  BY AddressAssumption, PacketAssumption, BaseAssumption DEF DataLimit
<1>2. most \in Nat /\ 1 <= most
  BY <1>1
<1>3. 4 + x <= SendLimit
  BY DEF Room
<1> HIDE DEF most
<1>4. x \in Nat
  BY <1>2
<1>5. ASSUME NEW n \in Nat, n <= most PROVE 4 + n * longest <= SendLimit
  <2> DEFINE y == n * longest
  <2>1. y <= x /\ y \in Nat
    BY <1>2, <1>5, Products
  <2> HIDE DEF x, y
  <2>2. 4 + y <= SendLimit
    BY <1>1, <1>3, <1>4, <2>1
  <2> QED
    BY <2>2 DEF y
<1>6. 1 * longest <= x /\ 1 * longest = longest
  BY <1>2, Products
<1> HIDE DEF x
<1>7. longest < DataLimit
  BY <1>1, <1>3, <1>4, <1>6
<1> QED
  BY <1>5, <1>7 DEF most

LEMMA CarriesIf ==
  ASSUME NEW longest \in Nat, Room(longest), NEW item, NEW kind, NEW v,
         IsItem(item), Sound(kind, v), Encoded(item) = Chunk(kind, v),
         item.kind = "string" => ~BadMaximum(item.size) /\ Len(item.value) <= item.size - 1
  PROVE  Carries(item, kind, v)
<1> DEFINE chunk == Chunk(kind, v)
<1>1. chunk \in Seq(Byte) /\ Len(chunk) <= longest
  BY ChunkIs
<1>2. longest < DataLimit /\ DataLimit \in Nat
  BY RoomLimits, BaseAssumption DEF DataLimit
<1> HIDE DEF chunk
<1>3. Len(chunk) < DataLimit
  <2>1. Len(chunk) \in Nat
    BY <1>1, LenProperties
  <2> QED
    BY <1>1, <1>2, <2>1
<1>4. FitsItem(item)
  BY <1>3 DEF FitsItem, chunk
<1> QED
  BY <1>4 DEF Carries

LEMMA NumbersCarry ==
  ASSUME NEW longest \in Nat, Room(longest)
  PROVE  /\ \A v \in 0 .. MaxU8 : Carries(U8(v), "u8", v)
         /\ \A v \in 0 .. MaxU16 : Carries(U16(v), "u16", v)
         /\ \A v \in 0 .. MaxU32 : Carries(U32(v), "u32", v)
         /\ \A v \in 0 .. MaxU64 : Carries(U64(v), "u64", v)
<1>1. ASSUME NEW v \in 0 .. MaxU8 PROVE Carries(U8(v), "u8", v)
  <2> DEFINE item == U8(v)
  <2>1. item.kind = "number" /\ item.size = 1 /\ item.value = v /\ v \in Nat
    BY DEF U8
  <2> HIDE DEF item
  <2>2. IsItem(item) /\ Encoded(item) = Chunk("u8", v) /\ Sound("u8", v) /\ item.kind # "string"
    BY <2>1 DEF IsItem, Encoded, Chunk, Sound
  <2> QED
    BY <2>2, CarriesIf DEF item
<1>2. ASSUME NEW v \in 0 .. MaxU16 PROVE Carries(U16(v), "u16", v)
  <2> DEFINE item == U16(v)
  <2>1. item.kind = "number" /\ item.size = 2 /\ item.value = v /\ v \in Nat
    BY DEF U16
  <2> HIDE DEF item
  <2>2. IsItem(item) /\ Encoded(item) = Chunk("u16", v) /\ Sound("u16", v) /\ item.kind # "string"
    BY <2>1 DEF IsItem, Encoded, Chunk, Sound
  <2> QED
    BY <2>2, CarriesIf DEF item
<1>3. ASSUME NEW v \in 0 .. MaxU32 PROVE Carries(U32(v), "u32", v)
  <2> DEFINE item == U32(v)
  <2>1. item.kind = "number" /\ item.size = 4 /\ item.value = v /\ v \in Nat
    BY DEF U32
  <2> HIDE DEF item
  <2>2. IsItem(item) /\ Encoded(item) = Chunk("u32", v) /\ Sound("u32", v) /\ item.kind # "string"
    BY <2>1 DEF IsItem, Encoded, Chunk, Sound
  <2> QED
    BY <2>2, CarriesIf DEF item
<1>4. ASSUME NEW v \in 0 .. MaxU64 PROVE Carries(U64(v), "u64", v)
  <2> DEFINE item == U64(v)
  <2>1. item.kind = "number" /\ item.size = 8 /\ item.value = v /\ v \in Nat
    BY DEF U64
  <2> HIDE DEF item
  <2>2. IsItem(item) /\ Encoded(item) = Chunk("u64", v) /\ Sound("u64", v) /\ item.kind # "string"
    BY <2>1 DEF IsItem, Encoded, Chunk, Sound
  <2> QED
    BY <2>2, CarriesIf DEF item
<1> QED
  BY <1>1, <1>2, <1>3, <1>4

LEMMA BytesCarry ==
  ASSUME NEW longest \in Nat, Room(longest), NEW bytes \in Seq(Byte)
  PROVE  /\ Len(bytes) = HashSize => Carries(Raw(bytes), "hash", bytes)
         /\ Len(bytes) = KeySize => Carries(Raw(bytes), "key", bytes)
<1> DEFINE item == Raw(bytes)
<1>1. item.kind = "data" /\ item.value = bytes /\ IsItem(item)
  BY ByteItems DEF Raw
<1> HIDE DEF item
<1>2. ASSUME Len(bytes) = HashSize PROVE Carries(item, "hash", bytes)
  <2>1. Encoded(item) = Chunk("hash", bytes) /\ Sound("hash", bytes) /\ item.kind # "string"
    BY <1>1, <1>2 DEF Encoded, Chunk, Sound
  <2> QED
    BY <1>1, <2>1, CarriesIf
<1>3. ASSUME Len(bytes) = KeySize PROVE Carries(item, "key", bytes)
  <2>1. Encoded(item) = Chunk("key", bytes) /\ Sound("key", bytes) /\ item.kind # "string"
    BY <1>1, <1>3 DEF Encoded, Chunk, Sound
  <2> QED
    BY <1>1, <2>1, CarriesIf
<1> QED
  BY <1>2, <1>3 DEF item

LEMMA TextCarries ==
  ASSUME NEW longest \in Nat, Room(longest),
         NEW max \in 1 .. Base, NEW text \in Seq(Byte), Len(text) <= max - 1
  PROVE  Carries(Text(text, max), "bytes", text)
<1> DEFINE item == Text(text, max)
<1>1. Base \in Nat /\ Base >= 3 /\ max \in Nat /\ Len(text) \in Nat
  BY BaseAssumption, LenProperties
<1>2. item.kind = "string" /\ item.size = max /\ item.value = text
  BY DEF Text
<1> HIDE DEF item
<1>3. ~BadMaximum(max) /\ PrefixSize(max) = 1
  <2>1. 1 * Base <= Base * Base /\ 2 * Base <= Base * Base
    BY <1>1, Products
  <2> DEFINE sq == Base * Base
  <2>2. sq \in Nat /\ 2 * Base <= sq
    BY <1>1, <2>1
  <2> HIDE DEF sq
  <2>3. max <= sq - 1 /\ max # 0 /\ max - 1 <= Base - 1
    BY <1>1, <2>2
  <2> QED
    <3>1. MaxU16 = sq - 1
      BY DEF MaxU16, sq
    <3>2. ~(max = 0 \/ max > MaxU16)
      BY <1>1, <2>2, <2>3, <3>1
    <3> QED
      BY <2>3, <3>2 DEF BadMaximum, PrefixSize, MaxU8
<1>4. IsItem(item)
  BY <1>1, <1>2 DEF IsItem
<1>5. Encoded(item) = Chunk("bytes", text)
  BY <1>2, <1>3 DEF Encoded, Chunk
<1>6. Sound("bytes", text)
  BY <1>1 DEF Sound, MaxU8
<1>7. item.kind = "string" => ~BadMaximum(item.size) /\ Len(item.value) <= item.size - 1
  BY <1>2, <1>3
<1>8. Carries(item, "bytes", text)
  BY <1>4, <1>5, <1>6, <1>7, CarriesIf
<1> QED
  BY <1>8 DEF item

LEMMA ConveysConcat ==
  ASSUME NEW i1, NEW n1, NEW k1, NEW v1, NEW m1, NEW s1 \in Nat, Conveys(i1, n1, k1, v1, m1, s1),
         NEW i2, NEW n2, NEW k2, NEW v2, NEW m2, NEW s2 \in Nat, Conveys(i2, n2, k2, v2, m2, s2)
  PROVE  Conveys(i1 \o i2, n1 + n2, k1 \o k2, v1 \o v2, m1 + m2, s1 + s2)
<1>1. /\ IsList(i1, n1) /\ IsList(k1, m1) /\ IsList(v1, m1)
      /\ IsList(i2, n2) /\ IsList(k2, m2) /\ IsList(v2, m2)
  BY DEF Conveys
<1>2. /\ IsJoined(i1 \o i2, i1, n1, i2, n2) /\ IsJoined(k1 \o k2, k1, m1, k2, m2)
      /\ IsJoined(v1 \o v2, v1, m1, v2, m2)
  BY <1>1, ListJoined
<1> QED
  BY <1>2, ConveysJoined

LEMMA NameCarries ==
  ASSUME NEW longest \in Nat, Room(longest), NEW name \in Seq(Byte)
  PROVE  Carries(Text(CopiedName(name), MaxName), "bytes", Shortened(name))
<1> DEFINE m == Len(name)
           n == Lesser(m, MaxName - 1)
           copy == SubSeq(name, 1, n)
<1>1. m \in Nat /\ name \in [1 .. m -> Byte]
  BY LenProperties
<1>2. MaxName \in 1 .. Base /\ MaxName \in Nat
  BY PacketAssumption, BaseAssumption
<1> HIDE DEF m
<1>3. n \in 0 .. m /\ n \in Nat /\ n <= MaxName - 1
  BY <1>1, <1>2 DEF Lesser
<1> HIDE DEF n
<1>4. copy \in [1 .. n -> Byte]
  BY <1>1, <1>3, FrontPart
<1>5. copy \in Seq(Byte) /\ Len(copy) = n
  <2> HIDE DEF copy
  <2> QED
    BY <1>3, <1>4, FunctionIsSequence
<1>6. CopiedName(name) = copy /\ Shortened(name) = copy
  BY DEF CopiedName, Shortened, n, m
<1> HIDE DEF copy
<1>7. Carries(Text(copy, MaxName), "bytes", copy)
  BY <1>2, <1>3, <1>5, TextCarries
<1> QED
  BY <1>6, <1>7

LoginValues(user, pass, fees) ==
  <<6, Shortened(user), Shortened(pass), Version, Len(fees)>> \o FeeValues(fees)

LEMMA FeesConvey ==
  ASSUME NEW longest \in Nat, Room(longest), NEW fees \in Seq(Fee)
  PROVE  Conveys([i \in 1 .. 2 * Len(fees) |->
                    LET fee == fees[(i + 1) \div 2]
                    IN IF i % 2 = 1 THEN U16(fee.devFee) ELSE Raw(fee.pubKeyHash)],
                 2 * Len(fees), [i \in 1 .. 2 * Len(fees) |-> IF i % 2 = 1 THEN "u16" ELSE "key"],
                 FeeValues(fees), 2 * Len(fees), (2 * Len(fees)) * longest)
<1> DEFINE n == Len(fees)
           m == 2 * n
           item(i) == LET fee == fees[(i + 1) \div 2]
                      IN IF i % 2 = 1 THEN U16(fee.devFee) ELSE Raw(fee.pubKeyHash)
           items == [i \in 1 .. m |-> item(i)]
           kinds == [i \in 1 .. m |-> IF i % 2 = 1 THEN "u16" ELSE "key"]
           value(i) == IF i % 2 = 1 THEN fees[(i + 1) \div 2].devFee ELSE fees[i \div 2].pubKeyHash
           values == [i \in 1 .. m |-> value(i)]
<1>1. n \in Nat /\ \A i \in 1 .. n : fees[i] \in Fee
  BY LenProperties, ElementOfSeq
<1>2. FeeValues(fees) = values
  BY DEF FeeValues
<1> HIDE DEF n
<1>3. ASSUME NEW i \in 1 .. m
      PROVE  Carries(item(i), IF i % 2 = 1 THEN "u16" ELSE "key", value(i))
  <2> DEFINE j == (i + 1) \div 2
             fee == fees[j]
  <2>1. j \in 1 .. n /\ (i % 2 # 1 => i \div 2 = j)
    BY <1>1
  <2>2. fee \in Fee
    <3> HIDE DEF j
    <3> QED
      BY <1>1, <2>1
  <2>3. /\ item(i) = IF i % 2 = 1 THEN U16(fee.devFee) ELSE Raw(fee.pubKeyHash)
        /\ value(i) = IF i % 2 = 1 THEN fee.devFee ELSE fees[i \div 2].pubKeyHash
    BY Zenon
  <2>4. i % 2 # 1 => fees[i \div 2] = fee
    BY <2>1, Zenon
  <2> HIDE DEF fee, j, item, value
  <2>5. /\ fee.devFee \in 0 .. MaxU16 /\ fee.pubKeyHash \in Seq(Byte)
        /\ Len(fee.pubKeyHash) = KeySize
    BY <2>2, FeeFields
  <2>6. CASE i % 2 = 1
    <3>1. Carries(U16(fee.devFee), "u16", fee.devFee)
      BY <2>5, NumbersCarry
    <3> QED
      BY <2>3, <2>6, <3>1
  <2>7. CASE i % 2 # 1
    <3>1. Carries(Raw(fee.pubKeyHash), "key", fee.pubKeyHash)
      BY <2>5, BytesCarry
    <3> QED
      BY <2>3, <2>4, <2>7, <3>1
  <2> QED
    BY <2>6, <2>7
<1>4. m \in Nat
  BY <1>1
<1>5. \A i \in 1 .. m : /\ items[i] = item(i) /\ values[i] = value(i)
                        /\ kinds[i] = IF i % 2 = 1 THEN "u16" ELSE "key"
  <2> HIDE DEF item, value, m
  <2> QED
    OBVIOUS
<1>6. IsList(items, m) /\ IsList(kinds, m) /\ IsList(values, m)
  <2> HIDE DEF item, value, m
  <2> QED
    BY <1>4 DEF IsList
<1>7. \A i \in 1 .. m : Carries(items[i], kinds[i], values[i])
  <2> HIDE DEF items, kinds, values, item, value, m
  <2> QED
    BY <1>3, <1>5
<1> HIDE DEF items, kinds, values, m
<1>8. Conveys(items, m, kinds, values, m, m * longest)
  BY <1>4, <1>6, <1>7, ConveysEach
<1> QED
  BY <1>2, <1>8, Zenon DEF items, kinds, values, m, n

LEMMA LoginConveys ==
  ASSUME NEW longest \in Nat, Room(longest),
         NEW user \in Seq(Byte), NEW pass \in Seq(Byte),
         NEW fees \in Seq(Fee), Len(fees) <= MaxFees
  PROVE  Gets(SendWorkerLogin(user, pass, fees), LoginKinds(fees), LoginValues(user, pass, fees))
<1> DEFINE n == Len(fees)
           u == Shortened(user)
           p == Shortened(pass)
           i1 == U32(6)
           i2 == Text(CopiedName(user), MaxName)
           i3 == Text(CopiedName(pass), MaxName)
           i4 == Text(Version, MaxVersion)
           i5 == U8(n)
           head == <<i1, i2, i3, i4, i5>>
           headKinds == <<"u32", "bytes", "bytes", "bytes", "u8">>
           headValues == <<6, u, p, Version, n>>
           tail == [i \in 1 .. 2 * n |->
                      LET fee == fees[(i + 1) \div 2]
                      IN IF i % 2 = 1 THEN U16(fee.devFee) ELSE Raw(fee.pubKeyHash)]
           tailKinds == [i \in 1 .. 2 * n |-> IF i % 2 = 1 THEN "u16" ELSE "key"]
           tailValues == FeeValues(fees)
<1>1. n \in Nat /\ MaxFees \in Nat /\ n <= MaxU8 /\ MaxU8 \in Nat
  BY LenProperties, AddressAssumption, InputAssumption, BaseAssumption DEF MaxU8
<1>2. LoginItems(user, pass, fees) = head \o tail
  BY Zenon DEF LoginItems
<1>3. LoginKinds(fees) = headKinds \o tailKinds
  BY Zenon DEF LoginKinds
<1>4. LoginValues(user, pass, fees) = headValues \o tailValues
  BY Zenon DEF LoginValues
<1>5. Conveys(tail, 2 * n, tailKinds, tailValues, 2 * n, (2 * n) * longest)
  BY FeesConvey, Zenon
<1> HIDE DEF tail, tailKinds, tailValues
<1>6. Conveys(head, 5, headKinds, headValues, 5, 5 * longest)
  <2>1. Carries(i1, "u32", 6)
    <3>1. 6 \in 0 .. MaxU32
      <4> DEFINE b2 == Base * Base
                 b3 == b2 * Base
      <4>1. Base \in Nat /\ Base >= 3
        BY BaseAssumption
      <4>2. 3 * Base <= b2 /\ b2 \in Nat
        BY <4>1, Products
      <4> HIDE DEF b2
      <4>3. 3 * Base <= b3 /\ b3 \in Nat
        BY <4>1, <4>2, Products
      <4> HIDE DEF b3
      <4>4. 3 * Base <= b3 * Base /\ b3 * Base \in Nat
        BY <4>1, <4>3, Products
      <4>5. MaxU32 = b3 * Base - 1
        BY DEF MaxU32, b3, b2
      <4> DEFINE x == b3 * Base
      <4>6. x >= 9 /\ x \in Nat
        BY <4>1, <4>4
      <4> HIDE DEF x
      <4> QED
        BY <4>5, <4>6 DEF x
    <3> QED
      BY <3>1, NumbersCarry
  <2>2. Carries(i2, "bytes", u) /\ Carries(i3, "bytes", p)
    BY NameCarries
  <2>3. Carries(i4, "bytes", Version)
    <3>1. MaxVersion \in 1 .. Base /\ Version \in Seq(Byte) /\ Len(Version) < MaxVersion
      BY PacketAssumption
    <3>2. Len(Version) <= MaxVersion - 1
      BY <3>1, LenProperties, BaseAssumption
    <3> QED
      BY <3>1, <3>2, TextCarries
  <2>4. Carries(i5, "u8", n)
    <3>1. n \in 0 .. MaxU8
      BY <1>1
    <3> QED
      BY <3>1, NumbersCarry
  <2> HIDE DEF i1, i2, i3, i4, i5, u, p, n
  <2>5. IsList(head, 5) /\ IsList(headKinds, 5) /\ IsList(headValues, 5)
    BY DEF IsList
  <2>6. \A i \in 1 .. 5 : Carries(head[i], headKinds[i], headValues[i])
    BY <2>1, <2>2, <2>3, <2>4
  <2> DEFINE five == 5
  <2>7. /\ five \in Nat /\ IsList(head, five) /\ IsList(headKinds, five) /\ IsList(headValues, five)
        /\ \A i \in 1 .. five : Carries(head[i], headKinds[i], headValues[i])
    BY <2>5, <2>6
  <2> HIDE DEF five, head, headKinds, headValues
  <2>8. Conveys(head, five, headKinds, headValues, five, five * longest)
    BY <2>7, ConveysEach
  <2> QED
    BY <2>8 DEF five
<1> DEFINE s1 == 5 * longest
           s2 == (2 * n) * longest
           size == s1 + s2
           items == head \o tail
           kinds == headKinds \o tailKinds
           values == headValues \o tailValues
<1>7. s1 \in Nat /\ s2 \in Nat /\ 4 + size <= SendLimit
  <2>1. 5 + 2 * n \in Nat /\ 5 + 2 * n <= 2 * MaxFees + 13
    BY <1>1
  <2>2. 4 + (5 + 2 * n) * longest <= SendLimit
    BY <2>1, RoomLimits
  <2>3. (5 + 2 * n) * longest = 5 * longest + (2 * n) * longest
    BY <1>1
  <2> QED
    BY <1>1, <2>2, <2>3
<1> HIDE DEF head, headKinds, headValues, s1, s2, n
<1>8. Conveys(items, 5 + 2 * n, kinds, values, 5 + 2 * n, size)
  <2> DEFINE five == 5
             m == 2 * n
  <2>1. /\ Conveys(head, five, headKinds, headValues, five, s1)
        /\ Conveys(tail, m, tailKinds, tailValues, m, s2)
    BY <1>5, <1>6 DEF s1, s2
  <2> HIDE DEF five, m
  <2>2. Conveys(items, five + m, kinds, values, five + m, s1 + s2)
    BY <1>7, <2>1, ConveysConcat
  <2> QED
    BY <2>2 DEF five, m
<1>9. size \in Nat
  BY <1>7
<1> DEFINE k == 5 + 2 * n
<1> HIDE DEF items, kinds, values, size, k
<1>10. Gets(Compose(SendLimit, AUTH_REQ, items), kinds, values)
  <2>1. Conveys(items, k, kinds, values, k, size)
    BY <1>8 DEF k
  <2>2. AUTH_REQ \in Nat
    BY DEF AUTH_REQ
  <2>3. 4 + size <= SendLimit
    BY <1>7
  <2> QED
    BY <1>9, <2>1, <2>2, <2>3, PoolGets
<1> QED
  BY <1>2, <1>3, <1>4, <1>10 DEF SendWorkerLogin, items, kinds, values

MiddleKinds(alg) ==
  CASE alg = Prime       -> <<"u32", "u32", "bytes", "bytes">>
    [] alg = Protoshares -> <<"u32", "u32", "hash", "bytes">>
    [] alg = Riecoin     -> <<"hash", "hash", "bytes">>
    [] OTHER             -> <<"hash", "bytes">>

MiddleValues(s) ==
  CASE s.algorithm = Prime ->
         <<s.sieveSize, s.sieveCandidate, s.fixedMultiplier, s.chainMultiplier>>
    [] s.algorithm = Protoshares ->
         <<s.nBirthdayA, s.nBirthdayB, s.merkleRootOriginal, s.userExtraNonceData>>
    [] s.algorithm = Riecoin ->
         <<s.nOffset, s.merkleRootOriginal, s.userExtraNonceData>>
    [] OTHER -> <<s.merkleRootOriginal, s.userExtraNonceData>>

LEMMA ShareFields ==
  ASSUME NEW share, IsShare(share)
  PROVE  /\ share.version \in 0 .. MaxU32 /\ share.nTime \in 0 .. MaxU32
         /\ share.nonce \in 0 .. MaxU32 /\ share.nBits \in 0 .. MaxU32
         /\ share.sieveSize \in 0 .. MaxU32 /\ share.sieveCandidate \in 0 .. MaxU32
         /\ share.nBirthdayA \in 0 .. MaxU32 /\ share.nBirthdayB \in 0 .. MaxU32
         /\ share.merkleRoot \in Seq(Byte) /\ Len(share.merkleRoot) = HashSize
         /\ share.prevBlockHash \in Seq(Byte) /\ Len(share.prevBlockHash) = HashSize
         /\ share.nOffset \in Seq(Byte) /\ Len(share.nOffset) = HashSize
         /\ share.merkleRootOriginal \in Seq(Byte) /\ Len(share.merkleRootOriginal) = HashSize
         /\ share.fixedMultiplier \in Seq(Byte) /\ Len(share.fixedMultiplier) <= MaxU8
         /\ share.chainMultiplier \in Seq(Byte) /\ Len(share.chainMultiplier) <= MaxU8
         /\ share.userExtraNonceData \in Seq(Byte) /\ Len(share.userExtraNonceData) <= MaxU8
<1>1. {share.version, share.nTime, share.nonce, share.nBits, share.sieveSize,
       share.sieveCandidate, share.nBirthdayA, share.nBirthdayB} \subseteq 0 .. MaxU32
  BY DEF IsShare
<1>2. \A hash \in {share.merkleRoot, share.prevBlockHash, share.nOffset,
                   share.merkleRootOriginal} :
        hash \in Seq(Byte) /\ Len(hash) = HashSize
  BY DEF IsShare
<1>3. \A bytes \in {share.fixedMultiplier, share.chainMultiplier, share.userExtraNonceData} :
        bytes \in Seq(Byte) /\ Len(bytes) <= MaxU8
  BY DEF IsShare
<1> QED
  BY <1>1, <1>2, <1>3, Zenon

LEMMA MiddleConveys ==
  ASSUME NEW longest \in Nat, Room(longest), NEW share, IsShare(share)
  PROVE  \E n, k : \E size \in Nat :
           /\ Conveys(AlgorithmItems(share), n, MiddleKinds(share.algorithm),
                      MiddleValues(share), k, size)
           /\ size <= 4 * longest
<1> DEFINE fixed == share.fixedMultiplier
           chain == share.chainMultiplier
           extra == share.userExtraNonceData
           a == U32(share.sieveSize)
           b == U32(share.sieveCandidate)
           c == U8(Len(fixed))
           d == Raw(fixed)
           e == U8(Len(chain))
           f == Raw(chain)
           g == U32(share.nBirthdayA)
           h == U32(share.nBirthdayB)
           m == Raw(share.merkleRootOriginal)
           l == Raw(share.nOffset)
           va == share.sieveSize
           vb == share.sieveCandidate
           vg == share.nBirthdayA
           vh == share.nBirthdayB
           vm == share.merkleRootOriginal
           vl == share.nOffset
           nonce == ExtraNonce(share)
           one == 1
           two == 2
           three == 3
           alg == share.algorithm
           items == AlgorithmItems(share)
           kinds == MiddleKinds(share.algorithm)
           values == MiddleValues(share)
<1>1. /\ Carries(a, "u32", va) /\ Carries(b, "u32", vb)
      /\ Carries(g, "u32", vg) /\ Carries(h, "u32", vh)
  BY ShareFields, NumbersCarry
<1>2. Carries(m, "hash", vm) /\ Carries(l, "hash", vl)
  BY ShareFields, BytesCarry
<1>3. /\ Conveys(<<c, d>>, two, <<"bytes">>, <<fixed>>, one, longest)
      /\ Conveys(<<e, f>>, two, <<"bytes">>, <<chain>>, one, longest)
  BY ShareFields, ConveysCounted
<1>4. Conveys(nonce, two, <<"bytes">>, <<extra>>, one, longest)
  <2>1. nonce = <<U8(Len(extra)), Raw(extra)>>
    BY DEF ExtraNonce
  <2>2. Conveys(<<U8(Len(extra)), Raw(extra)>>, two, <<"bytes">>, <<extra>>, one, longest)
    BY ShareFields, ConveysCounted
  <2> QED
    BY <2>1, <2>2
<1>5. /\ alg = Prime => /\ items = <<a, b, c, d, e, f>>
                        /\ kinds = <<"u32", "u32", "bytes", "bytes">>
                        /\ values = <<va, vb, fixed, chain>>
      /\ alg = Protoshares => /\ items = <<g, h, m>> \o nonce
                              /\ kinds = <<"u32", "u32", "hash", "bytes">>
                              /\ values = <<vg, vh, vm, extra>>
      /\ alg = Riecoin => /\ items = <<l, m>> \o nonce
                          /\ kinds = <<"hash", "hash", "bytes">>
                          /\ values = <<vl, vm, extra>>
      /\ alg \notin {Prime, Protoshares, Riecoin} =>
            /\ items = <<m>> \o nonce
            /\ kinds = <<"hash", "bytes">> /\ values = <<vm, extra>>
  <2>1. Prime # Protoshares /\ Prime # Riecoin /\ Protoshares # Riecoin
    BY PacketAssumption
  <2>2. items = CASE alg = Prime -> <<a, b, c, d, e, f>>
                  [] alg = Protoshares -> <<g, h, m>> \o nonce
                  [] alg = Riecoin -> <<l, m>> \o nonce
                  [] OTHER -> <<m>> \o nonce
    BY Zenon DEF AlgorithmItems
  <2>3. kinds = CASE alg = Prime       -> <<"u32", "u32", "bytes", "bytes">>
                  [] alg = Protoshares -> <<"u32", "u32", "hash", "bytes">>
                  [] alg = Riecoin     -> <<"hash", "hash", "bytes">>
                  [] OTHER             -> <<"hash", "bytes">>
    BY Zenon DEF MiddleKinds
  <2>4. values = CASE alg = Prime -> <<va, vb, fixed, chain>>
                   [] alg = Protoshares -> <<vg, vh, vm, extra>>
                   [] alg = Riecoin -> <<vl, vm, extra>>
                   [] OTHER -> <<vm, extra>>
    BY Zenon DEF MiddleValues
  <2> HIDE DEF a, b, c, d, e, f, g, h, m, l, va, vb, vg, vh, vm, vl, nonce, fixed, chain, extra,
               items, kinds, values, alg
  <2> QED
    BY <2>1, <2>2, <2>3, <2>4
<1>6. 2 * longest \in Nat /\ 3 * longest \in Nat
  OBVIOUS
<1> HIDE DEF a, b, c, d, e, f, g, h, m, l, va, vb, vg, vh, vm, vl, nonce, fixed, chain, extra,
             items, kinds, values, alg
<1> DEFINE word == <<"bytes">>
<1>7. CASE alg = Prime
  <2> DEFINE i1 == <<a, b>>
             k1 == <<"u32", "u32">>
             v1 == <<va, vb>>
             i2 == <<c, d, e, f>>
             k2 == <<"bytes", "bytes">>
             v2 == <<fixed, chain>>
             c1 == <<c, d>>
             c2 == <<e, f>>
             f1 == <<fixed>>
             f2 == <<chain>>
  <2>1. Conveys(i1, two, k1, v1, two, two * longest)
    <3>1. two \in Nat /\ IsList(i1, two) /\ IsList(k1, two) /\ IsList(v1, two)
      BY DEF IsList
    <3>2. \A i \in 1 .. two : Carries(i1[i], k1[i], v1[i])
      BY <1>1
    <3> HIDE DEF i1, k1, v1, two
    <3> QED
      BY <3>1, <3>2, ConveysEach
  <2>2. /\ IsJoined(i2, c1, two, c2, two)
        /\ IsJoined(k2, word, one, word, one) /\ IsJoined(v2, f1, one, f2, one)
    BY DEF IsJoined, IsList
  <2>3. Conveys(i2, two + two, k2, v2, one + one, longest + longest)
    <3>1. Conveys(c1, two, word, f1, one, longest) /\ Conveys(c2, two, word, f2, one, longest)
      BY <1>3
    <3> HIDE DEF i2, k2, v2, c1, c2, f1, f2, one, two, word
    <3> QED
      BY <2>2, <3>1, ConveysJoined
  <2>4. /\ IsJoined(items, i1, two, i2, two + two)
        /\ IsJoined(kinds, k1, two, k2, one + one) /\ IsJoined(values, v1, two, v2, one + one)
    BY <1>5, <1>7 DEF IsJoined, IsList
  <2> DEFINE four == two + two
             pair == one + one
             s1 == two * longest
             s2 == longest + longest
  <2>5. s1 \in Nat /\ s2 \in Nat /\ s1 + s2 <= 4 * longest /\ s1 + s2 \in Nat
    OBVIOUS
  <2>6. Conveys(items, two + four, kinds, values, two + pair, s1 + s2)
    <3>1. /\ Conveys(i1, two, k1, v1, two, s1) /\ Conveys(i2, four, k2, v2, pair, s2)
          /\ IsJoined(items, i1, two, i2, four)
          /\ IsJoined(kinds, k1, two, k2, pair) /\ IsJoined(values, v1, two, v2, pair)
      BY <2>1, <2>3, <2>4
    <3> HIDE DEF i1, k1, v1, i2, k2, v2, two, four, pair, s1, s2
    <3> QED
      BY <2>5, <3>1, ConveysJoined
  <2> HIDE DEF s1, s2, two, four, pair
  <2> QED
    BY <2>5, <2>6 DEF items, kinds, values
<1>8. CASE alg = Protoshares
  <2> DEFINE i1 == <<g, h, m>>
             k1 == <<"u32", "u32", "hash">>
             v1 == <<vg, vh, vm>>
             v2 == <<extra>>
             s1 == three * longest
  <2>1. Conveys(i1, three, k1, v1, three, s1)
    <3>1. three \in Nat /\ IsList(i1, three) /\ IsList(k1, three) /\ IsList(v1, three)
      BY DEF IsList
    <3>2. \A i \in 1 .. three : Carries(i1[i], k1[i], v1[i])
      BY <1>1, <1>2
    <3> HIDE DEF i1, k1, v1, three
    <3> QED
      BY <3>1, <3>2, ConveysEach
  <2>2. items = i1 \o nonce /\ IsList(nonce, two)
    BY <1>4, <1>5, <1>8 DEF Conveys
  <2>3. IsJoined(items, i1, three, nonce, two)
    <3>1. IsList(i1, three)
      BY <2>1 DEF Conveys
    <3> HIDE DEF i1, three, two
    <3> QED
      BY <2>2, <3>1, ListJoined
  <2>4. IsJoined(kinds, k1, three, word, one) /\ IsJoined(values, v1, three, v2, one)
    BY <1>5, <1>8 DEF IsJoined, IsList
  <2>5. s1 \in Nat /\ s1 + longest <= 4 * longest /\ s1 + longest \in Nat
    OBVIOUS
  <2>6. Conveys(nonce, two, word, v2, one, longest)
    BY <1>4
  <2> HIDE DEF i1, k1, v1, v2, s1, one, two, three, word
  <2>7. Conveys(items, three + two, kinds, values, three + one, s1 + longest)
    BY <2>1, <2>3, <2>4, <2>5, <2>6, ConveysJoined
  <2> QED
    BY <2>5, <2>7 DEF items, kinds, values
<1>9. CASE alg = Riecoin
  <2> DEFINE i1 == <<l, m>>
             k1 == <<"hash", "hash">>
             v1 == <<vl, vm>>
             v2 == <<extra>>
             s1 == two * longest
  <2>1. Conveys(i1, two, k1, v1, two, s1)
    <3>1. two \in Nat /\ IsList(i1, two) /\ IsList(k1, two) /\ IsList(v1, two)
      BY DEF IsList
    <3>2. \A i \in 1 .. two : Carries(i1[i], k1[i], v1[i])
      BY <1>2
    <3> HIDE DEF i1, k1, v1, two
    <3> QED
      BY <3>1, <3>2, ConveysEach
  <2>2. items = i1 \o nonce /\ IsList(nonce, two)
    BY <1>4, <1>5, <1>9 DEF Conveys
  <2>3. IsJoined(items, i1, two, nonce, two)
    <3>1. IsList(i1, two)
      BY <2>1 DEF Conveys
    <3> HIDE DEF i1, two
    <3> QED
      BY <2>2, <3>1, ListJoined
  <2>4. IsJoined(kinds, k1, two, word, one) /\ IsJoined(values, v1, two, v2, one)
    BY <1>5, <1>9 DEF IsJoined, IsList
  <2>5. s1 \in Nat /\ s1 + longest <= 4 * longest /\ s1 + longest \in Nat
    OBVIOUS
  <2>6. Conveys(nonce, two, word, v2, one, longest)
    BY <1>4
  <2> HIDE DEF i1, k1, v1, v2, s1, one, two, word
  <2>7. Conveys(items, two + two, kinds, values, two + one, s1 + longest)
    BY <2>1, <2>3, <2>4, <2>5, <2>6, ConveysJoined
  <2> QED
    BY <2>5, <2>7 DEF items, kinds, values
<1>10. CASE alg \notin {Prime, Protoshares, Riecoin}
  <2> DEFINE i1 == <<m>>
             k1 == <<"hash">>
             v1 == <<vm>>
             v2 == <<extra>>
             s1 == one * longest
  <2>1. Conveys(i1, one, k1, v1, one, s1)
    <3>1. one \in Nat /\ IsList(i1, one) /\ IsList(k1, one) /\ IsList(v1, one)
      BY DEF IsList
    <3>2. \A i \in 1 .. one : Carries(i1[i], k1[i], v1[i])
      BY <1>2
    <3> HIDE DEF i1, k1, v1, one
    <3> QED
      BY <3>1, <3>2, ConveysEach
  <2>2. items = i1 \o nonce /\ IsList(nonce, two)
    BY <1>4, <1>5, <1>10 DEF Conveys
  <2>3. IsJoined(items, i1, one, nonce, two)
    <3>1. IsList(i1, one)
      BY <2>1 DEF Conveys
    <3> HIDE DEF i1, one, two
    <3> QED
      BY <2>2, <3>1, ListJoined
  <2>4. IsJoined(kinds, k1, one, word, one) /\ IsJoined(values, v1, one, v2, one)
    BY <1>5, <1>10 DEF IsJoined, IsList
  <2>5. s1 \in Nat /\ s1 + longest <= 4 * longest /\ s1 + longest \in Nat
    OBVIOUS
  <2>6. Conveys(nonce, two, word, v2, one, longest)
    BY <1>4
  <2> HIDE DEF i1, k1, v1, v2, s1, one, two, word
  <2>7. Conveys(items, one + two, kinds, values, one + one, s1 + longest)
    BY <2>1, <2>3, <2>4, <2>5, <2>6, ConveysJoined
  <2> QED
    BY <2>5, <2>7 DEF items, kinds, values
<1> QED
  BY <1>7, <1>8, <1>9, <1>10

LEMMA ShareConveys ==
  ASSUME NEW longest \in Nat, Room(longest), NEW share, IsShare(share)
  PROVE  Gets(SendShare(share), ShareKinds(share.algorithm), ShareValues(share))
<1> DEFINE i1 == Raw(share.merkleRoot)
           i2 == Raw(share.prevBlockHash)
           i3 == U32(share.version)
           i4 == U32(share.nTime)
           i5 == U32(share.nonce)
           i6 == U32(share.nBits)
           zero == U32(0)
           v1 == share.merkleRoot
           v2 == share.prevBlockHash
           v3 == share.version
           v4 == share.nTime
           v5 == share.nonce
           v6 == share.nBits
           head == <<i1, i2, i3, i4, i5, i6>>
           headKinds == <<"hash", "hash", "u32", "u32", "u32", "u32">>
           headValues == <<v1, v2, v3, v4, v5, v6>>
           middle == AlgorithmItems(share)
           middleKinds == MiddleKinds(share.algorithm)
           middleValues == MiddleValues(share)
           last == <<zero>>
           lastKinds == <<"u32">>
           lastValues == <<0>>
           one == 1
           six == 6
           s1 == six * longest
           s3 == one * longest
<1>1. /\ Carries(i1, "hash", v1) /\ Carries(i2, "hash", v2)
      /\ Carries(i3, "u32", v3) /\ Carries(i4, "u32", v4)
      /\ Carries(i5, "u32", v5) /\ Carries(i6, "u32", v6)
  BY ShareFields, NumbersCarry, BytesCarry
<1>2. Carries(zero, "u32", 0)
  <2>1. 0 \in 0 .. MaxU32
    <3>1. share.version \in 0 .. MaxU32
      BY ShareFields
    <3>2. MaxU32 \in Int
      BY BaseAssumption DEF MaxU32
    <3> QED
      BY <3>1, <3>2
  <2> QED
    BY <2>1, NumbersCarry
<1>3. ShareItems(share) = (head \o middle) \o last
  BY DEF ShareItems
<1>4. ShareKinds(share.algorithm) = (headKinds \o middleKinds) \o lastKinds
  BY DEF ShareKinds, MiddleKinds
<1>5. ShareValues(share) = (headValues \o middleValues) \o lastValues
  BY DEF ShareValues, MiddleValues
<1>6. PICK n, k : \E size \in Nat :
        Conveys(middle, n, middleKinds, middleValues, k, size) /\ size <= 4 * longest
  BY MiddleConveys
<1>7. PICK s2 \in Nat :
        Conveys(middle, n, middleKinds, middleValues, k, s2) /\ s2 <= 4 * longest
  BY <1>6
<1> HIDE DEF i1, i2, i3, i4, i5, i6, zero, v1, v2, v3, v4, v5, v6,
             middle, middleKinds, middleValues
<1>8. Conveys(head, six, headKinds, headValues, six, s1)
  <2>1. six \in Nat /\ IsList(head, six) /\ IsList(headKinds, six) /\ IsList(headValues, six)
    BY DEF IsList
  <2>2. \A i \in 1 .. six : Carries(head[i], headKinds[i], headValues[i])
    BY <1>1
  <2> HIDE DEF head, headKinds, headValues, six
  <2> QED
    BY <2>1, <2>2, ConveysEach
<1>9. Conveys(last, one, lastKinds, lastValues, one, s3)
  <2>1. one \in Nat /\ IsList(last, one) /\ IsList(lastKinds, one) /\ IsList(lastValues, one)
    BY DEF IsList
  <2>2. \A i \in 1 .. one : Carries(last[i], lastKinds[i], lastValues[i])
    BY <1>2
  <2> HIDE DEF last, lastKinds, lastValues, one
  <2> QED
    BY <2>1, <2>2, ConveysEach
<1> DEFINE size == (s1 + s2) + s3
           items == (head \o middle) \o last
           kinds == (headKinds \o middleKinds) \o lastKinds
           values == (headValues \o middleValues) \o lastValues
<1>10. s1 \in Nat /\ s3 \in Nat /\ s1 + s2 \in Nat /\ size \in Nat /\ 4 + size <= SendLimit
  <2>1. s1 \in Nat /\ s3 \in Nat /\ s1 = 6 * longest /\ s3 = longest
    OBVIOUS
  <2> HIDE DEF s1, s3
  <2>2. s1 + s2 \in Nat /\ size \in Nat /\ size <= 11 * longest
    BY <1>7, <2>1
  <2>3. 4 + 11 * longest <= SendLimit
    <3>1. 11 \in Nat /\ 11 <= 2 * MaxFees + 13
      BY AddressAssumption
    <3> QED
      BY <3>1, RoomLimits
  <2>4. SendLimit \in Nat
    BY PacketAssumption
  <2> HIDE DEF size
  <2>5. 4 + size <= SendLimit
    BY <2>2, <2>3, <2>4
  <2> QED
    BY <2>1, <2>2, <2>5
<1> HIDE DEF head, headKinds, headValues, last, lastKinds, lastValues, s1, s3, one, six
<1>11. Conveys(head \o middle, six + n, headKinds \o middleKinds, headValues \o middleValues,
               six + k, s1 + s2)
  BY <1>7, <1>8, <1>10, ConveysConcat
<1> DEFINE s12 == s1 + s2
<1>12. Conveys(items, (six + n) + one, kinds, values, (six + k) + one, size)
  <2>1. s12 \in Nat
    BY <1>10
  <2>2. Conveys(head \o middle, six + n, headKinds \o middleKinds, headValues \o middleValues,
                six + k, s12)
    BY <1>11
  <2> HIDE DEF s12
  <2>3. Conveys(items, (six + n) + one, kinds, values, (six + k) + one, s12 + s3)
    BY <1>9, <1>10, <2>1, <2>2, ConveysConcat
  <2> QED
    BY <2>3 DEF s12
<1> HIDE DEF items, kinds, values, size
<1>13. Gets(Compose(SendLimit, SUBMIT_SHARE, items), kinds, values)
  <2>1. SUBMIT_SHARE \in Nat
    BY DEF SUBMIT_SHARE
  <2> QED
    BY <1>10, <1>12, <2>1, PoolGets
<1> QED
  BY <1>3, <1>4, <1>5, <1>13 DEF SendShare, items, kinds, values

LEMMA PingConveys ==
  ASSUME NEW longest \in Nat, Room(longest), NEW v \in 0 .. MaxU64
  PROVE  Gets(SendPing(v), <<"u64">>, <<v>>)
<1> DEFINE item == U64(v)
           items == <<item>>
           kinds == <<"u64">>
           values == <<v>>
           one == 1
           size == one * longest
<1>1. Carries(item, "u64", v)
  BY NumbersCarry
<1> HIDE DEF item
<1>2. one \in Nat /\ IsList(items, one) /\ IsList(kinds, one) /\ IsList(values, one)
  BY DEF IsList
<1>3. \A i \in 1 .. one : Carries(items[i], kinds[i], values[i])
  BY <1>1
<1>4. size \in Nat /\ 4 + size <= SendLimit
  <2>1. one \in Nat /\ one <= 2 * MaxFees + 13
    BY AddressAssumption
  <2> HIDE DEF one
  <2>2. 4 + one * longest <= SendLimit
    BY <2>1, RoomLimits
  <2> QED
    BY <2>1, <2>2
<1> HIDE DEF items, kinds, values, one
<1>5. Conveys(items, one, kinds, values, one, size)
  BY <1>2, <1>3, ConveysEach
<1> HIDE DEF size
<1>6. Gets(Compose(SendLimit, PING, items), kinds, values)
  <2>1. PING \in Nat
    BY DEF PING
  <2> QED
    BY <1>4, <1>5, <2>1, PoolGets
<1> QED
  BY <1>6 DEF SendPing, items, kinds, values, item

LEMMA PacketsUnderstood ==
  ASSUME input \in Inputs
  PROVE  PoolUnderstands
<1>1. PICK longest \in Nat : Room(longest)
  <2>1. \E longest \in 8 .. SendLimit : Room(longest)
    BY InputAssumption
  <2>2. \A longest \in 8 .. SendLimit : longest \in Nat
    BY PacketAssumption
  <2> QED
    BY <2>1, <2>2, Zenon
<1> DEFINE x == input.value
<1>2. \A kinds, values : Means(kinds, values) <=> Gets(Composition, kinds, values)
  BY Zenon DEF Means, Gets
<1>3. ASSUME Is("login")
      PROVE  Means(LoginKinds(GoodFees(x)),
                   <<6, Shortened(x.user), Shortened(x.pass), Version, Len(GoodFees(x))>>
                     \o FeeValues(GoodFees(x)))
  <2>1. x \in Logins
    BY <1>3, InputOfKind
  <2>2. Composition = SendWorkerLogin(x.user, x.pass, Fees(x))
    BY <1>3 DEF Composition, Is
  <2>3. x.user \in Seq(Byte) /\ x.pass \in Seq(Byte)
    BY <2>1, InputAssumption
  <2> DEFINE fees == Fees(x)
             user == x.user
             pass == x.pass
  <2>4. fees = GoodFees(x) /\ fees \in Seq(Fee) /\ Len(fees) <= MaxFees
    BY <2>1, FeesAreGood
  <2> HIDE DEF fees, user, pass
  <2>5. user \in Seq(Byte) /\ pass \in Seq(Byte)
    BY <2>3 DEF user, pass
  <2>6. Gets(SendWorkerLogin(user, pass, fees), LoginKinds(fees), LoginValues(user, pass, fees))
    BY <1>1, <2>4, <2>5, LoginConveys
  <2>7. Means(LoginKinds(fees), LoginValues(user, pass, fees))
    BY <1>2, <2>2, <2>6 DEF fees, user, pass
  <2>8. LoginValues(user, pass, fees) =
          <<6, Shortened(user), Shortened(pass), Version, Len(fees)>> \o FeeValues(fees)
    BY Zenon DEF LoginValues
  <2> QED
    BY <2>4, <2>7, <2>8 DEF user, pass
<1>4. ASSUME Is("share") PROVE Means(ShareKinds(x.algorithm), ShareValues(x))
  <2>1. x \in Shares
    BY <1>4, InputOfKind
  <2>2. Composition = SendShare(x)
    BY <1>4 DEF Composition, Is
  <2>3. IsShare(x)
    BY <2>1, InputAssumption
  <2> HIDE DEF x
  <2>4. Gets(SendShare(x), ShareKinds(x.algorithm), ShareValues(x))
    BY <1>1, <2>3, ShareConveys
  <2> QED
    BY <1>2, <2>2, <2>4
<1>5. ASSUME Is("ping") PROVE Means(<<"u64">>, <<x>>)
  <2>1. x \in {0, MaxU64}
    BY <1>5, InputOfKind
  <2>2. Composition = SendPing(x)
    BY <1>5 DEF Composition, Is
  <2>3. MaxU64 \in Nat
    BY LongestNumber
  <2> HIDE DEF x
  <2>4. x \in 0 .. MaxU64
    BY <2>1, <2>3
  <2>5. Gets(SendPing(x), <<"u64">>, <<x>>)
    BY <1>1, <2>4, PingConveys
  <2> QED
    BY <1>2, <2>2, <2>5
<1> QED
  BY <1>3, <1>4, <1>5, Zenon DEF PoolUnderstands

(* The pool reads from every packet the values the client means to send    *)
(* and nothing is left over, whatever the names, the addresses of the      *)
(* fees, the fields and the algorithm.                                     *)
THEOREM PacketsAreUnderstood == Spec => []PoolUnderstands
BY PacketsUnderstood, AlwaysAnInput, PTL
=============================================================================
