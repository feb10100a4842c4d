------------------------------- MODULE Recursion -------------------------------
(***************************************************************************)
(* Induction and recursion on the natural numbers, for sets and functions: *)
(* the library states induction for an operator that is a parameter, which *)
(* no prover here can instantiate.                                         *)
(***************************************************************************)
EXTENDS Integers, WellFoundedInduction, TLAPS

LEMMA NatOrdered == IsWellFoundedOn({p \in Nat \X Nat : p[1] < p[2]}, Nat)
BY NatLessThanWellFounded DEF OpToRel

(* A set of numbers that is not empty has a least one. *)
LEMMA Least ==
  ASSUME NEW T \in SUBSET Nat, T # {}
  PROVE  \E x \in T : \A y \in T : x <= y
<1> DEFINE R == {p \in Nat \X Nat : p[1] < p[2]}
<1>1. PICK x \in T : \A y \in T : <<y, x>> \notin R
  <2>1. IsWellFoundedOn(R, Nat)
    BY NatOrdered
  <2> HIDE DEF R
  <2> QED
    BY <2>1, WFMin
<1>2. \A y \in T : ~(y < x)
  BY <1>1
<1> QED
  BY <1>1, <1>2

(* A set with 0 and with the successors of its numbers has all numbers. *)
LEMMA SetInduction ==
  ASSUME NEW S, 0 \in S, \A n \in S \cap Nat : n + 1 \in S
  PROVE  Nat \subseteq S
<1> SUFFICES ASSUME Nat \ S # {} PROVE FALSE
  OBVIOUS
<1>1. PICK x \in Nat \ S : \A y \in Nat \ S : x <= y
  BY Least
<1>2. x - 1 \in Nat /\ x - 1 \in S
  BY <1>1
<1>3. (x - 1) + 1 = x
  BY <1>1
<1> QED
  BY <1>1, <1>2, <1>3

(* A function that is given by a base and a step for each number up to L *)
(* exists.                                                               *)
Steps(L, T) == [1 .. L -> [T -> T]]

LEMMA Iteration ==
  ASSUME NEW L \in Nat, NEW T, NEW base \in T, NEW step \in Steps(L, T)
  PROVE  \E g \in [0 .. L -> T] :
           /\ g[0] = base
           /\ \A n \in 1 .. L : g[n] = step[n][g[n - 1]]
<1> DEFINE Good(g, m) == /\ g \in [0 .. m -> T] /\ g[0] = base
                         /\ \A n \in 1 .. m : g[n] = step[n][g[n - 1]]
           S == {m \in Nat : m <= L => \E g : Good(g, m)}
<1> USE DEF Steps
<1>1. 0 \in S
  <2>1. Good([n \in 0 .. 0 |-> base], 0)
    OBVIOUS
  <2> HIDE DEF Good
  <2> QED
    BY <2>1
<1>2. ASSUME NEW m \in S \cap Nat PROVE m + 1 \in S
  <2> SUFFICES ASSUME m + 1 <= L PROVE \E g : Good(g, m + 1)
    OBVIOUS
  <2>1. PICK g : Good(g, m)
    BY <1>2
  <2> DEFINE h == [n \in 0 .. m + 1 |-> IF n <= m THEN g[n] ELSE step[m + 1][g[m]]]
  <2>2. h \in [0 .. m + 1 -> T]
    <3> SUFFICES ASSUME NEW n \in 0 .. m + 1 PROVE h[n] \in T
      OBVIOUS
    <3>1. CASE n <= m
      BY <2>1, <3>1
    <3>2. CASE n = m + 1
      <4>1. g[m] \in T /\ step[m + 1] \in [T -> T]
        BY <2>1
      <4> QED
        BY <3>2, <4>1
    <3> QED
      BY <3>1, <3>2
  <2>3. h[0] = base
    BY <2>1
  <2>4. ASSUME NEW n \in 1 .. m + 1 PROVE h[n] = step[n][h[n - 1]]
    <3>1. CASE n <= m
      <4>1. n \in 1 .. m /\ n - 1 \in 0 .. m + 1 /\ n - 1 <= m
        BY <3>1
      <4> QED
        BY <2>1, <3>1, <4>1
    <3>2. CASE n = m + 1
      <4>1. h[n] = step[m + 1][g[m]] /\ h[n - 1] = g[m]
        BY <3>2
      <4> QED
        BY <3>2, <4>1
    <3> QED
      BY <3>1, <3>2
  <2>5. Good(h, m + 1)
    BY <2>2, <2>3, <2>4
  <2> QED
    BY <2>5
<1>3. L \in S
  <2> HIDE DEF S
  <2> QED
    BY <1>1, <1>2, SetInduction
<1> QED
  BY <1>3

(* What holds at the beginning and is carried by each step holds throughout. *)
LEMMA Carried ==
  ASSUME NEW n \in Nat, NEW T, NEW g, g[0] \in T,
         \A i \in 1 .. n : g[i - 1] \in T => g[i] \in T
  PROVE  \A i \in 0 .. n : g[i] \in T
<1> DEFINE S == {m \in Nat : m <= n => g[m] \in T}
<1>1. 0 \in S
  OBVIOUS
<1>2. ASSUME NEW m \in S \cap Nat PROVE m + 1 \in S
  <2> SUFFICES ASSUME m + 1 <= n PROVE g[m + 1] \in T
    OBVIOUS
  <2>1. m + 1 \in 1 .. n /\ (m + 1) - 1 = m /\ g[m] \in T
    BY <1>2
  <2> QED
    BY <2>1
<1>3. Nat \subseteq S
  <2> HIDE DEF S
  <2> QED
    BY <1>1, <1>2, SetInduction
<1> QED
  BY <1>3

(* Two functions that take the same steps are the same. *)
LEMMA Determined ==
  ASSUME NEW n \in Nat, NEW f, NEW g, f[0] = g[0],
         \A i \in 1 .. n : f[i - 1] = g[i - 1] => f[i] = g[i]
  PROVE  \A i \in 0 .. n : f[i] = g[i]
<1> DEFINE S == {m \in Nat : m <= n => f[m] = g[m]}
<1>1. 0 \in S
  OBVIOUS
<1>2. ASSUME NEW m \in S \cap Nat PROVE m + 1 \in S
  <2> SUFFICES ASSUME m + 1 <= n PROVE f[m + 1] = g[m + 1]
    OBVIOUS
  <2>1. m + 1 \in 1 .. n /\ (m + 1) - 1 = m /\ f[m] = g[m]
    BY <1>2
  <2> QED
    BY <2>1
<1>3. Nat \subseteq S
  <2> HIDE DEF S
  <2> QED
    BY <1>1, <1>2, SetInduction
<1> QED
  BY <1>3

(* The same between two numbers. *)
Runs(g, b, e, T, base, step) ==
  /\ g \in [b .. e -> T] /\ g[b] = base
  /\ \A i \in b + 1 .. e : g[i] = step[i][g[i - 1]]

LEMMA IterationFrom ==
  ASSUME NEW b \in Int, NEW e \in Int, b <= e, NEW T, NEW base \in T,
         NEW step, step \in [b + 1 .. e -> [T -> T]]
  PROVE  \E g : Runs(g, b, e, T, base, step)
<1> DEFINE size == e - b
           moved == [k \in 1 .. size |-> step[b + k]]
<1>1. size \in Nat
  OBVIOUS
<1>2. moved \in Steps(size, T)
  <2>1. ASSUME NEW k \in 1 .. size PROVE step[b + k] \in [T -> T]
    <3>1. b + k \in b + 1 .. e
      OBVIOUS
    <3> QED
      BY <3>1
  <2> QED
    BY <2>1 DEF Steps
<1>3. \E h \in [0 .. size -> T] :
        h[0] = base /\ \A k \in 1 .. size : h[k] = moved[k][h[k - 1]]
  <2> HIDE DEF moved, size
  <2> QED
    BY <1>1, <1>2, Iteration, Z3T(30)
<1> SUFFICES ASSUME NEW h \in [0 .. size -> T],
                    h[0] = base, \A k \in 1 .. size : h[k] = moved[k][h[k - 1]]
             PROVE  \E g : Runs(g, b, e, T, base, step)
  <2> HIDE DEF moved, size
  <2> QED
    BY <1>3
<1> DEFINE g == [i \in b .. e |-> h[i - b]]
<1>4. \A i \in b .. e : i - b \in 0 .. size
  OBVIOUS
<1>5. g \in [b .. e -> T]
  <2> HIDE DEF size
  <2> QED
    BY <1>4
<1>6. g[b] = base
  <2>1. b \in b .. e /\ b - b = 0
    OBVIOUS
  <2> QED
    BY <2>1
<1>7. ASSUME NEW i \in b + 1 .. e PROVE g[i] = step[i][g[i - 1]]
  <2> DEFINE k == i - b
  <2>1. k \in 1 .. size /\ i \in b .. e /\ i - 1 \in b .. e /\ k - 1 = (i - 1) - b /\ b + k = i
    OBVIOUS
  <2>2. g[i] = h[k] /\ g[i - 1] = h[k - 1]
    BY <2>1
  <2>3. h[k] = moved[k][h[k - 1]] /\ moved[k] = step[b + k]
    <3> HIDE DEF size, k
    <3> QED
      BY <2>1
  <2> HIDE DEF g, moved, k
  <2> QED
    BY <2>1, <2>2, <2>3
<1> HIDE DEF g
<1>8. Runs(g, b, e, T, base, step)
  BY <1>5, <1>6, <1>7 DEF Runs
<1> QED
  BY <1>8

Agree(f, g, b, e) == \A i \in b .. e : f[i] = g[i]

LEMMA DeterminedFrom ==
  ASSUME NEW b \in Int, NEW e \in Int, b <= e, NEW f, NEW g, f[b] = g[b],
         \A i \in b + 1 .. e : f[i - 1] = g[i - 1] => f[i] = g[i]
  PROVE  Agree(f, g, b, e)
<1> DEFINE S == {k \in Nat : b + k <= e => f[b + k] = g[b + k]}
<1>1. 0 \in S
  <2>1. b + 0 = b
    OBVIOUS
  <2> QED
    BY <2>1
<1>2. ASSUME NEW k \in S \cap Nat PROVE k + 1 \in S
  <2> SUFFICES ASSUME b + (k + 1) <= e PROVE f[b + (k + 1)] = g[b + (k + 1)]
    OBVIOUS
  <2> DEFINE i == b + (k + 1)
  <2>1. i \in b + 1 .. e /\ i - 1 = b + k
    OBVIOUS
  <2>2. f[b + k] = g[b + k]
    BY <1>2
  <2> HIDE DEF i
  <2>3. f[i] = g[i]
    BY <2>1, <2>2
  <2> QED
    BY <2>3 DEF i
<1>3. Nat \subseteq S
  <2> HIDE DEF S
  <2> QED
    BY <1>1, <1>2, SetInduction
<1>4. ASSUME NEW i \in b .. e PROVE f[i] = g[i]
  <2>1. i - b \in Nat /\ b + (i - b) = i
    OBVIOUS
  <2> QED
    BY <1>3, <2>1
<1> QED
  BY <1>4 DEF Agree
=============================================================================
