------------------------- MODULE BirthdaySearchProofs -------------------------
(***************************************************************************)
(* The filter of the Protoshares search is exact, and its kernels          *)
(* implement CollisionSearch as long as the counter of the results does    *)
(* not wrap, for any number of threads and of hashes and any way the slots *)
(* are computed.                                                           *)
(***************************************************************************)
EXTENDS BirthdaySearch, FiniteSetTheorems, SequenceTheorems, TLAPS

Spot(a)  == a \div PerSpot
Index(a) == a % PerSpot

(* A hash belongs to one thread and has one place in its loop. *)
LEMMA HashOfThread ==
  ASSUME NEW a \in Hashes
  PROVE  /\ Spot(a) \in Threads /\ Index(a) \in 0 .. PerSpot - 1
         /\ a = Spot(a) * PerSpot + Index(a)
<1>1. /\ PerSpot \in Nat /\ PerSpot > 0 /\ Spots \in Nat
      /\ a \in Nat /\ a < Spots * PerSpot
  BY SearchAssumption DEF Hashes
<1>2. /\ Spot(a) \in Int /\ Index(a) \in 0 .. PerSpot - 1
      /\ a = Spot(a) * PerSpot + Index(a)
  BY <1>1, SMTT(30) DEF Spot, Index
<1>3. Spot(a) >= 0
  BY <1>1, <1>2, SMTT(30) DEF Spot
<1>4. Spot(a) < Spots
  BY <1>1, <1>2, SMTT(30)
<1> QED
  BY <1>1, <1>2, <1>3, <1>4 DEF Threads

LEMMA HashAtPlace ==
  ASSUME NEW t \in Threads, NEW i \in 0 .. PerSpot - 1
  PROVE  /\ t * PerSpot + i \in Hashes
         /\ Spot(t * PerSpot + i) = t /\ Index(t * PerSpot + i) = i
<1>1. /\ PerSpot \in Nat /\ PerSpot > 0 /\ Spots \in Nat
      /\ t \in Nat /\ t + 1 <= Spots /\ i \in Nat /\ i < PerSpot
  BY SearchAssumption DEF Threads
<1>2. t * PerSpot + i \in Nat /\ t * PerSpot + i < Spots * PerSpot
  BY <1>1, SMTT(30)
<1>3. t * PerSpot + i \in Hashes
  BY <1>1, <1>2 DEF Hashes
<1>4. Spot(t * PerSpot + i) = t /\ Index(t * PerSpot + i) = i
  BY <1>1, SMTT(30) DEF Spot, Index
<1> QED
  BY <1>3, <1>4

-----------------------------------------------------------------------------
(* What is true while the kernels run *)

Filling == kernel \in {"search", "populate"}

GpuType ==
  /\ kernel \in {"idle", "search", "filter", "populate", "rewrite"}
  /\ at \in [Threads -> 0 .. PerSpot] /\ doubling \subseteq Threads
  /\ devHashes \in [Hashes -> Birthdays] /\ countbits \in [Slots -> {0, 1, 3}]

(* The kernels that fill the filter: their hashes, and those that a thread *)
(* has put into it.  The hash of a thread between the two atomic steps is  *)
(* in already.                                                             *)
Counts(a) == kernel = "search" \/ devHashes[a] # 0
SlotOfHash(a) ==
  IF kernel \in {"search", "filter"} THEN LowSlot(devHashes[a]) ELSE HighSlot(devHashes[a])
Done(a) ==
  \/ Index(a) < at[Spot(a)]
  \/ Index(a) = at[Spot(a)] /\ Spot(a) \in doubling
Added(s) == {a \in Hashes : Done(a) /\ Counts(a) /\ SlotOfHash(a) = s}

(* Between its steps a thread is at a hash of the filter. *)
DoublingInv ==
  /\ ~Filling => doubling = {}
  /\ \A t \in doubling : at[t] < PerSpot /\ Counts(Number(t))

(* The second bit of a slot may be missing as long as a thread is about to *)
(* set it.                                                                 *)
SlotExact(s) ==
  /\ countbits[s] = 0 <=> Added(s) = {}
  /\ (countbits[s] = 3 \/ \E t \in doubling : SlotOf(t) = s)
       <=> \E a, b \in Added(s) : a # b

FilterInv ==
  /\ GpuType /\ DoublingInv
  /\ Filling => \A s \in Slots : SlotExact(s)

LEMMA SlotsAreSlots ==
  ASSUME GpuType, NEW a \in Hashes
  PROVE  SlotOfHash(a) \in Slots
BY SearchAssumption DEF GpuType, SlotOfHash

(* The hash a thread is at. *)
LEMMA HashOfLoop ==
  ASSUME GpuType, NEW t \in Threads, at[t] < PerSpot
  PROVE  /\ Number(t) \in Hashes
         /\ Spot(Number(t)) = t /\ Index(Number(t)) = at[t]
         /\ SlotOf(t) = SlotOfHash(Number(t))
<1>1. at[t] \in 0 .. PerSpot - 1
  BY SearchAssumption DEF GpuType
<1> QED
  BY <1>1, HashAtPlace DEF Number, SlotOf, SlotOfHash

(* One more hash of a loop is done: what it adds to the filter. *)
LEMMA HashAdded ==
  ASSUME GpuType, NEW t \in Threads, at[t] < PerSpot, t \notin doubling,
         UNCHANGED <<kernel, devHashes>>,
         \/ /\ at' = [at EXCEPT ![t] = @ + 1] /\ UNCHANGED doubling
         \/ /\ doubling' = doubling \cup {t} /\ UNCHANGED at
  PROVE  \A s \in Slots :
           Added(s)' = IF Counts(Number(t)) /\ SlotOf(t) = s
                       THEN Added(s) \cup {Number(t)} ELSE Added(s)
<1> DEFINE n == Number(t)
<1>1. /\ n \in Hashes /\ Spot(n) = t /\ Index(n) = at[t]
      /\ SlotOf(t) = SlotOfHash(n)
  BY HashOfLoop
<1>2. \A a \in Hashes : (Counts(a)' <=> Counts(a)) /\ SlotOfHash(a)' = SlotOfHash(a)
  BY DEF Counts, SlotOfHash
<1>3. \A a \in Hashes : Spot(a) = t /\ Index(a) = at[t] => a = n
  BY HashOfThread DEF Number
<1>4. \A a \in Hashes : Done(a)' <=> (Done(a) \/ a = n)
  <2> SUFFICES ASSUME NEW a \in Hashes PROVE Done(a)' <=> (Done(a) \/ a = n)
    OBVIOUS
  <2>1. /\ Spot(a) \in Threads /\ Index(a) \in Int
        /\ at[t] \in Int /\ at[Spot(a)] \in Int
    BY HashOfThread, SearchAssumption DEF GpuType
  <2> HIDE DEF n
  <2>2. CASE Spot(a) = t
    BY <1>1, <1>3, <2>1, <2>2 DEF Done, GpuType
  <2>3. CASE Spot(a) # t
    BY <1>1, <2>1, <2>3 DEF Done, GpuType
  <2> QED
    BY <2>2, <2>3
<1> HIDE DEF n
<1> SUFFICES ASSUME NEW s \in Slots
             PROVE  Added(s)' = IF Counts(n) /\ SlotOf(t) = s
                                THEN Added(s) \cup {n} ELSE Added(s)
  BY DEF n
<1>5. \A a : a \in Added(s)' <=> (a \in Hashes /\ (Done(a) \/ a = n) /\ Counts(a) /\ SlotOfHash(a) = s)
  BY <1>2, <1>4 DEF Added
<1>6. \A a : a \in Added(s) <=> (a \in Hashes /\ Done(a) /\ Counts(a) /\ SlotOfHash(a) = s)
  BY DEF Added
<1> QED
  BY <1>1, <1>5, <1>6

(* The threads between their steps are still where they were. *)
LEMMA OthersStay ==
  ASSUME GpuType, NEW t \in Threads, NEW u \in Threads, u # t,
         UNCHANGED <<kernel, devHashes>>,
         at' = at \/ at' = [at EXCEPT ![t] = @ + 1]
  PROVE  /\ at'[u] = at[u] /\ SlotOf(u)' = SlotOf(u)
         /\ Counts(Number(u))' <=> Counts(Number(u))
BY DEF GpuType, SlotOf, Number, Counts

LEMMA InitFilter == Init => FilterInv
<1> SUFFICES ASSUME Init PROVE FilterInv
  OBVIOUS
<1>1. GpuType
  BY SearchAssumption DEF Init, GpuType, EmptyFilter
<1> QED
  BY <1>1 DEF Init, FilterInv, DoublingInv, Filling

LEMMA ComputeHashesFilter ==
  ASSUME FilterInv, NEW header \in Headers, ComputeHashes(header)
  PROVE  FilterInv'
<1>1. GpuType'
  BY SearchAssumption DEF ComputeHashes, GpuType, EmptyFilter
<1>2. DoublingInv'
  BY DEF ComputeHashes, DoublingInv
<1>3. \A s \in Slots : Added(s)' = {}
  <2>1. \A a \in Hashes : ~Done(a)'
    BY HashOfThread DEF Done, ComputeHashes
  <2> QED
    BY <2>1 DEF Added
<1>4. \A s \in Slots : SlotExact(s)'
  BY <1>3 DEF SlotExact, ComputeHashes, EmptyFilter
<1> QED
  BY <1>1, <1>2, <1>4 DEF FilterInv

(* The first or: an empty slot gets its first bit, and a thread that found *)
(* the first bit alone is to set the second.                               *)
LEMMA FirstOrFilter ==
  ASSUME FilterInv, NEW t \in Threads, FirstOr(t)
  PROVE  FilterInv'
<1> DEFINE n == Number(t)
<1>1. /\ GpuType /\ DoublingInv /\ Filling /\ \A s \in Slots : SlotExact(s)
      /\ at[t] < PerSpot /\ t \notin doubling
      /\ UNCHANGED <<kernel, devHashes>>
      /\ countbits' = [countbits EXCEPT ![SlotOf(t)] = WithFirst(@)]
  BY DEF FirstOr, Running, FilterInv, Filling
<1>2. \/ countbits[SlotOf(t)] = 1 /\ doubling' = doubling \cup {t} /\ at' = at
      \/ /\ countbits[SlotOf(t)] # 1 /\ doubling' = doubling
         /\ at' = [at EXCEPT ![t] = @ + 1]
  BY DEF FirstOr, Advance
<1>3. /\ n \in Hashes /\ Spot(n) = t /\ Index(n) = at[t]
      /\ SlotOf(t) = SlotOfHash(n) /\ SlotOf(t) \in Slots
  BY <1>1, HashOfLoop, SlotsAreSlots
<1>4. Counts(n)
  BY DEF FirstOr, Running, Counts
<1>5. \A s \in Slots : Added(s)' = IF SlotOf(t) = s THEN Added(s) \cup {n} ELSE Added(s)
  BY <1>1, <1>2, <1>4, HashAdded
<1>6. \A s \in Slots : n \notin Added(s)
  <2>1. at[t] \in Int
    BY <1>1, SearchAssumption DEF GpuType
  <2>2. ~Done(n)
    BY <1>1, <1>3, <2>1 DEF Done
  <2> QED
    BY <2>2 DEF Added
<1>7. \A u \in doubling : /\ u \in Threads /\ u # t /\ at'[u] = at[u]
                          /\ SlotOf(u)' = SlotOf(u)
                          /\ Counts(Number(u))' <=> Counts(Number(u))
  BY <1>1, <1>2, OthersStay DEF GpuType
<1>8. GpuType'
  BY <1>1, <1>2, <1>3, SearchAssumption DEF GpuType, WithFirst
<1>9. DoublingInv'
  <2>1. ASSUME NEW u \in doubling' PROVE at'[u] < PerSpot /\ Counts(Number(u))'
    <3>1. CASE u \in doubling
      BY <1>1, <1>7, <3>1 DEF DoublingInv
    <3>2. CASE u = t /\ doubling' # doubling
      <4>1. at' = at
        BY <1>2, <3>2
      <4> QED
        BY <1>1, <1>4, <3>2, <4>1 DEF Counts, Number
    <3> QED
      BY <1>2, <3>1, <3>2
  <2> QED
    BY <1>1, <2>1 DEF DoublingInv, Filling
<1>10. ASSUME NEW s \in Slots PROVE SlotExact(s)'
  <2> HIDE DEF n
  <2>1. SlotExact(s) /\ countbits[s] \in {0, 1, 3}
    BY <1>1 DEF GpuType
  <2>2. CASE s # SlotOf(t)
    <3>1. Added(s)' = Added(s) /\ countbits'[s] = countbits[s]
      BY <1>1, <1>5, <2>2 DEF GpuType
    <3>2. \A u \in doubling' : SlotOf(u)' = s => u \in doubling
      <4>1. CASE doubling' = doubling
        BY <4>1
      <4>2. CASE at' = at /\ doubling' = doubling \cup {t}
        <5>1. SlotOf(t)' = SlotOf(t)
          BY <1>1, <4>2 DEF SlotOf, Number
        <5> QED
          BY <2>2, <4>2, <5>1
      <4> QED
        BY <1>2, <4>1, <4>2
    <3>3. (\E u \in doubling' : SlotOf(u)' = s) <=> (\E u \in doubling : SlotOf(u) = s)
      BY <1>2, <1>7, <3>2
    <3> QED
      BY <2>1, <3>1, <3>3 DEF SlotExact
  <2>3. CASE s = SlotOf(t)
    <3>1. Added(s)' = Added(s) \cup {n} /\ n \notin Added(s)
      BY <1>5, <1>6, <2>3
    <3>2. countbits'[s] = WithFirst(countbits[s])
      BY <1>1, <2>3 DEF GpuType
    <3>3. CASE countbits[s] = 0
      <4>1. Added(s)' = {n} /\ countbits'[s] = 1 /\ doubling' = doubling
        BY <1>2, <2>1, <2>3, <3>1, <3>2, <3>3 DEF SlotExact, WithFirst
      <4>2. \A u \in doubling : SlotOf(u) # s
        BY <2>1, <3>3 DEF SlotExact
      <4>3. \A u \in doubling' : SlotOf(u)' # s
        BY <1>7, <4>1, <4>2
      <4> QED
        BY <4>1, <4>3 DEF SlotExact
    <3>4. CASE countbits[s] = 1
      <4>1. /\ countbits'[s] = 1 /\ Added(s) # {}
            /\ t \in doubling' /\ at' = at
        BY <1>2, <2>1, <2>3, <3>2, <3>4 DEF SlotExact, WithFirst
      <4>2. SlotOf(t)' = s
        BY <1>1, <2>3, <4>1 DEF SlotOf, Number
      <4>3. \E a, b \in Added(s)' : a # b
        BY <3>1, <4>1
      <4> QED
        BY <3>1, <4>1, <4>2, <4>3 DEF SlotExact
    <3>5. CASE countbits[s] = 3
      <4>1. countbits'[s] = 3
        BY <3>2, <3>5 DEF WithFirst
      <4>2. \E a, b \in Added(s) : a # b
        BY <2>1, <3>5 DEF SlotExact
      <4>3. (\E a, b \in Added(s)' : a # b) /\ Added(s)' # {}
        BY <3>1, <4>2
      <4> QED
        BY <4>1, <4>3 DEF SlotExact
    <3> QED
      BY <2>1, <3>3, <3>4, <3>5
  <2> QED
    BY <2>2, <2>3
<1> QED
  BY <1>8, <1>9, <1>10 DEF FilterInv

(* The second or: nothing is added, and the second bit is no longer missing. *)
LEMMA SecondOrFilter ==
  ASSUME FilterInv, NEW t \in Threads, SecondOr(t)
  PROVE  FilterInv'
<1> DEFINE n == Number(t)
<1>1. /\ GpuType /\ DoublingInv /\ Filling /\ \A s \in Slots : SlotExact(s)
      /\ at[t] < PerSpot /\ t \in doubling /\ Counts(n)
      /\ UNCHANGED <<kernel, devHashes>>
      /\ countbits' = [countbits EXCEPT ![SlotOf(t)] = 3]
      /\ doubling' = doubling \ {t} /\ at' = [at EXCEPT ![t] = @ + 1]
  BY DEF SecondOr, Running, FilterInv, Filling, Advance, DoublingInv
<1>2. /\ n \in Hashes /\ Spot(n) = t /\ Index(n) = at[t]
      /\ SlotOf(t) = SlotOfHash(n) /\ SlotOf(t) \in Slots
  BY <1>1, HashOfLoop, SlotsAreSlots
<1>3. \A u \in doubling' : /\ u \in Threads /\ u # t /\ at'[u] = at[u]
                           /\ SlotOf(u)' = SlotOf(u)
                           /\ Counts(Number(u))' <=> Counts(Number(u))
  BY <1>1, OthersStay DEF GpuType
<1>4. \A s \in Slots : Added(s)' = Added(s)
  <2>1. \A a \in Hashes : Done(a)' <=> Done(a)
    <3> SUFFICES ASSUME NEW a \in Hashes PROVE Done(a)' <=> Done(a)
      OBVIOUS
    <3>1. /\ Spot(a) \in Threads /\ Index(a) \in Int /\ at[t] \in Int
          /\ at[Spot(a)] \in Int
      BY <1>1, HashOfThread, SearchAssumption DEF GpuType
    <3>2. CASE Spot(a) = t
      BY <1>1, <3>1, <3>2 DEF Done, GpuType
    <3>3. CASE Spot(a) # t
      BY <1>1, <3>1, <3>3 DEF Done, GpuType
    <3> QED
      BY <3>2, <3>3
  <2>2. \A a \in Hashes : (Counts(a)' <=> Counts(a)) /\ SlotOfHash(a)' = SlotOfHash(a)
    BY <1>1 DEF Counts, SlotOfHash
  <2> QED
    BY <2>1, <2>2 DEF Added
<1>5. GpuType'
  BY <1>1, <1>2, SearchAssumption DEF GpuType
<1>6. DoublingInv'
  BY <1>1, <1>3 DEF DoublingInv, Filling
<1>7. ASSUME NEW s \in Slots PROVE SlotExact(s)'
  <2>1. SlotExact(s)
    BY <1>1
  <2>2. CASE s = SlotOf(t)
    <3>1. \E a, b \in Added(s) : a # b
      BY <1>1, <2>1, <2>2 DEF SlotExact
    <3>2. countbits'[s] = 3
      BY <1>1, <2>2 DEF GpuType
    <3> QED
      BY <1>4, <3>1, <3>2 DEF SlotExact
  <2>3. CASE s # SlotOf(t)
    <3>1. countbits'[s] = countbits[s]
      BY <1>1, <2>3 DEF GpuType
    <3>2. (\E u \in doubling' : SlotOf(u)' = s) <=> (\E u \in doubling : SlotOf(u) = s)
      BY <1>1, <1>3, <2>3
    <3> QED
      BY <1>4, <2>1, <3>1, <3>2 DEF SlotExact
  <2> QED
    BY <2>2, <2>3
<1> QED
  BY <1>5, <1>6, <1>7 DEF FilterInv

(* A hash that the filter dropped adds nothing. *)
LEMMA SkipDroppedFilter ==
  ASSUME FilterInv, NEW t \in Threads, SkipDropped(t)
  PROVE  FilterInv'
<1>1. /\ GpuType /\ DoublingInv /\ (Filling => \A s \in Slots : SlotExact(s))
      /\ kernel # "search" /\ at[t] < PerSpot /\ devHashes[Number(t)] = 0
      /\ UNCHANGED <<kernel, devHashes, countbits, doubling>>
      /\ at' = [at EXCEPT ![t] = @ + 1]
  BY DEF SkipDropped, Running, FilterInv, Advance
<1>2. ~Counts(Number(t)) /\ t \notin doubling
  BY <1>1 DEF Counts, DoublingInv
<1>3. \A s \in Slots : Added(s)' = Added(s)
  BY <1>1, <1>2, HashAdded
<1>4. \A u \in doubling : /\ at'[u] = at[u] /\ SlotOf(u)' = SlotOf(u)
                          /\ Counts(Number(u))' <=> Counts(Number(u))
  BY <1>1, <1>2, OthersStay DEF GpuType
<1>5. GpuType'
  BY <1>1, SearchAssumption DEF GpuType
<1>6. DoublingInv'
  BY <1>1, <1>4 DEF DoublingInv, Filling
<1>7. Filling => \A s \in Slots : SlotExact(s)'
  BY <1>1, <1>3, <1>4 DEF SlotExact
<1> QED
  BY <1>1, <1>5, <1>6, <1>7 DEF FilterInv, Filling

LEMMA FilterStep == FilterInv /\ [Next]_vars => FilterInv'
<1> SUFFICES ASSUME FilterInv, [Next]_vars PROVE FilterInv'
  OBVIOUS
<1>1. ASSUME NEW header \in Headers, ComputeHashes(header) PROVE FilterInv'
  BY <1>1, ComputeHashesFilter
<1>2. ASSUME NEW t \in Threads, Thread(t) PROVE FilterInv'
  <2>1. CASE FirstOr(t)
    BY <2>1, FirstOrFilter
  <2>2. CASE SecondOr(t)
    BY <2>2, SecondOrFilter
  <2>3. CASE Filter(t)
    <3>1. /\ GpuType /\ DoublingInv /\ kernel = "filter" /\ kernel' = kernel
          /\ at[t] < PerSpot /\ doubling' = doubling /\ countbits' = countbits
      BY <2>3 DEF Filter, Running, FilterInv
    <3>2. Number(t) \in Hashes
      BY <3>1, HashOfLoop
    <3>3. GpuType'
      BY <2>3, <3>1, <3>2, SearchAssumption DEF Filter, GpuType, Advance
    <3> QED
      BY <3>1, <3>3 DEF FilterInv, DoublingInv, Filling
  <2>4. CASE SkipDropped(t)
    BY <2>4, SkipDroppedFilter
  <2>5. CASE Rewrite(t)
    <3>1. /\ GpuType /\ DoublingInv /\ kernel = "rewrite" /\ at[t] < PerSpot
          /\ UNCHANGED <<kernel, doubling, devHashes, countbits>>
          /\ at' = [at EXCEPT ![t] = @ + 1]
      BY <2>5 DEF Rewrite, Running, FilterInv, Advance
    <3>2. GpuType'
      BY <3>1, SearchAssumption DEF GpuType
    <3> QED
      BY <3>1, <3>2 DEF FilterInv, DoublingInv, Filling
  <2> QED
    BY <1>2, <2>1, <2>2, <2>3, <2>4, <2>5 DEF Thread
<1>3. CASE NextKernel
  <2>1. /\ GpuType /\ DoublingInv /\ kernel' = KernelAfter[kernel]
        /\ kernel \in {"search", "filter", "populate"}
        /\ at' = [t \in Threads |-> 0] /\ UNCHANGED <<doubling, devHashes>>
        /\ countbits' = IF kernel = "filter" THEN EmptyFilter ELSE countbits
        /\ \A t \in Threads : at[t] = PerSpot
    BY <1>3 DEF NextKernel, KernelAfter, Finished, FilterInv
  <2>2. doubling = {}
    BY <2>1, SearchAssumption DEF DoublingInv, GpuType, Filling
  <2>3. GpuType'
    BY <2>1, SearchAssumption DEF GpuType, KernelAfter, EmptyFilter
  <2>4. DoublingInv'
    BY <2>1, <2>2 DEF DoublingInv
  <2>5. CASE kernel = "filter"
    <3>1. \A s \in Slots : Added(s)' = {}
      <4>1. \A a \in Hashes : ~Done(a)'
        BY <2>1, <2>2, HashOfThread DEF Done
      <4> QED
        BY <4>1 DEF Added
    <3>2. \A s \in Slots : SlotExact(s)'
      BY <2>1, <2>2, <2>5, <3>1 DEF SlotExact, EmptyFilter
    <3> QED
      BY <2>3, <2>4, <3>2 DEF FilterInv
  <2>6. CASE kernel # "filter"
    BY <2>1, <2>3, <2>4, <2>6 DEF FilterInv, Filling, KernelAfter
  <2> QED
    BY <2>5, <2>6
<1>4. CASE Synchronize
  BY <1>4 DEF Synchronize, FilterInv, GpuType, DoublingInv, Filling
<1>5. CASE KernelError
  BY <1>5, SearchAssumption
     DEF KernelError, FilterInv, GpuType, DoublingInv, Filling, EmptyFilter
<1>6. CASE Match \/ Overrun \/ UNCHANGED vars
  <2>1. UNCHANGED gpuVars
    BY <1>6 DEF Match, Overrun, vars
  <2>2. UNCHANGED <<kernel, at, doubling, devHashes, countbits>>
    BY <2>1 DEF gpuVars
  <2>3. GpuType' = GpuType /\ DoublingInv' = DoublingInv /\ Filling' = Filling
    BY <2>2 DEF GpuType, DoublingInv, Filling, Counts, Number
  <2>4. \A s \in Slots : SlotExact(s)' = SlotExact(s)
    BY <2>2 DEF SlotExact, SlotOf, Number, Added, Done, Counts, SlotOfHash
  <2> QED
    BY <2>3, <2>4 DEF FilterInv
<1> QED
  BY <1>1, <1>2, <1>3, <1>4, <1>5, <1>6 DEF Next

(* The filter of gpuhash.cu, between the steps of its threads as well: a   *)
(* slot has lost nothing but second bits that a thread is about to set.    *)
THEOREM FilterInvariant == Spec => []FilterInv
<1>1. Init => FilterInv
  BY InitFilter
<1>2. FilterInv /\ [Next]_vars => FilterInv'
  BY FilterStep
<1> QED
  BY <1>1, <1>2, PTL DEF Spec

(* When a kernel that fills the filter has ended, each slot tells exactly  *)
(* whether no hash, one, or two and more share it (gpu_set_or_double).     *)
THEOREM FilterIsExact == Spec => []FilterExact
<1>1. FilterInv => FilterExact
  <2> SUFFICES ASSUME FilterInv, Filling, Finished, NEW s \in Slots
               PROVE  LET hashes == {a \in Hashes :
                            IF kernel = "search" THEN LowSlot(devHashes[a]) = s
                            ELSE devHashes[a] # 0 /\ HighSlot(devHashes[a]) = s}
                      IN /\ countbits[s] = 0 <=> hashes = {}
                         /\ countbits[s] = 3 <=> \E a, b \in hashes : a # b
    BY DEF FilterExact, Filling
  <2> DEFINE hashes == {a \in Hashes :
                 IF kernel = "search" THEN LowSlot(devHashes[a]) = s
                 ELSE devHashes[a] # 0 /\ HighSlot(devHashes[a]) = s}
  <2>1. GpuType /\ DoublingInv /\ SlotExact(s)
    BY DEF FilterInv
  <2>2. doubling = {}
    BY <2>1, SearchAssumption DEF DoublingInv, GpuType, Finished
  <2>3. \A a \in Hashes : Done(a)
    BY HashOfThread, SearchAssumption DEF Done, Finished
  <2>4. Added(s) = hashes
    BY <2>3 DEF Added, Counts, SlotOfHash, Filling
  <2> HIDE DEF hashes
  <2>5. /\ countbits[s] = 0 <=> hashes = {}
        /\ countbits[s] = 3 <=> \E a, b \in hashes : a # b
    BY <2>1, <2>2, <2>4 DEF SlotExact
  <2> QED
    BY <2>5 DEF hashes
<1> QED
  BY <1>1, FilterInvariant, PTL

-----------------------------------------------------------------------------
(* The host waits for the kernels it started *)

Kernels == {"search", "filter", "populate", "rewrite"}

(* The kernels run while the host waits for them. *)
HostInv ==
  /\ kernel \in Kernels <=> host = "gpu"
  /\ host = "gpu" => outcome = "none"
  /\ host \in {"start", "gpu", "match", "overrun"}
  /\ outcome \in {"none", "answered", "failed"}
  /\ births \in Headers

Collided ==
  {a \in Hashes : births[a] # 0 /\ \E b \in Hashes \ {a} : births[b] = births[a]}

(* No filter drops a hash that collides. *)
KeptInv ==
  /\ kernel = "search" => devHashes = births
  /\ kernel \in {"filter", "populate", "rewrite"} =>
       \A a \in Hashes :
         devHashes[a] = births[a] \/ (devHashes[a] = 0 /\ a \notin Collided)
  /\ kernel = "filter" => \A a \in Collided : countbits[LowSlot(births[a])] = 3
  /\ kernel = "rewrite" => \A a \in Collided : countbits[HighSlot(births[a])] = 3

(* The hashes that the last kernel has written into the results, and the   *)
(* entries it has written them to.                                         *)
Emitted ==
  {a \in Hashes : /\ Index(a) < at[Spot(a)] /\ devHashes[a] # 0
                  /\ countbits[HighSlot(devHashes[a])] = 3}
Written == {i \in 1 .. DevEntries : i <= devResults.count}

(* An entry has the birthday of its hash, and no hash has two entries. *)
Listed ==
  /\ \A i \in Written :
       /\ devResults.entries[i].index \in Hashes
       /\ devResults.entries[i].word = births[devResults.entries[i].index]
       /\ devResults.entries[i].word # 0
  /\ \A i, j \in Written :
       devResults.entries[i].index = devResults.entries[j].index => i = j

ResultsInv ==
  /\ devResults.count \in 0 .. NResults
  /\ kernel \in {"search", "filter", "populate"} => devResults.count = 0
  /\ kernel = "rewrite" =>
       \A i \in Written : devResults.entries[i].index \in Emitted
  /\ kernel = "rewrite" \/ outcome = "answered" => Listed

SearchInv == FilterInv /\ HostInv /\ KeptInv /\ ResultsInv

(* While the counter has not wrapped, each hash is in one entry, or past   *)
(* the end of the list.                                                    *)
CompleteInv ==
  kernel = "rewrite" =>
    /\ devResults.count = Cardinality(Emitted)
    /\ devResults.count <= DevEntries =>
         \A a \in Emitted : \E i \in Written : devResults.entries[i].index = a

(* atomicInc starts again at 0 behind N_RESULTS, twice as many results as  *)
(* are kept.                                                               *)
NoWrap == devResults.count < NResults

-----------------------------------------------------------------------------
LEMMA FiniteHashes == IsFiniteSet(Hashes)
<1> DEFINE n == Spots * PerSpot
<1>1. n \in Nat /\ n > 0
  BY SearchAssumption, SMTT(30)
<1>2. Hashes = 0 .. n - 1
  BY DEF Hashes
<1> HIDE DEF n
<1>3. IsFiniteSet(0 .. n - 1)
  BY <1>1, FS_Interval
<1> QED
  BY <1>2, <1>3 DEF n

LEMMA EntriesPositive == DevEntries \in Nat /\ DevEntries = Capacity + 1 /\ Capacity \in Nat
BY SearchAssumption DEF DevEntries

LEMMA LimitPositive == NResults \in Nat /\ NResults > DevEntries /\ Capacity > 0
BY SearchAssumption DEF NResults, DevEntries

LEMMA HeaderBirthdays == SearchInv => births \in [Hashes -> Birthdays]
BY SearchAssumption DEF SearchInv, HostInv

LEMMA ComputeHashesSearch ==
  ASSUME SearchInv, NEW header \in Headers, ComputeHashes(header)
  PROVE  SearchInv'
<1>1. FilterInv'
  BY ComputeHashesFilter DEF SearchInv
<1>2. HostInv'
  BY SearchAssumption DEF ComputeHashes, HostInv, Kernels
<1>3. KeptInv' /\ ResultsInv'
  BY LimitPositive DEF ComputeHashes, KeptInv, ResultsInv, Results
<1> QED
  BY <1>1, <1>2, <1>3 DEF SearchInv

(* A thread works for the host's header and on one kernel. *)
LEMMA ThreadFrame ==
  ASSUME NEW t \in Threads, Thread(t)
  PROVE  UNCHANGED <<host, births, kernel, hashblock, outcome, tested>>
BY DEF Thread, FirstOr, SecondOr, Filter, SkipDropped, Rewrite, hostVars

LEMMA FillingSearch ==
  ASSUME SearchInv, NEW t \in Threads, FirstOr(t) \/ SecondOr(t)
  PROVE  (HostInv /\ KeptInv /\ ResultsInv)'
<1>1. /\ UNCHANGED <<host, births, kernel, outcome, devHashes, devResults>>
      /\ kernel \in {"search", "populate"}
  BY DEF FirstOr, SecondOr, Running, hostVars
<1>2. HostInv'
  BY <1>1 DEF SearchInv, HostInv
<1>3. KeptInv'
  BY <1>1 DEF SearchInv, KeptInv, Collided
<1>4. ResultsInv'
  BY <1>1 DEF SearchInv, ResultsInv, Listed, Written
<1> QED
  BY <1>2, <1>3, <1>4

LEMMA FilterSearch ==
  ASSUME SearchInv, NEW t \in Threads, Filter(t)
  PROVE  (HostInv /\ KeptInv /\ ResultsInv)'
<1> DEFINE n == Number(t)
<1>1. /\ UNCHANGED <<host, births, kernel, outcome, countbits, devResults>>
      /\ kernel = "filter" /\ GpuType /\ at[t] < PerSpot
      /\ devHashes' = [devHashes EXCEPT ![n] = IF Twice(t) THEN @ ELSE 0]
  BY DEF Filter, Running, hostVars, SearchInv, FilterInv
<1>2. HostInv' /\ ResultsInv'
  BY <1>1 DEF SearchInv, HostInv, ResultsInv, Listed, Written
<1>3. Collided' = Collided
  BY <1>1 DEF Collided
<1>4. \A a \in Hashes :
        devHashes'[a] = births[a] \/ (devHashes'[a] = 0 /\ a \notin Collided)
  <2> SUFFICES ASSUME NEW a \in Hashes
               PROVE  devHashes'[a] = births[a] \/ (devHashes'[a] = 0 /\ a \notin Collided)
    OBVIOUS
  <2>1. devHashes[a] = births[a] \/ (devHashes[a] = 0 /\ a \notin Collided)
    BY <1>1 DEF SearchInv, KeptInv
  <2>2. CASE devHashes'[a] = devHashes[a]
    BY <2>1, <2>2
  <2>3. CASE devHashes'[a] # devHashes[a]
    <3>1. a = n /\ devHashes'[a] = 0 /\ ~Twice(t)
      BY <1>1, <2>3 DEF GpuType
    <3>2. countbits[LowSlot(devHashes[a])] # 3
      BY <1>1, <3>1 DEF Twice, SlotOf
    <3>3. a \notin Collided
      BY <1>1, <2>1, <3>2 DEF SearchInv, KeptInv
    <3> QED
      BY <3>1, <3>3
  <2> QED
    BY <2>2, <2>3
<1> QED
  BY <1>1, <1>2, <1>3, <1>4 DEF SearchInv, KeptInv

(* The other hashes of all loops are done as before. *)
LEMMA OneMoreDone ==
  ASSUME GpuType, NEW t \in Threads, at[t] < PerSpot,
         at' = [at EXCEPT ![t] = @ + 1]
  PROVE  /\ Number(t) \in Hashes
         /\ \A a \in Hashes : Index(a) < at'[Spot(a)] <=>
                               (Index(a) < at[Spot(a)] \/ a = Number(t))
         /\ ~(Index(Number(t)) < at[Spot(Number(t))])
<1> DEFINE n == Number(t)
<1>1. n \in Hashes /\ Spot(n) = t /\ Index(n) = at[t]
  BY HashOfLoop
<1>2. ASSUME NEW a \in Hashes
      PROVE  Index(a) < at'[Spot(a)] <=> (Index(a) < at[Spot(a)] \/ a = n)
  <2>1. /\ Spot(a) \in Threads /\ Index(a) \in Int
        /\ at[t] \in Int /\ at[Spot(a)] \in Int
    BY <1>1, HashOfThread, SearchAssumption DEF GpuType
  <2>2. Spot(a) = t /\ Index(a) = at[t] => a = n
    BY HashOfThread DEF Number
  <2> HIDE DEF n
  <2>3. CASE Spot(a) = t
    BY <1>1, <2>1, <2>2, <2>3 DEF GpuType
  <2>4. CASE Spot(a) # t
    BY <1>1, <2>1, <2>4 DEF GpuType
  <2> QED
    BY <2>3, <2>4
<1>3. at[t] \in Int
  BY SearchAssumption DEF GpuType
<1> QED
  BY <1>1, <1>2, <1>3

LEMMA SkipSearch ==
  ASSUME SearchInv, NEW t \in Threads,
         UNCHANGED <<host, births, kernel, outcome, devHashes, countbits, devResults>>,
         at' = [at EXCEPT ![t] = @ + 1], at[t] < PerSpot,
         devHashes[Number(t)] = 0 \/ ~Twice(t),
         kernel \in {"populate", "rewrite"}
  PROVE  (HostInv /\ KeptInv /\ ResultsInv)'
<1> DEFINE n == Number(t)
<1>1. GpuType
  BY DEF SearchInv, FilterInv
<1>2. HostInv' /\ KeptInv'
  BY DEF SearchInv, HostInv, KeptInv, Collided
<1>3. CASE kernel = "populate"
  BY <1>2, <1>3 DEF SearchInv, ResultsInv, Listed, Written
<1>4. CASE kernel = "rewrite"
  <2>1. devHashes[n] # 0 => countbits[HighSlot(devHashes[n])] # 3
    BY <1>4 DEF Twice, SlotOf
  <2>2. \A a \in Hashes : Index(a) < at'[Spot(a)] <=>
                             (Index(a) < at[Spot(a)] \/ a = n)
    BY <1>1, OneMoreDone
  <2> HIDE DEF n
  <2>3. Emitted' = Emitted
    BY <2>1, <2>2 DEF Emitted
  <2>4. Written' = Written
    BY DEF Written
  <2> QED
    BY <1>2, <1>4, <2>3, <2>4 DEF SearchInv, ResultsInv, Listed
<1> QED
  BY <1>3, <1>4

(* What the last kernel does with a hash that it keeps. *)
LEMMA RewriteFrame ==
  ASSUME SearchInv, NEW t \in Threads, Rewrite(t), Twice(t)
  PROVE  LET n == Number(t)
             c == devResults.count
         IN /\ UNCHANGED <<host, births, kernel, outcome, devHashes, countbits>>
            /\ kernel = "rewrite"
            /\ n \in Hashes /\ n \notin Emitted /\ Emitted' = Emitted \cup {n}
            /\ devHashes[n] = births[n] /\ births[n] # 0
            /\ devResults'.count = Counted(c)
            /\ \A i \in 1 .. DevEntries :
                 devResults'.entries[i] =
                   IF i = c + 1 THEN [word |-> births[n], index |-> n]
                                ELSE devResults.entries[i]
<1> DEFINE n == Number(t)
           c == devResults.count
<1>1. /\ UNCHANGED <<host, births, kernel, outcome, devHashes, countbits>>
      /\ kernel = "rewrite" /\ devHashes[n] # 0 /\ at[t] < PerSpot
      /\ at' = [at EXCEPT ![t] = @ + 1]
      /\ devResults' = WithResult(devResults, devHashes[n], n)
  BY DEF Rewrite, Running, hostVars, Advance
<1>2. GpuType /\ KeptInv
  BY DEF SearchInv, FilterInv
<1>3. countbits[HighSlot(devHashes[n])] = 3
  BY <1>1 DEF Twice, SlotOf
<1>4. /\ n \in Hashes /\ n \notin Emitted
      /\ \A a \in Hashes : Index(a) < at'[Spot(a)] <=> (Index(a) < at[Spot(a)] \/ a = n)
  BY <1>1, <1>2, OneMoreDone DEF Emitted
<1> HIDE DEF n
<1>5. Emitted' = Emitted \cup {n}
  BY <1>1, <1>3, <1>4 DEF Emitted
<1>6. devHashes[n] = births[n] /\ births[n] # 0
  BY <1>1, <1>2, <1>4 DEF KeptInv
<1>7. devResults'.count = Counted(c)
  BY <1>1 DEF WithResult
<1>8. \A i \in 1 .. DevEntries :
        devResults'.entries[i] =
          IF i = c + 1 THEN [word |-> births[n], index |-> n]
                       ELSE devResults.entries[i]
  BY <1>1, <1>6 DEF WithResult
<1> QED
  BY <1>1, <1>4, <1>5, <1>6, <1>7, <1>8 DEF n

(* A result is behind those written before, or the counter starts again. *)
LEMMA WrittenNext ==
  ASSUME SearchInv, devResults'.count = Counted(devResults.count)
  PROVE  LET c == devResults.count
         IN /\ devResults'.count \in 0 .. NResults
            /\ c + 1 \notin Written /\ Written \subseteq 1 .. DevEntries
            /\ \A i \in Written' :
                 i \in Written \/ (i = c + 1 /\ i \in 1 .. DevEntries)
            /\ NoWrap => /\ devResults'.count = c + 1
                         /\ Written \subseteq Written'
                         /\ c + 1 <= DevEntries => c + 1 \in Written'
<1>1. /\ devResults.count \in Nat /\ devResults.count <= NResults
      /\ NResults \in Nat /\ DevEntries \in Nat
  BY LimitPositive, EntriesPositive DEF SearchInv, ResultsInv
<1>2. devResults'.count = IF devResults.count >= NResults THEN 0 ELSE devResults.count + 1
  BY DEF Counted
<1> QED
  BY <1>1, <1>2 DEF Written, NoWrap

LEMMA RewriteSearch ==
  ASSUME SearchInv, NEW t \in Threads, Rewrite(t), Twice(t)
  PROVE  (HostInv /\ KeptInv /\ ResultsInv)'
<1> DEFINE n == Number(t)
           c == devResults.count
<1>1. /\ UNCHANGED <<host, births, kernel, outcome, devHashes, countbits>>
      /\ kernel = "rewrite"
      /\ n \in Hashes /\ n \notin Emitted /\ Emitted' = Emitted \cup {n}
      /\ births[n] # 0 /\ devResults'.count = Counted(c)
  BY RewriteFrame
<1>2. \A i \in 1 .. DevEntries :
        /\ i = c + 1 => /\ devResults'.entries[i].index = n
                        /\ devResults'.entries[i].word = births[n]
        /\ i # c + 1 => devResults'.entries[i] = devResults.entries[i]
  <2>1. \A i \in 1 .. DevEntries :
          devResults'.entries[i] = IF i = c + 1 THEN [word |-> births[n], index |-> n]
                                                ELSE devResults.entries[i]
    BY RewriteFrame
  <2> QED
    BY <2>1
<1>3. HostInv' /\ KeptInv'
  BY <1>1 DEF SearchInv, HostInv, KeptInv, Collided
<1>4. /\ devResults'.count \in 0 .. NResults
      /\ c + 1 \notin Written /\ Written \subseteq 1 .. DevEntries
      /\ \A i \in Written' : i \in Written \/ (i = c + 1 /\ i \in 1 .. DevEntries)
  BY <1>1, WrittenNext
<1> HIDE DEF n, c
<1>5. /\ Listed /\ \A i \in Written : devResults.entries[i].index \in Emitted
  BY <1>1 DEF SearchInv, ResultsInv
<1>6. ASSUME NEW i \in Written'
      PROVE  \/ i \in Written /\ devResults'.entries[i] = devResults.entries[i]
             \/ /\ i = c + 1 /\ devResults'.entries[i].index = n
                /\ devResults'.entries[i].word = births[n]
  BY <1>2, <1>4
<1>7. \A i \in Written' : devResults'.entries[i].index \in Emitted'
  BY <1>1, <1>5, <1>6
<1>8. Listed'
  <2>1. \A i \in Written' :
          /\ devResults'.entries[i].index \in Hashes
          /\ devResults'.entries[i].word = births[devResults'.entries[i].index]
          /\ devResults'.entries[i].word # 0
    BY <1>1, <1>5, <1>6 DEF Listed
  <2>2. ASSUME NEW i \in Written', NEW j \in Written',
               devResults'.entries[i].index = devResults'.entries[j].index
        PROVE  i = j
    <3>1. CASE i \in Written /\ j \in Written
      BY <1>4, <1>5, <1>6, <2>2, <3>1 DEF Listed
    <3>2. CASE i \notin Written \/ j \notin Written
      BY <1>1, <1>5, <1>6, <2>2, <3>2
    <3> QED
      BY <3>1, <3>2
  <2> QED
    BY <1>1, <2>1, <2>2 DEF Listed
<1> QED
  BY <1>1, <1>3, <1>4, <1>7, <1>8 DEF ResultsInv

(* A filter that is full knows every hash that collides. *)
LEMMA NextKernelSearch ==
  ASSUME SearchInv, FilterExact, NextKernel
  PROVE  (HostInv /\ KeptInv /\ ResultsInv)'
<1>1. /\ UNCHANGED <<host, births, outcome, devHashes, devResults>>
      /\ kernel \in {"search", "filter", "populate"} /\ kernel' = KernelAfter[kernel]
      /\ at' = [t \in Threads |-> 0] /\ Finished
      /\ kernel # "filter" => countbits' = countbits
  BY DEF NextKernel, KernelAfter, hostVars
<1>2. GpuType /\ HostInv /\ KeptInv /\ ResultsInv
  BY DEF SearchInv, FilterInv
<1>3. HostInv'
  BY <1>1, <1>2 DEF HostInv, Kernels, KernelAfter
<1>4. Collided' = Collided
  BY <1>1 DEF Collided
<1>5. CASE kernel = "search"
  <2>1. ASSUME NEW a \in Collided PROVE countbits[LowSlot(births[a])] = 3
    <3>1. PICK b \in Hashes : a \in Hashes /\ a # b /\ births[b] = births[a]
      BY DEF Collided
    <3>2. devHashes = births
      BY <1>2, <1>5 DEF KeptInv
    <3>3. LowSlot(births[a]) \in Slots
      BY <3>1, HeaderBirthdays, SearchAssumption
    <3> DEFINE hashes == {h \in Hashes :
                 IF kernel = "search" THEN LowSlot(devHashes[h]) = LowSlot(births[a])
                 ELSE devHashes[h] # 0 /\ HighSlot(devHashes[h]) = LowSlot(births[a])}
    <3>4. countbits[LowSlot(births[a])] = 3 <=> \E c, d \in hashes : c # d
      BY <1>1, <1>5, <3>3 DEF FilterExact
    <3>5. a \in hashes /\ b \in hashes
      BY <1>5, <3>1, <3>2
    <3> QED
      BY <3>1, <3>4, <3>5
  <2>2. kernel' = "filter" /\ countbits' = countbits
    BY <1>1, <1>5 DEF KernelAfter
  <2> QED
    BY <1>1, <1>2, <1>3, <1>4, <1>5, <2>1, <2>2 DEF KeptInv, ResultsInv, Listed, Written
<1>6. CASE kernel = "filter"
  <2>1. kernel' = "populate"
    BY <1>1, <1>6 DEF KernelAfter
  <2> QED
    BY <1>1, <1>2, <1>3, <1>4, <1>6, <2>1 DEF KeptInv, ResultsInv, Listed, Written
<1>7. CASE kernel = "populate"
  <2>1. ASSUME NEW a \in Collided PROVE countbits[HighSlot(births[a])] = 3
    <3>1. PICK b \in Hashes : a \in Hashes /\ a # b /\ births[b] = births[a]
      BY DEF Collided
    <3>2. b \in Collided
      BY <3>1 DEF Collided
    <3>3. /\ devHashes[a] = births[a] /\ devHashes[b] = births[b]
          /\ births[a] # 0
      BY <1>2, <1>7, <3>1, <3>2 DEF KeptInv, Collided
    <3>4. HighSlot(births[a]) \in Slots
      BY <3>1, HeaderBirthdays, SearchAssumption
    <3> DEFINE hashes == {h \in Hashes :
                 IF kernel = "search" THEN LowSlot(devHashes[h]) = HighSlot(births[a])
                 ELSE devHashes[h] # 0 /\ HighSlot(devHashes[h]) = HighSlot(births[a])}
    <3>5. countbits[HighSlot(births[a])] = 3 <=> \E c, d \in hashes : c # d
      BY <1>1, <1>7, <3>4 DEF FilterExact
    <3>6. a \in hashes /\ b \in hashes
      BY <1>7, <3>1, <3>3
    <3> QED
      BY <3>1, <3>5, <3>6
  <2>2. kernel' = "rewrite" /\ countbits' = countbits
    BY <1>1, <1>7 DEF KernelAfter
  <2>3. KeptInv'
    BY <1>1, <1>2, <1>4, <1>7, <2>1, <2>2 DEF KeptInv
  <2>4. devResults'.count = 0
    BY <1>1, <1>2, <1>7 DEF ResultsInv
  <2>5. Written' = {}
    BY <2>4 DEF Written
  <2> QED
    BY <1>3, <2>2, <2>3, <2>4, <2>5, LimitPositive DEF ResultsInv, Listed
<1> QED
  BY <1>1, <1>5, <1>6, <1>7

LEMMA SearchStep ==
  ASSUME SearchInv, FilterExact, [Next]_vars
  PROVE  SearchInv'
<1>1. FilterInv'
  BY FilterStep DEF SearchInv
<1>2. ASSUME NEW header \in Headers, ComputeHashes(header) PROVE SearchInv'
  BY <1>2, ComputeHashesSearch
<1>3. ASSUME NEW t \in Threads, Thread(t) PROVE (HostInv /\ KeptInv /\ ResultsInv)'
  <2>1. CASE FirstOr(t) \/ SecondOr(t)
    BY <2>1, FillingSearch
  <2>2. CASE Filter(t)
    BY <2>2, FilterSearch
  <2>3. CASE SkipDropped(t)
    <3>1. /\ UNCHANGED <<host, births, kernel, outcome, devHashes, countbits, devResults>>
          /\ at' = [at EXCEPT ![t] = @ + 1] /\ at[t] < PerSpot
          /\ devHashes[Number(t)] = 0 /\ kernel \in {"populate", "rewrite"}
      BY <2>3 DEF SkipDropped, Running, Advance, hostVars
    <3> QED
      BY <3>1, SkipSearch
  <2>4. CASE Rewrite(t) /\ Twice(t)
    BY <2>4, RewriteSearch
  <2>5. CASE Rewrite(t) /\ ~Twice(t)
    <3>1. /\ UNCHANGED <<host, births, kernel, outcome, devHashes, countbits, devResults>>
          /\ at' = [at EXCEPT ![t] = @ + 1] /\ at[t] < PerSpot
          /\ ~Twice(t) /\ kernel \in {"populate", "rewrite"}
      BY <2>5 DEF Rewrite, Running, Advance, hostVars
    <3> QED
      BY <3>1, SkipSearch
  <2> QED
    BY <1>3, <2>1, <2>2, <2>3, <2>4, <2>5 DEF Thread
<1>4. CASE NextKernel
  BY <1>1, <1>4, NextKernelSearch DEF SearchInv
<1>5. CASE Synchronize
  BY <1>1, <1>5
     DEF Synchronize, SearchInv, HostInv, KeptInv, ResultsInv, Kernels, Listed, Written
<1>8. CASE KernelError
  BY <1>1, <1>8, LimitPositive
     DEF KernelError, SearchInv, HostInv, KeptInv, ResultsInv, Kernels, Results
<1>6. CASE Match \/ Overrun
  <2>1. /\ UNCHANGED <<kernel, outcome, births, devResults>> /\ host = "match"
        /\ host' \in {"start", "overrun"}
    BY <1>6 DEF Match, Overrun, gpuVars, hostVars
  <2>2. HostInv /\ kernel \notin Kernels
    BY <2>1 DEF SearchInv, HostInv
  <2>3. Listed' = Listed
    BY <2>1 DEF Listed, Written
  <2> QED
    BY <1>1, <2>1, <2>2, <2>3 DEF SearchInv, HostInv, KeptInv, ResultsInv, Kernels
<1>7. CASE UNCHANGED vars
  <2>1. /\ UNCHANGED <<host, births, outcome>>
        /\ UNCHANGED <<kernel, at, devHashes, countbits, devResults>>
    BY <1>7 DEF vars, gpuVars, hostVars
  <2>2. Collided' = Collided /\ Emitted' = Emitted /\ Written' = Written
    BY <2>1 DEF Collided, Emitted, Written
  <2>3. Listed' = Listed
    BY <2>1, <2>2 DEF Listed
  <2> QED
    BY <1>1, <2>1, <2>2, <2>3 DEF SearchInv, HostInv, KeptInv, ResultsInv
<1> QED
  BY <1>1, <1>2, <1>3, <1>4, <1>5, <1>6, <1>7, <1>8 DEF Next, SearchInv

(* Whatever happens to the counter, the filters drop no hash that collides *)
(* and what the counter covers of the results are hashes with their        *)
(* birthdays, each once.                                                   *)
THEOREM SearchInvariant == Spec => []SearchInv
<1>1. Init => SearchInv
  <2> SUFFICES ASSUME Init PROVE SearchInv
    OBVIOUS
  <2>1. HostInv
    BY SearchAssumption DEF Init, HostInv, Kernels
  <2>2. KeptInv /\ ResultsInv
    BY LimitPositive DEF Init, KeptInv, ResultsInv, Results
  <2> QED
    BY <2>1, <2>2, InitFilter DEF SearchInv
<1>2. SearchInv /\ FilterExact /\ [Next]_vars => SearchInv'
  BY SearchStep
<1> QED
  BY <1>1, <1>2, FilterIsExact, PTL DEF Spec

-----------------------------------------------------------------------------
(* The counter counts the hashes that are written. *)

LEMMA RewriteComplete ==
  ASSUME NoWrap, SearchInv, CompleteInv, NEW t \in Threads, Rewrite(t), Twice(t)
  PROVE  CompleteInv'
<1> DEFINE n == Number(t)
           c == devResults.count
<1>1. /\ kernel = "rewrite" /\ kernel' = kernel
      /\ n \notin Emitted /\ Emitted' = Emitted \cup {n}
      /\ devResults'.count = Counted(c)
      /\ Emitted \in SUBSET Hashes
  BY RewriteFrame DEF Emitted
<1>2. \A i \in 1 .. DevEntries :
        /\ i = c + 1 => devResults'.entries[i].index = n
        /\ i # c + 1 => devResults'.entries[i] = devResults.entries[i]
  <2>1. \A i \in 1 .. DevEntries :
          devResults'.entries[i] = IF i = c + 1 THEN [word |-> births[n], index |-> n]
                                                ELSE devResults.entries[i]
    BY RewriteFrame
  <2> QED
    BY <2>1
<1>3. /\ devResults'.count = c + 1 /\ Written \subseteq Written'
      /\ c + 1 \notin Written /\ Written \subseteq 1 .. DevEntries
      /\ c + 1 <= DevEntries => c + 1 \in Written'
  BY <1>1, WrittenNext
<1> HIDE DEF n
<1>4. c = Cardinality(Emitted) /\ c \in Nat /\ Cardinality(Emitted)' = c + 1
  <2>1. IsFiniteSet(Emitted)
    BY <1>1, FiniteHashes, FS_Subset
  <2>2. /\ c = Cardinality(Emitted) /\ c \in Nat
        /\ Cardinality(Emitted \cup {n}) = Cardinality(Emitted) + 1
    BY <1>1, <2>1, FS_CardinalityType, FS_AddElement DEF CompleteInv
  <2> QED
    BY <1>1, <2>2
<1> HIDE DEF c
<1>5. ASSUME c + 1 <= DevEntries, NEW a \in Emitted'
      PROVE  \E i \in Written' : devResults'.entries[i].index = a
  <2>1. c + 1 \in Written' /\ c + 1 \in 1 .. DevEntries /\ c <= DevEntries
    BY <1>3, <1>4, <1>5, EntriesPositive
  <2>2. CASE a = n
    BY <1>2, <2>1, <2>2
  <2>3. CASE a \in Emitted
    <3>1. PICK i \in Written : devResults.entries[i].index = a
      BY <1>1, <2>1, <2>3 DEF CompleteInv, c
    <3>2. i \in Written' /\ devResults'.entries[i].index = a
      BY <1>2, <1>3, <3>1
    <3> QED
      BY <3>2
  <2> QED
    BY <1>1, <1>5, <2>2, <2>3
<1> QED
  BY <1>3, <1>4, <1>5 DEF CompleteInv

LEMMA CompleteStep ==
  ASSUME NoWrap, SearchInv, CompleteInv, [Next]_vars
  PROVE  CompleteInv'
<1>1. GpuType /\ HostInv /\ ResultsInv
  BY DEF SearchInv, FilterInv
<1>2. ASSUME NEW t \in Threads, Thread(t) PROVE CompleteInv'
  <2>1. kernel' = kernel
    BY <1>2, ThreadFrame
  <2>2. CASE kernel # "rewrite"
    BY <2>1, <2>2 DEF CompleteInv
  <2>3. CASE Rewrite(t) /\ Twice(t)
    BY <2>3, RewriteComplete
  <2>4. CASE kernel = "rewrite" /\ (SkipDropped(t) \/ (Rewrite(t) /\ ~Twice(t)))
    <3> DEFINE n == Number(t)
    <3>1. /\ UNCHANGED <<devHashes, countbits, devResults>>
          /\ at' = [at EXCEPT ![t] = @ + 1] /\ at[t] < PerSpot
          /\ devHashes[n] = 0 \/ ~Twice(t)
      BY <2>4 DEF SkipDropped, Rewrite, Running, Advance, hostVars
    <3>2. devHashes[n] # 0 => countbits[HighSlot(devHashes[n])] # 3
      BY <2>4, <3>1 DEF Twice, SlotOf
    <3>3. \A a \in Hashes : Index(a) < at'[Spot(a)] <=>
                               (Index(a) < at[Spot(a)] \/ a = n)
      BY <1>1, <3>1, OneMoreDone
    <3> HIDE DEF n
    <3>4. Emitted' = Emitted /\ Written' = Written
      BY <3>1, <3>2, <3>3 DEF Emitted, Written
    <3> QED
      BY <2>1, <3>1, <3>4 DEF CompleteInv
  <2>5. kernel = "rewrite" => SkipDropped(t) \/ Rewrite(t)
    BY <1>2 DEF Thread, FirstOr, SecondOr, Filter, Running
  <2> QED
    BY <2>2, <2>3, <2>4, <2>5
<1>3. CASE NextKernel
  <2>1. CASE kernel = "populate"
    <3>1. /\ devResults' = devResults /\ at' = [t \in Threads |-> 0]
          /\ devResults.count = 0
      BY <1>1, <1>3, <2>1 DEF NextKernel, hostVars, ResultsInv
    <3>2. Emitted' = {}
      <4>1. \A a \in Hashes : ~(Index(a) < at'[Spot(a)])
        BY <3>1, HashOfThread, SearchAssumption
      <4> QED
        BY <4>1 DEF Emitted
    <3> QED
      BY <3>1, <3>2, FS_EmptySet DEF CompleteInv
  <2>2. CASE kernel # "populate"
    <3>1. kernel' \in {"filter", "populate"}
      BY <1>3, <2>2 DEF NextKernel, KernelAfter
    <3> QED
      BY <3>1 DEF CompleteInv
  <2> QED
    BY <2>1, <2>2
<1>4. CASE Synchronize \/ KernelError \/ \E header \in Headers : ComputeHashes(header)
  BY <1>4 DEF Synchronize, KernelError, ComputeHashes, CompleteInv
<1>5. CASE Match \/ Overrun \/ UNCHANGED vars
  <2>1. UNCHANGED <<kernel, at, devHashes, countbits, devResults>>
    BY <1>5 DEF Match, Overrun, vars, gpuVars
  <2>2. Emitted' = Emitted /\ Written' = Written
    BY <2>1 DEF Emitted, Written
  <2> QED
    BY <2>1, <2>2 DEF CompleteInv
<1> QED
  BY <1>2, <1>3, <1>4, <1>5 DEF Next

(* As long as the counter does not wrap, every hash that the last kernel   *)
(* kept is in the list, or the list is full.                               *)
THEOREM CompleteInvariant == Spec /\ []NoWrap => []CompleteInv
<1>1. Init => CompleteInv
  BY DEF Init, CompleteInv
<1>2. NoWrap /\ SearchInv /\ CompleteInv /\ [Next]_vars => CompleteInv'
  BY CompleteStep
<1> QED
  BY <1>1, <1>2, SearchInvariant, PTL DEF Spec

-----------------------------------------------------------------------------
(* The answer *)

Status == IF host = "gpu" THEN "asked" ELSE outcome
Reply ==
  IF outcome = "answered" THEN Found(Min2(devResults.count, Capacity)) ELSE <<>>

LEMMA LengthOfFunction ==
  ASSUME NEW n \in Nat, NEW f, f = [i \in 1 .. n |-> f[i]]
  PROVE  Len(f) = n /\ DOMAIN f = 1 .. n
<1> DEFINE S == {f[i] : i \in 1 .. n}
<1>1. f \in [1 .. n -> S]
  OBVIOUS
<1> HIDE DEF S
<1>2. f \in Seq(S)
  BY <1>1, SeqDef
<1>3. DOMAIN f = 1 .. n
  BY <1>1
<1>4. Len(f) \in Nat /\ DOMAIN f = 1 .. Len(f)
  BY <1>2, LenProperties
<1>5. ASSUME NEW m \in Nat, 1 .. m = 1 .. n PROVE m = n
  <2>1. m > n => m \in 1 .. m /\ m \notin 1 .. n
    OBVIOUS
  <2>2. n > m => n \in 1 .. n /\ n \notin 1 .. m
    OBVIOUS
  <2> QED
    BY <1>5, <2>1, <2>2
<1> QED
  BY <1>3, <1>4, <1>5

(* What the last kernel leaves behind is an answer. *)
LEMMA AnswerComplete ==
  ASSUME SearchInv, CompleteInv, kernel = "rewrite", Finished
  PROVE  LET m == Min2(devResults.count, Capacity)
         IN /\ Range(Found(m)) \subseteq Hashes /\ IsInjective(Found(m))
            /\ Len(Found(m)) <= Capacity
            /\ Len(Found(m)) < Capacity => Collided \subseteq Range(Found(m))
<1> DEFINE m == Min2(devResults.count, Capacity)
           answer == Found(m)
<1>1. Listed /\ KeptInv /\ GpuType
  BY DEF SearchInv, ResultsInv, FilterInv
<1>2. devResults.count \in Nat
  BY DEF SearchInv, ResultsInv
<1>3. /\ m \in Nat /\ m <= Capacity /\ m <= devResults.count
      /\ m < Capacity => m = devResults.count
  BY <1>2, EntriesPositive DEF Min2
<1> HIDE DEF m
<1>4. Len(answer) = m /\ DOMAIN answer = 1 .. m
  <2>1. answer = [i \in 1 .. m |-> answer[i]]
    BY DEF Found
  <2> HIDE DEF answer
  <2> QED
    BY <1>3, <2>1, LengthOfFunction
<1>5. \A i \in 1 .. m : i \in Written /\ answer[i] = devResults.entries[i].index
  BY <1>2, <1>3, EntriesPositive DEF Written, Found
<1>6. \A i \in 1 .. m : answer[i] \in Hashes
  BY <1>1, <1>5 DEF Listed
<1>7. \A i, j \in 1 .. m : answer[i] = answer[j] => i = j
  BY <1>1, <1>5 DEF Listed
<1>8. ASSUME m < Capacity, NEW a \in Collided
      PROVE  \E i \in 1 .. m : answer[i] = a
  <2>1. a \in Hashes /\ births[a] # 0
    BY DEF Collided
  <2>2. devHashes[a] = births[a] /\ countbits[HighSlot(births[a])] = 3
    BY <1>1, <2>1 DEF KeptInv
  <2>3. Index(a) < at[Spot(a)]
    BY <2>1, HashOfThread, SearchAssumption DEF Finished
  <2>4. a \in Emitted
    BY <2>1, <2>2, <2>3 DEF Emitted
  <2>5. devResults.count <= DevEntries /\ m = devResults.count
    BY <1>2, <1>3, <1>8, EntriesPositive
  <2>6. PICK i \in Written : devResults.entries[i].index = a
    BY <2>4, <2>5 DEF CompleteInv
  <2>7. i \in 1 .. m
    BY <2>5, <2>6 DEF Written
  <2> QED
    BY <1>5, <2>6, <2>7
<1> HIDE DEF answer
<1>9. Range(answer) = {answer[i] : i \in 1 .. m}
  BY <1>4 DEF Range
<1>10. Range(answer) \subseteq Hashes /\ IsInjective(answer)
  BY <1>4, <1>6, <1>7, <1>9 DEF IsInjective
<1>11. Len(answer) < Capacity => Collided \subseteq Range(answer)
  BY <1>4, <1>8, <1>9
<1> QED
  BY <1>3, <1>4, <1>10, <1>11 DEF answer, m

LEMMA SearchRefines ==
  ASSUME SearchInv, CompleteInv, [Next]_vars
  PROVE  \/ Search!Ask \/ Search!Answer \/ Search!Fail
         \/ UNCHANGED <<births, Status, Reply>>
<1> USE DEF Status, Reply
<1>0. HostInv /\ KeptInv
  BY DEF SearchInv
<1>1. ASSUME NEW header \in Headers, ComputeHashes(header) PROVE Search!Ask
  <2>1. /\ host = "start" /\ host' = "gpu" /\ outcome' = "none" /\ births' = header
    BY <1>1 DEF ComputeHashes
  <2> QED
    BY <1>0, <2>1, SearchAssumption DEF HostInv, Search!Ask
<1>2. ASSUME NEW t \in Threads, Thread(t) PROVE UNCHANGED <<births, Status, Reply>>
  <2>1. UNCHANGED <<host, births, kernel, outcome>>
    BY <1>2, ThreadFrame
  <2>2. kernel \in Kernels
    BY <1>2 DEF Thread, FirstOr, SecondOr, Filter, SkipDropped, Rewrite, Running, Kernels
  <2>3. outcome = "none"
    BY <1>0, <2>2 DEF HostInv
  <2> QED
    BY <2>1, <2>3
<1>3. CASE NextKernel
  <2>1. UNCHANGED <<host, births, outcome, devResults>>
    BY <1>3 DEF NextKernel, hostVars
  <2> QED
    BY <2>1 DEF Found
<1>4. CASE Synchronize
  <2>1. /\ kernel = "rewrite" /\ Finished /\ host = "gpu" /\ host' = "match"
        /\ outcome' = "answered" /\ UNCHANGED <<births, devResults>>
    BY <1>0, <1>4 DEF Synchronize, HostInv, Kernels
  <2>2. Reply' = Found(Min2(devResults.count, Capacity))
    BY <2>1 DEF Found
  <2> DEFINE answer == Found(Min2(devResults.count, Capacity))
  <2>3. /\ Range(answer) \subseteq Hashes /\ IsInjective(answer)
        /\ Len(answer) <= Capacity
        /\ Len(answer) < Capacity => Collided \subseteq Range(answer)
    BY <2>1, AnswerComplete
  <2> HIDE DEF answer
  <2>4. Search!Collided = Collided
    BY DEF Search!Collided, Collided
  <2>5. Reply' = answer /\ Status = "asked" /\ Status' = "answered"
    BY <2>1, <2>2 DEF answer
  <2>6. \A f : Search!Range(f) = Range(f) /\ (Search!IsInjective(f) <=> IsInjective(f))
    BY DEF Search!Range, Search!IsInjective, Range, IsInjective
  <2>7. /\ Search!Range(answer) \subseteq Hashes /\ Search!IsInjective(answer)
        /\ Len(answer) < Capacity => Search!Collided \subseteq Search!Range(answer)
    BY <2>3, <2>4, <2>6
  <2> QED
    BY <2>1, <2>3, <2>5, <2>7 DEF Search!Answer
<1>5. CASE KernelError
  <2>1. /\ kernel # "idle" /\ host' = "match" /\ outcome' = "failed" /\ births' = births
    BY <1>5 DEF KernelError
  <2>2. kernel \in Kernels
    BY <2>1 DEF SearchInv, FilterInv, GpuType, Kernels
  <2>3. host = "gpu" /\ outcome = "none"
    BY <1>0, <2>2 DEF HostInv
  <2> QED
    BY <2>1, <2>3 DEF Search!Fail
<1>6. CASE Match \/ Overrun
  <2>1. /\ UNCHANGED <<births, outcome, devResults>>
        /\ host = "match" /\ host' \in {"start", "overrun"}
    BY <1>6 DEF Match, Overrun, gpuVars, hostVars
  <2> QED
    BY <2>1 DEF Found
<1>7. CASE UNCHANGED vars
  <2>1. UNCHANGED <<host, births, outcome, devResults>>
    BY <1>7 DEF vars, gpuVars, hostVars
  <2> QED
    BY <2>1 DEF Found
<1> QED
  BY <1>1, <1>2, <1>3, <1>4, <1>5, <1>6, <1>7 DEF Next

(* As long as atomicInc does not wrap, the kernels and the copy do what the  *)
(* host expects of ComputeHashes: they fail, or name each hash once and    *)
(* every hash that collides, or as many as fit.                            *)
THEOREM SearchImplementsPromise == Spec /\ []NoWrap => SearchAsPromised
<1>1. Init => Search!Init
  <2> SUFFICES ASSUME Init PROVE Search!Init
    OBVIOUS
  <2>1. /\ births \in [Hashes -> Birthdays] /\ host = "start" /\ outcome = "none"
    BY SearchAssumption DEF Init
  <2> QED
    BY <2>1 DEF Search!Init
<1>2. SearchInv /\ CompleteInv /\ [Next]_vars => [Search!Next]_(Search!vars)
  BY SearchRefines DEF Search!Next, Search!vars, Status, Reply
<1> QED
  BY <1>1, <1>2, SearchInvariant, CompleteInvariant, PTL DEF Spec, SearchAsPromised, Search!Spec
=============================================================================
