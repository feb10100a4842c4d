---------------------------- MODULE BirthdaySearch ----------------------------
(***************************************************************************)
(* The search for birthday collisions of the Protoshares miner.  The GPU   *)
(* (gpuhash.cu) computes a birthday for every hash and drops those that    *)
(* share the slot of a filter with no other, first by their low bits, then *)
(* by their high ones; its threads run each kernel concurrently and the    *)
(* kernels one after the other.  The host (protoshares_process_512 and     *)
(* protoshares_revalidateCollision) filters what is left three times more  *)
(* and compares the rest in pairs.                                         *)
(*                                                                         *)
(* A birthday is the masked hash; 0 also marks a hash that is dropped.     *)
(* Hash number spot * PerSpot + i is the i-th of thread spot.  A filter    *)
(* has two bits for each slot: 0, 1 (once) and 3 (twice or more).          *)
(***************************************************************************)
EXTENDS Integers, SequencesExt, FiniteSets, Functions

CONSTANTS
  Spots,            \* 2^23: number of GPU threads of a kernel
  PerSpot,          \* 8: hashes of each
  Headers,          \* the birthdays of each header: functions on Hashes
  Birthdays,        \* 0 .. 2^50 - 1
  Slots,            \* slots of a filter: 2^30 on the GPU, 2^19 on the host
  LowSlot(_),       \* of a birthday: by its low 30 bits
  HighSlot(_),      \* by the 30 bits above the lowest 18
  HostSlot(_, _),   \* by 19 bits of its murmur product, for each pass
  Capacity          \* results that fit into N_RESULTS words, 32767

NResults == 2 * Capacity + 2   \* N_RESULTS, the words of dev_results
Hashes == 0 .. Spots * PerSpot - 1
Threads == 0 .. Spots - 1

ASSUME SearchAssumption ==
  /\ Spots \in Nat \ {0} /\ PerSpot \in Nat \ {0} /\ Capacity \in Nat \ {0}
  /\ Birthdays \subseteq Nat /\ 0 \in Birthdays
  /\ Headers # {} /\ Headers \subseteq [Hashes -> Birthdays]
  /\ \A v \in Birthdays : LowSlot(v) \in Slots /\ HighSlot(v) \in Slots
  /\ \A v \in Birthdays, pass \in 1 .. 3 : HostSlot(v, pass) \in Slots

VARIABLES
  host,         \* what the host does: "start", "gpu", "match", "overrun"
  births,       \* the birthdays of the header, as the host hashes them again
  kernel,       \* the kernel that runs on the GPU
  at,           \* for each thread the hash of its loop, PerSpot at the end
  doubling,     \* the threads between the two steps of gpu_set_or_double
  devHashes,    \* dev_hashes
  countbits,    \* dev_countbits
  devResults,   \* dev_results: the counter, then a word and an index in turn
  hashblock,    \* __hashblock, the host's copy, used again for every header
  outcome,      \* how ComputeHashes ended, which the host ignores
  tested        \* pairs revalidated and, both ways, compared with the target

gpuVars  == <<kernel, at, doubling, devHashes, countbits, devResults>>
hostVars == <<hashblock, outcome, tested>>
vars == <<host, births, gpuVars, hostVars>>

EmptyFilter == [s \in Slots |-> 0]
NoEntry == [word |-> 0, index |-> 0]
Results(n) == [count |-> 0, entries |-> [i \in 1 .. n |-> NoEntry]]

(* The words after the counter that make up entries; dev_results ends with *)
(* half of one, and hashblock is twice as large.                           *)
DevEntries == Capacity + 1
HostEntries == 2 * Capacity + 1

(* hashblock is a megabyte of malloc(): pages of zeros. *)
Init ==
  /\ host = "start" /\ births \in Headers
  /\ kernel = "idle" /\ at = [t \in Threads |-> 0] /\ doubling = {}
  /\ devHashes = [a \in Hashes |-> 0] /\ countbits = EmptyFilter
  /\ devResults = Results(DevEntries)
  /\ hashblock = Results(HostEntries) /\ outcome = "none" /\ tested = {}

-----------------------------------------------------------------------------
(* GPUHasher::ComputeHashes *)

(* The results and the filter are cleared and the kernels queued.  A thread *)
(* of the first writes its hashes where no other looks before the next.     *)
ComputeHashes(header) ==
  /\ host = "start" /\ host' = "gpu"
  /\ births' = header /\ devHashes' = header
  /\ kernel' = "search" /\ at' = [t \in Threads |-> 0] /\ doubling' = {}
  /\ countbits' = EmptyFilter /\ devResults' = Results(DevEntries)
  /\ outcome' = "none" /\ tested' = {}
  /\ UNCHANGED hashblock

Number(t) == t * PerSpot + at[t]
SlotOf(t) ==
  IF kernel \in {"search", "filter"} THEN LowSlot(devHashes[Number(t)])
                                     ELSE HighSlot(devHashes[Number(t)])
Twice(t) == countbits[SlotOf(t)] = 3

Running(kernels, t) == kernel \in kernels /\ at[t] < PerSpot
Advance(t) == at' = [at EXCEPT ![t] = @ + 1]

(* Mutant: an addition in place of the or. *)
WithFirstAdded(bits) == bits + 1

WithFirst(bits) == IF bits = 0 THEN 1 ELSE bits

(* Mutant: the second step is left out. *)
FirstOrOnly(t) ==
  /\ Running({"search", "populate"}, t) /\ t \notin doubling
  /\ kernel = "populate" => devHashes[Number(t)] # 0
  /\ countbits' = [countbits EXCEPT ![SlotOf(t)] = WithFirst(@)]
  /\ Advance(t)
  /\ UNCHANGED <<host, births, kernel, doubling, devHashes, devResults, hostVars>>

(* The first atomicOr; the old bits tell whether the other one is needed. *)
FirstOr(t) ==
  /\ Running({"search", "populate"}, t) /\ t \notin doubling
  /\ kernel = "populate" => devHashes[Number(t)] # 0
  /\ countbits' = [countbits EXCEPT ![SlotOf(t)] = WithFirst(@)]
  /\ IF countbits[SlotOf(t)] = 1
     THEN doubling' = doubling \cup {t} /\ UNCHANGED at
     ELSE Advance(t) /\ UNCHANGED doubling
  /\ UNCHANGED <<host, births, kernel, devHashes, devResults, hostVars>>

SecondOr(t) ==
  /\ Running({"search", "populate"}, t) /\ t \in doubling
  /\ countbits' = [countbits EXCEPT ![SlotOf(t)] = 3]
  /\ doubling' = doubling \ {t}
  /\ Advance(t)
  /\ UNCHANGED <<host, births, kernel, devHashes, devResults, hostVars>>

(* Mutant: stays at a hash that it drops. *)
FilterStaying(t) ==
  /\ Running({"filter"}, t)
  /\ devHashes' = [devHashes EXCEPT ![Number(t)] = IF Twice(t) THEN @ ELSE 0]
  /\ IF Twice(t) THEN Advance(t) ELSE UNCHANGED at
  /\ UNCHANGED <<host, births, kernel, doubling, countbits, devResults, hostVars>>

Filter(t) ==
  /\ Running({"filter"}, t)
  /\ devHashes' = [devHashes EXCEPT ![Number(t)] = IF Twice(t) THEN @ ELSE 0]
  /\ Advance(t)
  /\ UNCHANGED <<host, births, kernel, doubling, countbits, devResults, hostVars>>

(* What the last two kernels do with a hash the filter dropped, or 0 itself. *)
SkipDropped(t) ==
  /\ Running({"populate", "rewrite"}, t)
  /\ devHashes[Number(t)] = 0
  /\ Advance(t)
  /\ UNCHANGED <<host, births, kernel, doubling, devHashes, countbits, devResults, hostVars>>

Counted(count) == IF count >= NResults THEN 0 ELSE count + 1

(* Mutant: the number of the thread in place of that of the hash. *)
WithResultOfSpot(results, word, number) ==
  [count |-> Counted(results.count),
   entries |-> [i \in 1 .. DevEntries |->
                  IF i = results.count + 1
                  THEN [word |-> word, index |-> number - (number % PerSpot)]
                  ELSE results.entries[i]]]

(* atomicInc, which wraps at its limit, and the two words of the slot that *)
(* the thread now has to itself.  What is past the end is lost.            *)
WithResult(results, word, number) ==
  [count |-> Counted(results.count),
   entries |-> [i \in 1 .. DevEntries |->
                  IF i = results.count + 1 THEN [word |-> word, index |-> number]
                                           ELSE results.entries[i]]]

Rewrite(t) ==
  /\ Running({"rewrite"}, t)
  /\ devHashes[Number(t)] # 0
  /\ devResults' = IF Twice(t)
                   THEN WithResult(devResults, devHashes[Number(t)], Number(t))
                   ELSE devResults
  /\ Advance(t)
  /\ UNCHANGED <<host, births, kernel, doubling, devHashes, countbits, hostVars>>

Thread(t) == FirstOr(t) \/ SecondOr(t) \/ Filter(t) \/ SkipDropped(t) \/ Rewrite(t)

Finished == \A t \in Threads : at[t] = PerSpot
KernelAfter == [search |-> "filter", filter |-> "populate", populate |-> "rewrite"]

(* Mutant: the kernels in streams of their own. *)
NextKernelEarly ==
  /\ kernel \in DOMAIN KernelAfter
  /\ \E t \in Threads : at[t] = PerSpot
  /\ kernel' = KernelAfter[kernel]
  /\ at' = [t \in Threads |-> 0] /\ doubling' = {}
  /\ countbits' = IF kernel = "filter" THEN EmptyFilter ELSE countbits
  /\ UNCHANGED <<host, births, devHashes, devResults, hostVars>>

(* The kernels of a stream do not overlap; the filter is cleared between. *)
NextKernel ==
  /\ kernel \in DOMAIN KernelAfter /\ Finished
  /\ kernel' = KernelAfter[kernel]
  /\ at' = [t \in Threads |-> 0]
  /\ countbits' = IF kernel = "filter" THEN EmptyFilter ELSE countbits
  /\ UNCHANGED <<host, births, doubling, devHashes, devResults, hostVars>>

(* The copy at the end of the stream.  Of the last entry only the word is *)
(* inside of dev_results; the index beside it is an old one.              *)
Copied(results, block) ==
  SubSeq(results.entries, 1, Capacity)
    \o <<[word |-> results.entries[DevEntries].word,
          index |-> block.entries[DevEntries].index]>>
    \o SubSeq(block.entries, DevEntries + 1, HostEntries)

Synchronize ==
  /\ kernel = "rewrite" /\ Finished
  /\ kernel' = "idle" /\ host' = "match" /\ outcome' = "answered"
  /\ hashblock' = [count |-> devResults.count, entries |-> Copied(devResults, hashblock)]
  /\ UNCHANGED <<births, at, doubling, devHashes, countbits, devResults, tested>>

(* An error: nothing is copied, and the host takes no notice of the -1.  *)
(* The threads are gone, and nobody reads again what they left on the    *)
(* device: it is forgotten here.                                         *)
KernelError ==
  /\ kernel # "idle" /\ kernel' = "idle"
  /\ host' = "match" /\ outcome' = "failed"
  /\ at' = [t \in Threads |-> 0] /\ doubling' = {}
  /\ devHashes' = [a \in Hashes |-> 0] /\ countbits' = EmptyFilter
  /\ devResults' = Results(DevEntries)
  /\ UNCHANGED <<births, hashblock, tested>>

-----------------------------------------------------------------------------
(* protoshares_process_512 on the host *)

(* Mutant: one less again. *)
StartingTwoLess(count) == IF count > 1 THEN count - 2 ELSE 0

(* n_starting, for a counter that is not 0. *)
Starting(count) == count - 1

(* Another entry has the slot of the n-th. *)
Shared(entries, n, pass) ==
  \E i \in DOMAIN entries :
    i # n /\ HostSlot(entries[i].word, pass) = HostSlot(entries[n].word, pass)

(* One pass of set_or_double and is_in_filter_twice: a slot has both bits *)
(* from its second entry on.                                              *)
Kept(entries, pass) ==
  LET kept[n \in 0 .. Len(entries)] ==
        IF n = 0 THEN <<>>
        ELSE IF Shared(entries, n, pass) THEN Append(kept[n - 1], entries[n])
        ELSE kept[n - 1]
  IN kept[Len(entries)]

(* What is kept moves to the front of hashblock; the rest stays there. *)
MovedToFront(kept, entries) == kept \o SubSeq(entries, Len(kept) + 1, Len(entries))

(* Each entry is compared with those before it that are not zeroed yet: *)
(* only the first of each birthday is.                                  *)
FirstLike(entries, j) == CHOOSE i \in 1 .. j :
  /\ entries[i].word = entries[j].word
  /\ \A k \in 1 .. i - 1 : entries[k].word # entries[j].word

Matched(entries) == {j \in DOMAIN entries : entries[j].word # 0 /\ FirstLike(entries, j) < j}

(* protoshares_revalidateCollision hashes both again from the header. *)
Revalidated(a, b) == births[a] = births[b]

(* The passes one after the other, each over what the one before it kept. *)
Match ==
  /\ host = "match" /\ hashblock.count # 0
  /\ host' = "start"
  /\ \E first \in {Kept(SubSeq(hashblock.entries, 1, Starting(hashblock.count)), 1)} :
     \E second \in {Kept(first, 2)} : \E third \in {Kept(second, 3)} :
       LET zeroed == [j \in DOMAIN third |->
                        IF j \in Matched(third) THEN [third[j] EXCEPT !.word = 0]
                                                ELSE third[j]]
       IN /\ tested' = {pair \in {<<third[FirstLike(third, j)].index, third[j].index>> :
                                    j \in Matched(third)} :
                          Revalidated(pair[1], pair[2])}
          /\ hashblock' = [hashblock EXCEPT !.entries =
                             MovedToFront(zeroed, MovedToFront(second, MovedToFront(first, @)))]
  /\ UNCHANGED <<births, gpuVars, outcome>>

(* A counter of 0 makes n_starting 2^32 - 1: the loops leave hashblock. *)
Overrun ==
  /\ host = "match" /\ hashblock.count = 0
  /\ host' = "overrun"
  /\ UNCHANGED <<births, gpuVars, hostVars>>

-----------------------------------------------------------------------------
Next ==
  \/ \E header \in Headers : ComputeHashes(header)
  \/ \E t \in Threads : Thread(t)
  \/ NextKernel \/ Synchronize \/ KernelError
  \/ Match \/ Overrun

(* The GPU runs the threads of a kernel that was started. *)
Fairness ==
  /\ \A t \in Threads : WF_vars(Thread(t))
  /\ WF_vars(NextKernel) /\ WF_vars(Synchronize)
  /\ WF_vars(Match \/ Overrun)

Spec == Init /\ [][Next]_vars
FairSpec == Spec /\ Fairness

-----------------------------------------------------------------------------
Entry == [word : Birthdays, index : Hashes]

TypeOK ==
  /\ host \in {"start", "gpu", "match", "overrun"} /\ births \in Headers
  /\ kernel \in {"idle", "search", "filter", "populate", "rewrite"}
  /\ at \in [Threads -> 0 .. PerSpot] /\ doubling \subseteq Threads
  /\ devHashes \in [Hashes -> Birthdays] /\ countbits \in [Slots -> {0, 1, 3}]
  /\ devResults.count \in 0 .. NResults /\ hashblock.count \in 0 .. NResults
  /\ devResults.entries \in [1 .. DevEntries -> Entry]
  /\ hashblock.entries \in [1 .. HostEntries -> Entry]
  /\ outcome \in {"none", "answered", "failed"}
  /\ tested \subseteq Hashes \X Hashes

(* Slots with two or more, one and no hash have 3, 1 and 0 when a kernel   *)
(* that fills the filter has ended, however the two atomic steps of its    *)
(* threads interleaved: no increment of the saturating counters is lost    *)
(* (gpu_set_or_double).                                                    *)
FilterExact ==
  kernel \in {"search", "populate"} /\ Finished =>
    \A s \in Slots :
      LET hashes == {a \in Hashes :
            IF kernel = "search" THEN LowSlot(devHashes[a]) = s
                                 ELSE devHashes[a] # 0 /\ HighSlot(devHashes[a]) = s}
      IN /\ countbits[s] = 0 <=> hashes = {}
         /\ countbits[s] = 3 <=> \E a, b \in hashes : a # b

Found(n) == [i \in 1 .. n |-> devResults.entries[i].index]

Fits == outcome = "answered" /\ devResults.count \in 1 .. Capacity

(* Whatever the GPU left in hashblock, even that of an earlier header when *)
(* it failed, only hashes that have one birthday under this header are     *)
(* compared with the target and submitted; and they are two hashes, as     *)
(* long as the GPU answered with results that fit: what is left from an    *)
(* earlier header can name one hash twice.                                 *)
OnlyCollisions ==
  host = "start" =>
    \A pair \in tested :
      /\ births[pair[1]] = births[pair[2]]
      /\ Fits => pair[1] # pair[2]

(* No collision is lost on the way through the five filters, apart from    *)
(* those of the last result, which n_starting leaves out, and of birthday  *)
(* 0: two hashes that collide are tested together or each with a third.    *)
CollisionsTested ==
  host = "start" /\ Fits =>
    \A a, b \in Range(Found(devResults.count - 1)) :
      a # b /\ births[a] = births[b] =>
        \/ <<a, b>> \in tested \/ <<b, a>> \in tested
        \/ \E c \in Hashes : <<c, a>> \in tested /\ <<c, b>> \in tested

Min2(a, b) == IF a <= b THEN a ELSE b

Search == INSTANCE CollisionSearch WITH
  status <- IF host = "gpu" THEN "asked" ELSE outcome,
  answer <- IF outcome = "answered"
            THEN Found(Min2(devResults.count, Capacity))
            ELSE <<>>

(* The kernels and the copy do what the host expects of ComputeHashes:     *)
(* every hash that collides is in the answer, each once, or the list of    *)
(* results was full.                                                       *)
SearchAsPromised == Search!Spec

(* Every search ends: the threads leave their kernels, these follow each *)
(* other, and the host gets back to the next header or runs astray.      *)
SearchEnds == host = "gpu" ~> host \in {"start", "overrun"}
=============================================================================
