--------------------------- MODULE HostSearchProofs ---------------------------
(***************************************************************************)
(* The host of the Protoshares search: its passes over the results lose no *)
(* collision and invent none, and it stays inside of hashblock, for any    *)
(* number of results and any way the slots are computed.                   *)
(***************************************************************************)
EXTENDS BirthdaySearchProofs, Recursion

(* The entries of part are those of whole at the positions pos, each once. *)
Selects(whole, part, pos) ==
  /\ pos \in [1 .. Len(part) -> 1 .. Len(whole)]
  /\ \A j \in 1 .. Len(part) : part[j] = whole[pos[j]]
  /\ \A i, j \in 1 .. Len(part) : pos[i] = pos[j] => i = j

(* No entry whose birthday another one has is left out. *)
KeepsDoubles(whole, part, pos) ==
  \A i, k \in 1 .. Len(whole) :
    i # k /\ whole[i].word = whole[k].word => \E j \in 1 .. Len(part) : pos[j] = i

(* What a pass has to do with the entries before it. *)
Thins(whole, part) ==
  /\ Len(part) <= Len(whole)
  /\ \E pos : Selects(whole, part, pos) /\ KeepsDoubles(whole, part, pos)

-----------------------------------------------------------------------------
(* One pass *)

(* What is kept of the first n entries, and where it was. *)
KeptAt(entries, pass, n, kept, pos) ==
  /\ pos \in [1 .. Len(kept) -> 1 .. n]
  /\ \A j \in 1 .. Len(kept) : kept[j] = entries[pos[j]]
  /\ \A i, j \in 1 .. Len(kept) : pos[i] = pos[j] => i = j
  /\ \A i \in 1 .. n :
       Shared(entries, i, pass) => \E j \in 1 .. Len(kept) : pos[j] = i

KeptOf(entries, pass, n, kept) ==
  Len(kept) <= n /\ \E pos : KeptAt(entries, pass, n, kept, pos)

LEMMA KeptOfNone == ASSUME NEW entries, NEW pass PROVE KeptOf(entries, pass, 0, <<>>)
<1>1. Len(<<>>) = 0
  OBVIOUS
<1> DEFINE pos == [j \in 1 .. 0 |-> j]
<1>2. pos \in [1 .. Len(<<>>) -> 1 .. 0]
  BY <1>1
<1>3. KeptAt(entries, pass, 0, <<>>, pos)
  BY <1>1, <1>2 DEF KeptAt
<1> QED
  BY <1>1, <1>3 DEF KeptOf

LEMMA KeptOfNext ==
  ASSUME NEW T, NEW entries \in Seq(T), NEW pass, NEW n \in Nat, n + 1 <= Len(entries),
         NEW kept \in Seq(T), KeptOf(entries, pass, n, kept)
  PROVE  KeptOf(entries, pass, n + 1,
                IF Shared(entries, n + 1, pass) THEN Append(kept, entries[n + 1]) ELSE kept)
<1> DEFINE m == Len(kept)
           more == Append(kept, entries[n + 1])
<1>1. m \in Nat /\ m <= n
  BY LenProperties DEF KeptOf
<1>2. PICK pos : /\ pos \in [1 .. m -> 1 .. n]
                 /\ \A j \in 1 .. m : kept[j] = entries[pos[j]]
                 /\ \A i, j \in 1 .. m : pos[i] = pos[j] => i = j
                 /\ \A i \in 1 .. n :
                      Shared(entries, i, pass) => \E j \in 1 .. m : pos[j] = i
  BY DEF KeptOf, KeptAt
<1>3. CASE Shared(entries, n + 1, pass)
  <2>1. entries[n + 1] \in T
    <3>1. n + 1 \in 1 .. Len(entries)
      BY LenProperties
    <3> QED
      BY <3>1, ElementOfSeq
  <2>2. /\ Len(more) = m + 1 /\ more[m + 1] = entries[n + 1]
        /\ \A j \in 1 .. m : more[j] = kept[j]
    BY <2>1, AppendProperties
  <2> DEFINE at1 == [j \in 1 .. m + 1 |-> IF j <= m THEN pos[j] ELSE n + 1]
  <2> HIDE DEF m, more
  <2>3. at1 \in [1 .. m + 1 -> 1 .. n + 1]
    BY <1>1, <1>2
  <2>4. \A j \in 1 .. m + 1 : more[j] = entries[at1[j]]
    BY <1>1, <1>2, <2>2
  <2>5. \A i, j \in 1 .. m + 1 : at1[i] = at1[j] => i = j
    BY <1>1, <1>2
  <2>6. ASSUME NEW i \in 1 .. n + 1, Shared(entries, i, pass)
        PROVE  \E j \in 1 .. m + 1 : at1[j] = i
    <3>1. CASE i <= n
      <4>1. PICK j \in 1 .. m : pos[j] = i
        BY <1>2, <2>6, <3>1
      <4> QED
        BY <1>1, <4>1
    <3>2. CASE i = n + 1
      <4>1. m + 1 \in 1 .. m + 1 /\ at1[m + 1] = n + 1
        BY <1>1
      <4> QED
        BY <3>2, <4>1
    <3> QED
      BY <3>1, <3>2
  <2> HIDE DEF at1
  <2>7. KeptAt(entries, pass, n + 1, more, at1)
    BY <2>2, <2>3, <2>4, <2>5, <2>6 DEF KeptAt
  <2>8. KeptOf(entries, pass, n + 1, more)
    BY <1>1, <2>2, <2>7 DEF KeptOf
  <2> QED
    BY <1>3, <2>8 DEF more
<1>4. CASE ~Shared(entries, n + 1, pass)
  <2> HIDE DEF m
  <2>1. pos \in [1 .. m -> 1 .. n + 1]
    BY <1>2
  <2>2. \A i \in 1 .. n + 1 : Shared(entries, i, pass) => \E j \in 1 .. m : pos[j] = i
    <3>1. \A i \in 1 .. n + 1 : i \in 1 .. n \/ i = n + 1
      OBVIOUS
    <3> QED
      BY <1>2, <1>4, <3>1
  <2>3. KeptAt(entries, pass, n + 1, kept, pos)
    BY <1>2, <2>1, <2>2 DEF KeptAt, m
  <2>4. KeptOf(entries, pass, n + 1, kept)
    BY <1>1, <2>3 DEF KeptOf, m
  <2> QED
    BY <1>4, <2>4
<1> QED
  BY <1>3, <1>4

(* A pass keeps at least the entries whose birthday another one has, for   *)
(* these share a slot.                                                     *)
LEMMA KeptThins ==
  ASSUME NEW T, NEW entries \in Seq(T), NEW pass
  PROVE  Kept(entries, pass) \in Seq(T) /\ Thins(entries, Kept(entries, pass))
<1> DEFINE L == Len(entries)
           step == [n \in 1 .. L |-> [k \in Seq(T) |->
                      IF Shared(entries, n, pass) THEN Append(k, entries[n]) ELSE k]]
<1>1. L \in Nat /\ DOMAIN entries = 1 .. L
  BY LenProperties
<1>2. step \in [1 .. L -> [Seq(T) -> Seq(T)]]
  <2>1. \A n \in 1 .. L, k \in Seq(T) :
          (IF Shared(entries, n, pass) THEN Append(k, entries[n]) ELSE k) \in Seq(T)
    BY AppendProperties, ElementOfSeq
  <2> QED
    BY <2>1
<1>3. <<>> \in Seq(T)
  BY EmptySeq
<1>4. PICK f \in [0 .. L -> Seq(T)] :
        f[0] = <<>> /\ \A n \in 1 .. L : f[n] = step[n][f[n - 1]]
  <2> DEFINE all == Seq(T)
             none == <<>>
  <2>1. none \in all /\ step \in Steps(L, all)
    BY <1>2, <1>3 DEF Steps
  <2> HIDE DEF L, step, all, none
  <2>2. \E f \in [0 .. L -> all] :
          f[0] = none /\ \A n \in 1 .. L : f[n] = step[n][f[n - 1]]
    BY <1>1, <2>1, Iteration, SMTT(60)
  <2> QED
    BY <2>2 DEF all, none
<1> DEFINE next(k, n) == IF n = 0 THEN <<>>
                         ELSE IF Shared(entries, n, pass) THEN Append(k[n - 1], entries[n])
                         ELSE k[n - 1]
           Rec(g) == g = [n \in 0 .. L |-> next(g, n)]
<1>5. ASSUME NEW n \in 0 .. L PROVE f[n] = next(f, n)
  <2>1. CASE n = 0
    BY <1>4, <2>1
  <2>2. CASE n # 0
    <3>1. n \in 1 .. L /\ n - 1 \in 0 .. L
      BY <1>1, <2>2
    <3>2. f[n - 1] \in Seq(T) /\ f[n] = step[n][f[n - 1]]
      BY <1>4, <3>1
    <3> QED
      BY <2>2, <3>1, <3>2
  <2> QED
    BY <2>1, <2>2
<1>6. Rec(f)
  BY <1>5
<1>7. PICK g : Rec(g) /\ Kept(entries, pass) = g[L]
  <2> HIDE DEF step
  <2> QED
    BY <1>6 DEF Kept
<1>8. \A n \in 0 .. L : g[n] = next(g, n)
  BY <1>7
<1> HIDE DEF Rec, step
<1> DEFINE S == {n \in Nat : n <= L => g[n] \in Seq(T) /\ KeptOf(entries, pass, n, g[n])}
<1>9. 0 \in S
  <2>1. g[0] = <<>>
    BY <1>1, <1>8
  <2> QED
    BY <1>3, <2>1, KeptOfNone
<1>10. ASSUME NEW n \in S \cap Nat PROVE n + 1 \in S
  <2> SUFFICES ASSUME n + 1 <= L
               PROVE  g[n + 1] \in Seq(T) /\ KeptOf(entries, pass, n + 1, g[n + 1])
    OBVIOUS
  <2>1. g[n] \in Seq(T) /\ KeptOf(entries, pass, n, g[n])
    BY <1>1, <1>10
  <2>2. g[n + 1] = IF Shared(entries, n + 1, pass) THEN Append(g[n], entries[n + 1]) ELSE g[n]
    <3>1. n + 1 \in 0 .. L /\ n + 1 # 0 /\ (n + 1) - 1 = n
      BY <1>1
    <3> QED
      BY <1>8, <3>1
  <2>3. KeptOf(entries, pass, n + 1, g[n + 1])
    <3> HIDE DEF S
    <3> QED
      BY <2>1, <2>2, KeptOfNext
  <2>4. n + 1 \in 1 .. L
    BY <1>1
  <2>5. entries[n + 1] \in T
    BY <2>4, ElementOfSeq
  <2>6. Append(g[n], entries[n + 1]) \in Seq(T)
    BY <2>1, <2>5, AppendProperties
  <2> QED
    BY <2>1, <2>2, <2>3, <2>6
<1>11. L \in S
  <2> HIDE DEF S
  <2> QED
    BY <1>1, <1>9, <1>10, SetInduction
<1> DEFINE kept == g[L]
<1>12. kept \in Seq(T) /\ KeptOf(entries, pass, L, kept)
  BY <1>11
<1> HIDE DEF kept, S
<1>13. Len(kept) <= L
  BY <1>12 DEF KeptOf
<1>14. PICK pos : KeptAt(entries, pass, L, kept, pos)
  BY <1>12 DEF KeptOf
<1>15. \A i, k \in 1 .. L :
         i # k /\ entries[i].word = entries[k].word => Shared(entries, i, pass)
  BY <1>1 DEF Shared
<1>16. Selects(entries, kept, pos) /\ KeepsDoubles(entries, kept, pos)
  BY <1>14, <1>15 DEF KeptAt, Selects, KeepsDoubles
<1> QED
  BY <1>7, <1>12, <1>13, <1>16 DEF Thins, kept
-----------------------------------------------------------------------------
(* All passes *)

LEMMA ThinsTransitive ==
  ASSUME NEW T, NEW whole \in Seq(T), NEW part \in Seq(T), NEW rest \in Seq(T),
         Thins(whole, part), Thins(part, rest)
  PROVE  Thins(whole, rest)
<1>1. PICK p : Selects(whole, part, p) /\ KeepsDoubles(whole, part, p)
  BY DEF Thins
<1>2. PICK q : Selects(part, rest, q) /\ KeepsDoubles(part, rest, q)
  BY DEF Thins
<1> DEFINE r == [j \in 1 .. Len(rest) |-> p[q[j]]]
<1>3. Len(rest) <= Len(whole)
  BY LenProperties DEF Thins
<1>4. Selects(whole, rest, r)
  <2>1. r \in [1 .. Len(rest) -> 1 .. Len(whole)]
    BY <1>1, <1>2 DEF Selects
  <2>2. \A j \in 1 .. Len(rest) : rest[j] = whole[r[j]]
    BY <1>1, <1>2 DEF Selects
  <2>3. \A i, j \in 1 .. Len(rest) : r[i] = r[j] => i = j
    BY <1>1, <1>2 DEF Selects
  <2> QED
    BY <2>1, <2>2, <2>3 DEF Selects
<1>5. ASSUME NEW i \in 1 .. Len(whole), NEW k \in 1 .. Len(whole),
             i # k, whole[i].word = whole[k].word
      PROVE  \E j \in 1 .. Len(rest) : r[j] = i
  <2>1. PICK a \in 1 .. Len(part) : p[a] = i
    BY <1>1, <1>5 DEF KeepsDoubles
  <2>2. PICK b \in 1 .. Len(part) : p[b] = k
    BY <1>1, <1>5 DEF KeepsDoubles
  <2>3. a # b /\ part[a].word = part[b].word
    BY <1>1, <1>5, <2>1, <2>2 DEF Selects
  <2>4. PICK j \in 1 .. Len(rest) : q[j] = a
    BY <1>2, <2>3 DEF KeepsDoubles
  <2> QED
    BY <2>1, <2>4
<1> HIDE DEF r
<1>6. KeepsDoubles(whole, rest, r)
  BY <1>5 DEF KeepsDoubles
<1> QED
  BY <1>3, <1>4, <1>6 DEF Thins

(* The entry that others of the same birthday are compared with. *)
LEMMA FirstOfAll ==
  ASSUME NEW T, NEW entries \in Seq(T), NEW j \in 1 .. Len(entries)
  PROVE  /\ FirstLike(entries, j) \in 1 .. j
         /\ entries[FirstLike(entries, j)].word = entries[j].word
         /\ \A k \in 1 .. FirstLike(entries, j) - 1 : entries[k].word # entries[j].word
<1> DEFINE First(i) == /\ entries[i].word = entries[j].word
                       /\ \A k \in 1 .. i - 1 : entries[k].word # entries[j].word
           like == {i \in 1 .. j : entries[i].word = entries[j].word}
<1>1. j \in like /\ like \in SUBSET Nat
  OBVIOUS
<1>2. PICK i \in like : \A k \in like : i <= k
  <2> HIDE DEF like
  <2> QED
    BY <1>1, Least
<1>3. i \in 1 .. j /\ First(i)
  BY <1>2
<1>4. FirstLike(entries, j) = CHOOSE n \in 1 .. j : First(n)
  BY DEF FirstLike
<1> HIDE DEF First
<1>5. FirstLike(entries, j) \in 1 .. j /\ First(FirstLike(entries, j))
  BY <1>3, <1>4
<1> QED
  BY <1>5 DEF First

LEMMA FirstIsOne ==
  ASSUME NEW T, NEW entries \in Seq(T),
         NEW i \in 1 .. Len(entries), NEW j \in 1 .. Len(entries),
         entries[i].word = entries[j].word
  PROVE  FirstLike(entries, i) = FirstLike(entries, j)
<1> DEFINE f == FirstLike(entries, i)
           g == FirstLike(entries, j)
<1>1. /\ f \in 1 .. i /\ entries[f].word = entries[i].word
      /\ \A k \in 1 .. f - 1 : entries[k].word # entries[i].word
  BY FirstOfAll
<1>2. /\ g \in 1 .. j /\ entries[g].word = entries[j].word
      /\ \A k \in 1 .. g - 1 : entries[k].word # entries[j].word
  BY FirstOfAll
<1> HIDE DEF f, g
<1>3. ~(f < g)
  BY <1>1, <1>2
<1>4. ~(g < f)
  BY <1>1, <1>2
<1> QED
  BY <1>1, <1>2, <1>3, <1>4 DEF f, g
-----------------------------------------------------------------------------
(* Types of what the kernels and the host pass on *)

BlockType ==
  /\ devResults.entries \in [1 .. DevEntries -> Entry]
  /\ hashblock \in [count : 0 .. NResults, entries : [1 .. HostEntries -> Entry]]
  /\ tested \subseteq Hashes \X Hashes

(* The three passes over what the GPU answered. *)
Answered == SubSeq(hashblock.entries, 1, Starting(hashblock.count))
First  == Kept(Answered, 1)
Second == Kept(First, 2)
Third  == Kept(Second, 3)
Zeroed == [j \in DOMAIN Third |->
             IF j \in Matched(Third) THEN [Third[j] EXCEPT !.word = 0] ELSE Third[j]]

LEMMA BlockSizes ==
  /\ DevEntries \in Nat /\ HostEntries \in Nat /\ DevEntries <= HostEntries
  /\ DevEntries = Capacity + 1 /\ NResults = HostEntries + 1 /\ Capacity \in Nat
BY SearchAssumption DEF DevEntries, HostEntries, NResults

LEMMA NoEntryTyped == NoEntry \in Entry
<1>1. 0 \in Hashes
  BY SearchAssumption, SMTT(30) DEF Hashes
<1> QED
  BY <1>1, SearchAssumption DEF NoEntry, Entry

LEMMA PassesThin ==
  ASSUME BlockType, hashblock.count # 0
  PROVE  /\ Answered \in Seq(Entry) /\ Len(Answered) = hashblock.count - 1
         /\ Len(Answered) <= HostEntries
         /\ \A i \in 1 .. Len(Answered) : Answered[i] = hashblock.entries[i]
         /\ First \in Seq(Entry) /\ Second \in Seq(Entry) /\ Third \in Seq(Entry)
         /\ Len(First) <= HostEntries /\ Len(Second) <= HostEntries
         /\ Len(Third) <= HostEntries
         /\ Thins(Answered, Third)
<1> DEFINE m == Starting(hashblock.count)
<1>1. m \in Nat /\ m = hashblock.count - 1 /\ m <= HostEntries
  BY BlockSizes DEF BlockType, Starting
<1> HIDE DEF m
<1>2. \A i \in 1 .. m : hashblock.entries[i] \in Entry
  BY <1>1, BlockSizes DEF BlockType
<1>3. Answered = SubSeq(hashblock.entries, 1, m)
  BY DEF Answered, m
<1>4. /\ Answered \in Seq(Entry) /\ Len(Answered) = m
      /\ \A i \in 1 .. m : Answered[i] = hashblock.entries[i]
  <2>1. /\ Answered \in Seq(Entry) /\ Len(Answered) = IF 1 <= m THEN m - 1 + 1 ELSE 0
        /\ \A i \in 1 .. m - 1 + 1 : Answered[i] = hashblock.entries[1 + i - 1]
    BY <1>1, <1>2, <1>3, SubSeqProperties
  <2> QED
    BY <1>1, <2>1
<1>5. First \in Seq(Entry) /\ Thins(Answered, First)
  BY <1>4, KeptThins DEF First
<1>6. Second \in Seq(Entry) /\ Thins(First, Second)
  BY <1>5, KeptThins DEF Second
<1>7. Third \in Seq(Entry) /\ Thins(Second, Third)
  BY <1>6, KeptThins DEF Third
<1>8. Thins(Answered, Third)
  <2>1. Thins(Answered, Second)
    BY <1>4, <1>5, <1>6, ThinsTransitive
  <2> QED
    BY <1>4, <1>6, <1>7, <2>1, ThinsTransitive
<1>9. /\ Len(First) <= Len(Answered) /\ Len(Second) <= Len(First)
      /\ Len(Third) <= Len(Second)
      /\ Len(First) \in Nat /\ Len(Second) \in Nat /\ Len(Third) \in Nat
  BY <1>5, <1>6, <1>7, LenProperties DEF Thins
<1> QED
  BY <1>1, <1>4, <1>5, <1>6, <1>7, <1>8, <1>9, BlockSizes

LEMMA MovedTyped ==
  ASSUME NEW T, NEW kept \in Seq(T), NEW entries \in Seq(T), Len(kept) <= Len(entries)
  PROVE  /\ MovedToFront(kept, entries) \in Seq(T)
         /\ Len(MovedToFront(kept, entries)) = Len(entries)
<1> DEFINE rest == SubSeq(entries, Len(kept) + 1, Len(entries))
<1>1. Len(kept) \in Nat /\ Len(entries) \in Nat
  BY LenProperties
<1>2. \A i \in Len(kept) + 1 .. Len(entries) : entries[i] \in T
  BY <1>1, ElementOfSeq
<1>3. /\ rest \in Seq(T)
      /\ Len(rest) = IF Len(kept) + 1 <= Len(entries)
                     THEN Len(entries) - (Len(kept) + 1) + 1 ELSE 0
  BY <1>1, <1>2, SubSeqProperties
<1> HIDE DEF rest
<1>4. kept \o rest \in Seq(T) /\ Len(kept \o rest) = Len(kept) + Len(rest)
  BY <1>3, ConcatProperties
<1> QED
  BY <1>1, <1>3, <1>4 DEF MovedToFront, rest

LEMMA FunctionIsSequence ==
  ASSUME NEW T, NEW n \in Nat, NEW f
  PROVE  f \in [1 .. n -> T] <=> f \in Seq(T) /\ Len(f) = n
<1>1. ASSUME f \in [1 .. n -> T] PROVE f \in Seq(T) /\ Len(f) = n
  <2>1. f \in Seq(T)
    BY <1>1, SeqDef
  <2>2. f = [i \in 1 .. n |-> f[i]]
    BY <1>1
  <2> QED
    BY <2>1, <2>2, LengthOfFunction
<1>2. ASSUME f \in Seq(T), Len(f) = n PROVE f \in [1 .. n -> T]
  BY <1>2, LenProperties
<1> QED
  BY <1>1, <1>2

LEMMA MatchTyped ==
  ASSUME BlockType, Match
  PROVE  BlockType'
<1>1. /\ hashblock.count # 0 /\ devResults' = devResults
      /\ hashblock' = [hashblock EXCEPT !.entries =
            MovedToFront(Zeroed, MovedToFront(Second, MovedToFront(First, @)))]
      /\ tested' = {pair \in {<<Third[FirstLike(Third, j)].index, Third[j].index>> :
                                 j \in Matched(Third)} :
                       Revalidated(pair[1], pair[2])}
  BY DEF Match, Zeroed, First, Second, Third, Answered, gpuVars
<1>2. /\ First \in Seq(Entry) /\ Second \in Seq(Entry) /\ Third \in Seq(Entry)
      /\ Len(First) <= HostEntries /\ Len(Second) <= HostEntries
      /\ Len(Third) <= HostEntries
  BY <1>1, PassesThin
<1>3. DOMAIN Third = 1 .. Len(Third) /\ Len(Third) \in Nat
  BY <1>2, LenProperties
<1>4. Zeroed \in Seq(Entry) /\ Len(Zeroed) = Len(Third)
  <2>1. ASSUME NEW j \in 1 .. Len(Third)
        PROVE  (IF j \in Matched(Third) THEN [Third[j] EXCEPT !.word = 0] ELSE Third[j]) \in Entry
    <3>1. Third[j] \in Entry
      BY <1>2, ElementOfSeq
    <3>2. [Third[j] EXCEPT !.word = 0] \in Entry
      BY <3>1, SearchAssumption DEF Entry
    <3> QED
      BY <3>1, <3>2
  <2>2. Zeroed \in [1 .. Len(Third) -> Entry]
    BY <1>3, <2>1 DEF Zeroed
  <2> QED
    BY <1>3, <2>2, FunctionIsSequence
<1>5. hashblock.entries \in Seq(Entry) /\ Len(hashblock.entries) = HostEntries
  BY BlockSizes, FunctionIsSequence DEF BlockType
<1> DEFINE one == MovedToFront(First, hashblock.entries)
           two == MovedToFront(Second, one)
           three == MovedToFront(Zeroed, two)
<1>6. one \in Seq(Entry) /\ Len(one) = HostEntries
  BY <1>2, <1>5, MovedTyped
<1> HIDE DEF one
<1>7. two \in Seq(Entry) /\ Len(two) = HostEntries
  BY <1>2, <1>6, MovedTyped
<1> HIDE DEF two
<1>8. three \in Seq(Entry) /\ Len(three) = HostEntries
  BY <1>2, <1>4, <1>7, MovedTyped
<1> HIDE DEF three
<1>9. hashblock'.entries = three /\ hashblock'.count = hashblock.count
  <2>1. hashblock' = [hashblock EXCEPT !.entries = three]
    BY <1>1 DEF one, two, three
  <2>2. hashblock \in [count : 0 .. NResults, entries : [1 .. HostEntries -> Entry]]
    BY DEF BlockType
  <2> QED
    BY <2>1, <2>2
<1>10. three \in [1 .. HostEntries -> Entry]
  BY <1>8, BlockSizes, FunctionIsSequence
<1>11. tested' \subseteq Hashes \X Hashes
  <2>1. ASSUME NEW j \in Matched(Third)
        PROVE  <<Third[FirstLike(Third, j)].index, Third[j].index>> \in Hashes \X Hashes
    <3>1. j \in 1 .. Len(Third)
      BY <1>3 DEF Matched
    <3>2. FirstLike(Third, j) \in 1 .. Len(Third)
      BY <1>2, <1>3, <3>1, FirstOfAll
    <3>3. Third[j] \in Entry /\ Third[FirstLike(Third, j)] \in Entry
      BY <1>2, <3>1, <3>2, ElementOfSeq
    <3> QED
      BY <3>3 DEF Entry
  <2> QED
    BY <1>1, <2>1
<1> QED
  <2>1. hashblock' \in [count : 0 .. NResults, entries : [1 .. HostEntries -> Entry]]
    BY <1>1, <1>10 DEF BlockType, one, two, three
  <2> QED
    BY <1>1, <1>11, <2>1 DEF BlockType

LEMMA BlockStep ==
  ASSUME SearchInv, BlockType, [Next]_vars
  PROVE  BlockType'
<1> USE BlockSizes, LimitPositive
<1>1. GpuType /\ devResults.count \in 0 .. NResults
  BY DEF SearchInv, FilterInv, ResultsInv
<1>2. Results(DevEntries).entries \in [1 .. DevEntries -> Entry]
  BY NoEntryTyped DEF Results
<1>3. CASE KernelError \/ \E header \in Headers : ComputeHashes(header)
  BY <1>2, <1>3 DEF KernelError, ComputeHashes, BlockType
<1>4. ASSUME NEW t \in Threads, Thread(t) PROVE BlockType'
  <2>1. UNCHANGED <<hashblock, tested>>
    BY <1>4, ThreadFrame
  <2>2. CASE devResults' = devResults
    BY <2>1, <2>2 DEF BlockType
  <2>3. CASE devResults' # devResults
    <3> DEFINE n == Number(t)
               entry == [word |-> devHashes[n], index |-> n]
    <3>1. Rewrite(t) /\ Twice(t)
      BY <1>4, <2>3 DEF Thread, FirstOr, SecondOr, Filter, SkipDropped, Rewrite, hostVars
    <3>2. at[t] < PerSpot /\ devResults' = WithResult(devResults, devHashes[n], n)
      BY <3>1 DEF Rewrite, Running
    <3>3. n \in Hashes
      BY <1>1, <3>2, HashOfLoop
    <3>4. entry \in Entry
      BY <1>1, <3>3 DEF GpuType, Entry
    <3>5. devResults'.entries =
            [i \in 1 .. DevEntries |->
               IF i = devResults.count + 1 THEN entry ELSE devResults.entries[i]]
      BY <3>2 DEF WithResult
    <3> HIDE DEF entry
    <3> QED
      BY <2>1, <3>4, <3>5 DEF BlockType
  <2> QED
    BY <2>2, <2>3
<1>5. CASE Synchronize
  <2> DEFINE old == hashblock.entries
             new == devResults.entries
             last == [word |-> new[DevEntries].word, index |-> old[DevEntries].index]
  <2>1. old \in Seq(Entry) /\ Len(old) = HostEntries /\ new \in [1 .. DevEntries -> Entry]
        /\ old \in [1 .. HostEntries -> Entry]
    BY FunctionIsSequence DEF BlockType
  <2>2. SubSeq(new, 1, Capacity) \in Seq(Entry) /\ Len(SubSeq(new, 1, Capacity)) = Capacity
    <3>1. \A i \in 1 .. Capacity : new[i] \in Entry
      BY <2>1
    <3>2. Len(SubSeq(new, 1, Capacity)) = IF 1 <= Capacity THEN Capacity - 1 + 1 ELSE 0
      BY <3>1, SubSeqProperties
    <3>3. SubSeq(new, 1, Capacity) \in Seq(Entry)
      BY <3>1, SubSeqProperties
    <3> QED
      BY <3>2, <3>3
  <2>3. <<last>> \in Seq(Entry) /\ Len(<<last>>) = 1
    <3>1. new[DevEntries] \in Entry /\ old[DevEntries] \in Entry
      BY <2>1
    <3>2. last \in Entry
      BY <3>1 DEF Entry
    <3> HIDE DEF last
    <3> QED
      BY <3>2
  <2>4. /\ SubSeq(old, DevEntries + 1, HostEntries) \in Seq(Entry)
        /\ Len(SubSeq(old, DevEntries + 1, HostEntries)) = HostEntries - DevEntries
    <3>1. \A i \in DevEntries + 1 .. HostEntries : old[i] \in Entry
      BY <2>1
    <3>2. Len(SubSeq(old, DevEntries + 1, HostEntries)) =
            IF DevEntries + 1 <= HostEntries THEN HostEntries - (DevEntries + 1) + 1 ELSE 0
      BY <3>1, SubSeqProperties
    <3>3. SubSeq(old, DevEntries + 1, HostEntries) \in Seq(Entry)
      BY <3>1, SubSeqProperties
    <3> QED
      BY <3>2, <3>3
  <2> DEFINE one == SubSeq(new, 1, Capacity)
             two == <<last>>
             three == SubSeq(old, DevEntries + 1, HostEntries)
  <2>5. Copied(devResults, hashblock) = one \o two \o three
    BY DEF Copied
  <2>6. one \o two \o three \in Seq(Entry) /\ Len(one \o two \o three) = HostEntries
    <3> HIDE DEF one, two, three, old, new, last
    <3>1. one \o two \in Seq(Entry) /\ Len(one \o two) = Capacity + 1
      BY <2>2, <2>3, ConcatProperties DEF one, two
    <3>2. three \in Seq(Entry) /\ Len(three) = HostEntries - DevEntries
      BY <2>4 DEF three
    <3>3. /\ (one \o two) \o three \in Seq(Entry)
          /\ Len((one \o two) \o three) = Len(one \o two) + Len(three)
      BY <3>1, <3>2, ConcatProperties
    <3> QED
      BY <3>1, <3>2, <3>3
  <2> DEFINE all == one \o two \o three
  <2> HIDE DEF all
  <2>7. Copied(devResults, hashblock) \in [1 .. HostEntries -> Entry]
    <3>1. all \in Seq(Entry) /\ Len(all) = HostEntries
      BY <2>6 DEF all
    <3>2. Copied(devResults, hashblock) = all
      BY <2>5 DEF all
    <3> QED
      BY <3>1, <3>2, FunctionIsSequence
  <2> HIDE DEF old, new
  <2>8. /\ UNCHANGED <<devResults, tested>>
        /\ hashblock' = [count |-> devResults.count, entries |-> Copied(devResults, hashblock)]
    BY <1>5 DEF Synchronize
  <2> QED
    BY <1>1, <2>7, <2>8 DEF BlockType
<1>6. CASE Match
  BY <1>6, MatchTyped
<1>7. CASE NextKernel \/ Overrun \/ UNCHANGED vars
  <2>1. UNCHANGED <<devResults, hashblock, tested>>
    BY <1>7 DEF NextKernel, Overrun, vars, gpuVars, hostVars
  <2> QED
    BY <2>1 DEF BlockType
<1> QED
  BY <1>3, <1>4, <1>5, <1>6, <1>7 DEF Next

(* Whatever the copy and the passes leave in hashblock are results. *)
THEOREM BlockInvariant == Spec => []BlockType
<1>1. Init => BlockType
  <2> SUFFICES ASSUME Init PROVE BlockType
    OBVIOUS
  <2>1. \A n \in Nat : [i \in 1 .. n |-> NoEntry] \in [1 .. n -> Entry]
    BY NoEntryTyped
  <2> QED
    BY <2>1, BlockSizes, SMTT(60) DEF Init, BlockType, Results
<1>2. SearchInv /\ BlockType /\ [Next]_vars => BlockType'
  BY BlockStep
<1> QED
  BY <1>1, <1>2, SearchInvariant, PTL DEF Spec

(* No kernel, no answer of the GPU and no pass of the host puts anything   *)
(* into the results but birthdays and numbers of hashes, or moves the end  *)
(* of hashblock.                                                           *)
THEOREM SearchTypes == Spec => []TypeOK
<1>1. SearchInv /\ BlockType => TypeOK
  BY DEF SearchInv, FilterInv, GpuType, HostInv, ResultsInv, BlockType, TypeOK
<1> QED
  BY <1>1, SearchInvariant, BlockInvariant, PTL

-----------------------------------------------------------------------------
(* From the answer of the GPU to the pairs that are tested *)

(* The copy has every result that fits. *)
CopyInv ==
  host = "match" /\ outcome = "answered" =>
    /\ hashblock.count = devResults.count
    /\ \A i \in 1 .. Capacity : hashblock.entries[i] = devResults.entries[i]

LEMMA CopyStep ==
  ASSUME SearchInv, BlockType, CopyInv, [Next]_vars
  PROVE  CopyInv'
<1> USE BlockSizes
<1>1. HostInv
  BY DEF SearchInv
<1>2. CASE Synchronize
  <2> DEFINE old == hashblock.entries
             new == devResults.entries
             last == [word |-> new[DevEntries].word, index |-> old[DevEntries].index]
             front == SubSeq(new, 1, Capacity)
             rest == SubSeq(old, DevEntries + 1, HostEntries)
  <2>1. /\ old \in [1 .. HostEntries -> Entry] /\ new \in [1 .. DevEntries -> Entry]
        /\ old[DevEntries] \in Entry /\ new[DevEntries] \in Entry
    BY DEF BlockType
  <2>2. /\ front \in Seq(Entry) /\ Len(front) = Capacity
        /\ \A i \in 1 .. Capacity : front[i] = new[i]
    <3>1. \A i \in 1 .. Capacity : new[i] \in Entry
      BY <2>1
    <3>2. /\ Len(front) = IF 1 <= Capacity THEN Capacity - 1 + 1 ELSE 0
          /\ \A i \in 1 .. Capacity - 1 + 1 : front[i] = new[1 + i - 1]
      BY <3>1, SubSeqProperties
    <3>3. front \in Seq(Entry)
      BY <3>1, SubSeqProperties
    <3> QED
      BY <3>2, <3>3
  <2>3. rest \in Seq(Entry)
    <3>1. \A i \in DevEntries + 1 .. HostEntries : old[i] \in Entry
      BY <2>1
    <3> QED
      BY <3>1, SubSeqProperties
  <2>4. <<last>> \in Seq(Entry) /\ Len(<<last>>) = 1
    <3>1. last \in Entry
      BY <2>1 DEF Entry
    <3> HIDE DEF last
    <3> QED
      BY <3>1
  <2> DEFINE one == <<last>>
  <2>5. Copied(devResults, hashblock) = front \o one \o rest
    BY DEF Copied
  <2> HIDE DEF old, new, last, front, rest, one
  <2>6. \A i \in 1 .. Capacity : (front \o one \o rest)[i] = front[i]
    <3>1. /\ front \o one \in Seq(Entry) /\ Len(front \o one) = Capacity + 1
          /\ \A i \in 1 .. Capacity : (front \o one)[i] = front[i]
      BY <2>2, <2>4, ConcatProperties DEF one
    <3>2. \A i \in 1 .. Len(front \o one) + Len(rest) :
            ((front \o one) \o rest)[i] =
               IF i <= Len(front \o one) THEN (front \o one)[i] ELSE rest[i - Len(front \o one)]
      BY <2>3, <3>1, ConcatProperties
    <3>3. Len(rest) \in Nat
      BY <2>3, LenProperties
    <3> QED
      BY <3>1, <3>2, <3>3
  <2>7. /\ devResults' = devResults
        /\ hashblock' = [count |-> devResults.count, entries |-> Copied(devResults, hashblock)]
    BY <1>2 DEF Synchronize
  <2> QED
    BY <2>2, <2>5, <2>6, <2>7 DEF CopyInv, new
<1>3. CASE KernelError \/ Match \/ Overrun \/ \E header \in Headers : ComputeHashes(header)
  BY <1>3 DEF KernelError, Match, Overrun, ComputeHashes, CopyInv
<1>4. ASSUME NEW t \in Threads, Thread(t) PROVE CopyInv'
  <2>1. UNCHANGED <<host, kernel>>
    BY <1>4, ThreadFrame
  <2>2. kernel \in Kernels
    BY <1>4 DEF Thread, FirstOr, SecondOr, Filter, SkipDropped, Rewrite, Running, Kernels
  <2> QED
    BY <1>1, <2>1, <2>2 DEF HostInv, CopyInv
<1>5. CASE NextKernel \/ UNCHANGED vars
  <2>1. UNCHANGED <<host, outcome, devResults, hashblock>>
    BY <1>5 DEF NextKernel, vars, gpuVars, hostVars
  <2> QED
    BY <2>1 DEF CopyInv
<1> QED
  BY <1>2, <1>3, <1>4, <1>5 DEF Next

(* What the host finds at the start of its passes. *)
LEMMA AnsweredListed ==
  ASSUME SearchInv, BlockType, CopyInv, host = "match", Fits
  PROVE  /\ hashblock.count = devResults.count /\ hashblock.count # 0
         /\ Len(Answered) = devResults.count - 1
         /\ \A i \in 1 .. Len(Answered) :
              /\ Answered[i].index = devResults.entries[i].index
              /\ Answered[i].index \in Hashes
              /\ Answered[i].word = births[Answered[i].index]
              /\ Answered[i].word # 0
         /\ \A i, j \in 1 .. Len(Answered) : Answered[i].index = Answered[j].index => i = j
<1>1. /\ hashblock.count = devResults.count /\ hashblock.count \in 1 .. Capacity
      /\ \A i \in 1 .. Capacity : hashblock.entries[i] = devResults.entries[i]
      /\ Listed
  BY DEF CopyInv, Fits, SearchInv, ResultsInv
<1>2. /\ Len(Answered) = devResults.count - 1
      /\ \A i \in 1 .. Len(Answered) : Answered[i] = hashblock.entries[i]
  BY <1>1, PassesThin
<1>3. \A i \in 1 .. Len(Answered) : /\ i \in Written
                                    /\ Answered[i] = devResults.entries[i]
  BY <1>1, <1>2, BlockSizes DEF Written
<1>4. \A i \in 1 .. Len(Answered) :
        /\ Answered[i].index \in Hashes
        /\ Answered[i].word = births[Answered[i].index]
        /\ Answered[i].word # 0
  BY <1>1, <1>3 DEF Listed
<1>5. \A i, j \in 1 .. Len(Answered) : Answered[i].index = Answered[j].index => i = j
  BY <1>1, <1>3 DEF Listed
<1>6. hashblock.count = devResults.count /\ hashblock.count # 0
  BY <1>1
<1>7. \A i \in 1 .. Len(Answered) : Answered[i].index = devResults.entries[i].index
  BY <1>3
<1> QED
  BY <1>2, <1>4, <1>5, <1>6, <1>7

LEMMA MatchTested ==
  ASSUME BlockType, Match
  PROVE  /\ UNCHANGED <<births, outcome, devResults>> /\ host = "match" /\ hashblock.count # 0
         /\ \A p : p \in tested' <=>
              \E j \in Matched(Third) :
                /\ p = <<Third[FirstLike(Third, j)].index, Third[j].index>>
                /\ births[p[1]] = births[p[2]]
<1>1. tested' = {pair \in {<<Third[FirstLike(Third, j)].index, Third[j].index>> :
                             j \in Matched(Third)} :
                   Revalidated(pair[1], pair[2])}
  BY DEF Match, First, Second, Third, Answered
<1>2. UNCHANGED <<births, outcome, devResults>> /\ host = "match" /\ hashblock.count # 0
  BY DEF Match, gpuVars
<1> QED
  BY <1>1, <1>2 DEF Revalidated

LEMMA MatchOnlyCollisions ==
  ASSUME SearchInv, BlockType, CopyInv, Match
  PROVE  OnlyCollisions'
<1>1. /\ UNCHANGED <<births, outcome, devResults>> /\ host = "match" /\ hashblock.count # 0
      /\ \A p : p \in tested' <=>
              \E j \in Matched(Third) :
                /\ p = <<Third[FirstLike(Third, j)].index, Third[j].index>>
                /\ births[p[1]] = births[p[2]]
  BY MatchTested
<1>2. Answered \in Seq(Entry) /\ Third \in Seq(Entry) /\ Thins(Answered, Third)
  BY <1>1, PassesThin
<1>3. PICK pos : Selects(Answered, Third, pos)
  BY <1>2 DEF Thins
<1>4. DOMAIN Third = 1 .. Len(Third) /\ Len(Third) \in Nat
  BY <1>2, LenProperties
<1>5. ASSUME Fits, NEW pair \in tested' PROVE pair[1] # pair[2]
  <2>1. PICK j \in Matched(Third) :
          pair = <<Third[FirstLike(Third, j)].index, Third[j].index>>
    BY <1>1
  <2> DEFINE f == FirstLike(Third, j)
  <2>2. j \in 1 .. Len(Third) /\ f < j
    BY <1>4 DEF Matched
  <2>3. f \in 1 .. j
    BY <1>2, <2>2, FirstOfAll
  <2> HIDE DEF f
  <2>4. f \in 1 .. Len(Third) /\ f # j
    BY <1>4, <2>2, <2>3
  <2>5. /\ pos[f] \in 1 .. Len(Answered) /\ pos[j] \in 1 .. Len(Answered)
        /\ pos[f] # pos[j]
        /\ Third[f] = Answered[pos[f]] /\ Third[j] = Answered[pos[j]]
    BY <1>3, <2>2, <2>4 DEF Selects
  <2>6. Answered[pos[f]].index # Answered[pos[j]].index
    BY <1>1, <1>5, <2>5, AnsweredListed
  <2> QED
    BY <2>1, <2>5, <2>6 DEF f
<1>6. Fits' = Fits
  BY <1>1 DEF Fits
<1>7. \A pair \in tested' : births'[pair[1]] = births'[pair[2]]
  BY <1>1
<1> QED
  BY <1>5, <1>6, <1>7 DEF OnlyCollisions

LEMMA MatchCollisionsTested ==
  ASSUME SearchInv, BlockType, CopyInv, Match
  PROVE  CollisionsTested'
<1> DEFINE n == devResults.count - 1
<1>1. /\ UNCHANGED <<births, outcome, devResults>> /\ host = "match" /\ hashblock.count # 0
      /\ \A p : p \in tested' <=>
              \E j \in Matched(Third) :
                /\ p = <<Third[FirstLike(Third, j)].index, Third[j].index>>
                /\ births[p[1]] = births[p[2]]
  BY MatchTested
<1>2. Answered \in Seq(Entry) /\ Third \in Seq(Entry) /\ Thins(Answered, Third)
  BY <1>1, PassesThin
<1>3. PICK pos : Selects(Answered, Third, pos) /\ KeepsDoubles(Answered, Third, pos)
  BY <1>2 DEF Thins
<1>4. DOMAIN Third = 1 .. Len(Third) /\ Len(Third) \in Nat
  BY <1>2, LenProperties
<1>5. Fits' = Fits /\ Found(n)' = Found(n)
  BY <1>1 DEF Fits, Found
<1> SUFFICES ASSUME Fits, NEW a \in Range(Found(n)), NEW b \in Range(Found(n)),
                    a # b, births[a] = births[b]
             PROVE  \/ <<a, b>> \in tested' \/ <<b, a>> \in tested'
                    \/ \E c \in Hashes : <<c, a>> \in tested' /\ <<c, b>> \in tested'
  BY <1>1, <1>5 DEF CollisionsTested, Fits, Found
<1>6. /\ Len(Answered) = n
      /\ \A i \in 1 .. n :
           /\ Answered[i].index = devResults.entries[i].index
           /\ Answered[i].index \in Hashes
           /\ Answered[i].word = births[Answered[i].index]
           /\ Answered[i].word # 0
  BY <1>1, AnsweredListed
<1> HIDE DEF n
<1>7. \A x \in Range(Found(n)) : \E i \in 1 .. n : Answered[i].index = x
  BY <1>6 DEF Found, Range
<1>8. PICK p \in 1 .. n : Answered[p].index = a
  BY <1>7
<1>9. PICK q \in 1 .. n : Answered[q].index = b
  BY <1>7
<1>10. p # q /\ Answered[p].word = Answered[q].word /\ Answered[p].word # 0
  BY <1>6, <1>8, <1>9
<1>11. PICK i \in 1 .. Len(Third) : pos[i] = p
  BY <1>3, <1>6, <1>10 DEF KeepsDoubles
<1>12. PICK j \in 1 .. Len(Third) : pos[j] = q
  BY <1>3, <1>6, <1>10 DEF KeepsDoubles
<1> DEFINE f == FirstLike(Third, i)
<1>13. \A k \in 1 .. Len(Third) :
         /\ pos[k] \in 1 .. n /\ Third[k] = Answered[pos[k]]
         /\ Third[k].index \in Hashes /\ Third[k].word = births[Third[k].index]
  BY <1>3, <1>6, SMTT(60) DEF Selects
<1>14. /\ Third[i].index = a /\ Third[j].index = b /\ i # j
       /\ Third[i].word = Third[j].word /\ Third[i].word # 0 /\ Third[j].word # 0
  BY <1>8, <1>9, <1>10, <1>11, <1>12, <1>13
<1>15. f = FirstLike(Third, j)
  BY <1>2, <1>14, FirstIsOne
<1>16. f \in 1 .. i /\ f \in 1 .. j /\ Third[f].word = Third[i].word
  <2>1. f \in 1 .. i /\ Third[f].word = Third[i].word
    BY <1>2, FirstOfAll
  <2>2. FirstLike(Third, j) \in 1 .. j
    BY <1>2, FirstOfAll
  <2> QED
    BY <1>15, <2>1, <2>2
<1>17. f < i => i \in Matched(Third)
  BY <1>4, <1>14 DEF Matched
<1>18. f < j => j \in Matched(Third)
  BY <1>4, <1>14, <1>15 DEF Matched
<1> DEFINE c == Third[f].index
<1>19. c \in Hashes /\ births[c] = births[a] /\ births[c] = births[b]
  BY <1>4, <1>13, <1>14, <1>16
<1>20. i \in Matched(Third) => <<c, a>> \in tested'
  BY <1>1, <1>14, <1>19
<1>21. j \in Matched(Third) => <<c, b>> \in tested'
  BY <1>1, <1>14, <1>15, <1>19
<1>22. CASE f < i /\ f < j
  BY <1>17, <1>18, <1>19, <1>20, <1>21, <1>22
<1>23. CASE f = i
  <2>1. f < j
    BY <1>14, <1>16, <1>23
  <2> QED
    BY <1>14, <1>18, <1>21, <1>23, <2>1
<1>24. CASE f = j
  <2>1. f < i
    BY <1>14, <1>16, <1>24
  <2> QED
    BY <1>14, <1>17, <1>20, <1>24, <2>1
<1>25. (f < i /\ f < j) \/ f = i \/ f = j
  <2> HIDE DEF f
  <2> QED
    BY <1>4, <1>16
<1> QED
  BY <1>22, <1>23, <1>24, <1>25

(* Between two searches nothing changes what was tested. *)
LEMMA TestedStep ==
  ASSUME SearchInv, BlockType, CopyInv, [Next]_vars, OnlyCollisions, CollisionsTested
  PROVE  OnlyCollisions' /\ CollisionsTested'
<1>1. CASE Match
  BY <1>1, MatchOnlyCollisions, MatchCollisionsTested
<1>2. CASE UNCHANGED vars
  <2>1. UNCHANGED <<host, births, devResults, outcome, tested>>
    BY <1>2 DEF vars, gpuVars, hostVars
  <2>2. Fits' = Fits /\ \A n : Found(n)' = Found(n)
    BY <2>1 DEF Fits, Found
  <2>3. OnlyCollisions'
    BY <2>1, <2>2 DEF OnlyCollisions
  <2>4. Found(devResults.count - 1)' = Found(devResults.count - 1)
    BY <2>1 DEF Found
  <2>5. CollisionsTested'
    BY <2>1, <2>2, <2>4 DEF CollisionsTested
  <2> QED
    BY <2>3, <2>5
<1>3. CASE ~Match /\ Next
  <2>1. HostInv
    BY DEF SearchInv
  <2>2. ASSUME NEW t \in Threads, Thread(t) PROVE host' # "start"
    <3>1. host' = host
      BY <2>2, ThreadFrame
    <3>2. kernel \in Kernels
      BY <2>2 DEF Thread, FirstOr, SecondOr, Filter, SkipDropped, Rewrite, Running, Kernels
    <3> QED
      BY <2>1, <3>1, <3>2 DEF HostInv
  <2>3. NextKernel => host' # "start"
    <3>1. NextKernel => host' = host /\ kernel \in Kernels
      BY DEF NextKernel, KernelAfter, Kernels
    <3> QED
      BY <2>1, <3>1 DEF HostInv
  <2>4. Synchronize \/ KernelError \/ Overrun => host' # "start"
    BY DEF Synchronize, KernelError, Overrun
  <2>5. \A header \in Headers : ComputeHashes(header) => host' # "start"
    BY DEF ComputeHashes
  <2>6. host' # "start"
    BY <1>3, <2>2, <2>3, <2>4, <2>5 DEF Next
  <2> QED
    BY <2>6 DEF OnlyCollisions, CollisionsTested
<1> QED
  BY <1>1, <1>2, <1>3

LEMMA SearchTested ==
  Spec => [](CopyInv /\ OnlyCollisions /\ CollisionsTested)
<1>1. Init => CopyInv /\ OnlyCollisions /\ CollisionsTested
  BY DEF Init, CopyInv, OnlyCollisions, CollisionsTested, Fits
<1>2. /\ SearchInv /\ BlockType /\ CopyInv /\ OnlyCollisions /\ CollisionsTested
      /\ [Next]_vars
      => (CopyInv /\ OnlyCollisions /\ CollisionsTested)'
  BY CopyStep, TestedStep
<1> QED
  BY <1>1, <1>2, SearchInvariant, BlockInvariant, PTL DEF Spec

(* Only hashes that have one birthday under the header of the host are     *)
(* compared with the target, whatever was left in hashblock; and they are  *)
(* two hashes, unless the GPU failed or its results did not fit.           *)
THEOREM SearchOnlyCollisions == Spec => []OnlyCollisions
BY SearchTested, PTL

(* The passes of the host lose no collision of the answer, apart from that *)
(* with its last result: two hashes that collide are tested together or    *)
(* each with a third.                                                      *)
THEOREM SearchTestsCollisions == Spec => []CollisionsTested
BY SearchTested, PTL
=============================================================================
