------------------------------ MODULE Algorithms ------------------------------
(***************************************************************************)
(* The sequential computations of the miner, each on every input of a set: *)
(* the state is the input, and the properties compare what the code        *)
(* computes with what it means.                                            *)
(***************************************************************************)
EXTENDS MerkleTree, CompactTarget, WalletAddress, RiecoinSieve, ClientPackets

CONSTANTS
  Compacts,     \* compact targets
  Blocks,       \* transactions and merkle seeds of two threads
  Addresses,    \* characters of wallet addresses
  SieveTargets, \* z_target of riecoin_process
  Logins,       \* names, password and fee addresses
  Shares        \* shares of each algorithm

(* The largest number of so many digits has no more bytes than the largest *)
(* one of a leading digit and zeros: it is so of base 58 and bytes for     *)
(* every length the words of the code hold.                                *)
TrackTells(length) ==
  \E n \in 1 .. length * WordBytes :
    /\ Power(AddrBase, n - 1) <= (DigitBase - 1) * Power(DigitBase, length - 1)
    /\ Power(DigitBase, length) - 1 < Power(AddrBase, n)

Characters == {NoDigit} \cup 0 .. DigitBase - 1

(* The fields of a share that are numbers, hashes and other bytes. *)
IsShare(share) ==
  /\ {share.version, share.nTime, share.nonce, share.nBits, share.sieveSize,
      share.sieveCandidate, share.nBirthdayA, share.nBirthdayB} \subseteq 0 .. MaxU32
  /\ \A hash \in {share.merkleRoot, share.prevBlockHash, share.nOffset,
                 share.merkleRootOriginal} :
       hash \in Seq(Byte) /\ Len(hash) = HashSize
  /\ \A bytes \in {share.fixedMultiplier, share.chainMultiplier, share.userExtraNonceData} :
       bytes \in Seq(Byte) /\ Len(bytes) <= MaxU8

(* The send buffer has room for the longest packets: a login with all the  *)
(* fees and a share of Primecoin.                                          *)
Room(longest) ==
  /\ \A size \in {8, HashSize, KeySize, MaxName, MaxVersion, Base} : size <= longest
  /\ 4 + (2 * MaxFees + 13) * longest <= SendLimit

(* Strings and hashes are of bytes, seeds have four of them, and a key is  *)
(* an address without its prefix and its checksum.                         *)
ASSUME InputAssumption ==
  /\ AddrBase = Base
  /\ KeySize = RawLength - CheckLength - 1 /\ MaxFees <= MaxU8
  /\ \E longest \in 8 .. SendLimit : Room(longest)
  /\ Compacts \subseteq Nat /\ SieveTargets \subseteq Nat
  /\ \A block \in Blocks :
       /\ block.coinBase1 \in Seq(Byte) /\ block.coinBase2 \in Seq(Byte)
       /\ block.txHashes \in Seq([kind : {"data"}, bytes : Seq(Byte)])
       /\ block.seeds \subseteq 0 .. MaxU32
  /\ \A chars \in Addresses :
       /\ chars \in Seq(Characters) /\ Len(chars) <= MaxInput
       /\ chars # <<>> => TrackTells(Len(chars))
  /\ \A login \in Logins :
       /\ login.user \in Seq(Byte) /\ login.pass \in Seq(Byte)
       /\ login.fees \in Seq([address : Seq(Characters), fee : 0 .. MaxU16])
  /\ \A share \in Shares : IsShare(share)

VARIABLE input

MaxU64 == (MaxU32 + 1) * (MaxU32 + 1) - 1

Inputs ==
  [kind : {"compact"}, value : Compacts]
  \cup [kind : {"block"}, value : Blocks]
  \cup [kind : {"address"}, value : Addresses]
  \cup [kind : {"sieve"}, value : SieveTargets]
  \cup [kind : {"login"}, value : Logins]
  \cup [kind : {"share"}, value : Shares]
  \cup [kind : {"ping"}, value : {0, MaxU64}]

Init == input \in Inputs
Next == UNCHANGED input
Spec == Init /\ [][Next]_input

Is(kind) == input.kind = kind

-----------------------------------------------------------------------------
(* Coinbase and merkle root, as a miner thread computes them when it fetches *)

Leaves(block, seed) ==
  <<TxHash(block.coinBase1, Digits(seed, 4), block.coinBase2)>> \o block.txHashes

Root(block, seed) == MerkleRoot(Leaves(block, seed))

(* The layers of the loop, with their doubled last hashes and the first    *)
(* layer counted differently from the others, compute the merkle tree of   *)
(* any number of transactions the processed layers have room for.          *)
RootIsTree ==
  Is("block") /\ Len(input.value.txHashes) < Power(2, Layers - 1) =>
    \A seed \in input.value.seeds :
      Root(input.value, seed) = TreeRoot(Leaves(input.value, seed))

(* Two threads that fetched the same work with different merkle seeds      *)
(* search different blocks: the seed reaches the root, whatever the number *)
(* of transactions and the sizes of the coinbase parts.                    *)
SeedsGiveRoots ==
  Is("block") /\ Len(input.value.txHashes) < Power(2, Layers - 1) =>
    \A s, t \in input.value.seeds :
      Root(input.value, s) = Root(input.value, t) => s = t

(* The comment at transaction.cpp:80 promises a root for any block of up   *)
(* to 2^16 hashes, the size of the array of layers; it is violated, ten    *)
(* layers are processed and no root is written for a larger block.         *)
EveryBlockHasRoot ==
  Is("block") => \A seed \in input.value.seeds : Root(input.value, seed) # NoRoot

(* Shifting byte by byte through the words is multiplying by powers of     *)
(* 256: no byte is lost between words, small exponents round down, and the *)
(* sign bit makes a target that nothing meets.                             *)
TargetIsShifted ==
  Is("compact") => ValueOf(DifficultyTarget(input.value)) = CompactValue(input.value)

(* A decoded address is the number its digits stand for, in as many bytes  *)
(* as the largest number of so many digits needs: carries run through and  *)
(* beyond the words, and the length does not depend on the digits.         *)
AddressIsNumber ==
  Is("address") =>
    LET chars == input.value
        decoded == DecodeBase58(chars)
        n == Len(decoded.bytes)
    IN /\ decoded.ok <=> chars # <<>> /\ NoDigit \notin ToSet(chars)
       /\ decoded.ok =>
            /\ Numeral(decoded.bytes, AddrBase) = Numeral(chars, DigitBase)
            /\ Power(DigitBase, Len(chars)) - 1 < Power(AddrBase, n)
            /\ (DigitBase - 1) * Power(DigitBase, Len(chars) - 1) >= Power(AddrBase, n - 1)

(* The candidates of a block are exactly the positions (from 1) of which   *)
(* no small prime divides one of the six numbers, although the sieve never *)
(* looks at the primes of the primorial.                                   *)
SieveIsExact ==
  Is("sieve") =>
    Candidates(input.value) =
      {i \in 1 .. SieveSize - 1 :
         \A number \in Sextuple(input.value, i), p \in SmallPrimes : number % p # 0}

-----------------------------------------------------------------------------
(* Packets of the client *)

Fees(login) ==
  LET added[i \in 0 .. Len(login.fees)] ==
        IF i = 0 THEN <<>>
        ELSE AddFee(added[i - 1], login.fees[i].address, login.fees[i].fee)
  IN added[Len(login.fees)]

Composition ==
  CASE Is("login") -> SendWorkerLogin(input.value.user, input.value.pass, Fees(input.value))
    [] Is("share") -> SendShare(input.value)
    [] Is("ping")  -> SendPing(input.value)

(* The header of each packet sent tells how many bytes follow, so that the *)
(* pool finds the next one; the error flag of the writes is never looked   *)
(* at, and must not matter to it.                                          *)
HeaderTellsSize ==
  input.kind \in {"login", "share", "ping"} =>
    Number(SubSeq(Composition, 2, 4)) = Len(Composition) - 4

(* The pool reads it back by the lengths in the packet, to its last byte. *)
Means(kinds, values) ==
  LET parsed == Parsed(Composition, kinds)
  IN ~parsed.pb.err /\ parsed.pb.index = parsed.pb.size /\ parsed.got = values

(* The fees that count: the first ones with a valid address. *)
GoodFees(login) ==
  LET key(decoded) == SubSeq(decoded.bytes, 2, RawLength - CheckLength)
      good[i \in 0 .. Len(login.fees)] ==
        IF i = 0 THEN <<>>
        ELSE IF ValidAddress(DecodeBase58(login.fees[i].address))
        THEN Append(good[i - 1], [devFee |-> login.fees[i].fee,
                                  pubKeyHash |-> key(DecodeBase58(login.fees[i].address))])
        ELSE good[i - 1]
      all == good[Len(login.fees)]
  IN SubSeq(all, 1, Lesser(Len(all), MaxFees))

(* The pool gets every value the client means to send and nothing is left  *)
(* over: names as far as strncpy() keeps them, the fees with a good        *)
(* address up to the most the list holds, each share with the fields of    *)
(* its algorithm.                                                          *)
PoolUnderstands ==
  /\ Is("login") =>
       Means(LoginKinds(GoodFees(input.value)),
             <<6, Shortened(input.value.user), Shortened(input.value.pass), Version,
               Len(GoodFees(input.value))>> \o FeeValues(GoodFees(input.value)))
  /\ Is("share") => Means(ShareKinds(input.value.algorithm), ShareValues(input.value))
  /\ Is("ping")  => Means(<<"u64">>, <<input.value>>)

(* What the writer of strings accepts the reader reads back when both are  *)
(* given the same maximum, as the comment at xptPacketbuffer.cpp:335 has   *)
(* it; it is violated, the reader refuses one length more.                 *)
SameMaximumReadsBack ==
  Is("login") =>
    LET name == ReadString(Parsed(Composition, <<"u32">>).pb, MaxName)
    IN ~name.pb.err /\ name.got = CopiedName(input.value.user)
=============================================================================
