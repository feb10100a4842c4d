---------------------------- MODULE ClientPackets ----------------------------
(***************************************************************************)
(* The packets the client composes: xptClient_sendWorkerLogin,             *)
(* xptClient_sendShare and xptClient_sendPing, as the bytes they pass to   *)
(* send(); and, external, what the pool makes of them.                     *)
(***************************************************************************)
EXTENDS PacketBuffer, SequencesExt

CONSTANTS
  Prime, Protoshares, Riecoin,    \* ALGORITHM_PRIME and so on
  MaxName, MaxVersion,            \* 128, 45
  Version,                        \* minerVersionString
  HashSize, KeySize,              \* 32, 20
  SendLimit                       \* 256*1024: bufferLimit of sendBuffer

(* The send buffer is smaller than the longest data and than the number in *)
(* a header can tell, and a byte tells the length of a name.               *)
ASSUME PacketAssumption ==
  /\ SendLimit \in Nat /\ SendLimit >= 4 /\ SendLimit < DataLimit + 4
  /\ {MaxName, MaxVersion} \subseteq 1 .. Base
  /\ Version \in Seq(Byte) /\ Len(Version) < MaxVersion
  /\ {HashSize, KeySize} \subseteq Nat
  /\ Prime # Protoshares /\ Prime # Riecoin /\ Protoshares # Riecoin

AUTH_REQ     == 1
SUBMIT_SHARE == 4
PING         == 8

(* Mutant: strncpy() without the limit. *)
CopiedNameWhole(name) == name

(* strncpy() into an array with an ending 0. *)
CopiedName(name) == SubSeq(name, 1, Lesser(Len(name), MaxName - 1))

LoginItems(user, pass, fees) ==
  <<U32(6), Text(CopiedName(user), MaxName), Text(CopiedName(pass), MaxName),
    Text(Version, MaxVersion), U8(Len(fees))>>
  \o [i \in 1 .. 2 * Len(fees) |->
         LET fee == fees[(i + 1) \div 2]
         IN IF i % 2 = 1 THEN U16(fee.devFee) ELSE Raw(fee.pubKeyHash)]

ExtraNonce(share) == <<U8(Len(share.userExtraNonceData)), Raw(share.userExtraNonceData)>>

(* The last case: SHA256, SCRYPT, METISCOIN and MAXCOIN. *)
AlgorithmItems(share) ==
  CASE share.algorithm = Prime ->
         <<U32(share.sieveSize), U32(share.sieveCandidate),
           U8(Len(share.fixedMultiplier)), Raw(share.fixedMultiplier),
           U8(Len(share.chainMultiplier)), Raw(share.chainMultiplier)>>
    [] share.algorithm = Protoshares ->
         <<U32(share.nBirthdayA), U32(share.nBirthdayB), Raw(share.merkleRootOriginal)>>
           \o ExtraNonce(share)
    [] share.algorithm = Riecoin ->
         <<Raw(share.nOffset), Raw(share.merkleRootOriginal)>> \o ExtraNonce(share)
    [] OTHER -> <<Raw(share.merkleRootOriginal)>> \o ExtraNonce(share)

ShareItems(share) ==
  <<Raw(share.merkleRoot), Raw(share.prevBlockHash), U32(share.version),
    U32(share.nTime), U32(share.nonce), U32(share.nBits)>>
  \o AlgorithmItems(share) \o <<U32(0)>>

SendWorkerLogin(user, pass, fees) ==
  Compose(SendLimit, AUTH_REQ, LoginItems(user, pass, fees))
SendShare(share)    == Compose(SendLimit, SUBMIT_SHARE, ShareItems(share))
SendPing(timestamp) == Compose(SendLimit, PING, <<U64(timestamp)>>)

-----------------------------------------------------------------------------
(* What the pool makes of the client's packets, external *)

PoolReads(r, kind) ==
  LET length == ReadU8(r.pb)
      item == CASE kind = "u8"    -> ReadU8(r.pb)
                [] kind = "u16"   -> ReadU16(r.pb)
                [] kind = "u32"   -> ReadU32(r.pb)
                [] kind = "u64"   -> ReadU64(r.pb)
                [] kind = "hash"  -> ReadData(r.pb, HashSize)
                [] kind = "key"   -> ReadData(r.pb, KeySize)
                [] kind = "bytes" -> ReadData(length.pb, length.got)
  IN [pb |-> item.pb, got |-> Append(r.got, item.got)]

Parsed(bytes, kinds) ==
  LET buffer == [Create(Len(bytes)) EXCEPT !.data = bytes, !.size = Len(bytes)]
      read[i \in 0 .. Len(kinds)] ==
        IF i = 0 THEN [pb |-> BeginRead(buffer), got |-> <<>>]
                 ELSE PoolReads(read[i - 1], kinds[i])
  IN read[Len(kinds)]

LoginKinds(fees) == <<"u32", "bytes", "bytes", "bytes", "u8">>
              \o [i \in 1 .. 2 * Len(fees) |-> IF i % 2 = 1 THEN "u16" ELSE "key"]

ShareKinds(alg) ==
  <<"hash", "hash", "u32", "u32", "u32", "u32">>
  \o (CASE alg = Prime       -> <<"u32", "u32", "bytes", "bytes">>
        [] alg = Protoshares -> <<"u32", "u32", "hash", "bytes">>
        [] alg = Riecoin     -> <<"hash", "hash", "bytes">>
        [] OTHER             -> <<"hash", "bytes">>)
  \o <<"u32">>

ShareValues(s) ==
  <<s.merkleRoot, s.prevBlockHash, s.version, s.nTime, s.nonce, s.nBits>>
  \o (CASE s.algorithm = Prime ->
             <<s.sieveSize, s.sieveCandidate, s.fixedMultiplier, s.chainMultiplier>>
        [] s.algorithm = Protoshares ->
             <<s.nBirthdayA, s.nBirthdayB, s.merkleRootOriginal, s.userExtraNonceData>>
        [] s.algorithm = Riecoin ->
             <<s.nOffset, s.merkleRootOriginal, s.userExtraNonceData>>
        [] OTHER -> <<s.merkleRootOriginal, s.userExtraNonceData>>)
  \o <<0>>

Shortened(name) == SubSeq(name, 1, Lesser(Len(name), MaxName - 1))

FeeValues(fees) == [i \in 1 .. 2 * Len(fees) |->
                IF i % 2 = 1 THEN fees[(i + 1) \div 2].devFee
                             ELSE fees[i \div 2].pubKeyHash]
=============================================================================
