----------------------------- MODULE MCAlgorithms -----------------------------
(* Inputs for TLC: all small ones, and those around each boundary. *)
EXTENDS Algorithms

Upto(n) == [i \in 1 .. n |-> 1 + (i % 3)]

MCCompacts == 0 .. TargetBase ^ (Mantissa + 1) - 1

MCBlocks(most) ==
  {[coinBase1 |-> Upto(c), coinBase2 |-> Upto(2 - c),
    txHashes |-> [i \in 1 .. n |-> HashOf(<<i % Base>>)], seeds |-> {0, 1, Base, Base ^ 3}] :
     n \in 0 .. most, c \in 0 .. 2}
MCBlocksFitting  == MCBlocks(2 ^ (Layers - 1) - 1)
MCBlocksTooLarge == MCBlocks(2 ^ (Layers - 1))

MCAddresses ==
  BoundedSeq({0, 1, DigitBase - 1, NoDigit}, 4)
  \cup TupleOf({0, DigitBase \div 2, DigitBase - 1}, 7)

MCSieveTargets == 1000 .. 1300

MCChecksum(bytes) == <<FoldLeft(LAMBDA n, b : (n + b) % AddrBase, 0, bytes)>>

(* Valid addresses of the right length; <<0, 0, 1>> has the wrong checksum. *)
MCGood(k) == CHOOSE address \in [1 .. 3 -> 0 .. DigitBase - 1] :
  address[1] = k /\ ValidAddress(DecodeBase58(address))
MCFee(k) == [address |-> IF k = 0 THEN <<0, 0, 1>> ELSE MCGood(k), fee |-> 3 * k]

MCLogins ==
  [user : {Upto(n) : n \in 0 .. MaxName + 1}, pass : {<<>>, Upto(MaxName)},
   fees : {<<>>, <<MCFee(1)>>, <<MCFee(0), MCFee(2)>>,
           <<MCFee(1), MCFee(2), MCFee(0), MCFee(3), MCFee(4)>>}]

MCShares ==
  {[algorithm |-> alg, merkleRoot |-> <<1, 2>>, prevBlockHash |-> <<2, 7>>, version |-> 3,
    nTime |-> 4, nonce |-> Base ^ 4 - 1, nBits |-> 6, sieveSize |-> 5,
    sieveCandidate |-> 8, fixedMultiplier |-> Upto(k), chainMultiplier |-> Upto(3 - k),
    nBirthdayA |-> 9, nBirthdayB |-> 10, nOffset |-> <<3, 0>>,
    merkleRootOriginal |-> <<0, 1>>, userExtraNonceData |-> Upto(k)] :
     alg \in {Prime, Protoshares, Riecoin, 0}, k \in 0 .. 3}

MCVersion == <<1, 2>>
=============================================================================
