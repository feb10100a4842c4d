------------------------------ MODULE MerkleTree ------------------------------
(***************************************************************************)
(* transaction.cpp: the hash of the coinbase transaction, into which a     *)
(* miner's merkle seed goes, and the merkle root over it and the pool's    *)
(* transaction hashes.  SHA-256 is a constructor: different inputs have    *)
(* different hashes.  The array hashData is a sequence.                    *)
(***************************************************************************)
EXTENDS Integers, SequencesExt

CONSTANT Layers    \* 10: layers of the tree that are processed

ASSUME LayersAssumption == Layers \in Nat \ {0}

NoRoot == [kind |-> "none"]
HashOf(bytes) == [kind |-> "data", bytes |-> bytes]
HashOfPair(left, right) == [kind |-> "pair", left |-> left, right |-> right]

(* Mutant: the extra nonce is left out. *)
TxHashNoNonce(coinBase1, extraNonce, coinBase2) == HashOf(coinBase1 \o coinBase2)

(* bitclient_generateTxHash *)
TxHash(coinBase1, extraNonce, coinBase2) == HashOf(coinBase1 \o extraNonce \o coinBase2)

-----------------------------------------------------------------------------
(* bitclient_calculateMerkleRoot *)

Odd(n) == n % 2 = 1

(* The hashes are copied; the last one of an odd number twice, and counted. *)
FirstLayer(txHashes) ==
  LET n == Len(txHashes)
  IN [data |-> IF Odd(n) THEN Append(txHashes, Last(txHashes)) ELSE txHashes,
      read |-> 0,
      size |-> IF Odd(n) THEN n + 1 ELSE n]

(* Mutant: the copy is of the hash before the last. *)
NextLayerWrongCopy(layer) ==
  LET size == (layer.size + 1) \div 2
      data == layer.data \o [i \in 1 .. size |->
                HashOfPair(layer.data[layer.read + 2 * i - 1],
                           layer.data[layer.read + 2 * i])]
  IN [data |-> IF Odd(size) /\ size > 1 THEN Append(data, data[Len(data) - 1]) ELSE data,
      read |-> layer.read + 2 * size,
      size |-> size]

(* Pairs are hashed from read on; further copies are not counted in size, *)
(* but the pairs of the next layer reach them.                            *)
NextLayer(layer) ==
  LET size == (layer.size + 1) \div 2
      data == layer.data \o [i \in 1 .. size |->
                HashOfPair(layer.data[layer.read + 2 * i - 1],
                           layer.data[layer.read + 2 * i])]
  IN [data |-> IF Odd(size) /\ size > 1 THEN Append(data, Last(data)) ELSE data,
      read |-> layer.read + 2 * size,
      size |-> size]

(* The layer that is looked at in round f, or the last one before it. *)
Rounds(txHashes) ==
  LET round[f \in 0 .. Layers] ==
        IF f = 0 THEN FirstLayer(txHashes)
        ELSE IF round[f - 1].size = 1 THEN round[f - 1]
        ELSE NextLayer(round[f - 1])
  IN round

(* After the last round nothing is written to merkleRoot. *)
MerkleRoot(txHashes) ==
  CASE Len(txHashes) = 1 -> txHashes[1]
    [] OTHER -> LET last == Rounds(txHashes)[Layers - 1]
                IN IF last.size = 1 THEN last.data[last.read + 1] ELSE NoRoot

-----------------------------------------------------------------------------
(* A merkle tree by its definition. *)

PairUp(hashes) ==
  [i \in 1 .. (Len(hashes) + 1) \div 2 |->
     HashOfPair(hashes[2 * i - 1],
                IF 2 * i <= Len(hashes) THEN hashes[2 * i] ELSE hashes[2 * i - 1])]

(* Layers are paired up until one hash is left. *)
TreeRoot(hashes) ==
  LET layer[n \in 0 .. Len(hashes)] ==
        IF n = 0 THEN hashes
        ELSE IF Len(layer[n - 1]) = 1 THEN layer[n - 1]
        ELSE PairUp(layer[n - 1])
  IN layer[Len(hashes)][1]
=============================================================================
