----------------------------- MODULE MCXptMiner -----------------------------
(* Model-checking instances of XptMiner. *)
EXTENDS XptMiner, TLC

CONSTANTS t1, t2, w1, w2, w3

MCThreads == {t1, t2}
OneThread == {t1}
ThreadSymmetry == Permutations({t1, t2})

(* w1 and w2 are two versions of the block at one height, w3 the next. *)
MCWorks   == {w1, w2, w3}
MCHeight  == (w1 :> 1) @@ (w2 :> 1) @@ (w3 :> 2)
TwoWorks  == {w1, w2}
TwoHeight == (w1 :> 1) @@ (w2 :> 2)
SameHeight == (w1 :> 1) @@ (w2 :> 1)
=============================================================================
