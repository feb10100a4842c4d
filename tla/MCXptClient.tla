----------------------------- MODULE MCXptClient -----------------------------
(* Model-checking instances of XptClient. *)
EXTENDS XptClient

(* No payload, one byte, what just fits the buffer and what just does not, *)
(* the largest payload accepted and the smallest that is not.              *)
MCSizes == {0, 1, 2, 3, 6, 7}
=============================================================================
