-------------------------------- MODULE Powers --------------------------------
(* Powers of natural numbers by their recursion. *)
EXTENDS Integers

Power(base, n) ==
  LET power[i \in 0 .. n] == IF i = 0 THEN 1 ELSE base * power[i - 1]
  IN power[n]
=============================================================================
