--------------------------- MODULE MCBirthdaySearch ---------------------------
(* Three threads with two hashes each; headers for TLC. *)
EXTENDS BirthdaySearch

MCBirthdays == 0 .. 7
MCSlots == 0 .. 3

MCLowSlot(v)        == v % 4
MCHighSlot(v)       == v \div 2
MCHostSlot(v, pass) == (v \div pass) % 3

MCHeader(values) == [n \in 0 .. 5 |-> values[n + 1]]

MCHeaders ==
  {MCHeader(<<1, 3, 2, 6, 0, 0>>),     \* only birthday 0 twice: no result
   MCHeader(<<3, 3, 4, 3, 5, 1>>),     \* three alike
   MCHeader(<<5, 6, 2, 5, 6, 0>>),     \* two collisions between threads
   MCHeader(<<6, 6, 7, 5, 3, 7>>),     \* one within a thread and another
   MCHeader(<<3, 3, 3, 3, 3, 3>>)}     \* more results than fit
=============================================================================
