---------------------------- MODULE CollisionSearch ----------------------------
(***************************************************************************)
(* What the host expects of GPUHasher::ComputeHashes: asked with a header, *)
(* whose birthdays are births, it either fails or answers with hashes      *)
(* among which every birthday shared by two hashes is found.  How it       *)
(* searches, and what else the answer holds, is left open.                 *)
(***************************************************************************)
EXTENDS Integers, SequencesExt, Functions

CONSTANTS Hashes, Birthdays, Capacity

VARIABLES births, status, answer

vars == <<births, status, answer>>

Init ==
  /\ births \in [Hashes -> Birthdays]
  /\ status = "none" /\ answer = <<>>

Collided == {a \in Hashes : births[a] # 0 /\ \E b \in Hashes \ {a} : births[b] = births[a]}

Ask ==
  /\ status # "asked"
  /\ status' = "asked" /\ answer' = <<>>
  /\ births' \in [Hashes -> Birthdays]

(* An answer as long as the list of results may have lost some. *)
Answer ==
  /\ status = "asked" /\ status' = "answered"
  /\ Range(answer') \subseteq Hashes /\ IsInjective(answer')
  /\ Len(answer') <= Capacity
  /\ Len(answer') < Capacity => Collided \subseteq Range(answer')
  /\ UNCHANGED births

Fail ==
  /\ status = "asked" /\ status' = "failed"
  /\ UNCHANGED <<births, answer>>

Next == Ask \/ Answer \/ Fail

Spec == Init /\ [][Next]_vars
=============================================================================
