----------------------------- MODULE ClientSession -----------------------------
(***************************************************************************)
(* The client object as the work-management loop sees it: its connection,  *)
(* its login and the height and merkle root of its block data, whatever    *)
(* packets bring them.  PacketHandlers implements it, and every step of it *)
(* that a packet can cause is one the loop of XptMiner is ready for.       *)
(***************************************************************************)
EXTENDS Integers

CONSTANTS
  Updates,     \* heights and merkle roots of the block data the pool pushes
  Assignable,  \* algorithms the pool assigns to the login
  NoAlg,       \* the algorithm of a new client
  NoUpdate     \* height and merkle root of a new client

VARIABLES disconnected, loggedIn, alg, info

vars == <<disconnected, loggedIn, alg, info>>

Init ==
  /\ disconnected \in BOOLEAN
  /\ loggedIn = FALSE /\ alg = NoAlg /\ info = NoUpdate

(* An accepted login, whose algorithm may have been cut off. *)
Login ==
  /\ ~disconnected
  /\ loggedIn' = TRUE
  /\ alg' \in Assignable \cup {NoAlg}
  /\ UNCHANGED <<disconnected, info>>

(* Height and merkle root always come from one packet ... *)
NewUpdate ==
  /\ ~disconnected
  /\ info' \in Updates
  /\ UNCHANGED <<disconnected, loggedIn, alg>>

(* ... unless it was cut before its root: the root before it stays. *)
CutUpdate ==
  /\ ~disconnected
  /\ \E update \in Updates : \E height \in {0, update.height} :
       info' = [info EXCEPT !.height = height]
  /\ UNCHANGED <<disconnected, loggedIn, alg>>

Close ==
  /\ ~disconnected
  /\ disconnected' = TRUE
  /\ UNCHANGED <<loggedIn, alg, info>>

(* A new client object, connected or not. *)
Renew ==
  /\ disconnected
  /\ disconnected' \in BOOLEAN
  /\ loggedIn' = FALSE /\ alg' = NoAlg /\ info' = NoUpdate

(* What a packet can do. *)
Packet == Login \/ NewUpdate \/ CutUpdate \/ Close

Next == Packet \/ Renew

Spec == Init /\ [][Next]_vars
=============================================================================
