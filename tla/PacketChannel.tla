---------------------------- MODULE PacketChannel ----------------------------
(***************************************************************************)
(* What a connection to the pool promises the rest of the miner: packets   *)
(* are handed over whole, in the order they were sent, each once, and none *)
(* after one that closed the connection.  A connection may be given up at  *)
(* any moment; a new one starts with nothing.                              *)
(***************************************************************************)
EXTENDS Naturals, Sequences

CONSTANT Packets

VARIABLES
  sent,  \* the packets sent on this connection
  got,   \* the packets handed over
  open   \* the connection is in use

Init == sent = <<>> /\ got = <<>> /\ open = FALSE

Open == /\ ~open
        /\ sent' = <<>> /\ got' = <<>>
        /\ open' \in BOOLEAN

Send == /\ sent' \in Seq(Packets)
        /\ Len(sent') = Len(sent) + 1
        /\ \A n \in DOMAIN sent : sent'[n] = sent[n]
        /\ UNCHANGED <<got, open>>

(* A packet that is refused closes the connection. *)
Deliver == /\ open
           /\ Len(got) < Len(sent)
           /\ got' = Append(got, sent[Len(got) + 1])
           /\ open' \in BOOLEAN
           /\ UNCHANGED sent

Close == open' = FALSE /\ UNCHANGED <<sent, got>>

Next == Open \/ Send \/ Deliver \/ Close

Spec == Init /\ [][Next]_<<sent, got, open>>
=============================================================================
