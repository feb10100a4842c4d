--------------------------- MODULE MCPacketHandlers ---------------------------
(* Packets for TLC: bytes have 4 values, so that a text with *)
(* a maximum over 4 has a length of two bytes, as over 256 in the code.        *)
EXTENDS PacketHandlers

Ones(n) == [i \in 1 .. n |-> 1 + (i % 2)]

(* Texts: none, long enough to be taken for a number, one longer than allowed. *)
MCTexts(max) == {<<>>, Ones(max - 2), Ones(max - 1)}

MCAuth == {[op |-> "AUTH_ACK", code |-> c[1], reason |-> c[2], algorithm |-> c[3]] :
             c \in {<<0, text, Riecoin>> : text \in MCTexts(MaxReason)}
                   \cup {<<5, <<>>, Riecoin>>}}
MCAck  == {[op |-> "SHARE_ACK", code |-> c[1], reason |-> c[2], value |-> 9] :
             c \in {<<0, <<>>>>} \cup {<<5, text>> : text \in MCTexts(MaxReason)}}
MCMessages == [op : {"MESSAGE"}, type : {1}, text : MCTexts(MaxText) \ {<<>>}]
MCOther == {[op |-> "PING", timestamp |-> 7], [op |-> "UNKNOWN", type |-> 2]}

MCWork(n, first, second, txs) ==
  [op |-> "WORKDATA1", version |-> n, height |-> n + 4, nBits |-> n,
   targetCompact |-> n + 16, targetShareCompact |-> n + 1, nTime |-> n,
   prevBlockHash |-> <<n>>, merkleRoot |-> <<n>>,
   coinBase1Size |-> Len(first), coinBase1 |-> first,
   coinBase2Size |-> Len(second), coinBase2 |-> second,
   txHashCount |-> Len(txs), txHashes |-> txs]

MCForms == MCAuth \cup MCAck \cup MCMessages \cup MCOther
           \cup {MCWork(1, <<>>, <<1>>, <<<<1>>>>),
                 MCWork(2, <<2>>, <<>>, <<<<2>>>>)}

MCCuttable == MCForms \ ({MCWork(2, <<2>>, <<>>, <<<<2>>>>)} \cup {form \in MCForms : form.op = "UNKNOWN"})
=============================================================================
