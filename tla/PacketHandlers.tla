---------------------------- MODULE PacketHandlers ----------------------------
(***************************************************************************)
(* The five handlers of xptClientPacketHandler.cpp, byte by byte over      *)
(* PacketBuffer, and the ping timer they start.  A handler runs inside     *)
(* xptClient_process, under cs_xptClient, so it is one step.               *)
(*                                                                         *)
(* The pool's side is external: it writes its packets with the same kinds  *)
(* of numbers and strings, and a packet may be cut short behind its        *)
(* header.  Sizes are those of the code scaled down with Base.  Of the     *)
(* time only matters whether a ping is due.                                *)
(***************************************************************************)
EXTENDS PacketBuffer, FiniteSets

CONSTANTS
  Forms,        \* the packets the pool may write
  Cuttable,     \* bound: those of them that may arrive cut short
  Riecoin,      \* ALGORITHM_RIECOIN
  MaxReason, MaxText,       \* 512, 1024
  HashSize,     \* 32
  MaxCoinBase, MaxTx,       \* what the arrays of blockWorkInfo hold
  BufferSize,   \* 256*1024
  MaxRejected   \* bound: rejected shares counted

Array(n) == [1 .. n -> Byte]
IsText(text, max) == text \in Seq(Byte) /\ Len(text) <= max - 1

(* What the pool can say with numbers of those widths, without exceeding   *)
(* the client's arrays.                                                    *)
WellFormed(form) ==
  \/ /\ form.op \in {"AUTH_ACK", "SHARE_ACK"}
     /\ form.code \in 0 .. MaxU32 /\ IsText(form.reason, MaxReason)
     /\ form.op = "AUTH_ACK"  => form.algorithm \in Byte
     /\ form.op = "SHARE_ACK" => form.value \in 0 .. MaxU32
  \/ form.op = "MESSAGE" /\ form.type \in Byte /\ IsText(form.text, MaxText)
  \/ form.op = "PING" /\ form.timestamp \in Nat
  \/ form.op = "UNKNOWN" /\ form.type \in Byte
  \/ /\ form.op = "WORKDATA1"
     /\ \A name \in {"version", "height", "nBits", "targetCompact", "targetShareCompact",
                      "nTime"} : form[name] \in 0 .. MaxU32
     /\ form.prevBlockHash \in Array(HashSize) /\ form.merkleRoot \in Array(HashSize)
     /\ form.coinBase1 \in Seq(Byte) /\ form.coinBase2 \in Seq(Byte)
     /\ form.coinBase1Size = Len(form.coinBase1) /\ Len(form.coinBase1) <= MaxCoinBase
     /\ form.coinBase2Size = Len(form.coinBase2) /\ Len(form.coinBase2) <= MaxCoinBase
     /\ form.txHashes \in Seq(Array(HashSize))
     /\ form.txHashCount = Len(form.txHashes) /\ Len(form.txHashes) <= MaxTx

ASSUME HandlersAssumption ==
  /\ HashSize \in 1 .. DataLimit - 1
  /\ MaxReason \in 1 .. MaxU16 /\ MaxText \in 1 .. MaxU16
  /\ MaxCoinBase \in 0 .. MaxU16 /\ MaxTx \in 0 .. MaxU16
  /\ BufferSize \in Nat /\ MaxRejected \in Nat
  /\ BufferSize >= MaxReason + 14 /\ BufferSize >= MaxText + 14
  /\ BufferSize >= 34 + 2 * HashSize + 2 * MaxCoinBase + MaxTx * HashSize
  /\ Cuttable \subseteq Forms
  /\ \A form \in Forms : WellFormed(form)

VARIABLES
  packet,      \* the packet last handled: its kind, and whether it was whole (history)
  loggedIn,    \* clientState = XPT_CLIENT_STATE_LOGGED_IN
  algorithm,   \* algorithm
  hasWork,     \* hasWorkData
  work,        \* blockWorkInfo
  rejected,    \* totalRejectedShareCount
  dropped,     \* disconnected, after a handler returned false
  ping         \* time_sendPing: "off" (0), "waiting", "due"

vars == <<packet, loggedIn, algorithm, hasWork, work, rejected, dropped, ping>>

Opcode == [AUTH_ACK |-> 2, WORKDATA1 |-> 3, SHARE_ACK |-> 5, MESSAGE |-> 7,
           PING |-> 8, UNKNOWN |-> 9]

-----------------------------------------------------------------------------
(* The pool writes *)

WorkItems(form) ==
  <<U32(form.version), U32(form.height), U32(form.nBits),
    U32(form.targetCompact), U32(form.targetShareCompact), U32(form.nTime),
    Raw(form.prevBlockHash), Raw(form.merkleRoot),
    U16(form.coinBase1Size), Raw(form.coinBase1),
    U16(form.coinBase2Size), Raw(form.coinBase2),
    U16(form.txHashCount)>>
  \o [i \in 1 .. Len(form.txHashes) |-> Raw(form.txHashes[i])]

PoolItems(form) ==
  CASE form.op = "AUTH_ACK"  -> <<U32(form.code), Text(form.reason, MaxReason),
                                  U8(form.algorithm)>>
    [] form.op = "WORKDATA1" -> WorkItems(form)
    [] form.op = "SHARE_ACK" -> <<U32(form.code), Text(form.reason, MaxReason),
                                  U32(form.value)>>
    [] form.op = "MESSAGE"   -> <<U8(form.type), Text(form.text, MaxText)>>
    [] form.op = "PING"      -> <<U64(form.timestamp)>>
    [] form.op = "UNKNOWN"    -> <<U8(form.type)>>

(* recvBuffer when the first n bytes of a packet's payload were sent. *)
Received(bytes, n) ==
  [Create(4 + n) EXCEPT !.size = 4 + n,
                  !.data = Placed(SubSeq(bytes, 1, 4 + n), 1, Digits(n, 3))]

(* What may arrive: every packet, cut behind every byte. *)
PoolPackets ==
  UNION {LET bytes == Compose(BufferSize, Opcode[form.op], PoolItems(form))
         IN {[op |-> form.op, whole |-> 4 + n = Len(bytes), pb |-> Received(bytes, n)] :
               n \in IF form \in Cuttable THEN 0 .. Len(bytes) - 4
                                          ELSE {Len(bytes) - 4}} : form \in Forms}

-----------------------------------------------------------------------------
(* Parsing block data *)

WorkFields == <<"version", "height", "nBits", "targetCompact", "targetShareCompact",
                "nTime", "prevBlockHash", "merkleRoot", "coinBase1Size", "coinBase1",
                "coinBase2Size", "coinBase2", "txHashCount">>

Zeros(n) == [i \in 1 .. n |-> 0]

(* blockWorkInfo after the memset() of xptClient_create and xptClient_connect. *)
Blank ==
  [version |-> 0, height |-> 0, nBits |-> 0, targetCompact |-> 0,
   targetShareCompact |-> 0, target |-> 0, targetShare |-> 0, nTime |-> 0,
   prevBlockHash |-> Zeros(HashSize), merkleRoot |-> Zeros(HashSize),
   coinBase1Size |-> 0, coinBase1 |-> Zeros(MaxCoinBase),
   coinBase2Size |-> 0, coinBase2 |-> Zeros(MaxCoinBase),
   txHashCount |-> 0, txHashes |-> [i \in 1 .. MaxTx |-> Zeros(HashSize)]]

(* Mutant: the array is replaced, not written into. *)
CopiedWhole(array, bytes) == bytes

Copied(array, bytes) ==
  [i \in DOMAIN array |-> IF i \in DOMAIN bytes THEN bytes[i] ELSE array[i]]

DataSize(w, name) ==
  CASE name = "coinBase1" -> w.coinBase1Size
    [] name = "coinBase2" -> w.coinBase2Size
    [] OTHER              -> HashSize

Wide(name) == name \notin {"coinBase1Size", "coinBase2Size", "txHashCount"}

(* Mutant: a number that cannot be read stays as it was. *)
ReadFieldKeeping(r, name) ==
  CASE name \in {"prevBlockHash", "merkleRoot", "coinBase1", "coinBase2"} ->
         LET data == ReadData(r.pb, DataSize(r.work, name))
         IN [pb |-> data.pb, work |-> [r.work EXCEPT ![name] = Copied(@, data.got)]]
    [] OTHER ->
         LET number == ReadNumber(r.pb, IF Wide(name) THEN 4 ELSE 2)
         IN [pb |-> number.pb,
             work |-> [r.work EXCEPT ![name] = IF number.pb.err THEN @ ELSE number.got]]

ReadField(r, name) ==
  CASE name \in {"prevBlockHash", "merkleRoot", "coinBase1", "coinBase2"} ->
         LET data == ReadData(r.pb, DataSize(r.work, name))
         IN [pb |-> data.pb, work |-> [r.work EXCEPT ![name] = Copied(@, data.got)]]
    [] OTHER ->
         LET number == ReadNumber(r.pb, IF Wide(name) THEN 4 ELSE 2)
         IN [pb |-> number.pb, work |-> [r.work EXCEPT ![name] = number.got]]

ReadHash(r, i) ==
  LET data == ReadData(r.pb, HashSize)
  IN [pb |-> data.pb, work |-> [r.work EXCEPT !.txHashes[i] = Copied(@, data.got)]]

(* A target is named by the compact number it is expanded from. *)
Targets(w) ==
  IF algorithm = Riecoin THEN w
  ELSE [w EXCEPT !.target = w.targetCompact, !.targetShare = w.targetShareCompact]

ReadFields(r) ==
  LET fields[i \in 0 .. Len(WorkFields)] ==
        IF i = 0 THEN r ELSE ReadField(fields[i - 1], WorkFields[i])
  IN fields[Len(WorkFields)]

ReadHashes(r, count) ==
  LET hashes[i \in 0 .. count] == IF i = 0 THEN r ELSE ReadHash(hashes[i - 1], i)
  IN hashes[count]

ParsedWork(pb) ==
  LET fixed == ReadFields([pb |-> BeginRead(pb), work |-> work])
  IN Targets(ReadHashes(fixed, fixed.work.txHashCount).work)

-----------------------------------------------------------------------------
(* Handling a packet: xptClient_process with a complete packet *)

DropClient == dropped' = TRUE /\ UNCHANGED <<loggedIn, algorithm, hasWork, work, rejected, ping>>

(* Mutant: the flag is looked at only after both fields are read. *)
AuthResponseLateCheck(pb) ==
  LET code   == ReadU32(BeginRead(pb))
      reason == ReadString(code.pb, MaxReason)
      alg    == ReadU8(reason.pb)
  IN IF alg.pb.err \/ code.got # 0
     THEN DropClient
     ELSE /\ loggedIn' = TRUE /\ algorithm' = alg.got /\ ping' = "waiting"
          /\ UNCHANGED <<hasWork, work, rejected, dropped>>

(* The algorithm comes last, and its read is not checked. *)
AuthResponse(pb) ==
  LET code   == ReadU32(BeginRead(pb))
      reason == ReadString(code.pb, MaxReason)
  IN IF code.pb.err \/ reason.pb.err \/ code.got # 0
     THEN DropClient
     ELSE /\ loggedIn' = TRUE /\ algorithm' = ReadU8(reason.pb).got /\ ping' = "waiting"
          /\ UNCHANGED <<hasWork, work, rejected, dropped>>

BlockData1(pb) ==
  /\ work' = ParsedWork(pb) /\ hasWork' = TRUE
  /\ UNCHANGED <<loggedIn, algorithm, rejected, dropped, ping>>

(* Only the last read counts: reading the value clears what the text left. *)
ShareAck(pb) ==
  LET code   == ReadU32(BeginRead(pb))
      reason == ReadString(code.pb, MaxReason)
      value  == ReadFloat(reason.pb)
  IN IF code.pb.err \/ value.pb.err
     THEN DropClient
     ELSE /\ rejected' = IF code.got = 0 THEN rejected ELSE rejected + 1
          /\ rejected' <= MaxRejected
          /\ UNCHANGED <<loggedIn, algorithm, hasWork, work, dropped, ping>>

Accept == UNCHANGED <<loggedIn, algorithm, hasWork, work, rejected, dropped, ping>>

Message(pb) ==
  LET type == ReadU8(BeginRead(pb))
      text == ReadString(type.pb, MaxText)
  IN IF type.pb.err \/ text.pb.err THEN DropClient ELSE Accept

Ping(pb) == IF ReadU64(BeginRead(pb)).pb.err THEN DropClient ELSE Accept

ProcessPacket(op, pb) ==
  \/ op = "AUTH_ACK"  /\ AuthResponse(pb)
  \/ op = "WORKDATA1" /\ BlockData1(pb)
  \/ op = "SHARE_ACK" /\ ShareAck(pb)
  \/ op = "MESSAGE"   /\ Message(pb)
  \/ op = "PING"      /\ Ping(pb)
  \/ op = "UNKNOWN"   /\ Accept

(* A due ping goes out before anything is received. *)
Receive ==
  /\ ~dropped /\ ping # "due"
  /\ \E arrived \in PoolPackets :
       /\ packet' = [op |-> arrived.op, whole |-> arrived.whole]
       /\ ProcessPacket(arrived.op, arrived.pb)

-----------------------------------------------------------------------------
(* The ping timer *)

(* Mutant: the timer is not set again. *)
SendPingOnce ==
  /\ ~dropped /\ ping = "due" /\ ping' = "off"
  /\ UNCHANGED <<packet, loggedIn, algorithm, hasWork, work, rejected, dropped>>

SendPing ==
  /\ ~dropped /\ ping = "due" /\ ping' = "waiting"
  /\ UNCHANGED <<packet, loggedIn, algorithm, hasWork, work, rejected, dropped>>

Tick ==
  /\ ping = "waiting" /\ ping' = "due"
  /\ UNCHANGED <<packet, loggedIn, algorithm, hasWork, work, rejected, dropped>>

(* The main thread frees the dropped client, creates and connects another. *)
Reconnect ==
  /\ dropped
  /\ packet' = [op |-> "NONE", whole |-> TRUE]
  /\ loggedIn' = FALSE /\ algorithm' = 0 /\ hasWork' = FALSE /\ work' = Blank /\ dropped' = FALSE
  /\ ping' = "off"
  /\ UNCHANGED rejected

Init ==
  /\ packet = [op |-> "NONE", whole |-> TRUE]
  /\ loggedIn = FALSE /\ algorithm = 0 /\ hasWork = FALSE /\ work = Blank /\ rejected = 0
  /\ dropped = FALSE /\ ping = "off"

Next == Receive \/ SendPing \/ Tick \/ Reconnect

Spec == Init /\ [][Next]_vars

(* The main loop comes back to xptClient_process, and time passes. *)
FairSpec == Spec /\ WF_vars(SendPing) /\ WF_vars(Tick)

-----------------------------------------------------------------------------
(* Properties *)

Arrays == {"prevBlockHash", "merkleRoot", "coinBase1", "coinBase2"}

(* Every variable holds a value of its kind: the block data are numbers    *)
(* and arrays of bytes, the timer is off, waiting or due.                  *)
TypeOK ==
  /\ loggedIn \in BOOLEAN /\ algorithm \in Byte /\ hasWork \in BOOLEAN
  /\ work = [name \in DOMAIN Blank |-> work[name]]
  /\ \A name \in Arrays : work[name] \in [DOMAIN Blank[name] -> Byte]
  /\ work.txHashes \in [1 .. MaxTx -> [1 .. HashSize -> Byte]]
  /\ \A name \in DOMAIN work \ (Arrays \cup {"txHashes"}) : work[name] \in Nat
  /\ rejected \in 0 .. MaxRejected /\ dropped \in BOOLEAN
  /\ ping \in {"off", "waiting", "due"}

Session == INSTANCE PoolSession

(* However a packet is cut and whatever lengths its texts have, the        *)
(* handlers do what PoolSession promises: a whole packet takes full        *)
(* effect, a cut one leaves numbers 0 and arrays old behind the cut, and   *)
(* nothing behind the end of a packet is ever taken for its content.       *)
EffectsAsPromised == Session!Spec

FormsOf(op) == {form \in Forms : form.op = op}

Client == INSTANCE ClientSession
  WITH Updates <- {[height |-> form.height, root |-> form.merkleRoot] :
                     form \in FormsOf("WORKDATA1")},
       Assignable <- {form.algorithm : form \in FormsOf("AUTH_ACK")},
       NoAlg <- 0,
       NoUpdate <- [height |-> Blank.height, root |-> Blank.merkleRoot],
       disconnected <- dropped, alg <- algorithm,
       info <- [height |-> work.height, root |-> work.merkleRoot]

(* What the loop of main.cpp takes for granted of xptClient_process: the   *)
(* height and the merkle root it compares are those of one packet, or the  *)
(* root is the one before and the height that of the packet or 0; and the  *)
(* algorithm of a login is one the pool assigned, or none.                 *)
UpdatesAsAssumed == Client!Spec

(* Errors are cleared by later reads, and blockData1 does not look at them *)
(* at all; still, block data that announce transactions hold the header,   *)
(* the roots and both parts of the coinbase of one single packet.          *)
TransactionsOnWholeBlock ==
  work.txHashCount > 0 =>
    \E form \in Forms :
      /\ form.op = "WORKDATA1"
      /\ \A i \in DOMAIN WorkFields :
           LET name == WorkFields[i]
           IN IF name \in {"coinBase1", "coinBase2"}
              THEN SubSeq(work[name], 1, Len(form[name])) = form[name]
              ELSE work[name] = form[name]

(* A logged-in client keeps sending pings, unless the pool answers the     *)
(* login again and again, which sets the timer back each time.             *)
PingsContinue ==
  <>[](loggedIn /\ ~dropped) =>
     \/ []<><<SendPing>>_vars
     \/ []<><<Receive /\ packet'.op = "AUTH_ACK" /\ loggedIn'>>_vars

=============================================================================
