--------------------------- MODULE XptClientProofs ---------------------------
(***************************************************************************)
(* Proofs about the connection, for every set of payload sizes and every   *)
(* size limit: the receive buffer, the descriptors, and the implementation *)
(* of the channel of whole packets.                                        *)
(***************************************************************************)
EXTENDS XptClient, SequenceTheorems, TLAPS

-----------------------------------------------------------------------------
(* Inductive invariants *)

(* The position after a packet, and where packet n starts or will start.   *)
After(p) == p.at + HeaderSize + p.size
Start(n) == IF n \in DOMAIN stream THEN stream[n].at ELSE End

(* The packets of the stream follow each other without gap or overlap. *)
StreamInv ==
  /\ \A n \in DOMAIN stream : After(stream[n]) <= End
  /\ \A n, m \in DOMAIN stream : n < m => After(stream[n]) <= stream[m].at
  /\ \A n \in DOMAIN stream : After(stream[n]) = Start(n + 1)

(* The bytes in recvBuffer are the beginning of the first packet that was  *)
(* not handled, and recvSize is 0 or that packet's.                        *)
FrameInv ==
  /\ recvIndex <= pos /\ pos <= End
  /\ recvIndex <= HeaderSize + recvSize
  /\ Len(handled) <= Len(stream)
  /\ \A n \in DOMAIN handled :
       handled[n] = [at |-> stream[n].at, size |-> stream[n].size]
  /\ Base = Start(Len(handled) + 1)
  /\ recvSize > 0 => /\ Len(handled) + 1 \in DOMAIN stream
                     /\ recvSize = stream[Len(handled) + 1].size

(* Besides the standard descriptors only 3 is ever opened, and then it is  *)
(* the client's; clientSocket is 0 after a refused packet only.            *)
FdInv ==
  /\ {1, 2} \subseteq fds /\ fds \subseteq 0 .. 3
  /\ sock \in {SOCKET_ERROR, 0, 3}
  /\ 3 \in fds <=> sock = 3
  /\ sock = 0 => disconnected

-----------------------------------------------------------------------------
(* Type correctness *)

LEMMA NewSocketsType ==
  ASSUME NEW open, NEW s \in NewSockets(open)
  PROVE  s \in -1 .. MaxFd
BY BoundsAssumption DEF NewSockets, SOCKET_ERROR

LEMMA EndType ==
  ASSUME stream \in Seq(Packets)
  PROVE  End \in Nat
<1>1. CASE stream = <<>>
  BY <1>1 DEF End
<1>2. CASE stream # <<>>
  <2>1. Len(stream) \in 1 .. Len(stream)
    BY <1>2, EmptySeq
  <2>2. stream[Len(stream)] \in Packets
    BY <2>1, ElementOfSeq
  <2> QED
    BY <1>2, <2>2 DEF End, Packets, HeaderSize
<1> QED
  BY <1>1, <1>2

(* What processing a packet leaves in the variables it assigns. *)
LEMMA ProcessPacketType ==
  ASSUME TypeOK, recvIndex <= pos,
         NEW size \in Nat, ProcessPacket(size)
  PROVE  /\ handled' \in Seq(Handled)
         /\ recvIndex' = 0 /\ recvSize' = 0
         /\ fds' \subseteq fds /\ sock' \in {sock, 0}
         /\ disconnected' \in BOOLEAN
         /\ UNCHANGED <<limit, stream, attempt>>
<1>1. [at |-> Base, size |-> size] \in Handled
  BY DEF TypeOK, Handled, Base
<1>2. handled' \in Seq(Handled)
  BY <1>1, AppendProperties DEF TypeOK, ProcessPacket
<1> QED
  BY <1>2 DEF ProcessPacket, TypeOK

LEMMA InitType == Init => TypeOK
<1> SUFFICES ASSUME Init PROVE TypeOK
  OBVIOUS
<1>1. stream \in Seq(Packets) /\ handled \in Seq(Handled)
  BY EmptySeq DEF Init
<1> QED
  BY <1>1, SizesAssumption, BoundsAssumption
     DEF Init, TypeOK, StdFds, SOCKET_ERROR, Attempts

LEMMA StepType ==
  ASSUME TypeOK, recvIndex <= pos, recvIndex <= HeaderSize + recvSize, Next
  PROVE  TypeOK'
<1> USE DEF HeaderSize
<1>1. CASE PoolSends
  <2>1. PICK s \in PayloadSizes, b \in BOOLEAN :
          stream' = Append(stream, [at |-> End, size |-> s, ok |-> b])
    BY <1>1 DEF PoolSends
  <2>2. [at |-> End, size |-> s, ok |-> b] \in Packets
    BY EndType, SizesAssumption DEF TypeOK, Packets
  <2>3. stream' \in Seq(Packets)
    BY <2>1, <2>2, AppendProperties DEF TypeOK
  <2> QED
    BY <1>1, <2>3 DEF PoolSends, TypeOK
<1>2. CASE RecvPart
  BY <1>2 DEF RecvPart, Takes, BytesToReceive, TypeOK
<1>3. CASE RecvHeader
  BY <1>3, SizesAssumption
     DEF RecvHeader, Takes, BytesToReceive, Enlarged, TypeOK
<1>4. CASE RecvOversized
  BY <1>4 DEF RecvOversized, Takes, BytesToReceive, TypeOK
<1>5. CASE RecvEmpty \/ RecvPayload
  <2>1. PICK size \in Nat : ProcessPacket(size)
    BY <1>5 DEF RecvEmpty, RecvPayload, TypeOK
  <2>2. pos' \in Nat
    BY <1>5 DEF RecvEmpty, RecvPayload, Takes, BytesToReceive, TypeOK
  <2>3. /\ handled' \in Seq(Handled)
        /\ recvIndex' = 0 /\ recvSize' = 0
        /\ fds' \subseteq fds /\ sock' \in {sock, 0}
        /\ disconnected' \in BOOLEAN
        /\ UNCHANGED <<limit, stream, attempt>>
    BY <2>1, ProcessPacketType
  <2> QED
    BY <2>2, <2>3, SizesAssumption, BoundsAssumption DEF TypeOK
<1>6. CASE RecvZero \/ RecvClosed
  BY <1>6 DEF RecvZero, RecvClosed, TypeOK
<1>7. CASE ForceDisconnect
  BY <1>7, BoundsAssumption DEF ForceDisconnect, TypeOK, SOCKET_ERROR
<1>8. CASE Reconnect
  <2>1. PICK s \in NewSockets(FdsAfterFree), tcp \in BOOLEAN :
          /\ fds' = FdsAfterFree \cup ({s} \ {SOCKET_ERROR})
          /\ attempt' = [tcp |-> tcp, result |-> s # 0]
          /\ \/ s = 0 /\ sock' = SOCKET_ERROR /\ disconnected' = TRUE
             \/ s # 0 /\ sock' = s /\ disconnected' = FALSE
    BY <1>8 DEF Reconnect
  <2>2. s \in -1 .. MaxFd
    BY NewSocketsType
  <2>3. fds' \subseteq 0 .. MaxFd /\ sock' \in -1 .. MaxFd
    BY <2>1, <2>2, BoundsAssumption DEF FdsAfterFree, SOCKET_ERROR, TypeOK
  <2>4. stream' \in Seq(Packets) /\ handled' \in Seq(Handled)
    BY <1>8, EmptySeq DEF Reconnect
  <2>5. attempt' \in Attempts
    <3>1. (s # 0) \in BOOLEAN
      OBVIOUS
    <3> QED
      BY <2>1, <3>1, Zenon DEF Attempts
  <2>6. /\ recvIndex' = 0 /\ recvSize' = 0 /\ limit' = BufferSize /\ pos' = 0
        /\ disconnected' \in BOOLEAN
    BY <1>8, <2>1 DEF Reconnect
  <2> QED
    BY <2>3, <2>4, <2>5, <2>6, SizesAssumption DEF TypeOK
<1> QED
  BY <1>1, <1>2, <1>3, <1>4, <1>5, <1>6, <1>7, <1>8 DEF Next, Receive

-----------------------------------------------------------------------------
(* The stream *)

LEMMA PacketType ==
  ASSUME stream \in Seq(Packets)
  PROVE  /\ Len(stream) \in Nat /\ DOMAIN stream = 1 .. Len(stream)
         /\ \A n \in DOMAIN stream :
              stream[n].at \in Nat /\ stream[n].size \in Nat
<1>1. Len(stream) \in Nat /\ DOMAIN stream = 1 .. Len(stream)
  BY LenProperties
<1>2. \A n \in DOMAIN stream : stream[n] \in Packets
  BY <1>1, ElementOfSeq
<1> QED
  BY <1>1, <1>2 DEF Packets

(* A packet more leaves the packets before it in place. *)
LEMMA StreamGrows ==
  ASSUME stream \in Seq(Packets), StreamInv, PoolSends
  PROVE  /\ Len(stream') = Len(stream) + 1
         /\ DOMAIN stream' = 1 .. Len(stream) + 1
         /\ \A n \in DOMAIN stream : stream'[n] = stream[n]
         /\ End' \in Nat /\ End' >= End
         /\ \A n \in 1 .. Len(stream) + 1 : Start(n)' = Start(n)
         /\ StreamInv'
<1> USE DEF HeaderSize
<1> DEFINE L == Len(stream)
<1>1. PICK s \in PayloadSizes, b \in BOOLEAN :
        stream' = Append(stream, [at |-> End, size |-> s, ok |-> b])
  BY DEF PoolSends
<1> DEFINE p == [at |-> End, size |-> s, ok |-> b]
<1>2. s \in Nat /\ End \in Nat /\ p \in Packets
  BY EndType, SizesAssumption DEF Packets
<1>3. /\ L \in Nat /\ DOMAIN stream = 1 .. L
      /\ \A n \in DOMAIN stream : stream[n].at \in Nat /\ stream[n].size \in Nat
  BY PacketType
<1>4. /\ stream' \in Seq(Packets) /\ stream' # <<>> /\ Len(stream') = L + 1
      /\ \A n \in 1 .. L : stream'[n] = stream[n]
      /\ stream'[L + 1] = p
  BY <1>1, <1>2, AppendProperties
<1>5. DOMAIN stream' = 1 .. L + 1
  BY <1>4, LenProperties
<1>6. End' = End + 4 + s
  BY <1>4 DEF End
<1>7. \A n \in 1 .. L + 1 : Start(n)' = Start(n)
  BY <1>2, <1>3, <1>4, <1>5 DEF Start
<1>8. \A n \in Nat : n = L + 2 => Start(n)' = End'
  BY <1>3, <1>5 DEF Start
<1>0. p.at = End /\ p.size = s
  OBVIOUS
<1> HIDE DEF p
<1>9. \A n \in 1 .. L + 1 : After(stream'[n]) <= End'
  <2>1. \A n \in 1 .. L : After(stream'[n]) <= End
    BY <1>3, <1>4 DEF StreamInv
  <2>2. After(stream'[L + 1]) = End'
    BY <1>4, <1>6, <1>0 DEF After
  <2>3. \A n \in 1 .. L : After(stream'[n]) \in Nat
    BY <1>3, <1>4, SMTT(60) DEF After
  <2>4. \A n \in 1 .. L + 1 : n \in 1 .. L \/ n = L + 1
    BY <1>3
  <2> QED
    BY <1>2, <1>6, <2>1, <2>2, <2>3, <2>4
<1>10. \A n, m \in 1 .. L + 1 :
         n < m => After(stream'[n]) <= stream'[m].at
  <2>1. SUFFICES ASSUME NEW n \in 1 .. L + 1, NEW m \in 1 .. L + 1, n < m
                 PROVE  After(stream'[n]) <= stream'[m].at
    OBVIOUS
  <2>2. n \in 1 .. L /\ stream'[n] = stream[n]
    BY <1>3, <1>4, <2>1
  <2>3. CASE m = L + 1
    BY <1>3, <1>4, <1>0, <2>2, <2>3 DEF StreamInv
  <2>4. CASE m # L + 1
    <3>1. m \in 1 .. L /\ stream'[m] = stream[m]
      BY <1>3, <1>4, <2>4
    <3> QED
      BY <1>3, <2>1, <2>2, <3>1 DEF StreamInv
  <2> QED
    BY <2>3, <2>4
<1>11. \A n \in 1 .. L + 1 : After(stream'[n]) = Start(n + 1)'
  <2>1. SUFFICES ASSUME NEW n \in 1 .. L + 1
                 PROVE  After(stream'[n]) = Start(n + 1)'
    OBVIOUS
  <2>2. CASE n = L + 1
    <3>1. After(stream'[n]) = End'
      BY <1>2, <1>4, <1>6, <1>0, <2>2 DEF After
    <3>2. n + 1 \in Nat /\ n + 1 = L + 2
      BY <1>3, <2>2
    <3>3. Start(n + 1)' = End'
      BY <1>8, <3>2
    <3> QED
      BY <3>1, <3>3
  <2>3. CASE n # L + 1
    <3>1. n \in 1 .. L /\ n + 1 \in 1 .. L + 1
      BY <1>3, <2>3
    <3> QED
      BY <1>3, <1>4, <1>7, <3>1 DEF StreamInv
  <2> QED
    BY <2>2, <2>3
<1>12. StreamInv'
  BY <1>5, <1>9, <1>10, <1>11 DEF StreamInv
<1> QED
  BY <1>2, <1>3, <1>4, <1>5, <1>6, <1>7, <1>12

(* The packet that was not handled yet is the one at the start of          *)
(* recvBuffer, and the only one there.                                     *)
LEMMA PacketAtBase ==
  ASSUME TypeOK, StreamInv, FrameInv, Len(handled) + 1 \in DOMAIN stream
  PROVE  AtBase = {Len(handled) + 1}
<1> DEFINE k == Len(handled) + 1
<1>1. /\ DOMAIN stream = 1 .. Len(stream) /\ Len(stream) \in Nat
      /\ \A n \in DOMAIN stream : stream[n].at \in Nat /\ stream[n].size \in Nat
  BY PacketType DEF TypeOK
<1>2. k \in 1 .. Len(stream) /\ Base = stream[k].at
  BY <1>1 DEF FrameInv, Start
<1>3. \A n, m \in 1 .. Len(stream) : n < m => stream[n].at # stream[m].at
  <2>1. SUFFICES ASSUME NEW n \in 1 .. Len(stream),
                        NEW m \in 1 .. Len(stream), n < m
                 PROVE  stream[n].at # stream[m].at
    OBVIOUS
  <2>2. After(stream[n]) <= stream[m].at
    BY <1>1, <2>1 DEF StreamInv
  <2> QED
    BY <1>1, <2>2 DEF After, HeaderSize
<1>4. \A n \in 1 .. Len(stream) : n # k => stream[n].at # Base
  <2>1. SUFFICES ASSUME NEW n \in 1 .. Len(stream), n # k
                 PROVE  stream[n].at # stream[k].at
    BY <1>2
  <2>2. n < k \/ k < n
    BY <1>1, <1>2, <2>1
  <2> QED
    BY <1>2, <1>3, <2>2
<1> QED
  BY <1>1, <1>2, <1>4 DEF AtBase

(* Bytes that arrive belong to a packet that was not handled yet. *)
LEMMA ReceivingPacket ==
  ASSUME TypeOK, StreamInv, FrameInv, NEW r \in Nat, r > 0, Takes(r)
  PROVE  Len(handled) + 1 \in DOMAIN stream
<1>1. End \in Nat
  BY EndType DEF TypeOK
<1>2. Base < End
  BY <1>1 DEF Takes, Base, FrameInv, TypeOK
<1> QED
  BY <1>1, <1>2 DEF FrameInv, Start, TypeOK

-----------------------------------------------------------------------------
(* The framing *)

(* The packet handled is the next one, with its own size; what remains     *)
(* starts where it ended.                                                  *)
LEMMA ProcessPacketFrame ==
  ASSUME TypeOK, StreamInv, FrameInv, Len(handled) + 1 \in DOMAIN stream,
         NEW size \in Nat, size = stream[Len(handled) + 1].size,
         pos' = Base + HeaderSize + size, pos' <= End, ProcessPacket(size)
  PROVE  /\ handled' = Append(handled, [at |-> stream[Len(handled) + 1].at,
                                        size |-> size])
         /\ FrameInv'
<1> USE DEF HeaderSize
<1> DEFINE k == Len(handled) + 1
           p == [at |-> Base, size |-> size]
<1>1. /\ DOMAIN stream = 1 .. Len(stream) /\ Len(stream) \in Nat
      /\ \A n \in DOMAIN stream : stream[n].at \in Nat /\ stream[n].size \in Nat
  BY PacketType DEF TypeOK
<1>2. k \in 1 .. Len(stream) /\ Base = stream[k].at
  BY <1>1 DEF FrameInv, Start
<1>3. p \in Handled
  BY <1>1, <1>2 DEF Handled
<1>4. /\ handled' = Append(handled, p)
      /\ recvIndex' = 0 /\ recvSize' = 0 /\ stream' = stream
  BY DEF ProcessPacket
<1>5. /\ Len(handled) \in Nat /\ DOMAIN handled = 1 .. Len(handled)
      /\ handled' \in Seq(Handled) /\ Len(handled') = Len(handled) + 1
      /\ \A n \in 1 .. Len(handled) : handled'[n] = handled[n]
      /\ handled'[Len(handled) + 1] = p
  BY <1>3, <1>4, AppendProperties, LenProperties DEF TypeOK
<1>6. DOMAIN handled' = 1 .. Len(handled) + 1
  BY <1>5, LenProperties
<1>7. \A n \in DOMAIN handled' :
        handled'[n] = [at |-> stream'[n].at, size |-> stream'[n].size]
  <2>1. SUFFICES ASSUME NEW n \in 1 .. Len(handled) + 1
                 PROVE  handled'[n]
                          = [at |-> stream[n].at, size |-> stream[n].size]
    BY <1>4, <1>6
  <2>2. CASE n = Len(handled) + 1
    BY <1>2, <1>5, <2>2
  <2>3. CASE n # Len(handled) + 1
    <3>1. n \in 1 .. Len(handled)
      BY <1>5, <2>3
    <3> QED
      BY <1>5, <3>1 DEF FrameInv
  <2> QED
    BY <2>2, <2>3
<1>8. End' = End
  BY <1>4 DEF End
<1>9. \A n \in Nat : Start(n)' = Start(n)
  BY <1>4, <1>8 DEF Start
<1>10. pos' = Start(k + 1)
  <2>1. After(stream[k]) = Start(k + 1)
    BY <1>1, <1>2 DEF StreamInv
  <2>2. After(stream[k]) = pos'
    BY <1>2 DEF After
  <2> QED
    BY <2>1, <2>2
<1>11. Base' = Start(Len(handled) + 1)'
  <2>1. Base' = pos'
    <3>1. pos' \in Nat
      BY <1>1, <1>2
    <3> QED
      BY <1>4, <3>1 DEF Base
  <2>2. \A n \in Nat : n = k + 1 => Start(n)' = pos'
    BY <1>9, <1>10
  <2>3. \A n \in Nat : n = Len(handled') + 1 => Start(n)' = pos'
    BY <1>5, <2>2
  <2>4. Len(handled') + 1 \in Nat
    BY <1>5
  <2> QED
    BY <2>1, <2>3, <2>4 DEF Start
<1> QED
  <2>1. pos' \in Nat /\ recvIndex' <= pos' /\ pos' <= End'
    BY <1>1, <1>2, <1>4, <1>8
  <2>2. Len(handled') <= Len(stream')
    BY <1>1, <1>2, <1>4, <1>5
  <2>3. recvIndex' <= HeaderSize + recvSize' /\ ~(recvSize' > 0)
    BY <1>4
  <2>4. FrameInv'
    BY <1>7, <1>11, <2>1, <2>2, <2>3 DEF FrameInv
  <2> QED
    BY <1>2, <1>4, <2>4

(* Both ways to complete a packet meet the conditions of that lemma. *)
LEMMA CompletedPacket ==
  ASSUME TypeOK, StreamInv, FrameInv, RecvEmpty \/ RecvPayload
  PROVE  /\ Len(handled) + 1 \in DOMAIN stream
         /\ \E size \in Nat :
              /\ size = stream[Len(handled) + 1].size
              /\ pos' = Base + HeaderSize + size
              /\ pos' <= End
              /\ ProcessPacket(size)
<1> USE DEF HeaderSize
<1>1. CASE RecvEmpty
  <2>1. /\ recvSize = 0 /\ BytesToReceive \in Nat /\ BytesToReceive > 0
        /\ Takes(BytesToReceive)
    BY <1>1 DEF RecvEmpty, BytesToReceive, TypeOK, FrameInv
  <2>2. Len(handled) + 1 \in DOMAIN stream
    BY <2>1, ReceivingPacket
  <2>3. stream[Len(handled) + 1].size = 0
    BY <1>1, <2>2, PacketAtBase DEF RecvEmpty, HeaderSays
  <2>4. pos' = Base + HeaderSize + 0 /\ pos' <= End
    BY <2>1, EndType DEF Takes, BytesToReceive, Base, TypeOK
  <2> QED
    BY <1>1, <2>2, <2>3, <2>4 DEF RecvEmpty
<1>2. CASE RecvPayload
  <2>1. recvSize \in Nat /\ recvSize > 0 /\ Takes(BytesToReceive)
    BY <1>2 DEF RecvPayload, TypeOK
  <2>2. /\ Len(handled) + 1 \in DOMAIN stream
        /\ recvSize = stream[Len(handled) + 1].size
    BY <2>1 DEF FrameInv
  <2>3. pos' = Base + HeaderSize + recvSize /\ pos' <= End
    BY <2>1, EndType DEF Takes, BytesToReceive, Base, TypeOK
  <2> QED
    BY <1>2, <2>1, <2>2, <2>3 DEF RecvPayload
<1> QED
  BY <1>1, <1>2

(* Everything but the pool's packets, a reconnection and the bytes that    *)
(* arrive leaves stream and frame alone.                                   *)
LEMMA FrameUnchanged ==
  ASSUME StreamInv, FrameInv,
         UNCHANGED <<recvIndex, recvSize, stream, pos, handled>>
  PROVE  StreamInv' /\ FrameInv'
BY DEF StreamInv, FrameInv, Start, Base, End

LEMMA StreamStep ==
  ASSUME TypeOK, StreamInv, FrameInv, Next
  PROVE  StreamInv'
<1>1. CASE PoolSends
  BY <1>1, StreamGrows DEF TypeOK
<1>2. CASE Receive \/ RecvClosed \/ ForceDisconnect
  <2>1. stream' = stream
    BY <1>2 DEF Receive, RecvPart, RecvHeader, RecvOversized, RecvEmpty,
                RecvPayload, RecvZero, ProcessPacket, RecvClosed,
                ForceDisconnect
  <2> QED
    BY <2>1 DEF StreamInv, Start, End
<1>3. CASE Reconnect
  <2>1. stream' = <<>>
    BY <1>3 DEF Reconnect
  <2> QED
    BY <2>1 DEF StreamInv
<1> QED
  BY <1>1, <1>2, <1>3 DEF Next

LEMMA FrameStep ==
  ASSUME TypeOK, StreamInv, FrameInv, Next
  PROVE  FrameInv'
<1> USE DEF HeaderSize
<1> DEFINE k == Len(handled) + 1
<1>1. /\ DOMAIN stream = 1 .. Len(stream) /\ Len(stream) \in Nat
      /\ DOMAIN handled = 1 .. Len(handled) /\ Len(handled) \in Nat
      /\ End \in Nat
  BY PacketType, LenProperties, EndType DEF TypeOK
<1>2. CASE PoolSends
  <2>1. /\ Len(stream') = Len(stream) + 1
        /\ DOMAIN stream' = 1 .. Len(stream) + 1
        /\ \A n \in DOMAIN stream : stream'[n] = stream[n]
        /\ End' \in Nat /\ End' >= End
        /\ \A n \in 1 .. Len(stream) + 1 : Start(n)' = Start(n)
    BY <1>2, StreamGrows DEF TypeOK
  <2>2. UNCHANGED <<recvIndex, recvSize, pos, handled>>
    BY <1>2 DEF PoolSends
  <2>3. k \in 1 .. Len(stream) + 1
    BY <1>1 DEF FrameInv
  <2>4. Base' = Start(Len(handled) + 1)'
    <3>1. \A n \in 1 .. Len(stream) + 1 : n = k => Start(n)' = Base
      BY <2>1 DEF FrameInv
    <3>2. \A n \in 1 .. Len(stream) + 1 : n = Len(handled') + 1 =>
            Start(n)' = Base
      BY <2>2, <3>1
    <3>3. Base' = Base
      BY <2>2 DEF Base
    <3> QED
      BY <2>2, <2>3, <3>2, <3>3 DEF Start
  <2>5. pos' <= End'
    BY <1>1, <2>1, <2>2 DEF FrameInv, TypeOK
  <2>6. \A n \in DOMAIN handled' :
          handled'[n] = [at |-> stream'[n].at, size |-> stream'[n].size]
    BY <1>1, <2>1, <2>2 DEF FrameInv
  <2>7. Len(handled') <= Len(stream')
    BY <1>1, <2>1, <2>2 DEF FrameInv
  <2>8. recvSize' > 0 => /\ Len(handled') + 1 \in DOMAIN stream'
                         /\ recvSize' = stream'[Len(handled') + 1].size
    BY <1>1, <2>1, <2>2 DEF FrameInv
  <2> QED
    BY <2>2, <2>4, <2>5, <2>6, <2>7, <2>8 DEF FrameInv
<1>3. CASE RecvPart \/ RecvHeader \/ RecvOversized
  <2>1. PICK r \in Nat : /\ Takes(r) /\ r > 0 /\ r <= BytesToReceive
                         /\ recvIndex' = recvIndex + r
    <3>1. CASE RecvPart
      BY <3>1 DEF RecvPart, BytesToReceive, TypeOK
    <3>2. CASE RecvHeader \/ RecvOversized
      <4>1. /\ BytesToReceive \in Nat /\ BytesToReceive > 0
            /\ Takes(BytesToReceive) /\ recvIndex' = recvIndex + BytesToReceive
        BY <3>2 DEF RecvHeader, RecvOversized, BytesToReceive, TypeOK, FrameInv
      <4> QED
        BY <4>1
    <3> QED
      BY <1>3, <3>1, <3>2
  <2>2. /\ UNCHANGED <<stream, handled>>
        /\ pos' = pos + r /\ pos' <= End
    BY <1>3, <2>1 DEF RecvPart, RecvHeader, RecvOversized, Takes
  <2>3. k \in DOMAIN stream
    BY <2>1, ReceivingPacket
  <2>4. \/ recvSize' = recvSize
        \/ recvSize' \in Nat /\ recvSize = 0 /\ recvSize' = stream[k].size
    <3>1. CASE RecvHeader
      <4>1. AtBase = {k}
        BY <2>3, PacketAtBase
      <4>2. PICK size \in PayloadSizes \cup 0 .. TooLarge :
              HeaderSays(size) /\ recvSize' = size
        BY <3>1 DEF RecvHeader
      <4> QED
        BY <3>1, <4>1, <4>2, SizesAssumption DEF RecvHeader, HeaderSays
    <3> QED
      BY <1>3, <3>1 DEF RecvPart, RecvOversized
  <2>5. recvIndex' <= HeaderSize + recvSize'
    BY <2>1, <2>4 DEF BytesToReceive, TypeOK
  <2>6. End' = End /\ Base' = Base /\ recvIndex' <= pos'
    BY <2>1, <2>2 DEF End, Base, FrameInv, TypeOK
  <2>7. Base' = Start(Len(handled) + 1)'
    BY <2>2, <2>6 DEF FrameInv, Start
  <2>8. recvSize' > 0 => recvSize' = stream[k].size
    BY <2>4 DEF FrameInv, TypeOK
  <2> QED
    BY <2>2, <2>3, <2>5, <2>6, <2>7, <2>8 DEF FrameInv
<1>4. CASE RecvEmpty \/ RecvPayload
  BY <1>4, CompletedPacket, ProcessPacketFrame
<1>5. CASE RecvZero \/ RecvClosed \/ ForceDisconnect
  BY <1>5, FrameUnchanged DEF RecvZero, RecvClosed, ForceDisconnect
<1>6. CASE Reconnect
  <2>1. /\ recvIndex' = 0 /\ recvSize' = 0 /\ pos' = 0
        /\ stream' = <<>> /\ handled' = <<>>
    BY <1>6 DEF Reconnect
  <2>2. End' = 0
    BY <2>1 DEF End
  <2>3. Len(handled') = 0 /\ Len(stream') = 0
    BY <2>1, EmptySeq
  <2>4. Base' = Start(Len(handled) + 1)'
    BY <2>1, <2>2, <2>3 DEF Base, Start
  <2> QED
    BY <2>1, <2>2, <2>3, <2>4 DEF FrameInv
<1> QED
  BY <1>2, <1>3, <1>4, <1>5, <1>6 DEF Next, Receive

-----------------------------------------------------------------------------
(* Theorems *)

(* The connection's state has its type, and the bytes in recvBuffer always *)
(* are the beginning of the first packet that was not handled              *)
(* (xptClient_process keeps its place in the stream).                      *)
THEOREM FrameInvariant == Spec => [](TypeOK /\ StreamInv /\ FrameInv)
<1>1. Init => TypeOK /\ StreamInv /\ FrameInv
  <2> SUFFICES ASSUME Init PROVE TypeOK /\ StreamInv /\ FrameInv
    OBVIOUS
  <2>1. TypeOK
    BY InitType
  <2>2. End = 0 /\ Len(handled) = 0 /\ Len(stream) = 0
    BY EmptySeq DEF Init, End
  <2> QED
    BY <2>1, <2>2 DEF Init, StreamInv, FrameInv, Start, Base, HeaderSize
<1>2. TypeOK /\ StreamInv /\ FrameInv /\ [Next]_vars
        => (TypeOK /\ StreamInv /\ FrameInv)'
  <2> SUFFICES ASSUME TypeOK, StreamInv, FrameInv, [Next]_vars
               PROVE  (TypeOK /\ StreamInv /\ FrameInv)'
    OBVIOUS
  <2>1. CASE Next
    <3>1. recvIndex <= pos /\ recvIndex <= HeaderSize + recvSize
      BY DEF FrameInv
    <3> QED
      BY <2>1, <3>1, StepType, StreamStep, FrameStep
  <2>2. CASE UNCHANGED vars
    BY <2>2, FrameUnchanged DEF vars, TypeOK
  <2> QED
    BY <2>1, <2>2
<1> QED
  BY <1>1, <1>2, PTL DEF Spec

(* Type correctness of the connection, for any sizes and limits. *)
THEOREM ClientTypeCorrect == Spec => []TypeOK
BY FrameInvariant, PTL

(* recv() never writes past the end of the receive buffer, whatever sizes  *)
(* the headers announce (xptClient.cpp:541).                               *)
THEOREM BufferLargeEnough == Spec => []BufferHoldsPacket
<1> USE DEF HeaderSize
<1>1. Init => BufferHoldsPacket
  BY SizesAssumption DEF Init, BufferHoldsPacket
<1>2. TypeOK /\ BufferHoldsPacket /\ [Next]_vars => BufferHoldsPacket'
  <2> SUFFICES ASSUME TypeOK, BufferHoldsPacket, [Next]_vars
               PROVE  BufferHoldsPacket'
    OBVIOUS
  <2> USE DEF TypeOK, BufferHoldsPacket
  <2>1. CASE RecvPart
    BY <2>1 DEF RecvPart, BytesToReceive
  <2>2. CASE RecvHeader
    BY <2>2, SizesAssumption DEF RecvHeader, Enlarged
  <2>3. CASE RecvOversized
    BY <2>3 DEF RecvOversized
  <2>4. CASE RecvEmpty \/ RecvPayload
    <3>1. recvIndex' = 0 /\ recvSize' = 0 /\ limit' = limit
      BY <2>4 DEF RecvEmpty, RecvPayload, ProcessPacket
    <3> QED
      BY <3>1, SizesAssumption
  <2>5. CASE PoolSends \/ RecvZero \/ RecvClosed \/ ForceDisconnect
    BY <2>5 DEF PoolSends, RecvZero, RecvClosed, ForceDisconnect
  <2>6. CASE Reconnect
    BY <2>6, SizesAssumption DEF Reconnect
  <2>7. CASE UNCHANGED vars
    BY <2>7 DEF vars
  <2> QED
    BY <2>1, <2>2, <2>3, <2>4, <2>5, <2>6, <2>7 DEF Next, Receive
<1> QED
  BY <1>1, <1>2, ClientTypeCorrect, PTL DEF Spec

LEMMA FdStep ==
  ASSUME FdInv, Next
  PROVE  FdInv'
<1> USE DEF FdInv, SOCKET_ERROR
<1>1. CASE PoolSends \/ RecvPart \/ RecvHeader \/ RecvOversized
  BY <1>1 DEF PoolSends, RecvPart, RecvHeader, RecvOversized
<1>2. CASE RecvEmpty \/ RecvPayload
  <2>1. PICK size : ProcessPacket(size)
    BY <1>2 DEF RecvEmpty, RecvPayload
  <2>2. \/ UNCHANGED <<fds, sock, disconnected>>
        \/ /\ fds' = IF sock # 0 THEN fds \ {sock} ELSE fds
           /\ sock' = 0 /\ disconnected'
    BY <2>1 DEF ProcessPacket
  <2>3. CASE UNCHANGED <<fds, sock, disconnected>>
    BY <2>3, Zenon
  <2>4. CASE /\ fds' = IF sock # 0 THEN fds \ {sock} ELSE fds
             /\ sock' = 0 /\ disconnected'
    <3>1. {1, 2} \subseteq fds' /\ fds' \subseteq 0 .. 3 /\ 3 \notin fds'
      BY <2>4
    <3>2. sock' \in {SOCKET_ERROR, 0, 3} /\ ~(sock' = 3)
      BY <2>4
    <3> QED
      BY <2>4, <3>1, <3>2, Zenon
  <2> QED
    BY <2>2, <2>3, <2>4
<1>3. CASE RecvZero \/ RecvClosed
  BY <1>3 DEF RecvZero, RecvClosed
<1>4. CASE ForceDisconnect
  BY <1>4 DEF ForceDisconnect
<1>5. CASE Reconnect
  <2>1. PICK s \in NewSockets(FdsAfterFree) :
          /\ fds' = FdsAfterFree \cup ({s} \ {SOCKET_ERROR})
          /\ \/ s = 0 /\ sock' = SOCKET_ERROR /\ disconnected' = TRUE
             \/ s # 0 /\ sock' = s /\ disconnected' = FALSE
    BY <1>5 DEF Reconnect
  <2>2. {1, 2} \subseteq FdsAfterFree /\ FdsAfterFree \subseteq 0 .. 2
    BY DEF FdsAfterFree
  <2>3. s \in {SOCKET_ERROR, 0, 3}
    <3>1. CASE s = SOCKET_ERROR
      BY <3>1
    <3>2. CASE s # SOCKET_ERROR
      <4>1. /\ s \in 0 .. MaxFd /\ s \notin FdsAfterFree
            /\ \A g \in 0 .. MaxFd : g \notin FdsAfterFree => s <= g
        BY <3>2 DEF NewSockets
      <4>2. s > 3 => 3 \in 0 .. MaxFd /\ 3 \notin FdsAfterFree
        BY <2>2, <4>1, BoundsAssumption
      <4> QED
        BY <2>2, <4>1, <4>2, BoundsAssumption
    <3> QED
      BY <3>1, <3>2
  <2> HIDE DEF FdInv
  <2>4. /\ FdsAfterFree \subseteq fds'
        /\ \A f \in fds' : f \in FdsAfterFree \/ f = s
        /\ s # SOCKET_ERROR => s \in fds'
        /\ s = SOCKET_ERROR => fds' = FdsAfterFree
    <3> HIDE DEF SOCKET_ERROR
    <3>1. fds' = FdsAfterFree \cup ({s} \ {SOCKET_ERROR})
      BY <2>1
    <3> QED
      BY <3>1, Zenon
  <2>5. {1, 2} \subseteq fds' /\ fds' \subseteq 0 .. 3
    <3>1. \A f \in 0 .. 2 : f \in 0 .. 3
      OBVIOUS
    <3>2. CASE s = SOCKET_ERROR
      BY <2>2, <2>4, <3>1, <3>2
    <3>3. CASE s \in {0, 3}
      BY <2>2, <2>4, <3>1, <3>3
    <3> QED
      BY <2>3, <3>2, <3>3
  <2>6. sock' = IF s = 0 THEN SOCKET_ERROR ELSE s
    BY <2>1
  <2>7. 3 \in fds' <=> s = 3
    BY <2>2, <2>4
  <2> QED
    BY <2>3, <2>5, <2>6, <2>7 DEF FdInv
<1> QED
  BY <1>1, <1>2, <1>3, <1>4, <1>5 DEF Next, Receive

(* The descriptors, from the order in which socket() gives them out: a     *)
(* connected client uses an open descriptor of its own, and none leaks on  *)
(* any way to lose a connection (xptClient.cpp:81, 121, 138, 597).         *)
THEOREM DescriptorInvariant == Spec => []FdInv
<1>1. Init => FdInv
  BY DEF Init, FdInv, StdFds, SOCKET_ERROR
<1>2. FdInv /\ [Next]_vars => FdInv'
  <2>1. FdInv /\ UNCHANGED vars => FdInv'
    BY DEF vars, FdInv
  <2> QED
    BY <2>1, FdStep
<1> QED
  BY <1>1, <1>2, PTL DEF Spec

(* A client that counts as connected never uses a closed or a standard     *)
(* descriptor.                                                             *)
THEOREM ConnectedSocketOpen == Spec => []SocketIsOpen
<1>1. FdInv => SocketIsOpen
  BY DEF FdInv, SocketIsOpen, StdFds, SOCKET_ERROR
<1> QED
  BY <1>1, DescriptorInvariant, PTL

(* However many connections are lost or refused, the process has never     *)
(* more than the standard descriptors and one socket.                      *)
THEOREM NoDescriptorLeak == Spec => []DescriptorsBounded
<1>1. FdInv => DescriptorsBounded
  BY DEF FdInv, DescriptorsBounded
<1> QED
  BY <1>1, DescriptorInvariant, PTL

-----------------------------------------------------------------------------
(* The connection implements the channel of whole packets *)

LEMMA SequenceOf ==
  ASSUME NEW S, NEW n \in Nat, NEW f \in [1 .. n -> S]
  PROVE  f \in Seq(S) /\ Len(f) = n
<1>1. f \in Seq(S)
  BY SeqDef
<1>2. Len(f) \in Nat /\ 1 .. Len(f) = 1 .. n
  BY <1>1, LenProperties
<1>3. ~(Len(f) > n) /\ ~(n > Len(f))
  <2>1. Len(f) > n => Len(f) \in 1 .. Len(f) /\ Len(f) \notin 1 .. n
    BY <1>2
  <2>2. n > Len(f) => n \in 1 .. n /\ n \notin 1 .. Len(f)
    BY <1>2
  <2> QED
    BY <1>2, <2>1, <2>2
<1> QED
  BY <1>1, <1>2, <1>3

LEMMA SentOf ==
  \A s \in Seq(Packets) :
    LET f == [n \in DOMAIN s |-> [at |-> s[n].at, size |-> s[n].size]]
    IN  f \in Seq(Handled) /\ Len(f) = Len(s)
<1> SUFFICES ASSUME NEW s \in Seq(Packets)
             PROVE  LET f == [n \in DOMAIN s |->
                                [at |-> s[n].at, size |-> s[n].size]]
                    IN  f \in Seq(Handled) /\ Len(f) = Len(s)
  OBVIOUS
<1> DEFINE f == [n \in DOMAIN s |-> [at |-> s[n].at, size |-> s[n].size]]
<1>1. Len(s) \in Nat /\ DOMAIN s = 1 .. Len(s)
  BY LenProperties
<1>2. \A n \in 1 .. Len(s) : s[n] \in Packets
  BY ElementOfSeq
<1>3. f \in [1 .. Len(s) -> Handled]
  BY <1>1, <1>2 DEF Packets, Handled
<1> HIDE DEF f
<1>4. f \in Seq(Handled) /\ Len(f) = Len(s)
  BY <1>1, <1>3, SequenceOf
<1> QED
  BY <1>4 DEF f

LEMMA SentEmpty ==
  stream = <<>> => Sent = <<>>
<1> SUFFICES ASSUME stream = <<>> PROVE Sent = <<>>
  OBVIOUS
<1>1. stream \in Seq(Packets) /\ Len(stream) = 0
  BY EmptySeq
<1>2. Sent \in Seq(Handled) /\ Len(Sent) = 0
  BY <1>1, SentOf DEF Sent
<1> QED
  BY <1>2, EmptySeq

(* xptClient_processPacket is given the packets of the pool whole, in      *)
(* order and once, wherever recv() cuts the stream, whatever the sizes.    *)
THEOREM DeliversWholePackets == Spec => WholePackets
<1> DEFINE absVars == <<Sent, handled, ~disconnected>>
<1>1. Init => Channel!Init
  <2> SUFFICES ASSUME Init PROVE Channel!Init
    OBVIOUS
  <2>1. Sent = <<>>
    BY SentEmpty DEF Init
  <2> QED
    BY <2>1 DEF Init, Channel!Init
<1>2. TypeOK /\ StreamInv /\ FrameInv /\ [Next]_vars
        => [Channel!Next]_absVars
  <2> SUFFICES ASSUME TypeOK, StreamInv, FrameInv, [Next]_vars
               PROVE  [Channel!Next]_absVars
    OBVIOUS
  <2>1. stream' = stream => Sent' = Sent
    BY DEF Sent
  <2>2. TypeOK'
    <3>1. recvIndex <= pos /\ recvIndex <= HeaderSize + recvSize
      BY DEF FrameInv
    <3>2. UNCHANGED vars => TypeOK'
      BY DEF vars, TypeOK
    <3> QED
      BY <3>1, <3>2, StepType
  <2>3. Sent \in Seq(Handled) /\ Len(Sent) = Len(stream)
    BY SentOf DEF Sent, TypeOK
  <2>4. CASE PoolSends
    <3>1. /\ Len(stream') = Len(stream) + 1
          /\ DOMAIN stream \subseteq DOMAIN stream'
          /\ \A n \in DOMAIN stream : stream'[n] = stream[n]
      <4>1. DOMAIN stream = 1 .. Len(stream) /\ Len(stream) \in Nat
        BY PacketType DEF TypeOK
      <4> QED
        BY <2>4, <4>1, StreamGrows DEF TypeOK
    <3>2. stream' \in Seq(Packets)
      BY <2>4, <2>2 DEF TypeOK
    <3>3. Sent' \in Seq(Handled) /\ Len(Sent') = Len(stream')
      BY <3>2, SentOf DEF Sent
    <3>4. \A n \in DOMAIN Sent : Sent'[n] = Sent[n]
      BY <3>1 DEF Sent
    <3>5. UNCHANGED <<handled, disconnected>>
      BY <2>4 DEF PoolSends
    <3> QED
      BY <2>3, <3>1, <3>3, <3>4, <3>5 DEF Channel!Next, Channel!Send
  <2>5. CASE RecvPart \/ RecvHeader \/ RecvOversized
    BY <2>1, <2>5 DEF RecvPart, RecvHeader, RecvOversized
  <2>6. CASE RecvEmpty \/ RecvPayload
    <3> DEFINE k == Len(handled) + 1
    <3>1. PICK size \in Nat :
            /\ k \in DOMAIN stream /\ size = stream[k].size
            /\ handled' = Append(handled, [at |-> stream[k].at, size |-> size])
            /\ ProcessPacket(size)
      BY <2>6, CompletedPacket, ProcessPacketFrame
    <3>2. Sent[k] = [at |-> stream[k].at, size |-> size]
      BY <3>1 DEF Sent
    <3>3. handled' = Append(handled, Sent[k])
      BY <3>1, <3>2
    <3>4. Len(handled) < Len(Sent)
      BY <2>3, <3>1, PacketType, LenProperties DEF TypeOK
    <3>5. stream' = stream /\ ~disconnected
      BY <2>6, <3>1 DEF ProcessPacket, RecvEmpty, RecvPayload, Takes
    <3> QED
      BY <2>1, <3>3, <3>4, <3>5 DEF Channel!Next, Channel!Deliver
  <2>7. CASE RecvZero \/ RecvClosed \/ ForceDisconnect
    BY <2>1, <2>7 DEF RecvZero, RecvClosed, ForceDisconnect, Channel!Next,
                      Channel!Close
  <2>8. CASE Reconnect
    <3>1. stream' = <<>> /\ handled' = <<>> /\ disconnected
      BY <2>8 DEF Reconnect
    <3>2. Sent' = <<>>
      <4>1. stream' \in Seq(Packets) /\ Len(stream') = 0
        BY <3>1, EmptySeq
      <4>2. Sent' \in Seq(Handled) /\ Len(Sent') = 0
        BY <4>1, SentOf DEF Sent
      <4> QED
        BY <4>2, EmptySeq
    <3> QED
      BY <3>1, <3>2 DEF Channel!Next, Channel!Open
  <2>9. CASE UNCHANGED vars
    BY <2>1, <2>9 DEF vars
  <2> QED
    BY <2>4, <2>5, <2>6, <2>7, <2>8, <2>9 DEF Next, Receive
<1> QED
  BY <1>1, <1>2, FrameInvariant, PTL DEF Spec, WholePackets, Channel!Spec
=============================================================================
