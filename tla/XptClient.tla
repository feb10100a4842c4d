------------------------------ MODULE XptClient ------------------------------
(***************************************************************************)
(* The connection of an xpt client: xptClient_connect, the receive half of *)
(* xptClient_process, xptClient_forceDisconnect and xptClient_free, with   *)
(* the socket descriptors they open and close.  XptMiner sees the outcome  *)
(* of these calls; here is what happens between the bytes of the stream    *)
(* and the packets handed to xptClient_processPacket.                      *)
(*                                                                         *)
(* A byte is its position in the stream of the connection.  recvBuffer     *)
(* holds recvIndex bytes, those before position pos, so its content needs  *)
(* no variable.  A packet of the pool starts where the one before ended;   *)
(* its header tells the size of its payload, and any other four bytes      *)
(* taken for a header tell nothing.                                        *)
(*                                                                         *)
(* Built for Linux: a socket is an int, and SOCKET_ERROR is -1.            *)
(***************************************************************************)
EXTENDS Integers, Sequences, FiniteSets

CONSTANTS
  PayloadSizes,    \* sizes the pool's packets may have
  TooLarge,        \* 1024*1024*2-4: payloads are not accepted from here on
  BufferSize,      \* 256*1024: what recvBuffer holds at first
  MaxFd,           \* the highest descriptor the process may have
  MaxPackets       \* bound: packets sent on one connection

ASSUME SizesAssumption ==
  /\ PayloadSizes \subseteq Nat
  /\ TooLarge \in Nat \ {0}
  /\ BufferSize \in Nat /\ BufferSize >= 4
ASSUME BoundsAssumption ==
  /\ MaxFd \in Nat /\ MaxFd >= 2
  /\ MaxPackets \in Nat

VARIABLES
  fds,           \* open descriptors of the process
  sock,          \* clientSocket
  disconnected,  \* disconnected
  recvIndex,     \* bytes of the current packet received
  recvSize,      \* payload size of the current packet, 0 before its header
  limit,         \* recvBuffer->bufferLimit
  stream,        \* the packets the pool sends on this connection
  pos,           \* bytes of the stream recv() has returned
  handled,       \* what xptClient_processPacket was given (history)
  attempt        \* the last xptClient_connect (history)

vars == <<fds, sock, disconnected, recvIndex, recvSize, limit, stream, pos,
          handled, attempt>>

SOCKET_ERROR == -1
HeaderSize   == 4
StdFds       == {0, 1, 2}

Packets  == [at : Nat, size : Nat, ok : BOOLEAN]
Handled  == [at : Nat, size : Nat]
Attempts == [tcp : BOOLEAN, result : BOOLEAN]

-----------------------------------------------------------------------------
(* The pool *)

(* The position after the last packet. *)
End == IF stream = <<>>
       THEN 0
       ELSE LET p == stream[Len(stream)] IN p.at + HeaderSize + p.size

(* ok: whether the handler for the packet's opcode accepts its content. *)
PoolSends ==
  /\ ~disconnected
  /\ attempt.tcp
  /\ Len(stream) < MaxPackets
  /\ \E s \in PayloadSizes, b \in BOOLEAN :
       stream' = Append(stream, [at |-> End, size |-> s, ok |-> b])
  /\ UNCHANGED <<fds, sock, disconnected, recvIndex, recvSize, limit, pos,
                 handled, attempt>>

-----------------------------------------------------------------------------
(* xptClient_process: what one recv() brings *)

(* The position of the byte at the start of recvBuffer. *)
Base == pos - recvIndex

(* The packet that starts there, if the bytes there are a header at all. *)
AtBase == {n \in DOMAIN stream : stream[n].at = Base}

(* packetFullSize - recvIndex *)
BytesToReceive == (HeaderSize + recvSize) - recvIndex

(* recv() takes no more than that, nor more than there is. *)
Takes(r) ==
  /\ ~disconnected
  /\ r <= BytesToReceive
  /\ pos + r <= End
  /\ pos' = pos + r

(* The bytes do not complete a header or a packet. *)
RecvPart ==
  /\ \E r \in 1 .. BytesToReceive - 1 :
       /\ Takes(r)
       /\ recvIndex' = recvIndex + r
  /\ UNCHANGED <<fds, sock, disconnected, recvSize, limit, stream, handled,
                 attempt>>

(* The payload size read from the header. *)
HeaderSays(size) == AtBase = {} \/ \E n \in AtBase : size = stream[n].size

(* xptPacketbuffer_changeSizeLimit, if the packet does not fit. *)
Enlarged(size) == IF HeaderSize + size > limit THEN HeaderSize + size
                                               ELSE limit

(* Faulty variants: no size limit; the buffer is enlarged when the payload *)
(* alone does not fit.                                                     *)
RecvHeaderUnlimited ==
  /\ recvSize = 0
  /\ BytesToReceive > 0
  /\ Takes(BytesToReceive)
  /\ recvIndex' = HeaderSize
  /\ \E size \in PayloadSizes \cup 0 .. TooLarge :
       /\ HeaderSays(size)
       /\ size > 0
       /\ recvSize' = size
       /\ limit' = Enlarged(size)
  /\ UNCHANGED <<fds, sock, disconnected, stream, handled, attempt>>
RecvHeaderSmallBuffer ==
  /\ recvSize = 0
  /\ BytesToReceive > 0
  /\ Takes(BytesToReceive)
  /\ recvIndex' = HeaderSize
  /\ \E size \in PayloadSizes \cup 0 .. TooLarge :
       /\ HeaderSays(size)
       /\ size \in 1 .. TooLarge - 1
       /\ recvSize' = size
       /\ limit' = IF size > limit THEN HeaderSize + size ELSE limit
  /\ UNCHANGED <<fds, sock, disconnected, stream, handled, attempt>>

(* The header is complete and announces a payload: enlarge the buffer.     *)
RecvHeader ==
  /\ recvSize = 0
  /\ BytesToReceive > 0
  /\ Takes(BytesToReceive)
  /\ recvIndex' = HeaderSize
  /\ \E size \in PayloadSizes \cup 0 .. TooLarge :
       /\ HeaderSays(size)
       /\ size \in 1 .. TooLarge - 1
       /\ recvSize' = size
       /\ limit' = Enlarged(size)
  /\ UNCHANGED <<fds, sock, disconnected, stream, handled, attempt>>

(* The header announces too large a payload: return false, which nobody    *)
(* looks at, with the header left in the buffer.                           *)
RecvOversized ==
  /\ recvSize = 0
  /\ BytesToReceive > 0
  /\ Takes(BytesToReceive)
  /\ recvIndex' = HeaderSize
  /\ \E size \in PayloadSizes \cup 0 .. TooLarge :
       HeaderSays(size) /\ size >= TooLarge
  /\ UNCHANGED <<fds, sock, disconnected, recvSize, limit, stream, handled,
                 attempt>>

(* What the packet's handler makes of it. *)
Verdict(ok) == AtBase = {} \/ \E n \in AtBase : ok = stream[n].ok

(* Faulty variants: a refused packet closes the socket but does not mark   *)
(* the client as disconnected; recvSize is not reset.                      *)
ProcessPacketStillConnected(size) ==
  /\ handled' = Append(handled, [at |-> Base, size |-> size])
  /\ recvIndex' = 0
  /\ recvSize' = 0
  /\ \/ /\ Verdict(TRUE)
        /\ UNCHANGED <<fds, sock>>
     \/ /\ Verdict(FALSE)
        /\ fds' = IF sock # 0 THEN fds \ {sock} ELSE fds
        /\ sock' = 0
  /\ UNCHANGED <<disconnected, limit, stream, attempt>>
ProcessPacketKeepingSize(size) ==
  /\ handled' = Append(handled, [at |-> Base, size |-> size])
  /\ recvIndex' = 0
  /\ recvSize' = size
  /\ \/ /\ Verdict(TRUE)
        /\ UNCHANGED <<fds, sock, disconnected>>
     \/ /\ Verdict(FALSE)
        /\ fds' = IF sock # 0 THEN fds \ {sock} ELSE fds
        /\ sock' = 0
        /\ disconnected' = TRUE
  /\ UNCHANGED <<limit, stream, attempt>>

(* The packet is complete: it is processed, and the connection closed if   *)
(* its handler refuses it.  recvIndex and recvSize start over either way.  *)
ProcessPacket(size) ==
  /\ handled' = Append(handled, [at |-> Base, size |-> size])
  /\ recvIndex' = 0
  /\ recvSize' = 0
  /\ \/ /\ Verdict(TRUE)
        /\ UNCHANGED <<fds, sock, disconnected>>
     \/ /\ Verdict(FALSE)
        /\ fds' = IF sock # 0 THEN fds \ {sock} ELSE fds
        /\ sock' = 0
        /\ disconnected' = TRUE
  /\ UNCHANGED <<limit, stream, attempt>>

(* Faulty variant: a packet is processed when bytes follow its header. *)
RecvEmptyLater ==
  /\ recvSize = 0
  /\ BytesToReceive > 0
  /\ Takes(BytesToReceive)
  /\ HeaderSays(0)
  /\ recvIndex' = HeaderSize
  /\ UNCHANGED <<fds, sock, disconnected, recvSize, limit, stream, handled,
                 attempt>>

(* A header without payload completes its packet. *)
RecvEmpty ==
  /\ recvSize = 0
  /\ BytesToReceive > 0
  /\ Takes(BytesToReceive)
  /\ HeaderSays(0)
  /\ ProcessPacket(0)

RecvPayload ==
  /\ recvSize > 0
  /\ Takes(BytesToReceive)
  /\ ProcessPacket(recvSize)

(* After an oversized header recv() is asked for no bytes.  Its 0, as soon *)
(* as there is something to receive, is taken for an orderly close.        *)
RecvZero ==
  /\ ~disconnected
  /\ BytesToReceive = 0
  /\ pos < End
  /\ disconnected' = TRUE
  /\ UNCHANGED <<fds, sock, recvIndex, recvSize, limit, stream, pos, handled,
                 attempt>>

(* The pool closes, the connection breaks, or there never was one.  The    *)
(* descriptor stays open until xptClient_free.                             *)
RecvClosed ==
  /\ ~disconnected
  /\ disconnected' = TRUE
  /\ UNCHANGED <<fds, sock, recvIndex, recvSize, limit, stream, pos, handled,
                 attempt>>

-----------------------------------------------------------------------------
(* Connecting and disconnecting *)

ForceDisconnect ==
  /\ ~disconnected
  /\ fds' = IF sock # SOCKET_ERROR THEN fds \ {sock} ELSE fds
  /\ sock' = SOCKET_ERROR
  /\ disconnected' = TRUE
  /\ UNCHANGED <<recvIndex, recvSize, limit, stream, pos, handled, attempt>>

(* Faulty variant: xptClient_free does not close the socket. *)
FdsAfterFreeKept == fds

(* xptClient_free closes any socket but SOCKET_ERROR. *)
FdsAfterFree == IF sock # SOCKET_ERROR THEN fds \ {sock} ELSE fds

(* socket() returns the lowest descriptor that is free, or fails. *)
NewSockets(open) ==
  LET free == {f \in 0 .. MaxFd : f \notin open}
  IN  {SOCKET_ERROR} \cup {f \in free : \A g \in free : f <= g}

(* Free the client, create another and connect it.  The result of connect() *)
(* is not looked at, and it is the descriptor 0 that counts as an error.   *)
Reconnect ==
  /\ disconnected
  /\ recvIndex' = 0 /\ recvSize' = 0 /\ limit' = BufferSize
  /\ stream' = <<>> /\ pos' = 0 /\ handled' = <<>>
  /\ \E s \in NewSockets(FdsAfterFree), tcp \in BOOLEAN :
       /\ tcp => s # SOCKET_ERROR
       /\ fds' = FdsAfterFree \cup ({s} \ {SOCKET_ERROR})
       /\ attempt' = [tcp |-> tcp, result |-> s # 0]
       /\ \/ s = 0 /\ sock' = SOCKET_ERROR /\ disconnected' = TRUE
          \/ s # 0 /\ sock' = s /\ disconnected' = FALSE

-----------------------------------------------------------------------------
Init ==
  /\ fds = StdFds
  /\ sock = SOCKET_ERROR
  /\ disconnected = TRUE
  /\ recvIndex = 0 /\ recvSize = 0 /\ limit = BufferSize
  /\ stream = <<>> /\ pos = 0 /\ handled = <<>>
  /\ attempt = [tcp |-> FALSE, result |-> FALSE]

Receive == \/ RecvPart \/ RecvHeader \/ RecvOversized
           \/ RecvEmpty \/ RecvPayload \/ RecvZero

Next == \/ PoolSends
        \/ Receive \/ RecvClosed
        \/ ForceDisconnect \/ Reconnect

Spec == Init /\ [][Next]_vars

(* The main thread calls xptClient_process again and again (a call that    *)
(* finds nothing to receive changes nothing), and what the pool has sent   *)
(* arrives while the connection lasts.                                     *)
FairSpec == Spec /\ WF_vars(Receive)

-----------------------------------------------------------------------------
(* Properties *)

TypeOK ==
  /\ fds \subseteq 0 .. MaxFd
  /\ sock \in -1 .. MaxFd
  /\ disconnected \in BOOLEAN
  /\ recvIndex \in Nat
  /\ recvSize \in 0 .. TooLarge - 1
  /\ limit \in Nat
  /\ stream \in Seq(Packets)
  /\ pos \in Nat
  /\ handled \in Seq(Handled)
  /\ attempt \in Attempts

(* "packet buffer is always large enough at this point", as the comment at *)
(* xptClient.cpp:541 says, at the call of recv(): what recv() may still     *)
(* write ends inside the buffer.                                           *)
BufferHoldsPacket ==
  /\ recvIndex <= HeaderSize + recvSize
  /\ HeaderSize + recvSize <= limit

(* A client that counts as connected uses a descriptor that is open and    *)
(* not one of the standard ones, although a refused packet leaves 0 in     *)
(* clientSocket and xptClient_free then closes descriptor 0.               *)
SocketIsOpen ==
  ~disconnected => sock = SOCKET_ERROR \/ sock \in fds \ StdFds

(* Descriptors do not leak, however often the connection is lost, refused  *)
(* or retried: never more than the three standard ones and one socket.     *)
DescriptorsBounded == fds \subseteq 0 .. 3

(* The stream arrives as packets: xptClient_processPacket is given each    *)
(* packet of the pool whole, in order and once, wherever recv() cuts the   *)
(* stream.                                                                 *)
Sent == [n \in DOMAIN stream |->
           [at |-> stream[n].at, size |-> stream[n].size]]
Channel == INSTANCE PacketChannel WITH
             Packets <- Handled, sent <- Sent, got <- handled,
             open <- ~disconnected
WholePackets == Channel!Spec

(* A packet that was sent is handed over or its connection goes down: no   *)
(* header or zero-length payload leaves the receiver waiting for ever, and *)
(* an oversized one brings the connection down.                            *)
PacketsArrive ==
  \A n \in 1 .. MaxPackets :
    Len(stream) >= n ~> Len(handled) >= n \/ disconnected

-----------------------------------------------------------------------------
(* What a comment says, and the code does not do *)

(* "Returns false on error or if already connected" (xptClient.cpp:68): a  *)
(* connection that was established is not reported as failed.              *)
ConnectFalseMeansError == ~attempt.result => ~attempt.tcp
=============================================================================
