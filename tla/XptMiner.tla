------------------------------ MODULE XptMiner ------------------------------
(***************************************************************************)
(* The core of xptMiner: the work-management loop of main.cpp (one main    *)
(* thread), its connection to the pool (xptClient.cpp), and the miner      *)
(* threads that fetch work, mine it and submit shares.                     *)
(*                                                                         *)
(* The threads share                                                       *)
(*   - the client object, under cs_xptClient       (client, queue)         *)
(*   - workDataSource, under cs_work               (work)                  *)
(*   - monitorCurrentBlockHeight, a volatile word  (monHeight)             *)
(*   - uniqueMerkleSeedGenerator, under cs_work    (seedGen)               *)
(* and the miner threads also read workDataSource.algorithm WITHOUT its    *)
(* lock (main.cpp:409).  The third lock of the code, cs_shareSubmit, is    *)
(* only ever taken with cs_xptClient held and never across another         *)
(* acquisition, so the steps that take it are atomic here.                 *)
(*                                                                         *)
(* The pool is the environment: it may answer a login, push work, say      *)
(* nothing, or drop the connection at any moment.  Time (45 s pauses,      *)
(* pings, nTime) is abstracted: a pause is a state the thread may stay in. *)
(***************************************************************************)
EXTENDS Integers, Sequences

CONSTANTS
  Threads,      \* the miner threads
  Main,         \* the thread that runs the work-management loop
  NoOne,        \* the owner of a free lock
  Works,        \* block data the pool may push, named by their merkle root
  NoRoot,       \* the all-zero merkle root of memset(&blockWorkInfo, 0)
  HeightOf,     \* block height of each element of Works
  PoolAlgs,     \* algorithms the pool may assign to the worker's login
  PoolMay,      \* liberties the pool may take: "early" work, pushed before it
                \* has answered the login, and "truncated" packets
  MaxSessions,  \* bound: connections that succeed
  MaxSeed,      \* bound: blocks fetched (uniqueMerkleSeedGenerator)
  MaxShares     \* bound: shares found

(* xptServer.h:122-128, and the value 0 of a freshly allocated client *)
Algorithms == {"SHA256", "SCRYPT", "PRIME", "PROTOSHARES",
               "METISCOIN", "MAXCOIN", "RIECOIN"}
NoAlg == "NONE"

(* The algorithms the login may be configured for (main.cpp:619). *)
Supported == {"PROTOSHARES", "SCRYPT", "METISCOIN", "MAXCOIN", "RIECOIN"}

(* Faulty variant: a default case that also claims to have valid work. *)
MinableByDefault == Algorithms \cup {NoAlg}

(* The cases of the switch that builds a block (main.cpp:289-400). *)
Minable == Algorithms \ {"SHA256"}

(* The miners that compare their block with monitorCurrentBlockHeight. *)
Polling == {"METISCOIN", "MAXCOIN"}

ASSUME ThreadsAssumption ==
  /\ Main \notin Threads
  /\ NoOne \notin Threads \cup {Main}
ASSUME WorksAssumption ==
  /\ NoRoot \notin Works
  /\ HeightOf \in [Works -> Nat \ {0}]
ASSUME PoolAssumption ==
  /\ PoolAlgs \subseteq Algorithms
  /\ PoolMay \subseteq {"early", "truncated"}
ASSUME BoundsAssumption ==
  /\ MaxSessions \in Nat
  /\ MaxSeed \in Nat
  /\ MaxShares \in Nat

VARIABLES
  mainPc,     \* where the main thread is in its loop
  xptLock,    \* owner of cs_xptClient
  workLock,   \* owner of workDataSource.cs_work
  client,     \* *xptClient: session, connection and login state, block data
  queue,      \* client->list_shareSubmitQueue
  work,       \* workDataSource
  monHeight,  \* monitorCurrentBlockHeight
  seedGen,    \* uniqueMerkleSeedGenerator
  pc,         \* where each miner thread is
  block,      \* each thread's local union of block structures
  kind,       \* the process function each thread is running
  hand,       \* number of the share a thread is submitting, 0 if none
  nFound,     \* shares found so far (history)
  wire,       \* shares passed to send(), in order (history)
  offer       \* the last block data completely installed (history)

mainVars   == <<mainPc, client, work, monHeight, wire, offer>>
threadVars == <<pc, block, kind, hand, nFound, seedGen>>
vars == <<mainPc, xptLock, workLock, client, queue, work, monHeight, seedGen,
          pc, block, kind, hand, nFound, wire, offer>>

-----------------------------------------------------------------------------
(* Data *)

Roots    == Works \cup {NoRoot}
Info     == [height : Nat, root : Roots]
NoInfo   == [height |-> 0, root |-> NoRoot]
InfoOf(w) == [height |-> HeightOf[w], root |-> w]

Clients  == [sess : Nat, disconnected : BOOLEAN, loggedIn : BOOLEAN,
             alg : Algorithms \cup {NoAlg}, info : Info]

(* workDataSource, and its content once installed (sess is history). *)
WorkData == [alg : Algorithms \cup {NoAlg}, height : Nat, root : Roots,
             sess : Nat]
Offers   == [alg : Algorithms \cup {NoAlg}, height : Nat, root : Roots]

Blocks   == [alg : Algorithms \cup {NoAlg}, height : Nat, root : Roots,
             sess : Nat, seed : Nat]
NoBlock  == [alg |-> NoAlg, height |-> 0, root |-> NoRoot,
             sess |-> 0, seed |-> 0]
(* A queued share; on, the session it was queued for, is history. *)
Shares   == [id : Nat, kind : Algorithms \cup {NoAlg}, block : Blocks,
             on : Nat]

MainPcs  == {"loop", "recv", "check", "lost", "lostPublish",
             "get", "copy", "publish"}
Pcs      == {"idle", "fetch", "dispatch", "mine", "batch", "submit", "queue"}

(* The program counters at which a thread runs a process function. *)
MiningPcs == {"mine", "batch", "submit", "queue"}

(* The main thread is inside cs_xptClient, inside cs_work. *)
MainInXpt  == MainPcs \ {"loop"}
MainInWork == {"lostPublish", "copy"}

-----------------------------------------------------------------------------
(* The main thread: xptMiner_xptQueryWorkLoop *)

(* Faulty variant: the memset of xptClient_create is missing. *)
FreshClientUninitialised(s) ==
  [sess |-> s, disconnected |-> TRUE, loggedIn |-> FALSE,
   alg |-> "UNINITIALISED", info |-> NoInfo]

(* xptClient_create: a client object that is not connected yet. *)
FreshClient(s) == [sess |-> s, disconnected |-> TRUE, loggedIn |-> FALSE,
                   alg |-> NoAlg, info |-> NoInfo]

(* Faulty variant: objectCount is not reset after the shares were sent. *)
DrainKeepingQueue ==
  /\ wire' = wire \o [i \in DOMAIN queue |->
                        [share |-> queue[i], sess |-> client.sess]]
  /\ UNCHANGED queue

(* Faulty variant: the loop over the queue starts at its second share. *)
DrainFromSecond ==
  /\ wire' = wire \o [i \in 1 .. Len(queue) - 1 |->
                        [share |-> queue[i + 1], sess |-> client.sess]]
  /\ queue' = <<>>

(* Faulty variant: the loop over the queue runs backwards. *)
DrainBackwards ==
  /\ wire' = wire \o [i \in DOMAIN queue |->
                        [share |-> queue[Len(queue) + 1 - i], sess |-> client.sess]]
  /\ queue' = <<>>

(* xptClient_process drains the whole queue under cs_shareSubmit: each     *)
(* share is sent, freed, and the list emptied.  send() results are ignored.*)
Drain ==
  /\ wire' = wire \o [i \in DOMAIN queue |->
                        [share |-> queue[i], sess |-> client.sess]]
  /\ queue' = <<>>

(* Connected: enter cs_xptClient and start xptClient_process. *)
MainEnter ==
  /\ mainPc = "loop"
  /\ ~client.disconnected
  /\ xptLock = NoOne
  /\ xptLock' = Main
  /\ Drain
  /\ mainPc' = "recv"
  /\ UNCHANGED <<workLock, client, work, monHeight, offer>>
  /\ UNCHANGED threadVars

(* The rest of xptClient_process: what one recv() brings. *)
Received(c) ==
  /\ mainPc = "recv"
  /\ client' = c
  /\ mainPc' = "check"
  /\ UNCHANGED <<xptLock, workLock, queue, work, monHeight, wire, offer>>
  /\ UNCHANGED threadVars

(* Nothing yet, part of a packet, a packet too large, or a packet that     *)
(* changes neither the login nor the block data (message, ping, share ack, *)
(* unknown opcode).                                                        *)
RecvNothing == Received(client)

(* The answer to the login that xptClient_connect sent, once a session.    *)
(* The read of the algorithm byte is not checked: 0 if the packet ends     *)
(* before it.                                                              *)
RecvAuthAck ==
  \E a \in PoolAlgs \cup (IF "truncated" \in PoolMay THEN {NoAlg} ELSE {}) :
    /\ ~client.loggedIn
    /\ Received([client EXCEPT !.loggedIn = TRUE, !.alg = a])

MayPushWork == client.loggedIn \/ "early" \in PoolMay

RecvWork ==
  \E w \in Works :
    /\ MayPushWork
    /\ Received([client EXCEPT !.info = InfoOf(w)])

(* Work data cut short before their merkle root.  No read error is looked  *)
(* at: an integer past the end reads as 0, the root keeps its old value.   *)
RecvTruncatedWork ==
  \E w \in Works : \E h \in {0, HeightOf[w]} :
    /\ MayPushWork
    /\ "truncated" \in PoolMay
    /\ Received([client EXCEPT !.info.height = h])

(* Orderly close, socket error, login refused or a malformed packet. *)
RecvClosed == Received([client EXCEPT !.disconnected = TRUE])

(* Faulty variant: primecoin is let through. *)
UnsupportedButPrime ==
  client.loggedIn /\ client.alg \notin Supported \cup {"PRIME"}

(* The login names an algorithm this miner does not have: disconnect. *)
Unsupported == client.loggedIn /\ client.alg \notin Supported

(* The client's block data are not the ones being mined. *)
NewBlockData == \/ client.info.height # work.height
                \/ client.info.root # work.root

MainCheck(next) ==
  /\ mainPc = "check"
  /\ mainPc' = next
  /\ UNCHANGED <<workLock, queue, work, monHeight, wire, offer>>
  /\ UNCHANGED threadVars

CheckLost ==
  /\ client.disconnected
  /\ MainCheck("lost")
  /\ UNCHANGED <<xptLock, client>>

(* Faulty variant: the pause is entered with cs_xptClient held. *)
CheckUnsupportedKeepingLock ==
  /\ ~client.disconnected
  /\ Unsupported
  /\ MainCheck("loop")
  /\ client' = [client EXCEPT !.disconnected = TRUE]
  /\ UNCHANGED xptLock

(* xptClient_forceDisconnect on a connected client; cs_xptClient is left   *)
(* before the pause.  The work is not marked as invalid on this path.      *)
CheckUnsupported ==
  /\ ~client.disconnected
  /\ Unsupported
  /\ MainCheck("loop")
  /\ client' = [client EXCEPT !.disconnected = TRUE]
  /\ xptLock' = NoOne

CheckNewWork ==
  /\ ~client.disconnected
  /\ ~Unsupported
  /\ NewBlockData
  /\ MainCheck("get")
  /\ UNCHANGED <<xptLock, client>>

CheckSameWork ==
  /\ ~client.disconnected
  /\ ~Unsupported
  /\ ~NewBlockData
  /\ MainCheck("loop")
  /\ xptLock' = NoOne
  /\ UNCHANGED client

(* Faulty variant: only the polled height is reset, not the work. *)
MainLostKeepingWork ==
  /\ mainPc = "lost"
  /\ workLock = NoOne
  /\ workLock' = Main
  /\ mainPc' = "lostPublish"
  /\ UNCHANGED <<xptLock, client, queue, work, monHeight, wire, offer>>
  /\ UNCHANGED threadVars

(* Faulty variant: only the work is reset, not the polled height. *)
MainLostKeepingMonitor ==
  /\ mainPc = "lostPublish"
  /\ offer' = [offer EXCEPT !.height = 0]
  /\ workLock' = NoOne
  /\ xptLock' = NoOne
  /\ mainPc' = "loop"
  /\ UNCHANGED <<client, queue, work, monHeight, wire>>
  /\ UNCHANGED threadVars

(* Connection lost: mark work as invalid under cs_work.  The following     *)
(* xptClient_forceDisconnect returns at once, the client being             *)
(* disconnected already.                                                   *)
MainLost ==
  /\ mainPc = "lost"
  /\ workLock = NoOne
  /\ workLock' = Main
  /\ work' = [work EXCEPT !.height = 0]
  /\ mainPc' = "lostPublish"
  /\ UNCHANGED <<xptLock, client, queue, monHeight, wire, offer>>
  /\ UNCHANGED threadVars

MainLostPublish ==
  /\ mainPc = "lostPublish"
  /\ monHeight' = 0
  /\ offer' = [offer EXCEPT !.height = 0]
  /\ workLock' = NoOne
  /\ xptLock' = NoOne
  /\ mainPc' = "loop"
  /\ UNCHANGED <<client, queue, work, wire>>
  /\ UNCHANGED threadVars

(* Faulty variants: the update starts without entering cs_work; the        *)
(* algorithm is not copied.                                                *)
MainGetUnlocked ==
  /\ mainPc = "get"
  /\ work' = [work EXCEPT !.alg = client.alg]
  /\ mainPc' = "copy"
  /\ UNCHANGED <<xptLock, workLock, client, queue, monHeight, wire, offer>>
  /\ UNCHANGED threadVars
MainGetNoAlgorithm ==
  /\ mainPc = "get"
  /\ workLock = NoOne
  /\ workLock' = Main
  /\ mainPc' = "copy"
  /\ UNCHANGED <<xptLock, client, queue, work, monHeight, wire, offer>>
  /\ UNCHANGED threadVars

(* Faulty variant: the height, written last, is forgotten. *)
MainCopyNoHeight ==
  /\ mainPc = "copy"
  /\ work' = [work EXCEPT !.root = client.info.root, !.sess = client.sess]
  /\ offer' = [alg |-> client.alg, height |-> client.info.height,
               root |-> client.info.root]
  /\ workLock' = NoOne
  /\ mainPc' = "publish"
  /\ UNCHANGED <<xptLock, client, queue, monHeight, wire>>
  /\ UNCHANGED threadVars

(* xptMiner_getWorkFromXPTConnection: enter cs_work, write the algorithm   *)
(* first and the height last, leave cs_work, then publish the height.      *)
MainGet ==
  /\ mainPc = "get"
  /\ workLock = NoOne
  /\ workLock' = Main
  /\ work' = [work EXCEPT !.alg = client.alg]
  /\ mainPc' = "copy"
  /\ UNCHANGED <<xptLock, client, queue, monHeight, wire, offer>>
  /\ UNCHANGED threadVars

MainCopy ==
  /\ mainPc = "copy"
  /\ work' = [work EXCEPT !.root = client.info.root,
                          !.height = client.info.height,
                          !.sess = client.sess]
  /\ offer' = [alg |-> client.alg, height |-> client.info.height,
               root |-> client.info.root]
  /\ workLock' = NoOne
  /\ mainPc' = "publish"
  /\ UNCHANGED <<xptLock, client, queue, monHeight, wire>>
  /\ UNCHANGED threadVars

MainPublish ==
  /\ mainPc = "publish"
  /\ monHeight' = work.height
  /\ xptLock' = NoOne
  /\ mainPc' = "loop"
  /\ UNCHANGED <<workLock, client, queue, work, wire, offer>>
  /\ UNCHANGED threadVars

(* Disconnected: free the client (and the list, not the shares in it),     *)
(* make a new one and connect it.                                          *)
MainReconnect ==
  /\ mainPc = "loop"
  /\ client.disconnected
  /\ xptLock = NoOne
  /\ queue' = <<>>
  /\ \/ client' = FreshClient(client.sess)
     \/ /\ client.sess < MaxSessions
        /\ client' = [FreshClient(client.sess + 1) EXCEPT
                        !.disconnected = FALSE]
  /\ UNCHANGED <<mainPc, xptLock, workLock, work, monHeight, wire, offer>>
  /\ UNCHANGED threadVars

Recv == \/ RecvNothing \/ RecvAuthAck
        \/ RecvWork \/ RecvTruncatedWork \/ RecvClosed

Check == CheckLost \/ CheckUnsupported \/ CheckNewWork \/ CheckSameWork

MainNext ==
  \/ MainEnter \/ Recv \/ Check
  \/ MainLost \/ MainLostPublish
  \/ MainGet \/ MainCopy \/ MainPublish
  \/ MainReconnect

-----------------------------------------------------------------------------
(* The miner threads: xptMiner_minerThread and the process functions *)

Goto(t, next) == pc' = [pc EXCEPT ![t] = next]

FetchEnter(t) ==
  /\ pc[t] = "idle"
  /\ workLock = NoOne
  /\ workLock' = t
  /\ Goto(t, "fetch")
  /\ UNCHANGED <<xptLock, queue, block, kind, hand, nFound, seedGen>>
  /\ UNCHANGED mainVars

(* Faulty variant: uniqueMerkleSeedGenerator++ is forgotten in one case. *)
FetchSameSeed(t) ==
  /\ pc[t] = "fetch"
  /\ work.height > 0
  /\ work.alg \in Minable
  /\ seedGen < MaxSeed
  /\ block' = [block EXCEPT ![t] =
                 [alg |-> work.alg, height |-> work.height,
                  root |-> work.root, sess |-> work.sess, seed |-> seedGen]]
  /\ workLock' = NoOne
  /\ Goto(t, "dispatch")
  /\ UNCHANGED <<xptLock, queue, kind, hand, nFound, seedGen>>
  /\ UNCHANGED mainVars

(* Build a local block with a merkle seed of its own. *)
Fetch(t) ==
  /\ pc[t] = "fetch"
  /\ work.height > 0
  /\ work.alg \in Minable
  /\ seedGen < MaxSeed
  /\ block' = [block EXCEPT ![t] =
                 [alg |-> work.alg, height |-> work.height,
                  root |-> work.root, sess |-> work.sess, seed |-> seedGen]]
  /\ seedGen' = seedGen + 1
  /\ workLock' = NoOne
  /\ Goto(t, "dispatch")
  /\ UNCHANGED <<xptLock, queue, kind, hand, nFound>>
  /\ UNCHANGED mainVars

(* No valid work (or the bound on fetches reached): leave and sleep. *)
FetchNothing(t) ==
  /\ pc[t] = "fetch"
  /\ work.height = 0 \/ work.alg \notin Minable \/ seedGen >= MaxSeed
  /\ workLock' = NoOne
  /\ Goto(t, "idle")
  /\ UNCHANGED <<xptLock, queue, block, kind, hand, nFound, seedGen>>
  /\ UNCHANGED mainVars

(* A thread forgets its block: the next fetch overwrites the union. *)
Abandon(t) ==
  /\ Goto(t, "idle")
  /\ block' = [block EXCEPT ![t] = NoBlock]
  /\ kind' = [kind EXCEPT ![t] = NoAlg]

(* The process function is chosen by workDataSource.algorithm, read again, *)
(* once per comparison, after cs_work was left.  When the algorithm changed *)
(* since the fetch the comparisons may have seen different ones, so that   *)
(* none holds: "Unknown algorithm", the block is not mined.                *)
Dispatch(t) ==
  /\ pc[t] = "dispatch"
  /\ \/ /\ work.alg \in Minable
        /\ kind' = [kind EXCEPT ![t] = work.alg]
        /\ Goto(t, "mine")
        /\ UNCHANGED block
     \/ /\ work.alg \notin Minable \/ work.alg # block[t].alg
        /\ Abandon(t)
  /\ UNCHANGED <<xptLock, workLock, queue, hand, nFound, seedGen>>
  /\ UNCHANGED mainVars

(* The height a process function reads from the union.  The protoshares    *)
(* and riecoin blocks have another layout: at the offset of the others'    *)
(* height they hold birthdayB and nOffset, both still zero.                *)
SameLayout == {"SCRYPT", "PRIME", "METISCOIN", "MAXCOIN"}
HeightRead(t) ==
  IF kind[t] = block[t].alg \/ {kind[t], block[t].alg} \subseteq SameLayout
  THEN block[t].height
  ELSE 0

(* Faulty variant: the check is commented out, as in scryptMinerCPU.cpp. *)
ContinueUnchecked(t) ==
  /\ pc[t] = "mine"
  /\ Goto(t, "batch")
  /\ UNCHANGED <<xptLock, workLock, queue, block, kind, hand, nFound, seedGen>>
  /\ UNCHANGED mainVars

(* Head of the outer nonce loop: the polling miners give up when the       *)
(* published height is not their block's.                                  *)
Continue(t) ==
  /\ pc[t] = "mine"
  /\ kind[t] \in Polling => HeightRead(t) = monHeight
  /\ Goto(t, "batch")
  /\ UNCHANGED <<xptLock, workLock, queue, block, kind, hand, nFound, seedGen>>
  /\ UNCHANGED mainVars

GiveUp(t) ==
  /\ pc[t] = "mine"
  /\ kind[t] \in Polling
  /\ HeightRead(t) # monHeight
  /\ Abandon(t)
  /\ UNCHANGED <<xptLock, workLock, queue, hand, nFound, seedGen>>
  /\ UNCHANGED mainVars

(* The nonce range (or the single pass) is exhausted. *)
Exhausted(t) ==
  /\ pc[t] = "mine"
  /\ Abandon(t)
  /\ UNCHANGED <<xptLock, workLock, queue, hand, nFound, seedGen>>
  /\ UNCHANGED mainVars

(* One batch of nonces ends without a (further) share. *)
EndBatch(t) ==
  /\ pc[t] = "batch"
  /\ Goto(t, "mine")
  /\ UNCHANGED <<xptLock, workLock, queue, block, kind, hand, nFound, seedGen>>
  /\ UNCHANGED mainVars

(* A nonce meets the share target. *)
FindShare(t) ==
  /\ pc[t] = "batch"
  /\ nFound < MaxShares
  /\ nFound' = nFound + 1
  /\ hand' = [hand EXCEPT ![t] = nFound + 1]
  /\ Goto(t, "submit")
  /\ UNCHANGED <<xptLock, workLock, queue, block, kind, seedGen>>
  /\ UNCHANGED mainVars

(* xptMiner_submitShare: enter cs_xptClient ... *)
SubmitEnter(t) ==
  /\ pc[t] = "submit"
  /\ xptLock = NoOne
  /\ xptLock' = t
  /\ Goto(t, "queue")
  /\ UNCHANGED <<workLock, queue, block, kind, hand, nFound, seedGen>>
  /\ UNCHANGED mainVars

(* Faulty variant: the share is queued whether connected or not. *)
SubmitUnchecked(t) ==
  /\ pc[t] = "queue"
  /\ queue' = Append(queue, [id |-> hand[t], kind |-> kind[t],
                             block |-> block[t], on |-> client.sess])
  /\ xptLock' = NoOne
  /\ hand' = [hand EXCEPT ![t] = 0]
  /\ Goto(t, "batch")
  /\ UNCHANGED <<workLock, block, kind, nFound, seedGen>>
  /\ UNCHANGED mainVars

(* ... and queue a copy of the share, or drop it when not connected. *)
Submit(t) ==
  /\ pc[t] = "queue"
  /\ queue' = IF client.disconnected
              THEN queue
              ELSE Append(queue, [id |-> hand[t], kind |-> kind[t],
                                  block |-> block[t], on |-> client.sess])
  /\ xptLock' = NoOne
  /\ hand' = [hand EXCEPT ![t] = 0]
  /\ Goto(t, "batch")
  /\ UNCHANGED <<workLock, block, kind, nFound, seedGen>>
  /\ UNCHANGED mainVars

MinerNext(t) ==
  \/ FetchEnter(t) \/ Fetch(t) \/ FetchNothing(t) \/ Dispatch(t)
  \/ Continue(t) \/ GiveUp(t) \/ Exhausted(t)
  \/ EndBatch(t) \/ FindShare(t)
  \/ SubmitEnter(t) \/ Submit(t)

-----------------------------------------------------------------------------
Init ==
  /\ mainPc = "loop"
  /\ xptLock = NoOne
  /\ workLock = NoOne
  /\ client = FreshClient(0)
  /\ queue = <<>>
  /\ work = [alg |-> NoAlg, height |-> 0, root |-> NoRoot, sess |-> 0]
  /\ monHeight = 0
  /\ seedGen = 0
  /\ pc = [t \in Threads |-> "idle"]
  /\ block = [t \in Threads |-> NoBlock]
  /\ kind = [t \in Threads |-> NoAlg]
  /\ hand = [t \in Threads |-> 0]
  /\ nFound = 0
  /\ wire = <<>>
  /\ offer = [alg |-> NoAlg, height |-> 0, root |-> NoRoot]

Next == MainNext \/ \E t \in Threads : MinerNext(t)

Spec == Init /\ [][Next]_vars

(* The operating system runs every thread; the locks are not fair queues,  *)
(* but both loops sleep outside them, so a thread that can enter again and *)
(* again finally does.                                                     *)
Fairness ==
  /\ WF_vars(MainNext)
  /\ SF_vars(MainEnter) /\ SF_vars(MainReconnect)
  /\ SF_vars(MainLost) /\ SF_vars(MainGet)
  /\ \A t \in Threads :
       /\ WF_vars(MinerNext(t))
       /\ SF_vars(FetchEnter(t))
       /\ SF_vars(SubmitEnter(t))

FairSpec == Spec /\ Fairness

-----------------------------------------------------------------------------
(* Properties *)

TypeOK ==
  /\ mainPc \in MainPcs
  /\ xptLock \in Threads \cup {Main, NoOne}
  /\ workLock \in Threads \cup {Main, NoOne}
  /\ client \in Clients
  /\ queue \in Seq(Shares)
  /\ work \in WorkData
  /\ monHeight \in Nat
  /\ seedGen \in Nat
  /\ pc \in [Threads -> Pcs]
  /\ block \in [Threads -> Blocks]
  /\ kind \in [Threads -> Algorithms \cup {NoAlg}]
  /\ hand \in [Threads -> Nat]
  /\ nFound \in Nat
  /\ wire \in Seq([share : Shares, sess : Nat])
  /\ offer \in Offers

(* Every critical section is entered and left by its owner: the lock's     *)
(* owner is exactly the thread whose program counter is inside.  An early  *)
(* return that forgets LeaveCriticalSection breaks it.                     *)
LocksMatchCode ==
  /\ (xptLock = Main) <=> (mainPc \in MainInXpt)
  /\ (workLock = Main) <=> (mainPc \in MainInWork)
  /\ \A t \in Threads : /\ (xptLock = t) <=> (pc[t] = "queue")
                        /\ (workLock = t) <=> (pc[t] = "fetch")

(* Outside the two windows between the store to workDataSource.height and  *)
(* the store to monitorCurrentBlockHeight, the height the miners poll is   *)
(* the height of the work they would fetch: whichever path the loop takes  *)
(* (new work, same work, connection lost, unsupported login, reconnection) *)
(* no update of one is missed by the other.                                *)
MonitorAgrees ==
  mainPc \notin {"lostPublish", "publish"} => monHeight = work.height

(* While nobody is updating it, workDataSource holds what one update       *)
(* installed as a whole, never the algorithm of one and the block of       *)
(* another.                                                                *)
WorkIsWhole ==
  mainPc \notin {"lostPublish", "copy"} =>
    offer = [alg |-> work.alg, height |-> work.height, root |-> work.root]

(* A block built by a miner thread has the algorithm, height and merkle    *)
(* root of one and the same update, although the main thread writes them   *)
(* one after the other ("set blockheight last", main.cpp:501).             *)
FetchWholeOffer ==
  [][\A t \in Threads :
       pc[t] = "fetch" /\ pc'[t] = "dispatch" =>
         /\ block'[t].alg = offer.alg
         /\ block'[t].height = offer.height
         /\ block'[t].root = offer.root]_vars

(* Nobody can fetch work while the client has no logged-in session, even   *)
(* though the unsupported-login path and a fresh connection both leave     *)
(* workDataSource.height alone.                                            *)
NothingMinableWhileDown ==
  mainPc = "loop" /\ (client.disconnected \/ ~client.loggedIn) =>
    work.height = 0 \/ work.alg \notin Minable

(* The algorithms main.cpp:619 rejects never reach a miner thread: the     *)
(* primecoin case of the thread's switches is dead.                        *)
OnlySupportedMined ==
  /\ work.alg \in Supported \cup {NoAlg}
  /\ \A t \in Threads : /\ block[t].alg \in Supported \cup {NoAlg}
                        /\ kind[t] \in Supported \cup {NoAlg}

HasBlock(t) == pc[t] = "dispatch" \/ pc[t] \in MiningPcs
Held == {t \in Threads : HasBlock(t)}
ShareBlocks == {queue[i].block : i \in DOMAIN queue} \cup
               {wire[i].share.block : i \in DOMAIN wire}

(* No two threads search the same block: the merkle seed drawn under       *)
(* cs_work is different for every block, across threads, refetches and     *)
(* reconnections, and a share with some block's seed is a share of it.     *)
SeedIdentifiesBlock ==
  /\ \A t, u \in Held : t # u => block[t].seed # block[u].seed
  /\ \A t \in Held, b \in ShareBlocks : b.seed = block[t].seed => b = block[t]
  /\ \A b, c \in ShareBlocks : b.seed = c.seed => b = c

(* The process function started on a block is the one for the block's      *)
(* algorithm, unless the connection was replaced between the fetch and the *)
(* second, unlocked read of workDataSource.algorithm.                      *)
MisdispatchOnlyAcrossReconnect ==
  \A t \in Threads :
    pc[t] \in MiningPcs /\ kind[t] # block[t].alg => block[t].sess < client.sess

(* A share is in one place only: being submitted, queued, or sent once.    *)
ShareInOnePlace ==
  /\ \A t, u \in Threads : t # u /\ hand[t] # 0 => hand[t] # hand[u]
  /\ \A i, j \in DOMAIN queue : i # j => queue[i].id # queue[j].id
  /\ \A i, j \in DOMAIN wire : i # j => wire[i].share.id # wire[j].share.id
  /\ \A i \in DOMAIN queue, j \in DOMAIN wire :
       queue[i].id # wire[j].share.id
  /\ \A t \in Threads :
       /\ \A i \in DOMAIN queue : queue[i].id # hand[t]
       /\ \A i \in DOMAIN wire : wire[i].share.id # hand[t]

(* A queued share leaves on the connection it was queued for.  None is     *)
(* lost (and leaked) with its client either: the client never stands       *)
(* disconnected with shares in its queue, because nobody can queue one     *)
(* between the drain and the recv() that finds the connection closed.      *)
SharesStayOnSession ==
  /\ client.disconnected => queue = <<>>
  /\ \A i \in DOMAIN queue : queue[i].on = client.sess
  /\ \A i \in DOMAIN wire : wire[i].sess = wire[i].share.on

Atomic == INSTANCE AtomicMiner
  WITH Usable <- Supported,
       session <- client.sess,
       connected <- ~client.disconnected,
       work <- [alg |-> offer.alg, height |-> offer.height,
                root |-> offer.root, sess |-> work.sess],
       seeds <- seedGen, found <- nFound, sent <- wire

(* With its three locks, the unlocked reads and a loop that may be         *)
(* anywhere, the miner does what AtomicMiner promises in single steps:     *)
(* blocks are whole updates of their session with seeds of their own, and  *)
(* the shares of a connection leave in the order they were queued, none of *)
(* them lost, repeated or sent on another connection.                      *)
MinesAsIfAtomic == Atomic!Spec

(* The client object as the packets leave it. *)
Packets == INSTANCE ClientSession
  WITH Updates <- {InfoOf(w) : w \in Works}, Assignable <- PoolAlgs,
       NoUpdate <- NoInfo,
       disconnected <- client.disconnected, loggedIn <- client.loggedIn,
       alg <- client.alg, info <- client.info

-----------------------------------------------------------------------------
(* Strengthenings that make the invariants above inductive *)

(* What MonitorAgrees and WorkIsWhole rest on inside the update windows.   *)
WorkInv ==
  /\ MonitorAgrees
  /\ WorkIsWhole
  /\ mainPc = "lostPublish" => /\ work.height = 0
                               /\ offer.alg = work.alg
                               /\ offer.root = work.root
  /\ mainPc = "copy" => work.alg = client.alg

(* Why no queued share is lost: from the drain to the end of the iteration *)
(* the queue stays empty.                                                  *)
DrainedInv == mainPc # "loop" \/ client.disconnected => queue = <<>>

MinableWork == work.height > 0 /\ work.alg \in Minable

(* Why nothing is minable while down: a session that is not logged in has  *)
(* no algorithm and inherits nothing minable, and every way out of a       *)
(* logged-in session either resets the height or was never minable.        *)
SessionInv ==
  /\ ~client.loggedIn => ~MinableWork /\ client.alg = NoAlg
  /\ client.disconnected => mainPc \in {"loop", "check", "lost", "lostPublish"}
  /\ client.disconnected /\ mainPc \in {"loop", "lostPublish"} => ~MinableWork
  /\ Unsupported => \/ client.disconnected
                    \/ mainPc = "check" /\ ~MinableWork
  /\ work.alg \in Supported \cup {NoAlg}

-----------------------------------------------------------------------------
(* Liveness, under FairSpec *)

(* A polling miner whose block is no longer of the published height stops  *)
(* working on it, without waiting for its nonce range to be exhausted      *)
(* (unless the height comes back first, or the block is not one of its     *)
(* algorithm's).                                                           *)
StaleWorkAbandoned ==
  \A t \in Threads :
    (/\ pc[t] \in MiningPcs
     /\ kind[t] \in Polling
     /\ kind[t] = block[t].alg
     /\ block[t].height # monHeight)
      ~> (pc[t] = "idle" \/ block[t].height = monHeight)

(* Every queued share is finally passed to send(). *)
QueuedShareSent ==
  \A n \in 1 .. MaxShares :
    (\E i \in DOMAIN queue : queue[i].id = n)
      ~> (\E i \in DOMAIN wire : wire[i].share.id = n)

(* Block data received in a session whose login is accepted end up as work *)
(* the miner threads can fetch, or the connection goes down.               *)
WorkBecomesMinable ==
  (/\ ~client.disconnected
   /\ client.loggedIn
   /\ client.alg \in Supported
   /\ client.info.height > 0)
    ~> \/ client.disconnected
       \/ work.alg \in Supported /\ work.height > 0

-----------------------------------------------------------------------------
(* What comments and messages of the code suggest, and the code does not do *)

(* "mark work as invalid" (main.cpp:604): work of a lost connection is not *)
(* submitted on a later one.                                               *)
InvalidatedWorkNotSubmitted ==
  \A i \in DOMAIN wire : wire[i].share.block.sess = wire[i].sess

(* "used to notify worker threads of new block data" (main.cpp:17): once   *)
(* other block data are installed and published, a polling miner does not  *)
(* begin another batch of nonces on the old ones.                          *)
NewBlockDataNotified ==
  [][\A t \in Threads :
       /\ pc[t] = "mine" /\ pc'[t] = "batch"
       /\ kind[t] \in Polling
       /\ mainPc = "loop"
       => block[t].root = work.root]_vars
=============================================================================
