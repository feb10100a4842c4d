--------------------------- MODULE XptMinerProofs ---------------------------
(***************************************************************************)
(* Proofs about the work-management core, its sessions, merkle seeds and   *)
(* shares, for every set of threads, every set of block data and every     *)
(* value of the bounds.                                                    *)
(***************************************************************************)
EXTENDS XptMiner, SequenceTheorems, TLAPS

USE DEF mainVars, threadVars

(* Values that are not defined by their type alone. *)
LEMMA FreshClientType ==
  ASSUME NEW s \in Nat
  PROVE  FreshClient(s) \in Clients
BY DEF FreshClient, Clients, NoInfo, Info, Roots

LEMMA InfoOfType ==
  ASSUME NEW w \in Works
  PROVE  InfoOf(w) \in Info
BY WorksAssumption DEF InfoOf, Info, Roots

LEMMA NoBlockType == NoBlock \in Blocks
BY DEF NoBlock, Blocks, Roots

(* Draining appends to the wire one entry per queued share, in order. *)
LEMMA DrainType ==
  ASSUME queue \in Seq(Shares), client \in Clients,
         wire \in Seq([share : Shares, sess : Nat]), Drain
  PROVE  /\ wire' \in Seq([share : Shares, sess : Nat])
         /\ queue' \in Seq(Shares)
<1> DEFINE sent == [i \in DOMAIN queue |->
                      [share |-> queue[i], sess |-> client.sess]]
           E == [share : Shares, sess : Nat]
<1>1. DOMAIN queue = 1 .. Len(queue) /\ Len(queue) \in Nat
  BY LenProperties
<1>2. \A i \in 1 .. Len(queue) : sent[i] \in E
  BY <1>1, ElementOfSeq DEF Clients
<1>3. sent \in Seq(E)
  <2>1. sent \in [1 .. Len(queue) -> E]
    BY <1>1, <1>2
  <2> QED
    BY <1>1, <2>1, SeqDef
<1>4. wire \o sent \in Seq(E)
  <2> HIDE DEF sent, E
  <2>1. wire \in Seq(E)
    BY DEF E
  <2> QED
    BY <1>3, <2>1, ConcatProperties
<1>5. wire' = wire \o sent /\ queue' = <<>>
  BY DEF Drain
<1> QED
  BY <1>4, <1>5, EmptySeq

-----------------------------------------------------------------------------
(* Type correctness *)

LEMMA InitType == Init => TypeOK
<1> SUFFICES ASSUME Init PROVE TypeOK
  OBVIOUS
<1>1. client \in Clients
  BY FreshClientType DEF Init
<1>2. work \in WorkData /\ offer \in Offers
  BY DEF Init, WorkData, Offers, Roots
<1>3. queue \in Seq(Shares) /\ wire \in Seq([share : Shares, sess : Nat])
  BY EmptySeq DEF Init
<1>4. block \in [Threads -> Blocks]
  BY NoBlockType DEF Init
<1> QED
  BY <1>1, <1>2, <1>3, <1>4 DEF Init, TypeOK, MainPcs, Pcs

LEMMA MainType ==
  ASSUME TypeOK, MainNext
  PROVE  TypeOK'
<1> USE DEF TypeOK
<1>1. CASE MainEnter
  BY <1>1, DrainType DEF MainEnter, MainPcs
<1>2. CASE Recv
  <2>1. client' \in Clients
    <3>1. CASE RecvNothing
      BY <3>1 DEF RecvNothing, Received
    <3>2. CASE RecvAuthAck
      BY <3>2, PoolAssumption, ZenonT(60) DEF RecvAuthAck, Received, Clients
    <3>3. CASE RecvWork
      BY <3>3, InfoOfType DEF RecvWork, Received, Clients
    <3>4. CASE RecvTruncatedWork
      <4>1. PICK w \in Works : \E n \in {0, HeightOf[w]} :
              client' = [client EXCEPT !.info.height = n]
        BY <3>4 DEF RecvTruncatedWork, Received
      <4>2. PICK h \in Nat : client' = [client EXCEPT !.info.height = h]
        BY <4>1, WorksAssumption
      <4>3. client.info \in Info
        BY DEF Clients
      <4>4. [client.info EXCEPT !.height = h] \in Info
        BY <4>3 DEF Info
      <4>5. client' = [client EXCEPT !.info = [client.info EXCEPT !.height = h]]
        BY <4>2
      <4> QED
        BY <4>4, <4>5 DEF Clients
    <3>5. CASE RecvClosed
      BY <3>5 DEF RecvClosed, Received, Clients
    <3> QED
      BY <1>2, <3>1, <3>2, <3>3, <3>4, <3>5 DEF Recv
  <2>2. mainPc' = "check"
    BY <1>2 DEF Recv, RecvNothing, RecvAuthAck, RecvWork, RecvTruncatedWork,
                RecvClosed, Received
  <2>3. UNCHANGED <<xptLock, workLock, queue, work, monHeight, wire, offer>>
    BY <1>2 DEF Recv, RecvNothing, RecvAuthAck, RecvWork, RecvTruncatedWork,
                RecvClosed, Received
  <2>4. UNCHANGED threadVars
    BY <1>2 DEF Recv, RecvNothing, RecvAuthAck, RecvWork, RecvTruncatedWork,
                RecvClosed, Received
  <2> QED
    BY <2>1, <2>2, <2>3, <2>4 DEF MainPcs
<1>3. CASE Check
  BY <1>3 DEF Check, CheckLost, CheckUnsupported, CheckNewWork, CheckSameWork,
              MainCheck, MainPcs, Clients
<1>4. CASE MainLost
  BY <1>4 DEF MainLost, MainPcs, WorkData
<1>5. CASE MainLostPublish
  BY <1>5 DEF MainLostPublish, MainPcs, Offers
<1>6. CASE MainGet
  BY <1>6 DEF MainGet, MainPcs, WorkData, Clients
<1>7. CASE MainCopy
  BY <1>7 DEF MainCopy, MainPcs, WorkData, Offers, Clients, Info
<1>8. CASE MainPublish
  BY <1>8 DEF MainPublish, MainPcs, WorkData
<1>9. CASE MainReconnect
  <2>1. client.sess \in Nat /\ client.sess + 1 \in Nat
    BY DEF Clients
  <2>2. client' \in Clients
    BY <1>9, <2>1, FreshClientType DEF MainReconnect, Clients
  <2> QED
    BY <1>9, <2>2, EmptySeq DEF MainReconnect
<1> QED
  BY <1>1, <1>2, <1>3, <1>4, <1>5, <1>6, <1>7, <1>8, <1>9 DEF MainNext

LEMMA MinerType ==
  ASSUME TypeOK, NEW t \in Threads, MinerNext(t)
  PROVE  TypeOK'
<1> USE DEF TypeOK, Goto
<1>1. CASE FetchEnter(t)
  BY <1>1 DEF FetchEnter, Pcs
<1>2. CASE Fetch(t)
  <2>1. block'[t] \in Blocks
    BY <1>2 DEF Fetch, Blocks, WorkData
  <2>2. block' \in [Threads -> Blocks]
    BY <1>2, <2>1 DEF Fetch
  <2> QED
    BY <1>2, <2>2 DEF Fetch, Pcs
<1>3. CASE FetchNothing(t)
  BY <1>3 DEF FetchNothing, Pcs
<1>4. CASE Dispatch(t)
  BY <1>4, NoBlockType, ZenonT(60) DEF Dispatch, Abandon, Pcs, WorkData
<1>5. CASE Continue(t)
  BY <1>5 DEF Continue, Pcs
<1>6. CASE GiveUp(t)
  BY <1>6, NoBlockType DEF GiveUp, Abandon, Pcs
<1>7. CASE Exhausted(t)
  BY <1>7, NoBlockType DEF Exhausted, Abandon, Pcs
<1>8. CASE EndBatch(t)
  BY <1>8 DEF EndBatch, Pcs
<1>9. CASE FindShare(t)
  BY <1>9 DEF FindShare, Pcs
<1>10. CASE SubmitEnter(t)
  BY <1>10 DEF SubmitEnter, Pcs
<1>11. CASE Submit(t)
  <2> DEFINE s == [id |-> hand[t], kind |-> kind[t],
                   block |-> block[t], on |-> client.sess]
  <2>1. s \in Shares
    BY DEF Shares, Clients
  <2>2. Append(queue, s) \in Seq(Shares)
    BY <2>1, AppendProperties
  <2>3. queue' \in Seq(Shares)
    BY <1>11, <2>2 DEF Submit
  <2> QED
    BY <1>11, <2>3 DEF Submit, Pcs
<1> QED
  BY <1>1, <1>2, <1>3, <1>4, <1>5, <1>6, <1>7, <1>8, <1>9, <1>10, <1>11
     DEF MinerNext

(* Every variable keeps its type, whatever the pool does.                  *)
THEOREM TypeCorrect == Spec => []TypeOK
<1>1. Init => TypeOK
  BY InitType
<1>2. TypeOK /\ [Next]_vars => TypeOK'
  <2> SUFFICES ASSUME TypeOK, [Next]_vars PROVE TypeOK'
    OBVIOUS
  <2>1. CASE MainNext
    BY <2>1, MainType
  <2>2. CASE \E t \in Threads : MinerNext(t)
    BY <2>2, MinerType
  <2>3. CASE UNCHANGED vars
    BY <2>3 DEF vars, TypeOK
  <2> QED
    BY <2>1, <2>2, <2>3 DEF Next
<1> QED
  BY <1>1, <1>2, PTL DEF Spec

-----------------------------------------------------------------------------
(* The locks *)

LEMMA LocksStep ==
  ASSUME TypeOK, LocksMatchCode, [Next]_vars
  PROVE  LocksMatchCode'
<1> USE ThreadsAssumption DEF LocksMatchCode, MainInXpt, MainInWork, MainPcs
<1>1. CASE MainNext
  <2>1. UNCHANGED pc
    BY <1>1 DEF MainNext, MainEnter, Recv, RecvNothing, RecvAuthAck, RecvWork,
         RecvTruncatedWork, RecvClosed, Received, Check, CheckLost,
         CheckUnsupported, CheckNewWork, CheckSameWork, MainCheck, MainLost,
         MainLostPublish, MainGet, MainCopy, MainPublish, MainReconnect
  <2>2. CASE MainEnter
    BY <2>1, <2>2 DEF MainEnter
  <2>3. CASE Recv
    <3>1. mainPc = "recv" /\ mainPc' = "check" /\ UNCHANGED <<xptLock, workLock>>
      BY <2>3 DEF Recv, RecvNothing, RecvAuthAck, RecvWork,
                  RecvTruncatedWork, RecvClosed, Received
    <3> QED
      BY <2>1, <3>1
  <2>4. CASE Check
    BY <2>1, <2>4 DEF Check, CheckLost, CheckUnsupported, CheckNewWork,
                      CheckSameWork, MainCheck
  <2>5. CASE MainLost
    BY <2>1, <2>5 DEF MainLost
  <2>6. CASE MainLostPublish
    BY <2>1, <2>6 DEF MainLostPublish
  <2>7. CASE MainGet
    BY <2>1, <2>7 DEF MainGet
  <2>8. CASE MainCopy
    BY <2>1, <2>8 DEF MainCopy
  <2>9. CASE MainPublish
    BY <2>1, <2>9 DEF MainPublish
  <2>10. CASE MainReconnect
    BY <2>1, <2>10 DEF MainReconnect
  <2> QED
    BY <1>1, <2>2, <2>3, <2>4, <2>5, <2>6, <2>7, <2>8, <2>9, <2>10 DEF MainNext
<1>2. CASE \E t \in Threads : MinerNext(t)
  <2> SUFFICES ASSUME NEW t \in Threads, MinerNext(t)
               PROVE  LocksMatchCode'
    BY <1>2
  <2> USE DEF Goto, TypeOK
  <2>1. CASE FetchEnter(t)
    BY <2>1 DEF FetchEnter
  <2>2. CASE Fetch(t)
    BY <2>2 DEF Fetch
  <2>3. CASE FetchNothing(t)
    BY <2>3 DEF FetchNothing
  <2>4. CASE Dispatch(t)
    BY <2>4 DEF Dispatch, Abandon
  <2>5. CASE Continue(t)
    BY <2>5 DEF Continue
  <2>6. CASE GiveUp(t)
    BY <2>6 DEF GiveUp, Abandon
  <2>7. CASE Exhausted(t)
    BY <2>7 DEF Exhausted, Abandon
  <2>8. CASE EndBatch(t)
    BY <2>8 DEF EndBatch
  <2>9. CASE FindShare(t)
    BY <2>9 DEF FindShare
  <2>10. CASE SubmitEnter(t)
    BY <2>10 DEF SubmitEnter
  <2>11. CASE Submit(t)
    BY <2>11 DEF Submit
  <2> QED
    BY <2>1, <2>2, <2>3, <2>4, <2>5, <2>6, <2>7, <2>8, <2>9, <2>10, <2>11
       DEF MinerNext
<1>3. CASE UNCHANGED vars
  BY <1>3 DEF vars
<1> QED
  BY <1>1, <1>2, <1>3 DEF Next

(* The owner of each lock is the one thread inside the critical section,   *)
(* so cs_xptClient and cs_work exclude, and no path leaves them locked.    *)
THEOREM LockDiscipline == Spec => []LocksMatchCode
<1>1. Init => LocksMatchCode
  BY ThreadsAssumption DEF Init, LocksMatchCode, MainInXpt, MainInWork, MainPcs
<1>2. TypeOK /\ LocksMatchCode /\ [Next]_vars => LocksMatchCode'
  BY LocksStep
<1> QED
  BY <1>1, <1>2, TypeCorrect, PTL DEF Spec

-----------------------------------------------------------------------------
(* The installed work *)

(* Miner threads write none of the main thread's variables. *)
LEMMA MinerFrame ==
  ASSUME NEW t \in Threads, MinerNext(t)
  PROVE  UNCHANGED mainVars
BY DEF MinerNext, FetchEnter, Fetch, FetchNothing, Dispatch, Continue, GiveUp,
       Exhausted, EndBatch, FindShare, SubmitEnter, Submit

(* Receiving changes the client and nothing else the invariants read. *)
LEMMA RecvFrame ==
  ASSUME Recv
  PROVE  /\ mainPc = "recv" /\ mainPc' = "check"
         /\ UNCHANGED <<xptLock, workLock, queue, work, monHeight, wire, offer>>
BY DEF Recv, RecvNothing, RecvAuthAck, RecvWork, RecvTruncatedWork, RecvClosed,
       Received

LEMMA WorkStep ==
  ASSUME TypeOK, WorkInv, [Next]_vars
  PROVE  WorkInv'
<1> USE DEF WorkInv, MonitorAgrees, WorkIsWhole, TypeOK, MainPcs, WorkData, Offers
<1>1. CASE MainEnter
  BY <1>1 DEF MainEnter, Drain
<1>2. CASE Recv
  BY <1>2, RecvFrame
<1>3. CASE Check
  BY <1>3 DEF Check, CheckLost, CheckUnsupported, CheckNewWork, CheckSameWork,
              MainCheck
<1>4. CASE MainLost
  BY <1>4 DEF MainLost
<1>5. CASE MainLostPublish
  BY <1>5 DEF MainLostPublish
<1>6. CASE MainGet
  BY <1>6 DEF MainGet
<1>7. CASE MainCopy
  BY <1>7 DEF MainCopy
<1>8. CASE MainPublish
  BY <1>8 DEF MainPublish
<1>9. CASE MainReconnect
  BY <1>9 DEF MainReconnect
<1>10. CASE \E t \in Threads : MinerNext(t)
  BY <1>10, MinerFrame
<1>11. CASE UNCHANGED vars
  BY <1>11 DEF vars
<1> QED
  BY <1>1, <1>2, <1>3, <1>4, <1>5, <1>6, <1>7, <1>8, <1>9, <1>10, <1>11
     DEF Next, MainNext

THEOREM WorkInvariant == Spec => []WorkInv
<1>1. Init => WorkInv
  BY DEF Init, WorkInv, MonitorAgrees, WorkIsWhole
<1>2. TypeOK /\ WorkInv /\ [Next]_vars => WorkInv'
  BY WorkStep
<1> QED
  BY <1>1, <1>2, TypeCorrect, PTL DEF Spec

(* The polled height is the height of the work, outside the two windows    *)
(* between the stores to them.                                             *)
THEOREM MonitorFollowsWork == Spec => []MonitorAgrees
<1>1. WorkInv => MonitorAgrees
  BY DEF WorkInv
<1> QED
  BY <1>1, WorkInvariant, PTL

(* workDataSource holds one whole update unless it is being written.       *)
THEOREM WorkStaysWhole == Spec => []WorkIsWhole
<1>1. WorkInv => WorkIsWhole
  BY DEF WorkInv
<1> QED
  BY <1>1, WorkInvariant, PTL

(* A miner thread that builds a block reads one whole update: it holds     *)
(* cs_work, so the main thread is not between two of its writes.           *)
THEOREM FetchSeesOneUpdate == Spec => FetchWholeOffer
<1> DEFINE A == \A t \in Threads :
                  pc[t] = "fetch" /\ pc'[t] = "dispatch" =>
                    /\ block'[t].alg = offer.alg
                    /\ block'[t].height = offer.height
                    /\ block'[t].root = offer.root
<1>1. TypeOK /\ LocksMatchCode /\ WorkInv /\ [Next]_vars => [A]_vars
  <2> SUFFICES ASSUME TypeOK, LocksMatchCode, WorkInv, Next,
                      NEW t \in Threads, pc[t] = "fetch", pc'[t] = "dispatch"
               PROVE  /\ block'[t].alg = offer.alg
                      /\ block'[t].height = offer.height
                      /\ block'[t].root = offer.root
    OBVIOUS
  <2>1. workLock = t /\ workLock # Main
    BY ThreadsAssumption DEF LocksMatchCode
  <2>2. mainPc \notin {"lostPublish", "copy"}
    BY <2>1 DEF LocksMatchCode, MainInWork
  <2>3. offer = [alg |-> work.alg, height |-> work.height, root |-> work.root]
    BY <2>2 DEF WorkInv, WorkIsWhole
  <2>4. PICK u \in Threads : MinerNext(u)
    <3>1. MainNext => UNCHANGED pc
      BY DEF MainNext, MainEnter, Recv, RecvNothing, RecvAuthAck, RecvWork,
         RecvTruncatedWork, RecvClosed, Received, Check, CheckLost,
         CheckUnsupported, CheckNewWork, CheckSameWork, MainCheck, MainLost,
         MainLostPublish, MainGet, MainCopy, MainPublish, MainReconnect
    <3> QED
      BY <3>1 DEF Next
  <2>5. Fetch(t)
    BY <2>4 DEF MinerNext, FetchEnter, Fetch, FetchNothing, Dispatch, Continue,
         GiveUp, Exhausted, EndBatch, FindShare, SubmitEnter, Submit, Abandon,
         Goto, TypeOK
  <2>6. block'[t] = [alg |-> work.alg, height |-> work.height,
                     root |-> work.root, sess |-> work.sess, seed |-> seedGen]
    BY <2>5 DEF Fetch, TypeOK
  <2> QED
    BY <2>3, <2>6
<1> QED
  BY <1>1, TypeCorrect, LockDiscipline, WorkInvariant, PTL
     DEF Spec, FetchWholeOffer

-----------------------------------------------------------------------------
(* Sessions *)

LEMMA SessionStep ==
  ASSUME TypeOK, WorkInv, SessionInv, [Next]_vars
  PROVE  SessionInv'
<1> USE DEF SessionInv, MinableWork, Unsupported, MainPcs, Supported, Minable,
            Algorithms, NoAlg
<1>0. client \in Clients /\ work \in WorkData
  BY DEF TypeOK
<1>1. CASE MainEnter
  BY <1>1 DEF MainEnter
<1>2. CASE Recv
  <2>1. UNCHANGED work /\ mainPc = "recv" /\ mainPc' = "check"
    BY <1>2, RecvFrame
  <2>2. CASE RecvNothing
    BY <2>1, <2>2 DEF RecvNothing, Received
  <2>3. CASE RecvAuthAck
    BY <1>0, <2>1, <2>3, PoolAssumption DEF RecvAuthAck, Received, Clients
  <2>4. CASE RecvWork
    BY <1>0, <2>1, <2>4 DEF RecvWork, Received, Clients
  <2>5. CASE RecvTruncatedWork
    BY <1>0, <2>1, <2>5 DEF RecvTruncatedWork, Received, Clients
  <2>6. CASE RecvClosed
    BY <1>0, <2>1, <2>6 DEF RecvClosed, Received, Clients
  <2> QED
    BY <1>2, <2>2, <2>3, <2>4, <2>5, <2>6 DEF Recv
<1>3. CASE Check
  BY <1>0, <1>3 DEF Check, CheckLost, CheckUnsupported, CheckNewWork,
                    CheckSameWork, MainCheck, Clients
<1>4. CASE MainLost
  BY <1>0, <1>4 DEF MainLost, WorkData
<1>5. CASE MainLostPublish
  BY <1>5 DEF MainLostPublish
<1>6. CASE MainGet
  BY <1>0, <1>6 DEF MainGet, WorkData, Clients
<1>7. CASE MainCopy
  BY <1>0, <1>7 DEF MainCopy, WorkInv, WorkData, Clients
<1>8. CASE MainPublish
  BY <1>8 DEF MainPublish
<1>9. CASE MainReconnect
  BY <1>0, <1>9 DEF MainReconnect, FreshClient, Clients
<1>10. CASE \E t \in Threads : MinerNext(t)
  BY <1>10, MinerFrame
<1>11. CASE UNCHANGED vars
  BY <1>11 DEF vars
<1> QED
  BY <1>1, <1>2, <1>3, <1>4, <1>5, <1>6, <1>7, <1>8, <1>9, <1>10, <1>11
     DEF Next, MainNext

THEOREM SessionInvariant == Spec => []SessionInv
<1>1. Init => SessionInv
  BY DEF Init, SessionInv, FreshClient, MinableWork, Unsupported, NoAlg
<1>2. TypeOK /\ WorkInv /\ SessionInv /\ [Next]_vars => SessionInv'
  BY SessionStep
<1> QED
  BY <1>1, <1>2, TypeCorrect, WorkInvariant, PTL DEF Spec

(* No miner thread can fetch work while no session is logged in. *)
THEOREM NoWorkWhileDown == Spec => []NothingMinableWhileDown
<1>1. TypeOK /\ SessionInv => NothingMinableWhileDown
  BY DEF TypeOK, WorkData, SessionInv, NothingMinableWhileDown, MinableWork
<1> QED
  BY <1>1, TypeCorrect, SessionInvariant, PTL

(* What the main thread leaves alone. *)
LEMMA MainFrame ==
  ASSUME MainNext
  PROVE  UNCHANGED threadVars
BY DEF MainNext, MainEnter, Recv, RecvNothing, RecvAuthAck, RecvWork,
       RecvTruncatedWork, RecvClosed, Received, Check, CheckLost,
       CheckUnsupported, CheckNewWork, CheckSameWork, MainCheck, MainLost,
       MainLostPublish, MainGet, MainCopy, MainPublish, MainReconnect

LEMMA SupportedStep ==
  ASSUME TypeOK, SessionInv, SessionInv', OnlySupportedMined, [Next]_vars
  PROVE  OnlySupportedMined'
<1> USE DEF OnlySupportedMined
<1>1. (work.alg \in Supported \cup {NoAlg})'
  BY DEF SessionInv
<1>2. CASE MainNext
  BY <1>1, <1>2, MainFrame
<1>3. ASSUME NEW t \in Threads, MinerNext(t)
      PROVE  OnlySupportedMined'
  <2>1. \/ UNCHANGED <<block, kind>>
        \/ Fetch(t)
        \/ Dispatch(t)
        \/ Abandon(t)
    BY <1>3 DEF MinerNext, FetchEnter, FetchNothing, Continue, GiveUp,
                Exhausted, EndBatch, FindShare, SubmitEnter, Submit
  <2>2. work.alg \in Supported \cup {NoAlg}
    BY DEF SessionInv
  <2>3. CASE UNCHANGED <<block, kind>>
    BY <1>1, <2>3
  <2>4. CASE Fetch(t)
    BY <1>1, <2>2, <2>4 DEF Fetch, TypeOK
  <2>5. CASE Abandon(t)
    BY <1>1, <2>5 DEF Abandon, NoBlock, TypeOK
  <2>6. CASE Dispatch(t)
    BY <1>1, <2>2, <2>5, <2>6 DEF Dispatch, TypeOK
  <2> QED
    BY <2>1, <2>3, <2>4, <2>5, <2>6
<1>4. CASE UNCHANGED vars
  BY <1>1, <1>4 DEF vars
<1> QED
  BY <1>2, <1>3, <1>4 DEF Next

(* Only algorithms of main.cpp:619 reach a miner thread. *)
THEOREM SupportedAlgorithms == Spec => []OnlySupportedMined
<1>1. Init => OnlySupportedMined
  BY DEF Init, OnlySupportedMined, NoBlock
<1>2. /\ TypeOK /\ SessionInv /\ SessionInv' /\ OnlySupportedMined
      /\ [Next]_vars
      => OnlySupportedMined'
  BY SupportedStep
<1> QED
  BY <1>1, <1>2, TypeCorrect, SessionInvariant, PTL DEF Spec

-----------------------------------------------------------------------------
(* Shares *)

(* The length of a sequence given as a function on 1 .. n. *)
LEMMA LenOfFunction ==
  ASSUME NEW S, NEW n \in Nat, NEW f \in [1 .. n -> S]
  PROVE  f \in Seq(S) /\ Len(f) = n
<1>1. f \in Seq(S)
  BY SeqDef
<1>2. Len(f) \in Nat /\ DOMAIN f = 1 .. Len(f)
  BY <1>1, LenProperties
<1>3. 1 .. Len(f) = 1 .. n
  BY <1>2
<1>4. ASSUME NEW m \in Nat, 1 .. m = 1 .. n
      PROVE  m = n
  <2>1. m > n => m \in 1 .. m /\ m \notin 1 .. n
    OBVIOUS
  <2>2. n > m => n \in 1 .. n /\ n \notin 1 .. m
    OBVIOUS
  <2> QED
    BY <1>4, <2>1, <2>2
<1> QED
  BY <1>1, <1>2, <1>3, <1>4

(* Every entry of a concatenation is one of its parts'. *)
LEMMA ConcatEntries ==
  \A S : \A s, r \in Seq(S) : \A i \in DOMAIN (s \o r) :
    \/ i \in DOMAIN s /\ (s \o r)[i] = s[i]
    \/ \E j \in DOMAIN r : (s \o r)[i] = r[j]
<1>0. SUFFICES ASSUME NEW S, NEW s \in Seq(S), NEW r \in Seq(S),
                      NEW i \in DOMAIN (s \o r)
               PROVE  \/ i \in DOMAIN s /\ (s \o r)[i] = s[i]
                      \/ \E j \in DOMAIN r : (s \o r)[i] = r[j]
  OBVIOUS
<1>1. /\ Len(s) \in Nat /\ DOMAIN s = 1 .. Len(s)
      /\ Len(r) \in Nat /\ DOMAIN r = 1 .. Len(r)
  BY LenProperties
<1>2. i \in 1 .. Len(s) + Len(r)
  <2>1. s \o r \in Seq(S) /\ Len(s \o r) = Len(s) + Len(r)
    BY ConcatProperties
  <2>2. DOMAIN (s \o r) = 1 .. Len(s \o r)
    BY <2>1, LenProperties
  <2> QED
    BY <2>1, <2>2
<1>3. (s \o r)[i] = IF i <= Len(s) THEN s[i] ELSE r[i - Len(s)]
  BY <1>2, ConcatProperties
<1>4. CASE i <= Len(s)
  BY <1>1, <1>2, <1>3, <1>4
<1>5. CASE ~(i <= Len(s))
  <2>1. i - Len(s) \in DOMAIN r
    BY <1>1, <1>2, <1>5
  <2> QED
    BY <1>3, <1>5, <2>1
<1> QED
  BY <1>4, <1>5

(* Only Submit adds to the queue, and it needs the lock the main thread    *)
(* holds from its drain to the end of the iteration.                       *)
LEMMA DrainedStep ==
  ASSUME TypeOK, LocksMatchCode, DrainedInv, [Next]_vars
  PROVE  DrainedInv'
<1>1. CASE MainEnter \/ MainReconnect
  BY <1>1 DEF MainEnter, Drain, MainReconnect, DrainedInv
<1>2. CASE Recv
  BY <1>2, RecvFrame DEF DrainedInv
<1>3. CASE Check
  BY <1>3 DEF Check, CheckLost, CheckUnsupported, CheckNewWork,
              CheckSameWork, MainCheck, DrainedInv
<1>4. CASE MainLost \/ MainLostPublish \/ MainGet \/ MainCopy \/ MainPublish
  BY <1>4 DEF MainLost, MainLostPublish, MainGet, MainCopy, MainPublish,
              DrainedInv
<1>5. ASSUME NEW t \in Threads, MinerNext(t)
      PROVE  DrainedInv'
  <2>1. UNCHANGED <<mainPc, client>>
    BY <1>5, MinerFrame
  <2>2. queue' = queue \/ Submit(t)
    BY <1>5 DEF MinerNext, FetchEnter, Fetch, FetchNothing, Dispatch, Continue,
       GiveUp, Exhausted, EndBatch, FindShare, SubmitEnter
  <2>3. CASE queue' = queue
    BY <2>1, <2>3 DEF DrainedInv
  <2>4. CASE Submit(t)
    <3>1. mainPc = "loop"
      BY <2>4, ThreadsAssumption DEF Submit, LocksMatchCode, MainInXpt, TypeOK
    <3> QED
      BY <2>1, <2>4, <3>1 DEF Submit, DrainedInv
  <2> QED
    BY <2>2, <2>3, <2>4
<1>6. CASE UNCHANGED vars
  BY <1>6 DEF vars, DrainedInv
<1> QED
  BY <1>1, <1>2, <1>3, <1>4, <1>5, <1>6 DEF Next, MainNext

(* No share waits in the queue while the main thread is past its drain or  *)
(* the client is disconnected.                                             *)
THEOREM QueueDrained == Spec => []DrainedInv
<1>1. Init => DrainedInv
  BY DEF Init, DrainedInv
<1>2. TypeOK /\ LocksMatchCode /\ DrainedInv /\ [Next]_vars => DrainedInv'
  BY DrainedStep
<1> QED
  BY <1>1, <1>2, TypeCorrect, LockDiscipline, PTL DEF Spec

LEMMA StaysStep ==
  ASSUME TypeOK, DrainedInv', SharesStayOnSession, [Next]_vars
  PROVE  SharesStayOnSession'
<1> DEFINE E == [share : Shares, sess : Nat]
           sent == [i \in DOMAIN queue |->
                      [share |-> queue[i], sess |-> client.sess]]
<1>0. /\ queue \in Seq(Shares) /\ wire \in Seq(E) /\ client \in Clients
      /\ DOMAIN queue = 1 .. Len(queue) /\ Len(queue) \in Nat
      /\ DOMAIN wire = 1 .. Len(wire) /\ Len(wire) \in Nat
  BY LenProperties DEF TypeOK
<1>8. client'.disconnected => queue' = <<>>
  BY DEF DrainedInv
<1>1. CASE MainEnter
  <2>1. queue' = <<>> /\ client' = client /\ wire' = wire \o sent
    BY <1>1 DEF MainEnter, Drain
  <2>2. sent \in Seq(E)
    <3>1. \A i \in 1 .. Len(queue) : sent[i] \in E
      BY <1>0, ElementOfSeq DEF Clients
    <3>2. sent \in [1 .. Len(queue) -> E]
      BY <1>0, <3>1
    <3> QED
      BY <1>0, <3>2, LenOfFunction
  <2>3. ASSUME NEW i \in DOMAIN wire'
        PROVE  wire'[i].sess = wire'[i].share.on
    <3>1. \/ i \in DOMAIN wire /\ wire'[i] = wire[i]
          \/ \E j \in DOMAIN sent : wire'[i] = sent[j]
      <4> HIDE DEF sent, E
      <4>1. wire \in Seq(E) /\ wire' = wire \o sent
        BY <1>0, <2>1
      <4> QED
        BY <2>2, <4>1, ConcatEntries
    <3>2. CASE i \in DOMAIN wire /\ wire'[i] = wire[i]
      BY <3>2 DEF SharesStayOnSession
    <3>3. CASE \E j \in DOMAIN sent : wire'[i] = sent[j]
      BY <3>3 DEF SharesStayOnSession
    <3> QED
      BY <3>1, <3>2, <3>3
  <2> QED
    BY <1>8, <2>1, <2>3 DEF SharesStayOnSession
<1>2. CASE Recv
  <2>1. client'.sess = client.sess
    BY <1>0, <1>2 DEF Recv, RecvNothing, RecvAuthAck, RecvWork,
       RecvTruncatedWork, RecvClosed, Received, Clients
  <2> QED
    BY <1>2, <1>8, <2>1, RecvFrame DEF SharesStayOnSession
<1>3. CASE Check
  <2>1. client'.sess = client.sess /\ UNCHANGED <<queue, wire>>
    BY <1>0, <1>3 DEF Check, CheckLost, CheckUnsupported, CheckNewWork,
                      CheckSameWork, MainCheck, Clients
  <2> QED
    BY <1>8, <2>1 DEF SharesStayOnSession
<1>4. CASE MainLost \/ MainLostPublish \/ MainGet \/ MainCopy \/ MainPublish
  BY <1>4 DEF MainLost, MainLostPublish, MainGet, MainCopy, MainPublish,
              SharesStayOnSession
<1>5. CASE MainReconnect
  BY <1>5 DEF MainReconnect, SharesStayOnSession
<1>6. ASSUME NEW t \in Threads, MinerNext(t)
      PROVE  SharesStayOnSession'
  <2>1. UNCHANGED <<client, wire>>
    BY <1>6, MinerFrame
  <2>2. queue' = queue \/ Submit(t)
    BY <1>6 DEF MinerNext, FetchEnter, Fetch, FetchNothing, Dispatch, Continue,
       GiveUp, Exhausted, EndBatch, FindShare, SubmitEnter
  <2>3. CASE queue' = queue
    BY <1>8, <2>1, <2>3 DEF SharesStayOnSession
  <2>4. CASE Submit(t) /\ queue' # queue
    <3> DEFINE s == [id |-> hand[t], kind |-> kind[t],
                     block |-> block[t], on |-> client.sess]
    <3>1. queue' = Append(queue, s)
      BY <2>4 DEF Submit
    <3>2. s \in Shares
      BY <1>0 DEF TypeOK, Shares, Clients
    <3>3. s.on = client.sess
      OBVIOUS
    <3> HIDE DEF s
    <3>4. /\ Len(queue') = Len(queue) + 1
          /\ queue'[Len(queue) + 1] = s
          /\ \A i \in 1 .. Len(queue) : queue'[i] = queue[i]
          /\ DOMAIN queue' = 1 .. Len(queue')
      BY <1>0, <3>1, <3>2, AppendProperties, LenProperties
    <3> QED
      BY <1>0, <1>8, <2>1, <3>3, <3>4 DEF SharesStayOnSession
  <2> QED
    BY <2>2, <2>3, <2>4
<1>7. CASE UNCHANGED vars
  BY <1>7 DEF vars, SharesStayOnSession
<1> QED
  BY <1>1, <1>2, <1>3, <1>4, <1>5, <1>6, <1>7 DEF Next, MainNext

(* A share is sent on the connection it was queued for or never.           *)
THEOREM SharesKeepSession == Spec => []SharesStayOnSession
<1>1. Init => SharesStayOnSession
  BY DEF Init, SharesStayOnSession
<1>2. TypeOK /\ DrainedInv' /\ SharesStayOnSession /\ [Next]_vars
      => SharesStayOnSession'
  BY StaysStep
<1> QED
  BY <1>1, <1>2, TypeCorrect, QueueDrained, PTL DEF Spec

-----------------------------------------------------------------------------
(* The algorithm of a block and of the process function it is given to *)

(* What MisdispatchOnlyAcrossReconnect rests on: sessions only grow from   *)
(* the block to the work to the client; in a session the algorithm of the  *)
(* work is the one of its login, or none yet; and while the session of a   *)
(* block lasts, the work keeps the algorithm of the block.                 *)
DispatchInv ==
  /\ work.sess <= client.sess
  /\ \A t \in Threads : HasBlock(t) =>
       /\ block[t].sess <= work.sess
       /\ block[t].alg \in Minable
       /\ block[t].sess = client.sess =>
            /\ work.alg = block[t].alg
            /\ pc[t] \in MiningPcs => kind[t] = block[t].alg
  /\ ~client.disconnected /\ work.sess = client.sess =>
       work.alg = NoAlg \/ (client.loggedIn /\ work.alg = client.alg)

LEMMA MinableIsAlgorithm == NoAlg \notin Minable
BY DEF NoAlg, Minable, Algorithms

LEMMA SessionsAreNumbers ==
  ASSUME TypeOK
  PROVE  /\ client.sess \in Nat /\ work.sess \in Nat
         /\ \A t \in Threads : block[t].sess \in Nat
BY DEF TypeOK, Clients, WorkData, Blocks

(* A step of the main thread that only changes the client within its       *)
(* session, and does not connect it.                                       *)
LEMMA DispatchKept ==
  ASSUME DispatchInv, UNCHANGED <<pc, block, kind, work>>, client'.sess = client.sess,
         client'.disconnected \/ (~client.disconnected /\
           (client' = client \/ (client'.loggedIn = client.loggedIn /\ client'.alg = client.alg)))
  PROVE  DispatchInv'
BY DEF DispatchInv, HasBlock

LEMMA DispatchMainStep ==
  ASSUME TypeOK, WorkInv, SessionInv, DispatchInv, MainNext
  PROVE  DispatchInv'
<1>0. /\ client \in Clients /\ work \in WorkData
      /\ UNCHANGED <<pc, block, kind>>
  BY MainFrame DEF TypeOK
<1>1. CASE MainEnter
  BY <1>0, <1>1, DispatchKept DEF MainEnter
<1>2. CASE Recv
  <2>1. UNCHANGED work /\ mainPc = "recv" /\ ~client.disconnected
    BY <1>2, RecvFrame DEF SessionInv
  <2>2. CASE RecvNothing
    BY <1>0, <2>1, <2>2, DispatchKept DEF RecvNothing, Received
  <2>3. CASE RecvAuthAck
    <3>1. /\ ~client.loggedIn /\ client'.sess = client.sess /\ client'.loggedIn
      BY <1>0, <2>3 DEF RecvAuthAck, Received, Clients
    <3>2. work.sess = client.sess => work.alg = NoAlg
      BY <2>1, <3>1 DEF DispatchInv
    <3> QED
      BY <1>0, <2>1, <3>1, <3>2 DEF DispatchInv, HasBlock
  <2>4. CASE RecvWork
    <3>1. /\ client'.sess = client.sess /\ client'.loggedIn = client.loggedIn
          /\ client'.alg = client.alg
      BY <1>0, <2>4 DEF RecvWork, Received, Clients
    <3> QED
      BY <1>0, <2>1, <3>1, DispatchKept
  <2>5. CASE RecvTruncatedWork
    <3>1. /\ client'.sess = client.sess /\ client'.loggedIn = client.loggedIn
          /\ client'.alg = client.alg
      BY <1>0, <2>5 DEF RecvTruncatedWork, Received, Clients
    <3> QED
      BY <1>0, <2>1, <3>1, DispatchKept
  <2>6. CASE RecvClosed
    <3>1. client'.sess = client.sess /\ client'.disconnected
      BY <1>0, <2>6 DEF RecvClosed, Received, Clients
    <3> QED
      BY <1>0, <2>1, <3>1, DispatchKept
  <2> QED
    BY <1>2, <2>2, <2>3, <2>4, <2>5, <2>6 DEF Recv
<1>3. CASE Check
  <2>1. client' = client \/ (client'.sess = client.sess /\ client'.disconnected)
    BY <1>0, <1>3 DEF Check, CheckLost, CheckUnsupported, CheckNewWork,
                      CheckSameWork, MainCheck, Clients
  <2>2. UNCHANGED work
    BY <1>3 DEF Check, CheckLost, CheckUnsupported, CheckNewWork,
                CheckSameWork, MainCheck
  <2> QED
    BY <1>0, <2>1, <2>2, DispatchKept
<1>4. CASE MainLost
  <2>1. /\ UNCHANGED client
        /\ work'.sess = work.sess /\ work'.alg = work.alg
    BY <1>0, <1>4 DEF MainLost, WorkData
  <2> QED
    BY <1>0, <2>1 DEF DispatchInv, HasBlock
<1>5. CASE MainLostPublish \/ MainPublish
  BY <1>0, <1>5, DispatchKept DEF MainLostPublish, MainPublish
<1>6. CASE MainGet
  <2>1. /\ UNCHANGED client /\ ~client.disconnected
        /\ work'.sess = work.sess /\ work'.alg = client.alg
    BY <1>0, <1>6 DEF MainGet, WorkData, SessionInv
  <2>2. ~client.loggedIn => client.alg = NoAlg
    BY DEF SessionInv
  <2>3. \A t \in Threads : HasBlock(t) /\ block[t].sess = client.sess => work'.alg = block[t].alg
    <3> SUFFICES ASSUME NEW t \in Threads, HasBlock(t), block[t].sess = client.sess
                 PROVE  work'.alg = block[t].alg
      OBVIOUS
    <3>1. /\ work.sess = client.sess
          /\ work.alg = block[t].alg /\ work.alg # NoAlg
      BY MinableIsAlgorithm, SessionsAreNumbers DEF DispatchInv
    <3> QED
      BY <2>1, <3>1 DEF DispatchInv
  <2> QED
    BY <1>0, <2>1, <2>2, <2>3 DEF DispatchInv, HasBlock
<1>7. CASE MainCopy
  <2>1. /\ UNCHANGED client /\ work.alg = client.alg
        /\ work'.sess = client.sess /\ work'.alg = work.alg
    BY <1>0, <1>7 DEF MainCopy, WorkData, WorkInv
  <2>2. ~client.loggedIn => client.alg = NoAlg
    BY DEF SessionInv
  <2>3. \A t \in Threads : HasBlock(t) => block[t].sess <= client.sess
    BY SessionsAreNumbers DEF DispatchInv
  <2> QED
    BY <1>0, <2>1, <2>2, <2>3, SessionsAreNumbers DEF DispatchInv, HasBlock
<1>8. CASE MainReconnect
  <2>1. UNCHANGED work
    BY <1>8 DEF MainReconnect
  <2>2. CASE client' = FreshClient(client.sess)
    BY <1>0, <2>1, <2>2, DispatchKept DEF FreshClient
  <2>3. CASE client' = [FreshClient(client.sess + 1) EXCEPT !.disconnected = FALSE]
    <3>1. client'.sess = client.sess + 1
      BY <2>3 DEF FreshClient
    <3>2. /\ work.sess <= client'.sess /\ work.sess # client'.sess
          /\ \A t \in Threads : HasBlock(t) =>
               block[t].sess # client'.sess
      BY <3>1, SessionsAreNumbers DEF DispatchInv
    <3> QED
      BY <1>0, <2>1, <3>2 DEF DispatchInv, HasBlock
  <2> QED
    BY <1>8, <2>2, <2>3 DEF MainReconnect
<1> QED
  BY <1>1, <1>2, <1>3, <1>4, <1>5, <1>6, <1>7, <1>8 DEF MainNext

(* What a step of a thread does to its block: it keeps it, gets one, gives *)
(* it a process function or forgets it; the others keep theirs.            *)
LEMMA BlockStep ==
  ASSUME TypeOK, NEW t \in Threads, MinerNext(t)
  PROVE  /\ \A u \in Threads \ {t} : /\ pc'[u] = pc[u] /\ block'[u] = block[u]
                                     /\ kind'[u] = kind[u] /\ hand'[u] = hand[u]
         /\ \/ ~HasBlock(t)'
            \/ HasBlock(t) /\ UNCHANGED <<block, kind, seedGen>>
               /\ (pc'[t] \in MiningPcs => pc[t] \in MiningPcs)
            \/ Fetch(t)
            \/ HasBlock(t) /\ UNCHANGED <<block, seedGen>> /\ kind'[t] = work.alg
<1> USE DEF Goto, Abandon, TypeOK, HasBlock, MiningPcs
<1>1. CASE FetchEnter(t) \/ FetchNothing(t)
  BY <1>1 DEF FetchEnter, FetchNothing
<1>2. CASE Fetch(t)
  BY <1>2 DEF Fetch
<1>3. CASE Dispatch(t)
  BY <1>3 DEF Dispatch
<1>4. CASE GiveUp(t) \/ Exhausted(t)
  BY <1>4 DEF GiveUp, Exhausted
<1>5. CASE Continue(t) \/ EndBatch(t)
  BY <1>5 DEF Continue, EndBatch
<1>6. CASE FindShare(t) \/ SubmitEnter(t) \/ Submit(t)
  BY <1>6 DEF FindShare, SubmitEnter, Submit
<1> QED
  BY <1>1, <1>2, <1>3, <1>4, <1>5, <1>6 DEF MinerNext

LEMMA DispatchMinerStep ==
  ASSUME TypeOK, DispatchInv, NEW t \in Threads, MinerNext(t)
  PROVE  DispatchInv'
<1>0. UNCHANGED <<client, work>>
  BY MinerFrame
<1> SUFFICES ASSUME NEW u \in Threads, HasBlock(u)'
             PROVE  (/\ block[u].sess <= work.sess
                     /\ block[u].alg \in Minable
                     /\ block[u].sess = client.sess =>
                          /\ work.alg = block[u].alg
                          /\ pc[u] \in MiningPcs => kind[u] = block[u].alg)'
  BY <1>0 DEF DispatchInv
<1>1. CASE u # t
  BY <1>0, <1>1, BlockStep DEF DispatchInv, HasBlock
<1>2. CASE u = t /\ HasBlock(t) /\ UNCHANGED <<block, kind>>
           /\ (pc'[t] \in MiningPcs => pc[t] \in MiningPcs)
  BY <1>0, <1>2 DEF DispatchInv
<1>3. CASE u = t /\ Fetch(t)
  <2>1. /\ block'[t].sess = work.sess /\ block'[t].alg = work.alg
        /\ work.alg \in Minable /\ pc'[t] = "dispatch"
    BY <1>3 DEF Fetch, Goto, TypeOK
  <2> QED
    BY <1>0, <1>3, <2>1, SessionsAreNumbers DEF MiningPcs
<1>4. CASE u = t /\ HasBlock(t) /\ UNCHANGED block /\ kind'[t] = work.alg
  BY <1>0, <1>4 DEF DispatchInv
<1> QED
  BY <1>1, <1>2, <1>3, <1>4, BlockStep

THEOREM DispatchInvariant == Spec => []DispatchInv
<1>1. Init => DispatchInv
  BY DEF Init, DispatchInv, FreshClient, HasBlock, MiningPcs
<1>2. TypeOK /\ WorkInv /\ SessionInv /\ DispatchInv /\ [Next]_vars => DispatchInv'
  <2> SUFFICES ASSUME TypeOK, WorkInv, SessionInv, DispatchInv, [Next]_vars
               PROVE  DispatchInv'
    OBVIOUS
  <2>1. CASE MainNext
    BY <2>1, DispatchMainStep
  <2>2. CASE \E t \in Threads : MinerNext(t)
    BY <2>2, DispatchMinerStep
  <2>3. CASE UNCHANGED vars
    BY <2>3 DEF vars, DispatchInv, HasBlock
  <2> QED
    BY <2>1, <2>2, <2>3 DEF Next
<1> QED
  BY <1>1, <1>2, TypeCorrect, WorkInvariant, SessionInvariant, PTL DEF Spec

(* A block is given to the process function of another algorithm only when *)
(* the connection was replaced since it was fetched (main.cpp:409).        *)
THEOREM MisdispatchNeedsReconnect == Spec => []MisdispatchOnlyAcrossReconnect
<1>1. TypeOK /\ DispatchInv => MisdispatchOnlyAcrossReconnect
  BY SessionsAreNumbers DEF DispatchInv, MisdispatchOnlyAcrossReconnect, HasBlock
<1> QED
  BY <1>1, TypeCorrect, DispatchInvariant, PTL

-----------------------------------------------------------------------------
(* Merkle seeds *)

(* Seeds below uniqueMerkleSeedGenerator are taken, the others are free. *)
SeedInv ==
  /\ SeedIdentifiesBlock
  /\ \A t \in Held : block[t].seed < seedGen
  /\ \A b \in ShareBlocks : b.seed < seedGen

LEMMA SequencesOfShares ==
  ASSUME TypeOK
  PROVE  /\ queue \in Seq(Shares) /\ Len(queue) \in Nat
         /\ DOMAIN queue = 1 .. Len(queue)
         /\ wire \in Seq([share : Shares, sess : Nat]) /\ Len(wire) \in Nat
         /\ DOMAIN wire = 1 .. Len(wire)
BY LenProperties DEF TypeOK

(* The wire after a drain: what was on it, then the queue. *)
LEMMA DrainedWire ==
  ASSUME TypeOK, Drain
  PROVE  /\ DOMAIN wire' = 1 .. Len(wire) + Len(queue)
         /\ \A i \in DOMAIN wire' :
              wire'[i] = IF i <= Len(wire) THEN wire[i]
                         ELSE [share |-> queue[i - Len(wire)], sess |-> client.sess]
<1> DEFINE E == [share : Shares, sess : Nat]
           sent == [i \in DOMAIN queue |->
                      [share |-> queue[i], sess |-> client.sess]]
<1>1. wire' = wire \o sent
  BY DEF Drain
<1>2. sent \in [1 .. Len(queue) -> E]
  <2>1. \A i \in 1 .. Len(queue) : sent[i] \in E
    BY SequencesOfShares, ElementOfSeq DEF TypeOK, Clients
  <2> QED
    BY <2>1, SequencesOfShares
<1>3. sent \in Seq(E) /\ Len(sent) = Len(queue)
  BY <1>2, LenOfFunction, SequencesOfShares
<1>4. \A i \in 1 .. Len(queue) : sent[i] = [share |-> queue[i], sess |-> client.sess]
  BY SequencesOfShares
<1> HIDE DEF sent
<1>5. wire \in Seq(E) /\ Len(wire) \in Nat /\ Len(queue) \in Nat
  BY SequencesOfShares
<1> HIDE DEF E
<1> DEFINE both == wire \o sent
<1>6. /\ both \in Seq(E) /\ Len(both) = Len(wire) + Len(queue)
      /\ \A i \in 1 .. Len(wire) + Len(queue) :
           both[i] = IF i <= Len(wire) THEN wire[i] ELSE sent[i - Len(wire)]
  <2>1. wire \in Seq(E) /\ sent \in Seq(E)
    BY <1>3, <1>5
  <2> HIDE DEF both
  <2>2. /\ wire \o sent \in Seq(E)
        /\ Len(wire \o sent) = Len(wire) + Len(sent)
        /\ \A i \in 1 .. Len(wire) + Len(sent) : (wire \o sent)[i] =
              IF i <= Len(wire) THEN wire[i] ELSE sent[i - Len(wire)]
    BY <2>1, ConcatProperties, Zenon
  <2> QED
    BY <1>3, <2>2 DEF both
<1> HIDE DEF both
<1>7. DOMAIN both = 1 .. Len(wire) + Len(queue)
  BY <1>6, LenProperties
<1>8. \A i \in DOMAIN both :
        both[i] = IF i <= Len(wire) THEN wire[i]
                  ELSE [share |-> queue[i - Len(wire)], sess |-> client.sess]
  <2> SUFFICES ASSUME NEW i \in DOMAIN both, ~(i <= Len(wire))
               PROVE  both[i] = [share |-> queue[i - Len(wire)], sess |-> client.sess]
    BY <1>6, <1>7
  <2>1. i - Len(wire) \in 1 .. Len(queue)
    BY <1>5, <1>7
  <2> QED
    BY <1>4, <1>6, <1>7, <2>1
<1>9. wire' = both
  BY <1>1 DEF both
<1> QED
  BY <1>7, <1>8, <1>9

(* A share appended to the queue. *)
LEMMA AppendedQueue ==
  ASSUME TypeOK, NEW t \in Threads, Submit(t), queue' # queue
  PROVE  /\ DOMAIN queue' = 1 .. Len(queue) + 1
         /\ \A i \in DOMAIN queue' :
              queue'[i] = IF i <= Len(queue) THEN queue[i]
                          ELSE [id |-> hand[t], kind |-> kind[t],
                                block |-> block[t], on |-> client.sess]
<1> DEFINE s == [id |-> hand[t], kind |-> kind[t],
                 block |-> block[t], on |-> client.sess]
<1>1. queue' = Append(queue, s)
  BY DEF Submit
<1>2. s \in Shares
  BY DEF TypeOK, Shares, Clients
<1> HIDE DEF s
<1> DEFINE longer == Append(queue, s)
<1>3. /\ longer \in Seq(Shares) /\ Len(longer) = Len(queue) + 1
      /\ longer[Len(queue) + 1] = s
      /\ \A i \in 1 .. Len(queue) : longer[i] = queue[i]
  <2>1. queue \in Seq(Shares)
    BY SequencesOfShares
  <2> QED
    BY <1>2, <2>1, AppendProperties
<1> HIDE DEF longer
<1>4. DOMAIN longer = 1 .. Len(queue) + 1
  BY <1>3, LenProperties
<1>5. \A i \in 1 .. Len(queue) + 1 : i <= Len(queue) \/ i = Len(queue) + 1
  BY SequencesOfShares
<1>6. \A i \in 1 .. Len(queue) + 1 : i <= Len(queue) => i \in 1 .. Len(queue)
  BY SequencesOfShares
<1>7. \A i \in DOMAIN longer : longer[i] = IF i <= Len(queue) THEN queue[i] ELSE s
  <2>1. ~(Len(queue) + 1 <= Len(queue))
    BY SequencesOfShares
  <2> QED
    BY <1>3, <1>4, <1>5, <1>6, <2>1
<1>8. queue' = longer
  BY <1>1 DEF longer
<1> QED
  BY <1>4, <1>7, <1>8 DEF s

(* What a step of the main thread leaves of the shares: it sends the       *)
(* queue, or frees it with the client, or touches none.                    *)
LEMMA SharesMainStep ==
  ASSUME MainNext
  PROVE  \/ UNCHANGED <<queue, wire>>
         \/ Drain
         \/ queue' = <<>> /\ UNCHANGED wire
BY RecvFrame
   DEF MainNext, MainEnter, Check, CheckLost, CheckUnsupported, CheckNewWork,
       CheckSameWork, MainCheck, MainLost, MainLostPublish, MainGet, MainCopy,
       MainPublish, MainReconnect

LEMMA SharesMinerStep ==
  ASSUME NEW t \in Threads, MinerNext(t)
  PROVE  UNCHANGED wire /\ (queue' # queue => Submit(t))
<1>1. UNCHANGED wire
  BY MinerFrame
<1>2. queue' # queue => Submit(t)
  BY DEF MinerNext, FetchEnter, Fetch, FetchNothing, Dispatch, Continue,
     GiveUp, Exhausted, EndBatch, FindShare, SubmitEnter
<1> QED
  BY <1>1, <1>2

(* The main thread gives no share another block. *)
LEMMA ShareBlocksMain ==
  ASSUME TypeOK, MainNext
  PROVE  ShareBlocks' \subseteq ShareBlocks
<1>1. CASE UNCHANGED <<queue, wire>>
  BY <1>1 DEF ShareBlocks
<1>2. CASE queue' = <<>> /\ UNCHANGED wire
  BY <1>2 DEF ShareBlocks
<1>3. CASE Drain
  <2>1. queue' = <<>>
    BY <1>3 DEF Drain
  <2>2. ASSUME NEW i \in DOMAIN wire'
        PROVE  \/ i \in DOMAIN wire /\ wire'[i].share = wire[i].share
               \/ i - Len(wire) \in DOMAIN queue /\ wire'[i].share = queue[i - Len(wire)]
    <3>1. /\ i \in 1 .. Len(wire) + Len(queue)
          /\ wire'[i] = IF i <= Len(wire) THEN wire[i]
                        ELSE [share |-> queue[i - Len(wire)], sess |-> client.sess]
      BY <1>3, <2>2, DrainedWire
    <3>2. CASE i <= Len(wire)
      BY <3>1, <3>2, SequencesOfShares
    <3>3. CASE ~(i <= Len(wire))
      BY <3>1, <3>3, SequencesOfShares
    <3> QED
      BY <3>2, <3>3
  <2> QED
    BY <2>1, <2>2 DEF ShareBlocks
<1> QED
  BY <1>1, <1>2, <1>3, SharesMainStep

(* A thread adds a share of the block it holds. *)
LEMMA ShareBlocksMiner ==
  ASSUME TypeOK, NEW t \in Threads, MinerNext(t)
  PROVE  \/ ShareBlocks' = ShareBlocks
         \/ /\ ShareBlocks' \subseteq ShareBlocks \cup {block[t]}
            /\ t \in Held /\ UNCHANGED <<block, seedGen>>
            /\ pc' = [pc EXCEPT ![t] = "batch"]
<1>1. CASE queue' = queue
  BY <1>1, SharesMinerStep DEF ShareBlocks
<1>2. CASE queue' # queue
  <2>1. Submit(t) /\ UNCHANGED wire
    BY <1>2, SharesMinerStep
  <2>2. ASSUME NEW i \in DOMAIN queue'
        PROVE  \/ i \in DOMAIN queue /\ queue'[i].block = queue[i].block
               \/ queue'[i].block = block[t]
    <3>1. /\ i \in 1 .. Len(queue) + 1
          /\ queue'[i] = IF i <= Len(queue) THEN queue[i]
                         ELSE [id |-> hand[t], kind |-> kind[t],
                               block |-> block[t], on |-> client.sess]
      BY <1>2, <2>1, <2>2, AppendedQueue
    <3> QED
      BY <3>1, SequencesOfShares
  <2>3. ShareBlocks' \subseteq ShareBlocks \cup {block[t]}
    BY <2>1, <2>2 DEF ShareBlocks
  <2>4. t \in Held /\ UNCHANGED <<block, seedGen>> /\ pc' = [pc EXCEPT ![t] = "batch"]
    BY <2>1 DEF Submit, Held, HasBlock, MiningPcs, Goto
  <2> QED
    BY <2>3, <2>4
<1> QED
  BY <1>1, <1>2

LEMMA SeedStep ==
  ASSUME TypeOK, SeedInv, [Next]_vars
  PROVE  SeedInv'
<1> USE DEF SeedInv, SeedIdentifiesBlock
<1>1. CASE MainNext
  <2>1. UNCHANGED <<pc, block, seedGen>>
    BY <1>1, MainFrame
  <2>2. Held' = Held
    BY <2>1 DEF Held, HasBlock
  <2>3. ShareBlocks' \subseteq ShareBlocks
    BY <1>1, ShareBlocksMain
  <2> QED
    BY <2>1, <2>2, <2>3
<1>2. ASSUME NEW t \in Threads, MinerNext(t)
      PROVE  SeedInv'
  <2>1. /\ seedGen \in Nat
        /\ \A u \in Threads : block[u].seed \in Nat
    BY DEF TypeOK, Blocks
  <2>2. \A u \in Threads \ {t} : block'[u] = block[u] /\ (u \in Held' <=> u \in Held)
    BY <1>2, BlockStep DEF Held, HasBlock
  <2>3. Held' \subseteq Threads
    BY DEF Held
  <2>4. CASE ShareBlocks' = ShareBlocks
    <3>1. CASE t \notin Held'
      <4>1. Held' \subseteq Held /\ \A u \in Held' : block'[u] = block[u]
        BY <2>2, <2>3, <3>1
      <4>2. seedGen' \in Nat /\ seedGen' >= seedGen
        BY <1>2, <2>1 DEF MinerNext, FetchEnter, Fetch, FetchNothing, Dispatch,
           Continue, GiveUp, Exhausted, EndBatch, FindShare, SubmitEnter, Submit
      <4>3. seedGen' = seedGen
        BY <1>2, <3>1 DEF MinerNext, FetchEnter, Fetch, FetchNothing, Dispatch,
           Continue, GiveUp, Exhausted, EndBatch, FindShare, SubmitEnter, Submit,
           Goto, Held, HasBlock, TypeOK
      <4> QED
        BY <2>4, <4>1, <4>3
    <3>2. CASE t \in Held /\ UNCHANGED <<block, seedGen>>
      <4>1. Held' \subseteq Held
        BY <2>2, <2>3, <3>2
      <4> QED
        BY <2>4, <3>2, <4>1
    <3>3. CASE Fetch(t)
      <4>1. seedGen' = seedGen + 1 /\ block'[t].seed = seedGen
        BY <3>3 DEF Fetch, TypeOK
      <4>2. \A u \in Held' \ {t} : u \in Held /\ block'[u] = block[u]
        BY <2>2, <2>3
      <4>3. \A u \in Held' \ {t} : block'[u].seed < seedGen
        BY <4>2
      <4>4. \A u \in Held' : block'[u].seed < seedGen'
        BY <2>1, <2>3, <4>1, <4>2
      <4>5. \A b \in ShareBlocks' : b.seed < seedGen /\ b.seed # seedGen
        BY <2>1, <2>4
      <4>6. \A b \in ShareBlocks' : b.seed < seedGen'
        <5>1. \A b \in ShareBlocks : b.seed \in Nat
          <6>1. /\ \A i \in DOMAIN queue : queue[i] \in Shares
                /\ \A i \in DOMAIN wire : wire[i] \in [share : Shares, sess : Nat]
            <7> DEFINE E == [share : Shares, sess : Nat]
            <7>1. wire \in Seq(E) /\ queue \in Seq(Shares)
              BY SequencesOfShares
            <7> HIDE DEF E
            <7>2. \A i \in DOMAIN wire : wire[i] \in E
              BY <7>1, SequencesOfShares, ElementOfSeq
            <7>3. \A i \in DOMAIN queue : queue[i] \in Shares
              BY <7>1, SequencesOfShares, ElementOfSeq
            <7> QED
              BY <7>2, <7>3 DEF E
          <6> QED
            BY <6>1 DEF ShareBlocks, Shares, Blocks
        <5> QED
          BY <2>1, <2>4, <4>1, <4>5, <5>1
      <4>7. \A u, v \in Held' : u # v => block'[u].seed # block'[v].seed
        BY <2>1, <2>3, <4>1, <4>2, <4>3
      <4>8. \A u \in Held', b \in ShareBlocks' : b.seed = block'[u].seed => b = block'[u]
        BY <2>4, <4>1, <4>2, <4>5
      <4> QED
        BY <2>4, <4>4, <4>6, <4>7, <4>8
    <3> QED
      BY <1>2, <3>1, <3>2, <3>3, BlockStep DEF Held
  <2>5. CASE /\ ShareBlocks' \subseteq ShareBlocks \cup {block[t]}
             /\ t \in Held /\ UNCHANGED <<block, seedGen>>
    <3>1. Held' \subseteq Held
      BY <2>2, <2>3, <2>5
    <3>2. \A b \in ShareBlocks' : b.seed < seedGen'
      BY <2>5
    <3>3. \A u \in Held', b \in ShareBlocks' : b.seed = block'[u].seed => b = block'[u]
      BY <2>5, <3>1
    <3>4. \A b, c \in ShareBlocks' : b.seed = c.seed => b = c
      BY <2>5
    <3> QED
      BY <2>5, <3>1, <3>2, <3>3, <3>4
  <2> QED
    BY <1>2, <2>4, <2>5, ShareBlocksMiner
<1>3. CASE UNCHANGED vars
  <2>1. Held' = Held /\ ShareBlocks' = ShareBlocks /\ UNCHANGED <<block, seedGen>>
    BY <1>3 DEF vars, Held, HasBlock, ShareBlocks
  <2> QED
    BY <2>1
<1> QED
  BY <1>1, <1>2, <1>3 DEF Next

(* No two threads search the same block, and a share is one of the block   *)
(* with its seed.                                                          *)
THEOREM SeedsAreUnique == Spec => []SeedIdentifiesBlock
<1>1. Init => SeedInv
  BY DEF Init, SeedInv, SeedIdentifiesBlock, Held, HasBlock, MiningPcs, ShareBlocks
<1>2. TypeOK /\ SeedInv /\ [Next]_vars => SeedInv'
  BY SeedStep
<1>3. SeedInv => SeedIdentifiesBlock
  BY DEF SeedInv
<1> QED
  BY <1>1, <1>2, <1>3, TypeCorrect, PTL DEF Spec

-----------------------------------------------------------------------------
(* Places of shares *)

(* Numbers up to nFound are given, and a thread about to queue a share     *)
(* holds its number.                                                       *)
PlaceInv ==
  /\ ShareInOnePlace
  /\ \A t \in Threads : hand[t] <= nFound
  /\ \A t \in Threads : pc[t] \in {"submit", "queue"} => hand[t] # 0
  /\ \A i \in DOMAIN queue : queue[i].id \in 1 .. nFound
  /\ \A i \in DOMAIN wire : wire[i].share.id \in 1 .. nFound

LEMMA PlaceMainStep ==
  ASSUME TypeOK, PlaceInv, MainNext
  PROVE  PlaceInv'
<1> USE DEF PlaceInv, ShareInOnePlace
<1>0. UNCHANGED <<pc, hand, nFound>>
  BY MainFrame
<1>1. CASE UNCHANGED <<queue, wire>>
  BY <1>0, <1>1
<1>2. CASE queue' = <<>> /\ UNCHANGED wire
  BY <1>0, <1>2
<1>3. CASE Drain
  <2>0. queue' = <<>>
    BY <1>3 DEF Drain
  <2>1. ASSUME NEW i \in DOMAIN wire'
        PROVE  \/ i \in DOMAIN wire /\ wire'[i].share = wire[i].share
               \/ /\ i \notin DOMAIN wire /\ i - Len(wire) \in DOMAIN queue
                  /\ wire'[i].share = queue[i - Len(wire)] /\ i \in Int
    <3>1. /\ i \in 1 .. Len(wire) + Len(queue)
          /\ wire'[i] = IF i <= Len(wire) THEN wire[i]
                        ELSE [share |-> queue[i - Len(wire)], sess |-> client.sess]
      BY <1>3, <2>1, DrainedWire
    <3>2. CASE i <= Len(wire)
      BY <3>1, <3>2, SequencesOfShares
    <3>3. CASE ~(i <= Len(wire))
      BY <3>1, <3>3, SequencesOfShares
    <3> QED
      BY <3>2, <3>3
  <2>2. \A i \in DOMAIN wire' : wire'[i].share.id \in 1 .. nFound
    BY <2>1
  <2>3. \A t \in Threads, i \in DOMAIN wire' : wire'[i].share.id # hand[t]
    BY <2>1
  <2>4. ASSUME NEW i \in DOMAIN wire', NEW j \in DOMAIN wire', i # j
        PROVE  wire'[i].share.id # wire'[j].share.id
    <3>1. CASE i \in DOMAIN wire /\ j \in DOMAIN wire
      BY <2>1, <2>4, <3>1
    <3>2. CASE i \in DOMAIN wire /\ j \notin DOMAIN wire
      BY <2>1, <2>4, <3>2
    <3>3. CASE i \notin DOMAIN wire /\ j \in DOMAIN wire
      BY <2>1, <2>4, <3>3
    <3>4. CASE i \notin DOMAIN wire /\ j \notin DOMAIN wire
      <4>1. /\ i - Len(wire) \in DOMAIN queue /\ j - Len(wire) \in DOMAIN queue
            /\ i - Len(wire) # j - Len(wire)
            /\ wire'[i].share = queue[i - Len(wire)]
            /\ wire'[j].share = queue[j - Len(wire)]
        BY <2>1, <2>4, <3>4, SequencesOfShares
      <4> QED
        BY <4>1
    <3> QED
      BY <3>1, <3>2, <3>3, <3>4
  <2> QED
    BY <1>0, <2>0, <2>2, <2>3, <2>4
<1> QED
  BY <1>1, <1>2, <1>3, SharesMainStep

LEMMA PlaceMinerStep ==
  ASSUME TypeOK, PlaceInv, NEW t \in Threads, MinerNext(t)
  PROVE  PlaceInv'
<1> USE DEF PlaceInv, ShareInOnePlace
<1>0. /\ hand \in [Threads -> Nat] /\ nFound \in Nat /\ pc \in [Threads -> Pcs]
      /\ UNCHANGED wire
  BY MinerFrame DEF TypeOK
<1>1. CASE UNCHANGED <<queue, hand, nFound>>
           /\ (pc'[t] \in {"submit", "queue"} => pc[t] \in {"submit", "queue"})
  <2>1. \A u \in Threads : pc'[u] \in {"submit", "queue"} => pc[u] \in {"submit", "queue"}
    BY <1>1, BlockStep
  <2> QED
    BY <1>0, <1>1, <2>1
<1>2. CASE FindShare(t)
  <2>1. /\ nFound' = nFound + 1 /\ hand' = [hand EXCEPT ![t] = nFound + 1]
        /\ pc' = [pc EXCEPT ![t] = "submit"] /\ UNCHANGED queue
    BY <1>2 DEF FindShare, Goto
  <2>2. /\ \A i \in DOMAIN queue : queue[i].id \in 1 .. nFound + 1 /\ queue[i].id # nFound + 1
        /\ \A i \in DOMAIN wire :
             wire[i].share.id \in 1 .. nFound + 1 /\ wire[i].share.id # nFound + 1
        /\ \A u \in Threads : hand[u] <= nFound + 1 /\ hand[u] # nFound + 1
    BY <1>0
  <2>3. \A u \in Threads : hand'[u] = IF u = t THEN nFound + 1 ELSE hand[u]
    BY <1>0, <2>1
  <2>4. \A u \in Threads : pc'[u] = IF u = t THEN "submit" ELSE pc[u]
    BY <1>0, <2>1
  <2>5. ShareInOnePlace'
    BY <1>0, <2>1, <2>2, <2>3
  <2> QED
    BY <1>0, <2>1, <2>2, <2>3, <2>4, <2>5
<1>3. CASE Submit(t)
  <2>1. /\ hand' = [hand EXCEPT ![t] = 0] /\ UNCHANGED nFound
        /\ pc' = [pc EXCEPT ![t] = "batch"] /\ pc[t] = "queue"
    BY <1>3 DEF Submit, Goto
  <2>2. hand[t] # 0 /\ hand[t] \in 1 .. nFound
    BY <1>0, <2>1
  <2>3. /\ \A u \in Threads : hand'[u] = IF u = t THEN 0 ELSE hand[u]
        /\ \A u \in Threads : pc'[u] = IF u = t THEN "batch" ELSE pc[u]
    BY <1>0, <2>1
  <2>4. CASE queue' = queue
    BY <1>0, <2>1, <2>3, <2>4
  <2>5. CASE queue' # queue
    <3>1. /\ DOMAIN queue' = 1 .. Len(queue) + 1
          /\ \A i \in DOMAIN queue' :
               \/ i \in DOMAIN queue /\ queue'[i] = queue[i]
               \/ i = Len(queue) + 1 /\ i \notin DOMAIN queue /\ queue'[i].id = hand[t]
      BY <1>3, <2>5, AppendedQueue, SequencesOfShares
    <3>2. \A i, j \in DOMAIN queue' : i # j => queue'[i].id # queue'[j].id
      BY <3>1
    <3>3. \A i \in DOMAIN queue' : /\ queue'[i].id \in 1 .. nFound
                                   /\ \A j \in DOMAIN wire : queue'[i].id # wire[j].share.id
      BY <2>2, <3>1
    <3>4. \A u \in Threads, i \in DOMAIN queue' : queue'[i].id # hand'[u]
      <4>1. \A i \in DOMAIN queue' : queue'[i].id # 0
        BY <1>0, <3>3
      <4>2. \A u \in Threads \ {t}, i \in DOMAIN queue' : queue'[i].id # hand[u]
        BY <2>2, <3>1
      <4> QED
        BY <2>3, <4>1, <4>2
    <3> QED
      BY <1>0, <2>1, <2>3, <3>2, <3>3, <3>4
  <2> QED
    BY <2>4, <2>5
<1>4. \/ FindShare(t) \/ Submit(t)
      \/ UNCHANGED <<queue, hand, nFound>>
         /\ (pc'[t] \in {"submit", "queue"} => pc[t] \in {"submit", "queue"})
  BY <1>0 DEF MinerNext, FetchEnter, Fetch, FetchNothing, Dispatch, Continue,
     GiveUp, Exhausted, EndBatch, SubmitEnter, Goto, Abandon
<1> QED
  BY <1>1, <1>2, <1>3, <1>4

LEMMA PlaceInvariant == Spec => []PlaceInv
<1>1. Init => PlaceInv
  BY DEF Init, PlaceInv, ShareInOnePlace
<1>2. TypeOK /\ PlaceInv /\ [Next]_vars => PlaceInv'
  <2> SUFFICES ASSUME TypeOK, PlaceInv, [Next]_vars PROVE PlaceInv'
    OBVIOUS
  <2>1. CASE MainNext
    BY <2>1, PlaceMainStep
  <2>2. CASE \E t \in Threads : MinerNext(t)
    BY <2>2, PlaceMinerStep
  <2>3. CASE UNCHANGED vars
    BY <2>3 DEF vars, PlaceInv, ShareInOnePlace
  <2> QED
    BY <2>1, <2>2, <2>3 DEF Next
<1> QED
  BY <1>1, <1>2, TypeCorrect, PTL DEF Spec

(* A share is submitted, queued or sent, and in one place only: none is    *)
(* sent twice.                                                             *)
THEOREM SharesSentOnce == Spec => []ShareInOnePlace
<1>1. PlaceInv => ShareInOnePlace
  BY DEF PlaceInv
<1> QED
  BY <1>1, PlaceInvariant, PTL

-----------------------------------------------------------------------------
(* The miner as AtomicMiner: every step of the code is one step of it, or  *)
(* none.                                                                   *)

(* What a thread holds at each point: a block from the fetch until it is   *)
(* forgotten, a process function while it mines, a share while it submits. *)
HoldsInv ==
  \A t \in Threads :
    /\ ~HasBlock(t) => block[t] = NoBlock
    /\ pc[t] \in MiningPcs => kind[t] \in Minable
    /\ pc[t] \notin {"submit", "queue"} => hand[t] = 0

(* Work that can be fetched is of the present session, and only a lost     *)
(* connection takes the loop to where it invalidates the work.             *)
ConnectionInv ==
  /\ MinableWork /\ mainPc # "copy" => work.sess = client.sess
  /\ mainPc \in {"lost", "lostPublish"} => client.disconnected

LEMMA HoldsMinerStep ==
  ASSUME TypeOK, HoldsInv, NEW t \in Threads, MinerNext(t)
  PROVE  HoldsInv'
<1> SUFFICES ASSUME NEW u \in Threads
             PROVE  (/\ ~HasBlock(u) => block[u] = NoBlock
                     /\ pc[u] \in MiningPcs => kind[u] \in Minable
                     /\ pc[u] \notin {"submit", "queue"} => hand[u] = 0)'
  BY DEF HoldsInv
<1> USE DEF Goto, HasBlock, MiningPcs
<1>0. /\ pc \in [Threads -> Pcs] /\ DOMAIN block = Threads
      /\ DOMAIN kind = Threads /\ hand \in [Threads -> Nat]
      /\ UNCHANGED work
  BY MinerFrame DEF TypeOK
<1>1. CASE u # t
  BY <1>1, BlockStep DEF HoldsInv
<1>2. CASE u = t /\ (FetchEnter(t) \/ FetchNothing(t))
  BY <1>0, <1>2 DEF FetchEnter, FetchNothing, HoldsInv
<1>3. CASE u = t /\ Fetch(t)
  BY <1>0, <1>3 DEF Fetch, HoldsInv
<1>4. CASE u = t /\ Dispatch(t)
  BY <1>0, <1>4 DEF Dispatch, Abandon, HoldsInv
<1>5. CASE u = t /\ (GiveUp(t) \/ Exhausted(t))
  BY <1>0, <1>5 DEF GiveUp, Exhausted, Abandon, HoldsInv
<1>6. CASE u = t /\ (Continue(t) \/ EndBatch(t))
  BY <1>0, <1>6 DEF Continue, EndBatch, HoldsInv
<1>7. CASE u = t /\ (FindShare(t) \/ SubmitEnter(t) \/ Submit(t))
  BY <1>0, <1>7 DEF FindShare, SubmitEnter, Submit, HoldsInv
<1> QED
  BY <1>1, <1>2, <1>3, <1>4, <1>5, <1>6, <1>7 DEF MinerNext

LEMMA HoldsInvariant == Spec => []HoldsInv
<1>1. Init => HoldsInv
  BY DEF Init, HoldsInv, HasBlock, MiningPcs
<1>2. TypeOK /\ HoldsInv /\ [Next]_vars => HoldsInv'
  <2> SUFFICES ASSUME TypeOK, HoldsInv, [Next]_vars PROVE HoldsInv'
    OBVIOUS
  <2>1. CASE MainNext
    BY <2>1, MainFrame DEF HoldsInv, HasBlock
  <2>2. CASE \E t \in Threads : MinerNext(t)
    BY <2>2, HoldsMinerStep
  <2>3. CASE UNCHANGED vars
    BY <2>3 DEF vars, HoldsInv, HasBlock
  <2> QED
    BY <2>1, <2>2, <2>3 DEF Next
<1> QED
  BY <1>1, <1>2, TypeCorrect, PTL DEF Spec

LEMMA ConnectionStep ==
  ASSUME TypeOK, SessionInv, ConnectionInv, [Next]_vars
  PROVE  ConnectionInv'
<1> USE DEF ConnectionInv, MinableWork
<1>0. client \in Clients /\ work \in WorkData
  BY DEF TypeOK
<1>1. CASE MainEnter
  BY <1>1 DEF MainEnter
<1>2. CASE Recv
  <2>1. /\ UNCHANGED work /\ mainPc = "recv" /\ mainPc' = "check"
    BY <1>2, RecvFrame
  <2>2. client'.sess = client.sess
    BY <1>0, <1>2 DEF Recv, RecvNothing, RecvAuthAck, RecvWork,
                      RecvTruncatedWork, RecvClosed, Received, Clients
  <2> QED
    BY <2>1, <2>2
<1>3. CASE Check
  BY <1>0, <1>3 DEF Check, CheckLost, CheckUnsupported, CheckNewWork,
                    CheckSameWork, MainCheck, Clients
<1>4. CASE MainLost
  BY <1>0, <1>4 DEF MainLost, WorkData
<1>5. CASE MainLostPublish
  BY <1>5 DEF MainLostPublish
<1>6. CASE MainGet
  BY <1>0, <1>6 DEF MainGet
<1>7. CASE MainCopy
  BY <1>0, <1>7 DEF MainCopy, WorkData
<1>8. CASE MainPublish
  BY <1>8 DEF MainPublish
<1>9. CASE MainReconnect
  <2>1. ~MinableWork /\ UNCHANGED <<work, mainPc>> /\ mainPc = "loop"
    BY <1>9 DEF MainReconnect, SessionInv
  <2> QED
    BY <2>1
<1>10. CASE \E t \in Threads : MinerNext(t)
  BY <1>10, MinerFrame
<1>11. CASE UNCHANGED vars
  BY <1>11 DEF vars
<1> QED
  BY <1>1, <1>2, <1>3, <1>4, <1>5, <1>6, <1>7, <1>8, <1>9, <1>10, <1>11
     DEF Next, MainNext

LEMMA ConnectionInvariant == Spec => []ConnectionInv
<1>1. Init => ConnectionInv
  BY DEF Init, ConnectionInv, MinableWork
<1>2. TypeOK /\ SessionInv /\ ConnectionInv /\ [Next]_vars => ConnectionInv'
  BY ConnectionStep
<1> QED
  BY <1>1, <1>2, TypeCorrect, SessionInvariant, PTL DEF Spec

(* The algorithms the miner has are among those a thread can build a block *)
(* for.                                                                    *)
LEMMA SupportedIsMinable == Supported \subseteq Minable
BY DEF Supported, Minable, Algorithms

(* A step of the miner that AtomicMiner does not see. *)
LEMMA AtomicStutter ==
  ASSUME client'.sess = client.sess, client'.disconnected = client.disconnected,
         work'.sess = work.sess,
         UNCHANGED <<offer, block, seedGen, nFound, hand, queue, wire>>
  PROVE  UNCHANGED Atomic!vars
BY DEF Atomic!vars

LEMMA AtomicMainStep ==
  ASSUME TypeOK, WorkInv, SessionInv, DrainedInv, ConnectionInv, MainNext
  PROVE  Atomic!Next \/ UNCHANGED Atomic!vars
<1>0. /\ client \in Clients /\ work \in WorkData /\ offer \in Offers
      /\ UNCHANGED <<pc, block, kind, hand, nFound, seedGen>>
  BY MainFrame DEF TypeOK
<1>1. CASE MainEnter
  <2>1. Atomic!Send
    BY <1>0, <1>1 DEF MainEnter, Drain, Atomic!Send
  <2> QED
    BY <2>1 DEF Atomic!Next
<1>2. CASE Recv
  <2>1. /\ UNCHANGED <<queue, work, wire, offer>>
        /\ mainPc = "recv"
    BY <1>2, RecvFrame
  <2>2. CASE client'.sess = client.sess /\ client'.disconnected = client.disconnected
    BY <1>0, <2>1, <2>2, AtomicStutter
  <2>3. CASE RecvClosed
    <3>1. client' = [client EXCEPT !.disconnected = TRUE]
      BY <2>3 DEF RecvClosed, Received
    <3>2. client'.sess = client.sess /\ client'.disconnected = TRUE
      BY <1>0, <3>1 DEF Clients
    <3>3. queue = <<>> /\ client.disconnected = FALSE
      BY <1>0, <2>1 DEF DrainedInv, SessionInv, Clients
    <3>4. Atomic!Lose
      BY <1>0, <2>1, <3>2, <3>3 DEF Atomic!Lose
    <3> QED
      BY <3>4 DEF Atomic!Next
  <2>4. RecvNothing \/ RecvAuthAck \/ RecvWork \/ RecvTruncatedWork
        => client'.sess = client.sess /\ client'.disconnected = client.disconnected
    BY <1>0 DEF RecvNothing, RecvAuthAck, RecvWork, RecvTruncatedWork,
                Received, Clients
  <2> QED
    BY <1>2, <2>2, <2>3, <2>4 DEF Recv
<1>3. CASE CheckUnsupported
  <2>1. client' = [client EXCEPT !.disconnected = TRUE]
    BY <1>3 DEF CheckUnsupported
  <2>2. client'.sess = client.sess /\ client'.disconnected = TRUE
    BY <1>0, <2>1 DEF Clients
  <2>3. /\ queue = <<>> /\ client.disconnected = FALSE
        /\ UNCHANGED <<queue, work, wire, offer>>
    BY <1>0, <1>3 DEF CheckUnsupported, MainCheck, DrainedInv, Clients
  <2>4. Atomic!Lose
    BY <1>0, <2>2, <2>3 DEF Atomic!Lose
  <2> QED
    BY <2>4 DEF Atomic!Next
<1>4. CASE CheckLost \/ CheckNewWork \/ CheckSameWork
  <2>1. UNCHANGED <<client, queue, work, wire, offer>>
    BY <1>4 DEF CheckLost, CheckNewWork, CheckSameWork, MainCheck
  <2> QED
    BY <1>0, <2>1, AtomicStutter
<1>5. CASE MainLost \/ MainGet
  <2>1. UNCHANGED <<client, queue, wire, offer>> /\ work'.sess = work.sess
    BY <1>0, <1>5 DEF MainLost, MainGet, WorkData
  <2> QED
    BY <1>0, <2>1, AtomicStutter
<1>6. CASE MainLostPublish
  <2>1. client.disconnected = TRUE
    BY <1>0, <1>6 DEF MainLostPublish, ConnectionInv, Clients
  <2>2. /\ UNCHANGED <<client, queue, work, wire>>
        /\ offer' = [offer EXCEPT !.height = 0]
    BY <1>6 DEF MainLostPublish
  <2>3. /\ offer'.alg = offer.alg /\ offer'.height = 0 /\ offer'.root = offer.root
    BY <1>0, <2>2 DEF Offers
  <2>4. Atomic!Invalidate
    BY <1>0, <2>1, <2>2, <2>3 DEF Atomic!Invalidate
  <2> QED
    BY <2>4 DEF Atomic!Next
<1>7. CASE MainCopy
  <2>1. client.disconnected = FALSE
    BY <1>0, <1>7 DEF MainCopy, SessionInv, Clients
  <2>2. /\ UNCHANGED <<client, queue, wire>> /\ mainPc = "copy"
        /\ offer' = [alg |-> client.alg, height |-> client.info.height,
                     root |-> client.info.root]
        /\ work'.sess = client.sess
    BY <1>0, <1>7 DEF MainCopy, WorkData
  <2>3. /\ client.alg \in Supported \cup {NoAlg} /\ client.info.height \in Nat
        /\ client.info.root \in Roots /\ client.sess \in Nat
    BY <1>0, <2>2 DEF WorkInv, SessionInv, Clients, Info
  <2>4. Atomic!Install
    BY <1>0, <2>1, <2>2, <2>3 DEF Atomic!Install, Atomic!Work
  <2> QED
    BY <2>4 DEF Atomic!Next
<1>8. CASE MainPublish
  <2>1. UNCHANGED <<client, queue, work, wire, offer>>
    BY <1>8 DEF MainPublish
  <2> QED
    BY <1>0, <2>1, AtomicStutter
<1>9. CASE MainReconnect
  <2>1. /\ UNCHANGED <<work, wire, offer>> /\ queue' = <<>> /\ queue = <<>>
        /\ client.disconnected = TRUE /\ mainPc = "loop"
    BY <1>0, <1>9 DEF MainReconnect, DrainedInv, Clients
  <2>2. CASE client' = FreshClient(client.sess)
    <3>1. client'.sess = client.sess /\ client'.disconnected = TRUE
      BY <2>2 DEF FreshClient
    <3> QED
      BY <1>0, <2>1, <3>1, AtomicStutter
  <2>3. CASE client' = [FreshClient(client.sess + 1) EXCEPT !.disconnected = FALSE]
    <3>1. client'.sess = client.sess + 1 /\ client'.disconnected = FALSE
      BY <2>3 DEF FreshClient
    <3>2. offer.height = work.height /\ offer.alg = work.alg
      BY <1>0, <2>1 DEF WorkInv, WorkIsWhole, WorkData, Offers
    <3>3. ~Atomic!Minable
      BY <2>1, <3>2, SupportedIsMinable
         DEF SessionInv, MinableWork, Atomic!Minable
    <3>4. Atomic!Connect
      BY <1>0, <2>1, <3>1, <3>3 DEF Atomic!Connect
    <3> QED
      BY <3>4 DEF Atomic!Next
  <2> QED
    BY <1>9, <2>2, <2>3 DEF MainReconnect
<1> QED
  BY <1>1, <1>2, <1>3, <1>4, <1>5, <1>6, <1>7, <1>8, <1>9 DEF MainNext, Check

LEMMA AtomicMinerStep ==
  ASSUME TypeOK, LocksMatchCode, WorkInv, OnlySupportedMined, DispatchInv,
         PlaceInv, HoldsInv, ConnectionInv,
         NEW t \in Threads, MinerNext(t)
  PROVE  Atomic!Next \/ UNCHANGED Atomic!vars
<1>0. /\ client \in Clients /\ work \in WorkData
      /\ UNCHANGED <<mainPc, client, work, monHeight, wire, offer>>
  BY MinerFrame DEF TypeOK
<1>1. CASE \/ FetchEnter(t) \/ FetchNothing(t) \/ Continue(t) \/ EndBatch(t)
           \/ SubmitEnter(t)
  <2>1. UNCHANGED <<block, seedGen, nFound, hand, queue>>
    BY <1>1 DEF FetchEnter, FetchNothing, Continue, EndBatch, SubmitEnter
  <2> QED
    BY <1>0, <2>1, AtomicStutter
<1>2. CASE Fetch(t)
  <2>1. mainPc \notin {"copy", "lostPublish"}
    BY <1>2, ThreadsAssumption DEF Fetch, LocksMatchCode, MainInWork
  <2>2. /\ work.sess = client.sess
        /\ offer = [alg |-> work.alg, height |-> work.height, root |-> work.root]
    BY <1>2, <2>1 DEF Fetch, ConnectionInv, MinableWork, WorkInv, WorkIsWhole
  <2>3. work.alg \in Supported /\ work.height > 0
    BY <1>2, MinableIsAlgorithm DEF Fetch, OnlySupportedMined
  <2>4. block[t] = NoBlock
    BY <1>2 DEF Fetch, HoldsInv, HasBlock, MiningPcs
  <2>5. /\ block' = [block EXCEPT ![t] =
                       [alg |-> work.alg, height |-> work.height,
                        root |-> work.root, sess |-> work.sess, seed |-> seedGen]]
        /\ seedGen' = seedGen + 1
        /\ UNCHANGED <<queue, hand, nFound>>
    BY <1>2 DEF Fetch
  <2>6. Atomic!Take(t)
    BY <1>0, <2>2, <2>3, <2>4, <2>5 DEF Atomic!Take, Atomic!Minable
  <2> QED
    BY <2>6 DEF Atomic!Next
<1>3. CASE HasBlock(t) /\ hand[t] = 0 /\ Abandon(t)
           /\ UNCHANGED <<seedGen, nFound, hand, queue>>
  <2>1. block[t] # NoBlock
    BY <1>3, MinableIsAlgorithm DEF DispatchInv, NoBlock
  <2>2. Atomic!Leave(t)
    BY <1>0, <1>3, <2>1 DEF Abandon, Atomic!Leave
  <2> QED
    BY <2>2 DEF Atomic!Next
<1>4. CASE Dispatch(t)
  <2>1. CASE UNCHANGED block
    <3>1. UNCHANGED <<seedGen, nFound, hand, queue>>
      BY <1>4 DEF Dispatch
    <3> QED
      BY <1>0, <2>1, <3>1, AtomicStutter
  <2>2. CASE Abandon(t)
    <3>1. /\ UNCHANGED <<seedGen, nFound, hand, queue>> /\ pc[t] = "dispatch"
      BY <1>4 DEF Dispatch
    <3>2. hand[t] = 0 /\ HasBlock(t)
      BY <3>1 DEF HoldsInv, HasBlock
    <3> QED
      BY <1>3, <2>2, <3>1, <3>2
  <2> QED
    BY <1>4, <2>1, <2>2 DEF Dispatch
<1>5. CASE GiveUp(t) \/ Exhausted(t)
  <2>1. /\ UNCHANGED <<seedGen, nFound, hand, queue>> /\ pc[t] = "mine" /\ Abandon(t)
    BY <1>5 DEF GiveUp, Exhausted
  <2>2. hand[t] = 0 /\ HasBlock(t)
    BY <2>1 DEF HoldsInv, HasBlock, MiningPcs
  <2> QED
    BY <1>3, <2>1, <2>2
<1>6. CASE FindShare(t)
  <2>1. /\ nFound' = nFound + 1 /\ hand' = [hand EXCEPT ![t] = nFound + 1]
        /\ UNCHANGED <<block, seedGen, queue>> /\ pc[t] = "batch"
    BY <1>6 DEF FindShare
  <2>2. hand[t] = 0 /\ block[t] # NoBlock
    BY <2>1, MinableIsAlgorithm DEF HoldsInv, DispatchInv, HasBlock, MiningPcs, NoBlock
  <2>3. Atomic!Find(t)
    BY <1>0, <2>1, <2>2 DEF Atomic!Find
  <2> QED
    BY <2>3 DEF Atomic!Next
<1>7. CASE Submit(t)
  <2>1. /\ pc[t] = "queue" /\ hand' = [hand EXCEPT ![t] = 0]
        /\ queue' = IF client.disconnected THEN queue
                    ELSE Append(queue, [id |-> hand[t], kind |-> kind[t],
                                        block |-> block[t], on |-> client.sess])
        /\ UNCHANGED <<block, seedGen, nFound>>
    BY <1>7 DEF Submit
  <2>2. /\ HasBlock(t) /\ pc[t] \in MiningPcs /\ hand[t] # 0
    BY <2>1 DEF HasBlock, MiningPcs, PlaceInv
  <2>3. block[t] # NoBlock /\ kind[t] \in Supported
    BY <2>2, MinableIsAlgorithm
       DEF DispatchInv, HoldsInv, OnlySupportedMined, NoBlock
  <2>4. kind[t] = block[t].alg \/ block[t].sess < client.sess
    BY <2>2, SessionsAreNumbers DEF DispatchInv
  <2>5. Atomic!Submit(t)
    BY <1>0, <2>1, <2>2, <2>3, <2>4 DEF Atomic!Submit
  <2> QED
    BY <2>5 DEF Atomic!Next
<1> QED
  BY <1>1, <1>2, <1>4, <1>5, <1>6, <1>7 DEF MinerNext

(* For any number of threads and any pool, the miner with its locks,       *)
(* unlocked reads and interrupted loop behaves as the atomic one: threads  *)
(* take whole updates of the present session with seeds of their own, no   *)
(* share is lost, repeated, overtaken or sent on another connection, and   *)
(* nothing is minable while a connection is made.                          *)
THEOREM ActsAtomically == Spec => MinesAsIfAtomic
<1>1. Init => Atomic!Init
  <2> SUFFICES ASSUME Init PROVE Atomic!Init
    OBVIOUS
  <2>1. client.sess = 0 /\ client.disconnected = TRUE
    BY DEF Init, FreshClient
  <2>2. /\ work.sess = 0 /\ offer.alg = NoAlg /\ offer.height = 0
        /\ offer.root = NoRoot
    BY DEF Init
  <2>3. /\ block = [t \in Threads |-> NoBlock] /\ seedGen = 0 /\ nFound = 0
        /\ hand = [t \in Threads |-> 0] /\ queue = <<>> /\ wire = <<>>
    BY DEF Init
  <2> QED
    BY <2>1, <2>2, <2>3 DEF Atomic!Init, Atomic!Work, Atomic!Minable, Roots
<1>2. /\ TypeOK /\ LocksMatchCode /\ WorkInv /\ SessionInv /\ OnlySupportedMined
      /\ DispatchInv /\ DrainedInv /\ PlaceInv /\ HoldsInv /\ ConnectionInv
      /\ [Next]_vars
      => [Atomic!Next]_(Atomic!vars)
  <2> SUFFICES ASSUME TypeOK, LocksMatchCode, WorkInv, SessionInv,
                      OnlySupportedMined, DispatchInv, DrainedInv, PlaceInv,
                      HoldsInv, ConnectionInv, [Next]_vars
               PROVE  Atomic!Next \/ UNCHANGED Atomic!vars
    OBVIOUS
  <2>1. CASE MainNext
    BY <2>1, AtomicMainStep
  <2>2. CASE \E t \in Threads : MinerNext(t)
    BY <2>2, AtomicMinerStep
  <2>3. CASE UNCHANGED vars
    BY <2>3, AtomicStutter DEF vars
  <2> QED
    BY <2>1, <2>2, <2>3 DEF Next
<1> QED
  BY <1>1, <1>2, TypeCorrect, LockDiscipline, WorkInvariant, SessionInvariant,
     SupportedAlgorithms, DispatchInvariant, QueueDrained, PlaceInvariant,
     HoldsInvariant, ConnectionInvariant, PTL
     DEF Spec, MinesAsIfAtomic, Atomic!Spec

-----------------------------------------------------------------------------
(* The packets of XptMiner *)

(* Whatever a packet does to the client as ClientSession tells it, which   *)
(* the packet handlers implement, is one of the Recv actions, provided the *)
(* pool may push early and truncated packets and answers a login once: the *)
(* main thread is ready for every packet.                                  *)
THEOREM PacketsCovered ==
  ASSUME TypeOK, mainPc = "recv", mainPc' = "check",
         PoolMay = {"early", "truncated"},
         [Packets!Packet]_(Packets!vars),
         client' \in Clients, client'.sess = client.sess,
         client.loggedIn => client'.alg = client.alg,
         UNCHANGED <<xptLock, workLock, queue, work, monHeight, wire, offer>>,
         UNCHANGED threadVars
  PROVE  Recv
<1>1. client \in Clients
  BY DEF TypeOK
<1>2. Received(client')
  BY DEF Received
<1>3. CASE UNCHANGED Packets!vars
  <2>1. client' = client
    BY <1>1, <1>3 DEF Packets!vars, Clients
  <2> QED
    BY <1>2, <2>1 DEF Recv, RecvNothing
<1>4. CASE Packets!Login
  <2>1. /\ client'.loggedIn = TRUE /\ client'.alg \in PoolAlgs \cup {NoAlg}
        /\ client'.disconnected = client.disconnected /\ client'.info = client.info
    BY <1>4 DEF Packets!Login
  <2>2. CASE client.loggedIn
    <3>1. client.loggedIn = TRUE
      BY <1>1, <2>2 DEF Clients
    <3>2. client' = client
      BY <1>1, <2>1, <2>2, <3>1 DEF Clients
    <3> QED
      BY <1>2, <3>2 DEF Recv, RecvNothing
  <2>3. CASE ~client.loggedIn
    <3> DEFINE c == [client EXCEPT !.loggedIn = TRUE, !.alg = client'.alg]
    <3>1. client' = c
      BY <1>1, <2>1 DEF Clients
    <3>2. Received(c)
      BY <1>2, <3>1
    <3>3. client'.alg \in PoolAlgs \cup (IF "truncated" \in PoolMay THEN {NoAlg} ELSE {})
      BY <2>1
    <3>4. RecvAuthAck
      BY <2>3, <3>2, <3>3 DEF RecvAuthAck
    <3> QED
      BY <3>4 DEF Recv
  <2> QED
    BY <2>2, <2>3
<1>5. CASE Packets!NewUpdate
  <2>1. PICK w \in Works : client'.info = InfoOf(w)
    BY <1>5 DEF Packets!NewUpdate
  <2>2. /\ client'.loggedIn = client.loggedIn /\ client'.alg = client.alg
        /\ client'.disconnected = client.disconnected
    BY <1>5 DEF Packets!NewUpdate
  <2> DEFINE c == [client EXCEPT !.info = InfoOf(w)]
  <2>3. client' = c
    BY <1>1, <2>1, <2>2 DEF Clients
  <2>4. Received(c)
    BY <1>2, <2>3
  <2>5. RecvWork
    BY <2>4 DEF RecvWork, MayPushWork
  <2> QED
    BY <2>5 DEF Recv
<1>6. CASE Packets!CutUpdate
  <2>1. PICK w \in Works : \E h \in {0, InfoOf(w).height} :
               client'.info = [client.info EXCEPT !.height = h]
    BY <1>6 DEF Packets!CutUpdate
  <2>2. PICK h \in {0, InfoOf(w).height} :
               client'.info = [client.info EXCEPT !.height = h]
    BY <2>1
  <2>3. /\ client'.loggedIn = client.loggedIn /\ client'.alg = client.alg
        /\ client'.disconnected = client.disconnected
    BY <1>6 DEF Packets!CutUpdate
  <2> DEFINE c == [client EXCEPT !.info.height = h]
  <2>4. client' = c
    BY <1>1, <2>2, <2>3 DEF Clients
  <2>5. Received(c)
    BY <1>2, <2>4
  <2>6. h \in {0, HeightOf[w]}
    BY <2>2 DEF InfoOf
  <2>7. RecvTruncatedWork
    BY <2>5, <2>6 DEF RecvTruncatedWork, MayPushWork
  <2> QED
    BY <2>7 DEF Recv
<1>7. CASE Packets!Close
  <2>1. /\ client'.disconnected = TRUE /\ client'.loggedIn = client.loggedIn
        /\ client'.alg = client.alg /\ client'.info = client.info
    BY <1>7 DEF Packets!Close
  <2> DEFINE c == [client EXCEPT !.disconnected = TRUE]
  <2>2. client' = c
    BY <1>1, <2>1 DEF Clients
  <2>3. Received(c)
    BY <1>2, <2>2
  <2> QED
    BY <2>3 DEF Recv, RecvClosed
<1> QED
  BY <1>3, <1>4, <1>5, <1>6, <1>7 DEF Packets!Packet
=============================================================================
