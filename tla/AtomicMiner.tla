------------------------------ MODULE AtomicMiner ------------------------------
(***************************************************************************)
(* What the miner promises about work and shares, without a lock, a        *)
(* program counter or a second copy of the work: as if every operation     *)
(* were one step.  XptMiner implements it.                                 *)
(***************************************************************************)
EXTENDS Integers, Sequences

CONSTANTS
  Usable,      \* the algorithms the miner has
  NoAlg,       \* no login, no algorithm
  Roots,       \* merkle roots of block data
  Threads,     \* the miner threads
  NoBlock      \* the block of a thread that has none

VARIABLES
  session,     \* connections made so far
  connected,   \* the last of them is in use
  work,        \* the block data handed out, and their session
  block,       \* the block of each thread, or NoBlock
  seeds,       \* merkle seeds drawn so far
  found,       \* shares found so far
  hand,        \* the share a thread is submitting, or 0
  queue,       \* shares waiting for the connection
  sent         \* shares sent, each with the session it left on

vars == <<session, connected, work, block, seeds, found, hand, queue, sent>>

Work == [alg : Usable \cup {NoAlg}, height : Nat, root : Roots, sess : Nat]
Minable == work.height > 0 /\ work.alg \in Usable

Init ==
  /\ session = 0 /\ connected = FALSE
  /\ work \in Work /\ ~Minable
  /\ block = [t \in Threads |-> NoBlock] /\ seeds = 0
  /\ found = 0 /\ hand = [t \in Threads |-> 0]
  /\ queue = <<>> /\ sent = <<>>

(* No thread can take work of an earlier connection. *)
Connect ==
  /\ ~connected /\ ~Minable
  /\ queue = <<>>
  /\ connected' = TRUE /\ session' = session + 1
  /\ UNCHANGED <<work, block, seeds, found, hand, queue, sent>>

(* No share is lost with the connection it was queued for. *)
Lose ==
  /\ connected /\ queue = <<>>
  /\ connected' = FALSE
  /\ UNCHANGED <<session, work, block, seeds, found, hand, queue, sent>>

Install ==
  /\ connected
  /\ work' \in Work /\ work'.sess = session
  /\ UNCHANGED <<session, connected, block, seeds, found, hand, queue, sent>>

Invalidate ==
  /\ ~connected
  /\ work' = [work EXCEPT !.height = 0]
  /\ UNCHANGED <<session, connected, block, seeds, found, hand, queue, sent>>

(* A block is one whole update of the present session, with a new seed. *)
Take(t) ==
  /\ block[t] = NoBlock
  /\ Minable /\ work.sess = session
  /\ block' = [block EXCEPT ![t] = [alg |-> work.alg, height |-> work.height,
                                    root |-> work.root, sess |-> session, seed |-> seeds]]
  /\ seeds' = seeds + 1
  /\ UNCHANGED <<session, connected, work, found, hand, queue, sent>>

Leave(t) ==
  /\ block[t] # NoBlock /\ hand[t] = 0
  /\ block' = [block EXCEPT ![t] = NoBlock]
  /\ UNCHANGED <<session, connected, work, seeds, found, hand, queue, sent>>

Find(t) ==
  /\ block[t] # NoBlock /\ hand[t] = 0
  /\ found' = found + 1 /\ hand' = [hand EXCEPT ![t] = found + 1]
  /\ UNCHANGED <<session, connected, work, block, seeds, queue, sent>>

(* A share of the block, found by the function for the block's algorithm   *)
(* unless the connection was replaced since the block was taken, is queued *)
(* for the present session, or dropped while there is none.                *)
Submit(t) ==
  /\ block[t] # NoBlock /\ hand[t] # 0
  /\ hand' = [hand EXCEPT ![t] = 0]
  /\ \E kind \in Usable :
       /\ kind = block[t].alg \/ block[t].sess < session
       /\ queue' = IF connected
                   THEN Append(queue, [id |-> hand[t], kind |-> kind,
                                       block |-> block[t], on |-> session])
                   ELSE queue
  /\ UNCHANGED <<session, connected, work, block, seeds, found, sent>>

(* The whole queue leaves, in the order in which shares came to it. *)
Send ==
  /\ connected
  /\ sent' = sent \o [i \in DOMAIN queue |-> [share |-> queue[i], sess |-> session]]
  /\ queue' = <<>>
  /\ UNCHANGED <<session, connected, work, block, seeds, found, hand>>

Next ==
  \/ Connect \/ Lose \/ Install \/ Invalidate \/ Send
  \/ \E t \in Threads : Take(t) \/ Leave(t) \/ Find(t) \/ Submit(t)

Spec == Init /\ [][Next]_vars
=============================================================================
