------------------------------ MODULE PoolSession ------------------------------
(***************************************************************************)
(* What the client promises about the packets of a pool, without a byte:   *)
(* a packet is its form (the values the pool wrote) and whether all of it  *)
(* arrived.  PacketHandlers implements it.                                 *)
(***************************************************************************)
EXTENDS Integers, Sequences

CONSTANTS
  Forms,        \* the packets a pool may write
  Blank,        \* block data after memset()
  Riecoin,      \* the algorithm whose targets are not expanded
  MaxReason, MaxText,     \* 512, 1024: limits of the texts
  MaxRejected   \* bound: rejected shares counted

VARIABLES packet, loggedIn, algorithm, hasWork, work, rejected, dropped

vars == <<packet, loggedIn, algorithm, hasWork, work, rejected, dropped>>

(* A text the client accepts: two short of the limit, the ending 0 and one more. *)
Readable(text, max) == Len(text) < max - 1

-----------------------------------------------------------------------------
(* Block data *)

Place ==
  [version |-> 1, height |-> 2, nBits |-> 3, targetCompact |-> 4,
   targetShareCompact |-> 5, nTime |-> 6, prevBlockHash |-> 7, merkleRoot |-> 8,
   coinBase1Size |-> 9, coinBase1 |-> 10, coinBase2Size |-> 11, coinBase2 |-> 12,
   txHashCount |-> 13]
LastFixed == 13
Arrays == {"prevBlockHash", "merkleRoot", "coinBase1", "coinBase2"}
Parts(form) == LastFixed + Len(form.txHashes)

(* Old content stays behind the end of shorter new one. *)
Over(old, new) == [i \in DOMAIN old |-> IF i \in DOMAIN new THEN new[i] ELSE old[i]]

(* After the first k parts numbers are 0 and arrays as they were. *)
Field(old, form, k, name) ==
  CASE name \in Arrays -> IF Place[name] <= k THEN Over(old[name], form[name])
                                             ELSE old[name]
    [] OTHER           -> IF Place[name] <= k THEN form[name] ELSE 0

Target(old, form, k, name, compact) ==
  IF algorithm = Riecoin THEN old[name] ELSE Field(old, form, k, compact)

Installed(old, form, k) ==
  [name \in DOMAIN old |->
     CASE name = "target"      -> Target(old, form, k, name, "targetCompact")
       [] name = "targetShare" -> Target(old, form, k, name, "targetShareCompact")
       [] name = "txHashes"    ->
            Over(old[name], SubSeq(form.txHashes, 1, k - LastFixed))
       [] OTHER                -> Field(old, form, k, name)]

-----------------------------------------------------------------------------
Init ==
  /\ packet = [op |-> "NONE", whole |-> TRUE]
  /\ loggedIn = FALSE /\ algorithm = 0
  /\ hasWork = FALSE /\ work = Blank
  /\ rejected = 0
  /\ dropped = FALSE

Arrives(form, whole) ==
  /\ ~dropped
  /\ packet' = [op |-> form.op, whole |-> whole]

Quiet == UNCHANGED <<loggedIn, algorithm, hasWork, work, rejected, dropped>>

(* A login answer cut behind its text is a login without an algorithm. *)
Login(form, whole) ==
  /\ form.op = "AUTH_ACK" /\ form.code = 0 /\ Readable(form.reason, MaxReason)
  /\ loggedIn' = TRUE
  /\ algorithm' = IF whole THEN form.algorithm ELSE 0
  /\ UNCHANGED <<hasWork, work, rejected, dropped>>

(* Only packets that are cut, refuse the login or have too long a text. *)
Drop(form, whole) ==
  /\ form.op \in {"AUTH_ACK", "SHARE_ACK", "MESSAGE", "PING"}
  /\ whole => \/ form.op = "AUTH_ACK"
                 /\ ~(form.code = 0 /\ Readable(form.reason, MaxReason))
              \/ form.op = "MESSAGE" /\ ~Readable(form.text, MaxText)
  /\ dropped' = TRUE
  /\ UNCHANGED <<loggedIn, algorithm, hasWork, work, rejected>>

NewWork(form, whole) ==
  /\ form.op = "WORKDATA1"
  /\ \E k \in 0 .. Parts(form) :
       /\ whole <=> k = Parts(form)
       /\ work' = Installed(work, form, k)
  /\ hasWork' = TRUE
  /\ UNCHANGED <<loggedIn, algorithm, rejected, dropped>>

(* Whatever became of its text. *)
RejectShare(form) ==
  /\ form.op = "SHARE_ACK" /\ form.code # 0
  /\ rejected < MaxRejected /\ rejected' = rejected + 1
  /\ UNCHANGED <<loggedIn, algorithm, hasWork, work, dropped>>

Ignore(form, whole) ==
  /\ \/ form.op = "SHARE_ACK" /\ form.code = 0
     \/ form.op = "MESSAGE" /\ Readable(form.text, MaxText) /\ whole
     \/ form.op = "PING" /\ whole
     \/ form.op = "UNKNOWN"
  /\ Quiet

(* A new client object takes the place of the dropped one. *)
Reconnect ==
  /\ dropped
  /\ packet' = [op |-> "NONE", whole |-> TRUE]
  /\ loggedIn' = FALSE /\ algorithm' = 0 /\ hasWork' = FALSE /\ work' = Blank /\ dropped' = FALSE
  /\ UNCHANGED rejected

Next ==
  \/ \E form \in Forms, whole \in BOOLEAN :
       /\ Arrives(form, whole)
       /\ \/ Login(form, whole) \/ Drop(form, whole) \/ NewWork(form, whole)
          \/ RejectShare(form) \/ Ignore(form, whole)
  \/ Reconnect

Spec == Init /\ [][Next]_vars
=============================================================================
