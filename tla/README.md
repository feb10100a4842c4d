# xptMiner in TLA+

xptMiner is a pool miner: one thread keeps a connection to a pool (the xpt
protocol) and distributes block data, a few miner threads search nonces and hand
the shares they find back to that connection. This directory holds its
specification: TLA+ modules, TLC configurations, and proofs checked by TLAPS.
Paths below are relative to `src/xptMiner/`.

## Inventory

| part | state | operations |
|---|---|---|
| work-management loop, `main.cpp:455-674` | `workDataSource` (under `cs_work`), `monitorCurrentBlockHeight`, `xptClient` (under `cs_xptClient`) | process the connection, install new work, invalidate lost work, reject unsupported logins, reconnect |
| miner thread, `main.cpp:264-447` | a local union of block structures | fetch work, dispatch to a process function |
| process functions, `*Miner.cpp` | a block, a nonce range | search a batch, submit a share, notice stale work |
| share submission, `main.cpp:57-261` | `list_shareSubmitQueue` (under `cs_shareSubmit`) | queue a copy of the block |
| client session, `xptClient.cpp` | socket, login state, algorithm, block data, receive state, ping timer, fees | create, connect, process, disconnect, free |
| packet handlers, `xptClientPacketHandler.cpp` | fields of the client | login answer, block data, share answer, message, ping |
| packet buffer, `xptPacketbuffer.cpp` | buffer, parser index, limits | bounded reads and writes, strings, headers |
| server stub, `xptServer*.cpp` | connections, known heights | none in this program: `xptServer_create` has no caller |
| Protoshares search, `protosharesMiner.cpp`, `gpuhash.cu` | counting filters, result array with a counter | hash, filter, rewrite, match, revalidate |
| algorithms | - | coinbase hash and merkle root (`transaction.cpp`), base58, fees and compact targets (`xptClient.cpp`), prime table and sieve (`riecoinMiner.cpp`) |
| containers, `jhlib.cpp` | arrays that grow, streams | append, read, clear |

How they interact. The main thread and the miner threads share memory only:
`workDataSource` and the merkle-seed counter under `cs_work`, the client object
under `cs_xptClient`, its share queue under `cs_shareSubmit` (taken only inside
`cs_xptClient`), and two volatile words the miners poll. Two things are shared
without a lock on purpose: the polled height, and the second read of
`workDataSource.algorithm` at `main.cpp:409`. The pool is reached through a
non-blocking socket that the main thread reads once per iteration.

What is hard. The miners run without ever waiting for the main thread, so every
update of the work races with fetches, dispatches and submissions; the client
object is destroyed and replaced under them; the polled height is a second copy
of the work's height maintained on several paths; the pool may push work before
answering the login, cut packets short or disconnect between any two steps;
several error results are ignored, and the packet buffer clears the error flag
of one read with the next; the threads of a GPU kernel update one filter with
two atomic steps each. `PROJECT.json` lists each hazard at its line.

What makes each part correct:

* loop and miner threads: a thread mines blocks of one whole update, of a
  logged-in session, with a supported algorithm, and abandons stale ones;
* shares: each is queued once, sent at most once, on the connection it was
  queued for; each block has a merkle seed of its own;
* locks: entered and left by their owner on every path;
* byte stream: packets are delivered whole, in order and once;
* packet handlers: a whole packet takes full effect; a cut one has the effect
  of its beginning, and never that of bytes behind its end;
* Protoshares search: no true collision is filtered out, only collisions are
  submitted, and a failed kernel or a full list does no harm to that;
* algorithms and client packets: they compute what they stand for, and the pool
  reads back what the client meant.

## Plan

1. `XptMiner` - loop, miner threads, shares (the system's most important
   behaviour), with `MCXptMiner` and `XptMinerProofs`, shown to implement the
   lock-free `AtomicMiner`.
   **Modelled, checked, every safety property proved.**
2. `XptClient` - the socket, header and payload state machine of
   `xptClient_process`, shown to implement the channel of whole packets in
   `PacketChannel`. **Modelled, checked and proved** (`XptClientProofs`).
3. `PacketBuffer` and `PacketHandlers` - reads, writes, strings, the error flag,
   the five handlers over them and the ping timer, shown to implement
   `PoolSession` and, with `XptMiner` on its other side, `ClientSession`. **Modelled, checked, every safety property proved**
   (`PacketBufferProofs`, `PacketHandlersProofs`).
4. `BirthdaySearch` - the concurrent two-bit filter of `gpuhash.cu`, the four
   kernels and the passes over the results, shown to implement
   `CollisionSearch`. **Modelled, checked, every safety property proved**
   (`BirthdaySearchProofs`, `HostSearchProofs`).
5. `Algorithms` - `MerkleTree`, `CompactTarget`, `WalletAddress`, `RiecoinSieve`
   and `ClientPackets` as operators, checked over bounded inputs. **Modelled,
   checked, every invariant proved for all inputs** (`AlgorithmsProofs`).
6. Left: partial sends and the statistics counters.

## XptMiner

| code | model |
|---|---|
| main thread's place in the loop | `mainPc` |
| `cs_xptClient`, `cs_work` | `xptLock`, `workLock`: the owner, or `NoOne` |
| `*xptClient` | `client` = session number (history), `disconnected`, `loggedIn`, `alg`, block `info` |
| `list_shareSubmitQueue` | `queue` |
| `workDataSource` | `work` = `alg`, `height`, `root` (and the session it came from, history) |
| `monitorCurrentBlockHeight` | `monHeight` |
| `uniqueMerkleSeedGenerator` | `seedGen` |
| a thread's union | `block[t]` with the algorithm whose member was filled; `kind[t]` is the process function running on it |
| a share between discovery and queue | `hand[t]` |
| - | `wire` (shares passed to `send`), `offer` (the last complete update), `nFound`: history |

One iteration of the main loop is `MainEnter` (enter the lock, drain the queue),
one of the `Recv` actions (what the single `recv` brings), one of the `Check`
actions (the if-chain after `xptClient_process`) and the steps of the chosen
branch: `MainLost`/`MainLostPublish`, or `MainGet`/`MainCopy`/`MainPublish`.
`MainCopy` is where the height, written last, goes in. Steps are split where
another thread can see the difference: at every lock operation and at every
access to an unlocked shared word. Everything inside one critical section that
only its owner can see is one step, except the algorithm (written first), which
the miners read without the lock.

A miner thread runs `FetchEnter`, `Fetch` or `FetchNothing`, `Dispatch`, then
`Continue`/`EndBatch` in a loop with `FindShare`, `SubmitEnter`, `Submit`, until
`GiveUp` (polled height differs) or `Exhausted`. The metiscoin and maxcoin
functions poll; the others of the dispatched functions do not. When a process
function runs on a block of another layout, `HeightRead` is what it finds at the
offset of its own `height`.

The lists of bounds: `MaxSessions` (successful connections), `MaxSeed` (fetches)
and `MaxShares` are guards on the actions named in the module; they cut the tail
of behaviours, no action of the first ones.

Abstracted: payloads (a block is named by its merkle root), time, statistics,
the six copies of fetch and submit code (one action each), the recursion of
critical sections (never used).

`AtomicMiner` is the promise without locks, program counters or a second copy of
the work: a connection is made, lost, gets block data or loses them; a thread
takes a whole update with a new seed, finds shares, submits them, leaves its
block; the queue is sent. Its guards carry what the code has to achieve:
`Connect` needs an empty queue and nothing minable, `Lose` an empty queue,
`Take` an update of the present session, `Submit` a process function that is the
block's own unless its session is over, and `Send` keeps the order. Under the
refinement `work` is the last complete update (`offer`), so the stores between
`MainGet` and `MainCopy` are invisible and `MainCopy` is the one step `Install`;
`MainLostPublish` is `Invalidate`; every lock, poll and dispatch is a stutter.

## XptClient and PacketChannel

`XptMiner` takes for granted that a packet arrives whole or not at all.
`XptClient` models why: the receive half of `xptClient_process` with every way
`recv` may cut the stream, and the life of the socket's descriptor through
`xptClient_connect`, a refused packet, `xptClient_forceDisconnect` and
`xptClient_free`.

| code | model |
|---|---|
| `clientSocket`, `disconnected`, `recvIndex`, `recvSize`, `recvBuffer->bufferLimit` | `sock`, `disconnected`, `recvIndex`, `recvSize`, `limit` |
| descriptor table of the process | `fds` |
| bytes of the connection | `stream` (packets with the position of their first byte) and `pos` (bytes that `recv` has returned) |
| - | `handled` (calls of `xptClient_processPacket`), `attempt` (the last connect): history |

A byte is its position, so the content of `recvBuffer` follows from `pos` and
`recvIndex`. If the receiver lost its place, the four bytes it takes for a
header would be at no packet's start: then `HeaderSays` allows any size and
`Verdict` any outcome, so a wrong framing cannot hide. One call of
`xptClient_process` is one action, named for what the `recv` brings
(`RecvPart`, `RecvHeader`, `RecvOversized`, `RecvEmpty`, `RecvPayload`,
`RecvZero`, `RecvClosed`; a call that finds nothing changes nothing).

`PacketChannel` is the promise: whole packets, in order, once, none after one
that closed the connection. `XptClient` implements it (`WholePackets`) with the
sent packets, the handled packets and `~disconnected` as the mapping.

Linux only: a socket is an `int`, the result of `connect` is ignored, and
descriptor 0 is what counts as an error.

## PacketHandlers, PacketBuffer, PoolSession and ClientSession

`XptMiner` lets any field of a packet go missing; `PacketHandlers` shows what
really may. It runs the five handlers of `xptClientPacketHandler.cpp` over the
bytes of the packet, and the ping timer.

| code | model |
|---|---|
| `xptPacketbuffer_t` and the caller's `readError` | a record `pb`: `data`, `limit`, `size`, `index`, and the flag `err` |
| `xptPacketbuffer_read*` | `ReadNumber`, `ReadData`, `ReadString`: what was read, and the buffer after it |
| `xptPacketbuffer_write*` | `WriteNumber`, `WriteData`, `WriteString` |
| `clientState`, `algorithm`, `hasWorkData` | `loggedIn`, `algorithm`, `hasWork` |
| `blockWorkInfo` | `work`, a record with its fields |
| `totalRejectedShareCount` | `rejected` |
| `disconnected` after a handler returned false | `dropped` |
| `time_sendPing` | `ping`: "off", "waiting" or "due" |
| - | `packet`: the kind last handled and whether it was whole (history) |

A successful read clears the flag an earlier one set (`xptPacketbuffer.cpp:80`
and on), so what a handler sees depends on where it looks: the model threads
`err` through every call. The pool (external) writes its packets with the same
kinds of numbers and strings; what `Receive` may get is every packet, cut behind
every byte of its payload (`PoolPackets`).

`PoolSession` is the promise without bytes. A packet is its form and whether it
was whole: a whole one takes full effect or drops the client for a reason it
names; block data cut behind the k-th part leave the numbers behind the cut 0
and the arrays as they were, all or nothing for each part; a login cut behind
its text is a login without an algorithm. `PacketHandlers` implements it
(`EffectsAsPromised`), which also says that no handler reads past a packet.

`ClientSession` is what the work-management loop takes for granted of the client
object: connection, login, and the height and merkle root that `main.cpp:631`
compares. Both come from one packet, or the packet was cut before its root and
only the height changed, to the packet's or 0. `PacketHandlers` implements it
(`UpdatesAsAssumed`); in `XptMiner` it is the instance `Packets`, and
`PacketsCovered` (in `XptMinerProofs`) proves that each of its packet steps is one
of the `Recv` actions, so the core is checked against every packet the handlers
let through. The one thing left to the pool is that it answers a login once: a
second answer with another algorithm is beyond `RecvAuthAck`.

A byte has `Base` values (256 in the code), and the limits of texts and arrays
are scaled with it: with `Base = 4`, `MaxReason = 8` and `MaxText = 9` both
texts have a length of two bytes, as in the code, and `MCTexts` has the
empty one, the longest that is read and the shortest that is refused.

`Placed` is `memcpy` into an array. `WellFormed` (in `HandlersAssumption`) is what
the pool may say: bytes in every text and hash, numbers of their widths, no more
hashes than the client's arrays hold, and a packet that fits in its buffer. With
the arrays' limits (4096 hashes, two coinbase parts of 1024 bytes) block data
has at most 34 + 2 * 32 + 2 * 1024 + 4096 * 32 bytes, less than the 256 KB of the
code's buffers; a packet outside of that is refused before a handler sees it
(`XptClient`).

## BirthdaySearch and CollisionSearch

| code | model |
|---|---|
| `dev_hashes`, `dev_countbits`, `dev_results` | `devHashes`, `countbits`, `devResults` |
| `__hashblock` on the host | `hashblock` |
| the kernel the stream has reached | `kernel` |
| a thread's loop counter | `at[t]` |
| a thread between its two `atomicOr` | `doubling` |
| the value of `ComputeHashes`, which the host ignores | `outcome` |
| the host's place | `host` |
| calls of `protoshares_revalidateCollision` that get to the comparison with the target | `tested` |

SHA-512 is an arbitrary function from hash numbers to birthdays (`Headers`), and
so are the slots of the filters (`LowSlot`, `HighSlot`, `HostSlot`). Each
iteration of a GPU thread is one action, two when `gpu_set_or_double` finds the
first bit set (`FirstOr`, `SecondOr`). Kernels follow each other in one stream
(`NextKernel`); `Synchronize` is the copy at its end. `KernelError` may end any
kernel: nothing is copied and the host goes on with what the last header left.
`Match` is the whole of `protoshares_process_512`: the three passes, the pairs,
the entries zeroed and what stays behind in `__hashblock`.

Details kept because properties depend on them: `atomicInc` wraps at
`N_RESULTS`; results past the end of the array are counted and lost; the copy
ends in the middle of an entry, so the last one has a new word and an old index;
the host takes one from the counter (`Starting`), which drops the last result;
a counter of 0 becomes 2^32 - 1 and the loops leave the array (`Overrun`, after
which the behaviour of the program is undefined and the model stops, hence
`CHECK_DEADLOCK FALSE`). A hash can be paired with itself, but only with what is
left of an earlier header: after a failed kernel or a full list.

`CollisionSearch` is what the host expects: asked with a header, the GPU fails
or answers with different hashes among which every collision is found, or with a
full list. `BirthdaySearch` implements it (`SearchAsPromised`).

## Algorithms

The state of `Algorithms` is one input, its step changes nothing, and the
invariants compare what the code computes with what it stands for.

* `MerkleTree`: `TxHash` and `MerkleRoot` are `bitclient_generateTxHash` and
  `bitclient_calculateMerkleRoot` with its arrays of layers; SHA-256 is a
  constructor (a hash is named by its input). The reference `TreeRoot` halves
  the list of leaves until one is left (`RootIsTree`), and two merkle seeds give
  two roots (`SeedsGiveRoots`).
* `CompactTarget`: the byte shifts of `xptClient_getDifficultyTargetFromCompact`
  against a multiplication (`TargetIsShifted`).
* `WalletAddress`: `xptClient_decodeBase58` with the carries through its words
  and `xptClient_addDeveloperFeeEntry`, against the value of the digits
  (`AddressIsNumber`). The checksum is any function (`Checksum`).
* `RiecoinSieve`: the prime table and the sieve of `riecoin_process` against
  trial division (`SieveIsExact`); the inverses are those of `mpz_invert`, external.
* `ClientPackets`: login, share and ping as the bytes passed to `send`, against
  what a pool reads by the lengths in them (`HeaderTellsSize`,
  `PoolUnderstands`).

Numbers are scaled: a byte has 8 values, a word two or four bytes, base58 is
base 11 and base 256 is base 8, 30 stands for the primorial and ten layers are
four; the send buffer of 256 such bytes has room for the longest packet, which
`InputAssumption` demands (`Room`), like that of 256 KiB in the code.
`MCAlgorithms` takes every compact target, every number of transactions
up to what the layers hold and one more, short addresses over all kinds of
digits and long ones over the extremes, names around the limit, and more fees
than the list holds.

## Runs

| run | shows | bounds |
|---|---|---|
| `work_distribution` | type correctness, lock discipline, agreement of polled height and work, whole updates, nothing minable while down, only supported algorithms, dispatch mismatch only across a reconnection; `AtomicMiner` is implemented | 2 threads (symmetric), 2 works of different heights, 2 sessions, 2 fetches; logins for a polling, a non-polling and an unsupported algorithm; early and truncated packets |
| `share_submission` | unique seeds, shares in one place, shares stay on their session; `AtomicMiner` is implemented | 2 threads, 2 sessions, 3 fetches, 2 shares |
| `work_liveness` | stale work abandoned, queued shares are sent, received work becomes minable | 2 threads, 3 works (two at one height), 2 sessions, 1 fetch, 1 share |
| `same_height_update` | violated: a polling miner does not notice new data at the same height | 1 thread |
| `lost_work_submitted` | violated: a scrypt miner submits work of a lost session on the next one | 1 thread |
| `byte_stream` | receive buffer large enough at every `recv`, sound use of descriptors, no leak, the channel of whole packets is implemented, packets arrive | 3 packets per connection, any number of connections, 6 payload sizes: empty, 1, the two around the buffer's size (6), the two around the size limit (7); descriptors 0 to 5 |
| `connect_result` | violated: an established connection is reported as failed | 1 packet |
| `packet_handlers` | every packet, however cut, has the effect `PoolSession` promises; announced transactions stand on a whole block; `ClientSession`, the loop's assumption, is implemented; pings continue | 35,771 states; two block data with different coinbases and one transaction each, 4 login answers, 4 share answers, 2 messages, ping, unknown; all but the second block data cut behind every byte; 1 rejected share |
| `algorithms` | merkle root, seeds, targets, addresses, sieve and client packets are what they stand for | 3,431 inputs, listed above |
| `string_limits` | violated: what the writer of strings accepts the reader refuses | names up to one over the limit |
| `merkle_layers` | violated: a block with more hashes than ten layers hold has no root | one transaction more than fits |
| `birthday_search` | no bit of the filter is lost, only collisions are tested and none is left out, `CollisionSearch` is implemented, searches end | 177,133 states; 3 threads with 2 hashes each, 8 birthdays, 4 slots, 4 results; 5 headers |

Two threads are enough for every pairwise race (all hazards are between the main
thread and one miner, or between two miners); two sessions give one
reconnection with a change of algorithm; three fetches give a refetch by either
thread; two shares can meet in queue, hand and wire. Shares are off in the first
run and the pool's liberties in the second because those pairs do not interact:
submission reads neither the work nor the pool's packets.

Fairness (`FairSpec`): every thread keeps running (weak fairness of the main
thread's and each miner's steps), and a thread that can enter a lock again and
again finally does (strong fairness of the entering steps): both loops release
the locks and sleep before they come back. Nothing is assumed of the pool: it
may stay silent (`RecvNothing`) for ever. `Exhausted` has no fairness of its
own, so abandoning stale work cannot rely on the nonce range's end.

In `XptClient` the main thread calls `xptClient_process` again and again and
what the pool has sent arrives while the connection lasts (weak fairness of
`Receive`); nothing makes the pool send, close or accept. Three packets are a
packet after a packet after one that may have left its traces in `recvIndex`,
`recvSize` and the buffer's size, and each connection starts afresh. The sizes
are small because only their order relative to header, buffer and limit counts.

Two different block data are enough to see the remains of one behind a cut in
the other; after a reconnection everything starts from `Blank`, and `rejected`
is only counted. Three GPU threads are one more than the two that can be between
the steps on one slot, and two hashes make a thread meet itself; the headers
have no result (the overrun), a triple, two collisions across threads, one
inside a thread, and more results than fit (six, so the counter passes the end
of the array). The wrap of the counter at `N_RESULTS` (10 there, 65,536 in the
code) is not reached.

The main thread sends a due ping and time passes (weak fairness of `SendPing`
and `Tick`); nothing makes the pool send. Each GPU thread of a running kernel
runs on, the stream and the host go on (weak fairness of `Thread(t)`,
`NextKernel`, `Synchronize` and of the host's use of the results); nothing makes
a kernel fail or a next header arrive.

Each property has a faulty variant of a definition beside it
(named in `PROJECT.json`, "mutants") which breaks it: a forgotten lock release,
an unlocked update, a missing reset and the like.

### Disagreements of code and comments

* `main.cpp:17` says the polled height is "used to notify worker threads of new
  block data"; data that differ in the merkle root alone are installed
  (`main.cpp:631`) but not notified.
* `main.cpp:604` says "mark work as invalid"; the scrypt, protoshares and riecoin
  functions never look (`scryptMinerCPU.cpp:29-33` is commented out), and submit
  shares of the invalid work when the connection is back.

* `xptClient.cpp:68` says `xptClient_connect` "returns false on error or if
  already connected". A refused packet leaves 0 in `clientSocket`, freeing the
  client closes descriptor 0, the next `socket()` returns 0, and line 82 takes
  it for an error although the connection was established.

* `xptPacketbuffer.cpp:335` says that the reader's `maxStringLength` must be "the
  same value" as the writer's. With the same value the writer accepts a text of
  `maxStringLength - 1` characters (line 297) and the reader refuses it (line 362).

* `transaction.cpp:80` says "up to 16 layers (which means 2^16 hashes are
  possible)"; line 95 processes ten, and for a block of more than 512 hashes no
  root is written at all.

## Proofs

`XptMinerProofs` proves for any set of threads, any works and any bounds, from the
four assumptions of `XptMiner`:

* `TypeCorrect`, by one step per action;
* `LockDiscipline`: `LocksMatchCode` is inductive with `TypeOK`;
* `WorkInvariant`, whence `MonitorFollowsWork`, `WorkStaysWhole` and, with the
  lock discipline, the action property `FetchSeesOneUpdate`. `MonitorAgrees`
  and `WorkIsWhole` are not inductive: they say nothing inside the update
  windows, so `WorkInv` adds what is already written there;
* `SessionInvariant`, whence `NoWorkWhileDown`. The property speaks of one
  place of the loop; `SessionInv` carries it through the others: before the
  login answer there is no algorithm and nothing minable, and each way out of a
  session leaves nothing minable;
* `SupportedAlgorithms`, from `SessionInv`'s last conjunct;
* `SharesKeepSession`: `QueueDrained` shows that only `Submit` adds to the queue,
  and never while the main thread holds `cs_xptClient`; two lemmas on
  concatenation carry it over the drain.

Its second half proves what else `XptMiner` promises, from those invariants:

* `MisdispatchNeedsReconnect`: when a block reaches the function of another
  algorithm, the connection was replaced since its fetch. `DispatchInv` carries
  it: sessions only grow from block to work to client, and while a block's
  session is the client's, the work still has the block's algorithm, whatever is
  read at `main.cpp:409`;
* `SeedsAreUnique`: `SeedInv` bounds every seed in a block, hand, queue or wire
  by the generator, so that the one a fetch takes is new;
* `SharesSentOnce`: `PlaceInv` adds that no share has a number above `nFound`, so that
  one just found is new, and that a submitting thread has one in its hand; the
  drain moves the whole queue, and a lemma on the concatenation carries it;
* `ActsAtomically`: the miner implements `AtomicMiner`. Every step is one step of it
  or none, given all the invariants above and two more: `HoldsInv` (what a thread
  holds at each point of its code) and `ConnectionInv` (work that can be fetched
  is of the present session, which `SessionInv` protects at a reconnection, and
  the height is only invalidated after a lost connection);
* `PacketsCovered`: each packet step of `ClientSession` is a `Recv` action, given both
  liberties of `PoolMay` and a pool that answers a login once.

`XptClientProofs` proves for any payload sizes, any limits and any number of
packets, from the two assumptions of `XptClient`:

* `FrameInvariant`: `WholePackets` needs to know where in the stream the receiver
  is. `StreamInv` says the pool's packets are contiguous, so that at most one
  starts at any byte; `FrameInv` says that the bytes in `recvBuffer` start where
  the first packet not handled starts, and that `recvSize` is 0 or that
  packet's size. `PacketAtBase` concludes that the header just read is that
  packet's, `ProcessPacketFrame` that the next one starts where it ended;
* `DeliversWholePackets`, the refinement: `RecvEmpty` and `RecvPayload` are
  `Deliver`, `PoolSends` is `Send`, `Reconnect` is `Open`, and a step that
  disconnects is `Close`;
* `BufferLargeEnough`: `BufferHoldsPacket` is inductive with `TypeOK`;
* `ConnectedSocketOpen` and `NoDescriptorLeak` from `DescriptorInvariant`:
  because `socket()` returns the lowest free descriptor, 3 is the only one a
  client ever owns, except that 0 is reopened after a refused packet closed it.

`BirthdaySearchProofs` proves for any number of threads, hashes and slots:

* `FilterInvariant`: while a kernel fills the filter, a slot says too little only
  when a thread in `doubling` is about to set its second bit; a bit that is set
  is never wrong. This is what `FilterExact` leaves out: it speaks of the end of
  a kernel only;
* `FilterIsExact`: at the end no thread is in `doubling`.

* `SearchInvariant` (`SearchInv`): a hash that collides is kept by both filters
  (`KeptInv`), and every entry of the results is a hash that was rewritten
  (`ResultsInv`). It needs no bound on the counter;
* `CompleteInvariant` adds the other direction: each hash rewritten so far has an
  entry, or is past the end of the array, and the counter is their number. From
  it follows `SearchImplementsPromise`. Both assume `[]NoWrap`: the result counter stays below
  `N_RESULTS`. Beyond it `atomicInc` starts again from 0 and the promise is false:
  earlier results are written over and the counter no longer tells that the list
  was full. That needs twice as many results as the array has entries.

`HostSearchProofs` follows the host through `protoshares_process_512`, whose
passes are recursive functions over the array of results:

* `BlockInvariant` and `SearchTypes` (`TypeOK`): whatever the copy and the passes
  leave in `__hashblock` are entries, and it keeps its end;
* `SearchOnlyCollisions` (`OnlyCollisions`) and `SearchTestsCollisions`
  (`CollisionsTested`): the first from what the passes compare, the second from
  `CopyInv` (the copy has every result that fits) and `SearchInv`.

`Recursion` is what those proofs and the next ones rest on: that a set of numbers
with 0 and with the successors of its members holds all of them, and that the
function given by a base and a step exists. The library states both for an
operator that is a parameter, which no prover here can instantiate; for sets and
functions they follow from the well-foundedness of `Nat`.

`PacketBufferProofs` proves for any base of at least 3, any limits and any
packet:

* `NumberReadsBack`: a number written in enough bytes is read back;
* `HeaderIsSize`: the header of a composed packet tells the number of the bytes
  behind it, whatever became of the calls that wrote it;
* `ComposeHolds`: a composed packet that fits holds its items one behind the other;
* `ReadStringGets`: what a bounded read of a text returns, and where it stops.

`PacketHandlersProofs` proves what the handlers promise, from the assumption of
`PacketHandlers` that the pool writes packets the client has room for:

* `HandlerTypes` (`TypeOK`) and `TransactionsNeedWholeBlock`
  (`TransactionsOnWholeBlock`), which are inductive together (`SessionInv`);
* `HandlersImplementSession` (`EffectsAsPromised`), the refinement. The items of a
  packet end at places in its bytes; of the packet that arrived, the items that end
  in it are read as they were written, and a read of any other gets nothing,
  clears nothing and stays behind the end. For the fields and the hashes of block
  data this is an induction over the reads;
* `HandlersKeepUpdates` (`UpdatesAsAssumed`): what `PoolSession` installs from the
  first parts of a packet is, seen by height and root, a step of `ClientSession`.

`AlgorithmsProofs` proves for any base, any number and size of words and any
number of layers, of any input of the types that `InputAssumption` names:

* `TargetsAreShifted` (`TargetIsShifted`): one shift by a byte multiplies the value of
  the words by the base modulo the width of the target. An induction over the
  words carries the byte that leaves each word into the next one, another over the
  rounds the powers of the base (`Powers`: the provers know nothing of `^`);
* `RootsAreTrees` (`RootIsTree`): in every round the code looks at the part of its
  array that holds the layer of the tree, followed by the copy of its last hash
  when their number is odd (`RoundShows`), although `size` counts that copy in the
  first round and in no other. A layer halves the power of two that bounds its
  length, so that one hash is left in time;
* `SeedsReachRoots` (`SeedsGiveRoots`): two lists that differ in their first hash
  differ in the first one of every layer, and the seed can be read out of the
  hashed coinbase transaction;
* `AddressesAreNumbers` (`AddressIsNumber`): the value of the words is what the
  induction over the digits follows. Multiplying by the base of the digits goes
  word by word and hands its carry on, adding a carry adds it times the power of
  its place, and no carry is lost while the words can hold the largest number of
  so many digits. The number of bytes comes from that largest number
  (`track` in the code) and not from the digits; the two agree because of
  `TrackTells`, which `InputAssumption` asks of every length: that the largest
  number of so many digits needs as many bytes as the one with a largest digit
  followed by zeros. For 58 and 256 it holds of every length up to 182, beyond the
  174 digits that the words of the code can hold; TLC evaluates it for the bases of
  the run;
* `HeadersTellSize` (`HeaderTellsSize`): every list of calls that composes a
  login, a share or a ping consists of items that can be written, so that
  `HeaderIsSize` speaks of them;
* `SievesAreExact` (`SieveIsExact`): the table holds exactly the primes below its
  limit (a number with a divisor has a least one, which was met before);
  `FirstMarked` is the one position below p that solves
  number + Primorial * i + bias = 0 modulo p, because of the inverse; and a
  skipped prime divides none of the numbers. From `PrimorialAssumption`, which
  says of the constants what the code's 223092870, 97 and table satisfy (the first
  is the product of the primes to 23, and 97 and the five numbers behind it are
  prime), and which TLC evaluates for those of the run;
* `PacketsAreUnderstood` (`PoolUnderstands`): the calls of the client and the reads of
  the pool divide the same bytes (`Conveys`): each read consumes what one or
  more calls wrote, and two such divisions placed one behind the other are one.
  An induction over the reads then gives each of them its part of the packet, by
  `NumberReadsBack` for numbers and pairs of them. For the login the loop that adds
  fees while there is room in the list is compared with the list of good fees cut
  to its size. It rests on `Room`, on the
  ranges of the C types (`PacketAssumption`, `IsShare`), and on Primecoin,
  Protoshares and Riecoin being three different algorithms.

Every invariant and every safety property of the passing runs is proved. Only
model-checked are the liveness properties (liveness under fairness and `ENABLED`
are outside the prover's reach) and, naturally, the violated properties.

## Not modelled

By lines, most of the repository is vendored or generated: the OpenCL headers
(`cl.hpp`, `cl_platform.h`), the kernels as strings (`OpenCLKernel.hpp`),
`mpir.h` and the hash primitives (`metis.c`, `keccak.c`, `shavite.c`,
`sph_types.h` and so on). Nothing in them keeps a state that two steps could
disagree about. Of the miner's own code these are left out:

* hash primitives: straight-line arithmetic, best tested against vectors;
* OpenCL wrappers and kernels: an external API, off in the default build;
* the server (`xptServer.cpp`, `xptServerPacketHandler.cpp`): dead code. Nothing
  calls `xptServer_create`, and a new connection is never added to the list its
  loop walks;
* functions without a caller: `protoshares_process_256` to `_8`,
  `bitclient_addVarIntFromStream`, `xptPacketbuffer_writeFloat`, the bit streams
  of `jhlib.cpp`; and `primecoin_process`, a stub;
* `int_invert` of `riecoinMiner.cpp`: its only call is commented out, and the
  inverses come from `mpz_invert`; the Fermat tests are external arithmetic too;
* command line and start-up: sequential, before any thread;
* partial sends (`xptClient.cpp:464`), the statistics counters
  (`xptClientPacketHandler.cpp:127`), the wrap of the millisecond timers, and the
  filter's texture shared by two GPUs (`gpuhash.cu:28`): listed as hazards in
  `PROJECT.json`, without a property.

`PROJECT.json` gives the reason for each component.
