# Ferrox: specification and proofs

TLA+ modules for the order matching engine in `src/`, their TLC
configurations, and TLAPS proofs of the central invariants and refinements of
the engine, the arena, the ring, the gateway and the execution feed.

## 1. The system

Orders arrive over TCP at an *ingestion thread*, which stamps them and pushes
them into a lock-free single-producer single-consumer *ring*. A *matching
thread* pops them, appends each to a *write-ahead log*, runs it through the
*matching engine*, and sends one UDP report per fill. Every so many commands it
saves a *snapshot* of the resting orders. At start, *recovery* loads the latest
snapshot and replays the rest of the log. The engine owns one *order book*,
whose orders live in the slots of a preallocated *arena*.

| Component | State | Operations | What makes it hard |
|---|---|---|---|
| Order (`order.rs`) | – | `Order::new` | zero quantity |
| Arena (`arena.rs`) | `storage`, `free_head`, `count` | `alloc`, `dealloc`, `push_back`, `pop_front`, `remove` | free list and level lists share `next`; recycled slots; wrapping `level.qty` |
| Book (`book.rs`) | `bids`, `asks`, `order_index`, `best_bid`, `best_ask` | `insert_order`, `cancel_order`, `reduce_front_quantity`, `peek_front`, `all_resting_orders` | cached best prices; index, maps and arena must agree |
| Engine (`matching.rs`) | `book`, `fills_buf` | `add_order`, `cancel_order`, `restore_from_orders` | an error after trades; the arena at its limit; ids used again |
| Ring (`ring.rs`) | `head`, `tail`, slots, each side's cached cursors | `push`, `pop`, drop | weak memory, stale cursors, wrapping cursors |
| WAL (`wal.rs`) | mapped file, `write_pos`, `record_count` | `append`, `open`, `iter_from`, `truncate_to`, `flush_async` | torn records, lost pages, bytes behind a bad record |
| Snapshot (`snapshot.rs`) | files | `capture`, `save`, `load_latest`, `restore` | newer than the flushed log; damaged files |
| Recovery (`recovery.rs`) | – | `recover`, `replay_command` | snapshot and log that do not match |
| Gateway (`gateway.rs`) | shutdown flag, `seq_num`, `cmds_since_snapshot` | `handle_client`, `process_command`, `matching_loop`, `run` | shutdown racing the last pushes; failed appends; backpressure |
| Protocol (`protocol.rs`) | reused buffers | codecs | the timestamp is not on the wire; limits of the fields; stale bytes |
| Subscriber (`examples/subscriber.rs`) | `expected_seq` | receive | lost and reordered datagrams |

The hazards of each part, with source lines, are listed in `PROJECT.json`.

## 2. The modules

| Module | Models | Remarks |
|---|---|---|
| `Orders` | `order.rs`, the fill and outcome types | constants and their assumptions |
| `OrderBook` | `book.rs` over FIFO queues | operations are functions from book to book |
| `BookMachine` | the book's three mutating operations, in any order | abstract specification of `ArenaBook` |
| `Arena` | `arena.rs`: slots, the free list, the lists of the levels | operators on the memory |
| `ArenaBook` | `book.rs` over `Arena`, as memory holds it | refines `BookMachine` |
| `Matching` | `matching.rs` | one step per iteration of the loop |
| `LimitOrderBook` | what the engine promises | abstract specification of `Matching` |
| `Commands` | `EngineCommand` | what threads, log and recovery exchange |
| `Engine` | one engine call as a function of the book | used by `Persistence`; equal to a call of `Matching`, as is proved |
| `BookSnapshot` | `all_resting_orders`, `restore_from_orders` | the order list a snapshot keeps, and the book rebuilt from it |
| `EngineCalls` | what `Matching` has to do with `Engine` and with `BookSnapshot` | two properties, both proved |
| `MatchingRefinement` | the mapping from `Matching` to `LimitOrderBook` | adds the abstract specification to `EngineCalls` |
| `Ring` | `ring.rs` | one step per memory access |
| `BoundedQueue` | what the ring promises | abstract specification of `Ring`, and the ring that `Gateway` uses |
| `Wal` | `wal.rs`: sizes, stores of an append, scan, iterator, truncation | operators on the contents of the mapped file |
| `Persistence` | `process_command`, the snapshot step of `matching_loop`, `snapshot.rs`, `recovery.rs`, and a machine that fails | composes `Wal`, `Engine`, `BookSnapshot` |
| `Gateway` | `run`, `handle_client`, `matching_loop`: the two threads, their queue, the shutdown flag | composes with `BoundedQueue` |
| `Protocol` | `protocol.rs`, byte by byte | operators |
| `Ingestion` | `handle_client` on a stream of bytes | framing and how it ends |
| `Codec` | the buffers of `Wal::append` and `process_command` that are used again and again | composes `Ingestion` and `Protocol` |
| `Feed` | reports, an unreliable network, `examples/subscriber.rs` | numbers that wrap |
| `CommonLemmas` | induction up to a bound, remainders, sequences | used by all proofs |
| `MatchingProofs`, `EngineProofs` | theorems on `Matching`, and on `Engine` and `BookSnapshot` | TLAPS |
| `ArenaLists`, `ArenaProofs`, `ArenaRefinement` | lemmas on `Arena`, theorems on `ArenaBook` | TLAPS |
| `RingProofs` | theorems on `Ring` | TLAPS |
| `GatewayProofs` | theorems on `Gateway` and `Feed` | TLAPS |
| `MCMatching`, `MCArenaBook`, `MCRing`, `MCPersistence`, `MCGateway`, `MCCodec`, `MCFeed` | instances for TLC | symmetry, view, requests and messages |

Definitions introduced by a comment `Faulty variant:` are plausible bugs of the
definition that follows them. No specification uses them. Putting one in the
place of the original makes TLC report the property named with it under
`mutants` in `PROJECT.json`, which shows that the property can fail.

### How state and actions correspond to the code

**Book.** `book.queue[s][p]` is the level at price `p` of side `s`, `<<>>` when
the map has no such key. `index` is the key set of `order_index`, `count` is
`arena.count`. `Inserted`, `Unlinked` and `Reduced` are the successful
operations, `InsertCode` and `ReduceCode` the outcomes in the order the code
tests for them. In `Matching` the timestamp is left out, because the engine
never reads it; `Commands` has it.

**Matching.** `add_order` is `StartAddOrder`, one `FillMaker` per iteration that
trades, and one of four endings: `FinishFilled`, `CancelSelfTrade`,
`RestRemainder`, `RefuseRemainder`. The engine belongs to one thread, so no call
starts in the middle of another; the steps only make the intermediate books
visible. The bid arm and the ask arm of the code are one action with the side as
datum. `entry` is a history variable used by the refinement mapping alone.

**Arena.** `storage`, `freeHead`, `count`, `levels`, `best` and `orderIndex` are
the fields. `level.qty` is computed modulo `MaxQty + 1`, as a release build does
modulo 2^64. `op`, `arg` and `ret` record the last call, so that refinement
compares arguments and outcomes too. `reduce_front_quantity` subtracts a fill
from the front order and from `level.qty`, and `pop_front` then subtracts from
`level.qty` what the front order has left; `PoppedLevel` makes both subtractions,
in this order.

**Ring.** Each cursor is the sequence of messages stored to it. A load returns
any message not older than the last one its thread has seen. A Release store
attaches how many slot accesses its thread has made and an Acquire load learns
that number; a slot access that does not happen after the other side's last
access to the slot is a race. Items are numbered as they are pushed. The Arc is
modelled by what it does: the buffer is dropped when both handles are.

**Log.** Records take 48 bytes (new order) or 24 (cancel), so the file is kept as
cells of 24 bytes, each holding length, checksum and payload of a record or the
second half of an order. An append makes its three or four stores in the order
of the code; `CrashInAppend` stops after any of them. `ScanToEnd` and
`IterateFrom` are the two loops over records, `SizeFor` is `ensure_capacity`. A
checksum names the payload it was computed from.

**Persistence.** `pc` is where the matching thread is between two commands:
appended and not executed, executed with a snapshot due, or idle. `file` is the
log as the page cache holds it, which survives the process; `disk` is what
survives the power, page by page (`WriteBack`). A snapshot file is intact or
damaged, and durable or not; `LoadLatest` goes by the order of the file names, as
`sort()` does, also when a count has outgrown the padding. `Recover` is `recover`
as a whole; `RecoverFails` is its error, after which `run` starts without log.
`before` is a history variable: log and book at the end of the last session that
had a log. A growing log gets the length `ensure_capacity` computes (`Resized`),
which may be less than an append that could not map the file had given it.

**Gateway.** `ing` and `mat` are the places of the two threads. `visible` says how
much of the queue the matching thread is bound to see: a pop may miss later
pushes, and reading the flag as set makes every earlier push visible. `ListenFails`
is the early return of `run` that leaves the matching thread to the process's end.

**Ingestion, Codec.** A client's stream is the bytes of some messages cut at any
place, ended by a close, a reset or another error. `ReadType` and `ReadBody` are
the two `read_exact` calls. `LogCommand` and `ReportFill` encode into the buffer
the last use left behind.

**Feed.** A report is its `seq_num` and a serial number that only the properties
see. A report whose `send_to` fails has used up its number, as in the code.

## 3. What the runs show

| Run | Shows |
|---|---|
| `matching` | in every state, also between two iterations of the loop: the book is not crossed, cached best prices, index and slot count are right; `ArenaFull` is answered only by a call that has not traded; the list a snapshot keeps rebuilds the same book. Every call gives the fills, status and book of the declarative price-time-priority specification, and those of the function in `Engine` |
| `arena` | no slot is lost or shared; level lists are sound in both directions; the index leads to the right slot; `level.qty` is the sum modulo 2^64; same behaviour as the book of queues |
| `ring` | no data race, FIFO with at most `Capacity` items, the drop frees exactly what is left; every item gets through |
| `codec` | a stream cut anywhere yields exactly its whole, valid messages up to the first bad one, with the outcome the code returns; log and reports hold the values at every field's limits (but for the timestamp, which the wire format lacks), whatever the buffers held before; reserved bytes, which a client may fill with anything, are zero in the log |
| `gateway` | every command is at one place between the threads and in order; the matching thread ends only when nothing is left and nothing can follow; every command read is processed; when the client is gone `run` returns |
| `persistence_crash` | the process dying at any instruction: as long as no append has failed, recovery rebuilds the book of the last session that had a log, timestamps aside, also when a session without log came in between; through failed appends too the log only gains records |
| `persistence_power` | with the power failing too: recovery never meets an error, and after the first loss the book is one the engine had |
| `feed` | announced gaps add up to what was lost, across wraps; a subscriber that has seen no gap has every report once and in order |
| `refused_trade`, `level_qty`, `snapshot_ahead`, `stale_record` | expected violations: findings 1 to 4 |

### Findings

1. **Trades of a refused order** (`src/src/matching.rs:159`). A duplicate id is
   noticed only by `insert_order`, after the loop. An order whose id already
   rests trades first, then fails with `DuplicateOrderId`; the fills are not
   returned and the gateway reports none. `SYSTEM_DESIGN.md:142` has every fill
   emit a report. `LimitOrderBook` states what the code does here. An arena that
   is full cannot cause the same: `ArenaFullMeansNoTrade` is proved.
2. **Level quantity wraps** (`src/src/arena.rs:175`). `SYSTEM_DESIGN.md:88` calls
   it the "Total quantity at this level"; it is the total modulo 2^64 in a
   release build. Nothing outside the arena and the book reads it.
3. **A snapshot ahead of the log** (`src/src/gateway.rs:197`). The snapshot is
   saved before the log is written back. If a power loss keeps the one and not
   the other, the next session counts its records from the shorter log, and a
   later recovery skips those whose numbers the snapshot covers.
   `SYSTEM_DESIGN.md:317` has the book identical after recovery. The run needs a
   power loss and, after it, a crash of the process.
4. **Bytes behind a bad record** (`src/src/wal.rs:234`). The scan stops at a bad
   record and leaves what follows. When an append later fills the hole with a
   record of the same size, an old record behind it becomes valid again.
   `SYSTEM_DESIGN.md:358` says the log is truncated. The truncation in `recover`
   is never reached: the iterator ends where the scan stopped
   (`RecoveryMeetsNoError`).

Differences between documents and code that the models make plain and that have
no run of their own: a power loss may cost more than one order
(`SYSTEM_DESIGN.md:360`; the model has any number of pages lost); an order
restored from the log has timestamp zero (`SYSTEM_DESIGN.md:344`, hence
`SameBook`); an append that fails is ignored and its command executed
(`AppendFails`, hence the condition on `faults.append`); the book of a session
that runs without log, because recovery failed, is lost at its end, and the next
start brings the older book back; the subscriber prints a duplicate where
`SYSTEM_DESIGN.md:281` discards it, and announces it as a gap of nearly 2^32
reports, so that gaps count losses only while the network neither repeats nor
reorders (`GapsAreLosses`); report numbers start again with every session
(`SYSTEM_DESIGN.md:273`), so that `NoSilentLoss` is about one session.

### Bounds

- *Matching*: 4 ids, 2 traders, 2 prices, quantities to 2, 3 slots. Three slots
  and four ids fill the arena with an order to spare; two prices give a level to
  exhaust and one to go on to; two traders give trades and self-trades;
  quantity 2 gives partial fills on both sides. Ids and traders are only
  compared, so they are symmetric.
- *Arena*: 4 ids, 1 trader (the book never reads it), 2 prices, quantities to 3,
  3 slots: a list with a head, a middle and a tail, or two lists, and quantities
  that wrap. The view drops the last call and what freed slots still hold;
  `insert_order` overwrites such a slot before anything reads it. TLC checks the
  refinement on every step it generates, so the view hides no step.
- *Ring*: 4 slots, cursors modulo 8, 20 items: the buffer is filled five times
  and the cursors wrap twice. `MaxItems` bounds the pushes of a behaviour. Once
  the buffer has been dropped nothing more happens, so deadlock is not checked.
- *Persistence*: three requests (a bid of two, an ask that takes one of it, a
  cancel), chosen so that a lost, repeated or misplaced command changes the
  book. `MaxCommands` 5 without power loss and 3 with it, `MaxFaults` 2 and 3,
  a snapshot every 2 commands: sessions with two snapshots, and a third session
  after two failures. `InitialSize` 16 makes the file grow with the first
  record. File names have one binary digit of padding, so that counts outgrow it
  at 2 instead of 10^10. Pages of 2 cells split records between pages; in
  `snapshot_ahead` the log is one page, which is enough for the finding.
  The models stop at the bounds, so deadlock is not checked.
- *Gateway*: a ring of 2 and 6 commands: the ring fills and empties three times,
  and shutdown meets every filling of it.
- *Codec*: bytes have 4 values instead of 256, so that the limits of the fields
  are within TLC's integers; up to two messages of eight kinds, two of them with
  reserved bytes set, cut everywhere.
- *Feed*: numbers modulo 5, 7 reports, 3 in flight: the number wraps.
  `WithinOneTurn` keeps a datagram from being delayed for a turn of the counter
  (2^32 reports), where numbers say nothing any more.

### Fairness

`ring` and `gateway` assume it for their liveness properties. In the ring both
threads are scheduled (weak fairness of `Push` and `Pop`): `handle_client`
repeats a refused push and `matching_loop` pops in a loop, both yielding, so each
is always about to take a step. A load repeated for ever does not return a stale
value for ever (strong fairness of the load of the newest message): the atomics'
memory model promises that stores become visible in a finite time. In the
gateway the same two facts are weak fairness of the threads' steps and strong
fairness of `Pop` and `SeeShutdown`, the steps that depend on a store becoming
visible. Nothing is assumed of the client: it need not send, nor leave, and
`ReadCommand`, `ClientDone` and the start of `run` have no fairness.

## 4. What is proved

The theorems hold for all values of the constants that satisfy the named
assumptions. TLC evaluates these assumptions in the runs, and checks every
property below on a small instance.

**The engine.** `MatchingProofs` and `EngineProofs`, for all ids, traders, price
ranges, quantities and capacities that `OrdersAssumption` allows (`MinPrice` and
`MaxPrice` are integers with `MinPrice <= MaxPrice`, `MaxQty` and `Capacity` are
naturals, `NoPrice` is not an integer):

| Theorem | `MatchSpec =>` |
|---|---|
| `MatchInvariance` | `[]MatchInv` |
| `TypeCorrectness` | `[]MatchTypeOK` |
| `NeverCrossed` | `[]NotCrossed` |
| `CachedBestIsRight` | `[]BestIsBest` |
| `IndexExactness` | `[]IndexIsExact` |
| `CountAssertion` | `[]CountIsIndexSize` |
| `ArenaFullIsClean` | `[]ArenaFullMeansNoTrade` |
| `AddOrderComputesItsFunction` | `AddOrderIsAFunction` |
| `SnapshotRebuildsBook` | `[]RestoreGivesBookBack` |

The argument has two layers. The first part of `MatchingProofs` shows that
`Inserted`, `Unlinked` and `Reduced` preserve `BookInv`: the book is well typed,
its cached prices are right, the index is exact and finite, and the count is the
size of the index. These belong together: a cached price is right after an order
leaves only if its level is known to be non-empty, and the count goes down with
the index only if no id rests twice.

`MatchInv` adds what is true of a running call. `NotCrossed` is kept by
`RestRemainder` because the loop ended with no crossing price *and* the cached
price is the best one. `ArenaFullMeansNoTrade` is not inductive: it needs
`RoomAfterTrade` (a taker that has traded and has quantity left has spent a
maker and so freed a slot) and `PendingWhileMatching` (a running call has no
answer yet).

`AddOrder` of `Engine` is a recursive function over the iterations of the loop.
`CallInv` says that after n fills the book, the rest of the taker and the fills
of a running call are what n iterations compute, and that quantity and fills
together do not exceed the quantity that came in. So the bound of the recursion
is never reached before the loop has returned, and what the last step does is
what the function returns.

`RestoreGivesBookBack` is about `restore_from_orders`, a fold over a list. The
list is cut into the levels, best first, and these into orders. The invariant of
the inserts is that the book so far holds a front of every level of the book
that was saved. The next order is accepted because ids rest apart and
because the saved book had no more orders than slots. In the end all queues are
the saved ones, and `QueuesDetermineBook` gives the cached prices, the index and
the count, which the list does not hold.

**The arena.** `ArenaProofs` and `ArenaRefinement`, from `OrdersAssumption` and
`ArenaAssumption` (`ARENA_NULL` is not the index of a slot):

| Theorem | `ArenaSpec =>` |
|---|---|
| `ArenaInductive` | `[]ArenaInv` |
| `ArenaTypeCorrect` | `[]ArenaTypeOK` |
| `SlotsNeverLostOrShared` | `[]EverySlotOnOneList` |
| `LevelListsStaySound` | `[]LevelListsAreSound` |
| `IndexLeadsToItsOrder` | `[]IndexLeadsToOrder` |
| `ArenaImplementsQueues` | `ImplementsBook` |
| `LevelQtyStaysSum` | `[]LevelQtyIsSum` |

The properties follow the links with a recursive walk. The invariant does not:
it says that lists *exist*, one of free slots and one for every level, which the
links stand for, such that every slot is on exactly one of them and the index
leads to an order's place (`Placed`). Each operation names the lists after it:
`alloc` takes the first of the free list, `dealloc` puts one before it,
`push_back` appends, `remove` cuts out. `ArenaLists` shows that the links the
operation writes make these lists again and touch no other list, and that the
walk of the properties finds exactly the list, however long. The refinement maps
every list to the queue of its orders, so that each call is one step of
`BookMachine` with the same argument and outcome. For `level.qty` the sum over a
list is taken modulo the word: appending adds, cutting subtracts, and neither
cares about a wrap.

**The ring.** `RingProofs`, for every capacity, cursor width and number of items,
from `RingAssumption` (the capacity divides the number of cursor values and is
less than it; both are powers of two in the code):

| Theorem | `RingSpec =>` |
|---|---|
| `RingInductive` | `[]RingInv` |
| `RingTypeCorrect` | `[]RingTypeOK` |
| `RingHasNoDataRace` | `[]NoDataRace` |
| `RingDropsTheRest` | `[]DropFreesTheRest` |
| `RingImplementsQueue` | `ImplementsQueue` |

`RingInv` ties every cursor to the number it stands for: message `n` of a log is
`n - 1` modulo the cursor width and was stored after `n - 1` slot accesses. With
that, what a side *knows* of the other's accesses is what it has *seen* of the
other's cursor, and the test for full or empty, made on possibly stale cursors,
bounds the distance to what is known rather than to what is true. A race would
need two items of one slot less than `Capacity` apart, which `SlotApart`
excludes. The first part of the module shows that wrapping arithmetic and the
mask compute what they would on unbounded numbers; this is where the capacity
dividing the cursor width is used. For the queue, the slots from tail to head
hold consecutive items (`ContentsAreNumbers`), so that the store of head appends
one and the store of tail removes the first.

**The gateway.** `GatewayProofs`, for every ring capacity and number of commands
(`GatewayAssumption`), over the queue that the ring is proved to implement:

| Theorem | `GwSpec =>` |
|---|---|
| `GatewayInductive` | `[]GwInv` |
| `GatewayTypeCorrect` | `[]GwTypeOK` |
| `GatewayKeepsCommands` | `[]EachCommandOnce` |
| `DrainIsComplete` | `[]NothingLeftBehind` |
| `MatcherStaysForPushes` | `[]MatcherOutlivesPushes` |

`NothingLeftBehind` needs `ShutdownInv`: the flag is set only when nothing more
is pushed, and a thread that has seen it sees the whole queue, so that finding
the queue empty afterwards means that it is. `ing = "start" => mat = "none"` and
`~busy` outside the loop complete the induction.

**The feed.** The second part of `GatewayProofs`, for every width of the counter,
number of reports and capacity of the network (`FeedAssumption`):

| Theorem | `FeedSpec =>` |
|---|---|
| `FeedInductive` | `[]FeedInv` |
| `FeedTypeCorrect` | `[]FeedTypeOK` |
| `AnnouncedGapsAreLosses` | `[]GapsAreLosses` |
| `NoLossIsSilent` | `[]NoSilentLoss` |

`FeedInv` gives every number its serial: `seq_num` is the count of reports
modulo the width, `expected_seq` the last serial received plus one. A difference
of numbers is the difference of serials only when these are less than a turn
apart (`SameNumber`, `WrappingSub`). `OneTurn` says where that is so: for a
datagram in flight, and for the last report received as long as the network has
not reordered or no gap has been announced. It follows from the model's
condition `WithinOneTurn`, which the theorems therefore rest on.

*On induction.* What a recursive function computes for every argument is proved
from the least element of a set of naturals (`SmallestOfNat`, `InductionUpTo` in
`CommonLemmas`): the set of the arguments up to a bound for which the claim
fails has none.

## 5. What is only model-checked

- The refinement `ImplementsLimitOrderBook`: that the fills, the status and the
  book of a call are those of the declarative price-time-priority
  specification. What is proved of a call is that it computes `AddOrder` and
  keeps `MatchInv`.
- Everything about `Persistence`, `Codec` and `Ingestion`: scans and replays are
  recursive operators, which the prover does not accept. The two facts about the
  engine that recovery rests on, `AddOrderIsAFunction` and
  `RestoreGivesBookBack`, are proved.
- Liveness (`EveryItemGetsThrough`, `EveryCommandProcessed`,
  `ClientGoneEndsRun`): the prover handles neither fairness nor `ENABLED`.

## 6. Not modelled

- `main.rs` and `lib.rs` have no state of their own; the benchmarks change
  nothing; performance is outside these models.
- Sockets and files as I/O: a call succeeds or fails as a whole. The length of
  the log file is taken to be durable at once, a page holds whole cells, and a
  snapshot replaced by one of the same number is taken to be gone if the power
  fails before the new one is durable.
- Collisions of CRC32: two payloads with the same checksum. A snapshot's bincode
  bytes: a file is intact or not.
- What a subscriber may conclude across a restart of the gateway, which has no
  session number; which reports were sent before a crash is recorded nowhere.
- Panics of a thread: overflow checks of a debug build, failed allocations.
- The retransmission of missed reports that `SYSTEM_DESIGN.md:278` describes: the
  code has no such service.
