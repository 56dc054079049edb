# A formal model of FastQ++

FastQ++ is one header, `spsc_queue.hpp`: `fastq::SPSC<T, PublishBatch>`, a
bounded lock-free ring for one producer and one consumer thread that publishes
its cursors in batches. Around it the repository has a correctness test and a
benchmark (`testing/benchmark_spsc.cpp`), two small locked queues
(`includes/mutex_queue.hpp`, `includes/mutex_deque.hpp`), and, in `includes/`,
vendored queues, some of which the benchmark compares with. This directory holds
TLA+ models of the program and of those queues, TLC configurations that check them
on small instances, and TLAPS proofs, for every instance, of nearly all the safety
properties of the repository's own code and of most of those of the vendored queues.

## Inventory

| part | state | operations | what makes it right |
|---|---|---|---|
| `fastq::SPSC` | `buffer_`; atomic `writer_`, `reader_`; per thread a local cursor, a cached copy of the other's, the last published value | `push`, `pop`, `size`, `empty` | FIFO; no slot accessed by both threads unordered; neither thread stuck |
| `flush()` | writes the state of both threads | `flush` | shows every item; harmless where the program calls it |
| constructor, destructor | `capacity_`, `mask_`, the allocation | construct, destroy | powers of two only; mask is modulo |
| `test_spsc_correctness` | `start`, `done`, loop counters | two lambdas | always passes |
| `run_spsc_benchmark` | `ready`, `start`, `stop`, payload, sum, count | main and two lambdas | returns; counts what was popped |
| `MutexQueue`, `MutexDeque` | container, mutex | `write`, `read` | FIFO for any threads |
| `rigtorp::SPSCQueue` | slots, two atomic indices and a cached copy of each | `emplace`, `try_emplace`, `front`, `pop` | FIFO; what `front` returned stays |
| `rigtorp::MPMCQueue` | a turn per slot, two tickets | `push`, `pop`, `try_push`, `try_pop` | a ticket's element goes to the pop of that ticket; no false failure |
| `atomic_queue` | a state byte (or NIL) per slot, two counters | `push`, `pop`, `try_push`, `try_pop` | nothing lost or doubled; FIFO for two threads; tries beside tries need no later call |
| `AtomicQueueMutexT`, ticket lock | ring; `ticket_`, `next_` | `try_push`, `try_pop`, `lock`, `unlock` | FIFO; each thread is let in |
| `moodycamel::ReaderWriterQueue` | circular list of ring blocks | `try_enqueue`, `enqueue`, `try_dequeue`, `pop`, `peek` | FIFO over growth; assertions; room for its size |
| `BlockingReaderWriterQueue`, `LightweightSemaphore` | the queue, a count, a kernel semaphore | the same, waits and timed waits | count, units and items agree; no lost wake-up |
| `moodycamel::ConcurrentQueue` | sub-queues of blocks with block indices; free list; list of producers; hash of implicit producers; tokens | `enqueue`, `try_dequeue`, bulk and token variants | each part below |
| `main`, `pinThread`, `barrier.h` | | statistics, OS calls | not modelled |

The two threads of `fastq::SPSC` share only `buffer_` and the two atomic cursors.
The producer owns `producer_` and stores `writer_`; the consumer owns
`consumer_` and stores `reader_`. Each looks at the other's cursor only when its
cached copy says the ring is full (empty), and stores its own only when
`PublishBatch` operations are due or an operation fails. The hard behaviours are:
stale cached cursors, loads that return old values, the ordering of the plain
slot accesses, the wrap of the `std::size_t` counters, items and slots hidden by
an unfinished batch, and `flush()`, which crosses the ownership line. The vendored
queues add tickets and turns of different laps, blocks that are linked in, drained
and used again, indices replaced while they are read, claims given back, waits that
time out, and calls that fail half way. `PROJECT.json` lists these hazards at their
lines, with the properties that cover each.

## Modules

| module | models | notes |
|---|---|---|
| `SizeT` | `std::size_t` cursors | wrapping `Sub`, `Add`, `Slot(p)` for `p & mask_`; used by all ring modules |
| `FastqSPSC` | `push`, `pop`, ordered `flush`, `size`, `empty` | the core |
| `BoundedFifo` | | the abstract queue: `Enqueue`, `Dequeue`; its `capacity` is a variable that never changes, since a queue chooses it when it is constructed |
| `ConcurrentFlush` | `flush()` against running calls | extends `FastqSPSC` |
| `CorrectnessTest` | `test_spsc_correctness` | extends `FastqSPSC` with the two lambdas |
| `Benchmark` | `run_spsc_benchmark` | extends `FastqSPSC` with main and the two lambdas |
| `Lifetime` | constructor, destructor | on bits; TLC only (it uses `Bitwise`) |
| `MutexQueue` | `MutexQueue`, and the same steps in `MutexDeque` | any number of threads |
| `SPSCQueue` | `includes/SPSCQueue.h` | stale loads of the indices |
| `MPMCQueue` | `includes/MPMCQueue.h` | |
| `AtomicQueue` | `includes/atomic_queue/atomic_queue.h` | both kinds of slot, SPSC or not; counters wrap |
| `AtomicQueueMutex` | `atomic_queue_mutex.h`, `spinlock.h` | mutex or ticket lock |
| `Pool` | | the abstract queue without an order |
| `Competitors` | | the five queues above side by side, one per behaviour |
| `ReaderWriterQueue` | `includes/readerwriterqueue.h` | |
| `LightweightSemaphore` | the semaphore of `includes/atomicops.h` | |
| `BlockingReaderWriterQueue` | the blocking queue | composes the two above |
| `ProducerBase` | `includes/concurrentqueue.h`: blocks, the four counters, what all dequeues do | |
| `ExplicitProducer`, `ImplicitProducer` | the two kinds of sub-queue | extend `ProducerBase` |
| `SubQueue` | a sub-queue of either kind, and what must be true of both | |
| `FreeList` | the lock-free list of free blocks | |
| `ProducerList` | list of producers, tokens, the dequeues over all sub-queues | |
| `ImplicitProducerHash` | the hash from thread ids to producers | |
| `ConcurrentQueue` | | the four parts above, one per behaviour |
| `MC*` | | give constants their values for TLC |
| `Links` | | what a list of linked nodes holds, for `FreeList` and `ProducerList` |
| `FastqSPSCProofs` | | arithmetic of `SizeT`, theorems about `FastqSPSC` |
| `ConcurrentFlushProofs`, `CorrectnessTestProofs`, `BenchmarkProofs` | | theorems about what extends `FastqSPSC` |
| `AtomicQueueProofs`, `CompetitorsProofs` | | theorems about `AtomicQueue` and `AtomicQueueMutex`; about `MPMCQueue`, `MutexQueue`, `SPSCQueue` and all five in `Competitors` |
| `BlockingReaderWriterQueueProofs` | | theorems about `ReaderWriterQueue`, `LightweightSemaphore` and the blocking queue |
| `ConcurrentQueueProofs` | | theorems about `FreeList`, `ProducerList`, `SubQueue` and `ImplicitProducerHash` in `ConcurrentQueue` |

`LinkedFrom` of `Links` is the least set that a node is in and that its `next` pointers
do not leave: what a walk along them reaches, without a recursion, which the proofs
could not use.

### FastqSPSC and the code

`producer`, `consumer` and `buffer` are the members of those names. `pushPc` and
`popPc` say where a thread is inside its call; a step makes at most one access to
memory the other thread uses:

| action | code |
|---|---|
| `PushBegin` | the first full test, on the cached copy (line 81) |
| `PushLoadReader` | the acquire load and the second test (82-84) |
| `PushWrite` | slot write, increment, batch test (90-93) |
| `PushPublish` | `publish_writer` when a batch is due or the ring is full (85-86, 94-97) |
| `PopBegin`, `PopLoadWriter`, `PopRead`, `PopPublish` | the same for `pop` (102-118) |
| `Flush` | `flush()` by a caller ordered after both threads' calls (122-125) |

**Memory order.** `writer` and `reader` hold, per atomic cursor, the stores the
*other* thread may still observe, oldest first. A load returns the first;
`PropagateWriter` and `PropagateReader` drop it when a newer store becomes
visible. So a load may return any store not older than one already observed,
which is what C++ coherence gives. Every store carries a view: how far the storing
thread's accesses to `buffer_` had got. An acquire load takes the view over into
`producerSees` or `consumerSees`. `NoDataRace` states that every slot access is
ordered, by these views, after the access of the other thread it has to follow.
A relaxed store carries an old view, and the model then shows the race. With
`WeakMemory = FALSE` every load returns the newest store.

`Modulus` stands for 2^w. Only `Modulus % Capacity = 0` and `Capacity < Modulus`
are assumed; `Lifetime` shows on the bits that the constructor's test gives both
and that `p & mask_` is `p % capacity_`.

`size()` and `empty()` change nothing and are state functions, for each of the two
owners. For a third thread the two relaxed loads can be of any two moments and
nothing is claimed.

### The other modules

`ConcurrentFlush` splits `flush()` into single accesses. It reads the other
thread's plain cursor with no ordering: the read may return any value the
variable has had since the reader was last ordered after its owner (`Arc`). The
unordered write to `lastPublished_` may store a stale value or be lost. `flushers`
says which threads call `flush()`, each at most once; the producer then pushes nothing more ("end
of usage"). Without that restriction a producer that goes on pushing after its
own `flush()` can load back the cursor it stored itself, which orders nothing,
and reuse a slot unordered; that is outside what the documentation allows.
The consumer can load back the `localWriter_` it stored itself, too. The pops that
follow read slots whose push nothing orders before them (`PushIsUnordered`), a data
race in C++: `ReadsUnordered` lets such a pop return anything, and take its place.
With that, `PushWrite` can stay one step (lines 90-91) here too: a consumer that sees
`++localWriter_` and not yet the item sees the whole step and reads a stale slot.

`CorrectnessTest` and `Benchmark` follow the lambdas statement by statement: a
program counter per lambda, an action per statement that reads or writes shared
state, `PushBegin`/`PopBegin` at the call and a `Returns` action when `pushPc`
(`popPc`) is back to `idle`. The acquire load of `done` that returns true orders
all of the producer's steps (`ConsumerChecksDone`), which is what makes the
consumer's `flush()` legal. Flags stored once by a thread whose next step touches
no shared state need no history of stores: a store seen late is a store made late.

`MutexQueue` takes the lock, the container accesses and the unlock as separate
steps. `delivered` is auxiliary: the last value read, the `out` of `BoundedFifo`.

### The vendored queues and the code

All keep to one access to shared memory per step, with a program counter per
thread, and to the names of the source. `SPSCQueue` lets a load return any store
not older than one seen; the others let loads return the newest store, so they
check interleavings and not the choice of memory orders.

`SPSCQueue`: `EmplaceBegin`, `EmplaceLoad`, `EmplaceConstruct`, `EmplaceStore`
(104-140) for `emplace` and `try_emplace`, `FrontCached`, `FrontLoad` (168-177),
`PopDestroy`, `PopStore` (179-191). The constructor turns a capacity of 0 to 1 and
adds a slack slot (`SlotsFor`).

`MPMCQueue`: `FetchAdd`, `AwaitTurn` for `push` and `pop`; `TryLoad`, `TryTurn`,
`TryCas`, `TryReload` for the tries; `Use`, `PassTurn` for all. An element is named
by its ticket.

`AtomicQueue`: `TakeTicket` for `push` and `pop`, `TryLoadCounter`, `Compare`,
`AdvanceCounter` for the tries, then `PushAtomic`/`PopAtomic` or `ClaimSlot`,
`MoveElement`, `ReleaseSlot` at the slot. Nothing ties a slot to a lap: with many
threads the queue is a pool and no FIFO, which is why it is checked against `Pool`.
For the same reason a try that has its ticket may wait for a later call: with one slot,
a `try_push` takes ticket 0, a `push` of another thread ticket 1, the push comes to the
slot first, and the try waits until somebody pops, now or later. `TriesNeedNoLaterCall`
therefore is about a side (all producers, or all consumers) whose threads call nothing
but tries, whatever the other side calls; `onlyTries` in the configuration says which do.
`benchmark_spsc.cpp:249-256` uses the queue so, with `push` against `try_pop`. That such
a try returns, if others of its side go on calling, is not claimed, since they may come
to the slot first each time; with one producer and one consumer it is (`WaitsEnd`).

`AtomicQueueMutex`: `LockBegin` to `RingUnlock`. `TicketSpinlock::unlock()` without
an argument (spinlock.h:93-95) is one of the kinds of lock of the model, but of no
run: it passes `next_ + 1` to `unlock(ticket)`, which adds one more, skips a turn and
stops the lock. Nothing in the repository calls it; the `LockGuard` passes the
ticket. `UnfairSpinlock` declares only a deleted
constructor, and so no object of it can be made.

`ReaderWriterQueue`: `Enqueue*` is `inner_enqueue` (534-644), `Dequeue*` is
`try_dequeue` (284-376), `pop` and `peek`, which take the same steps, except that
`peek` stops before it changes anything. `BlockingReaderWriterQueue` calls them and
`LightweightSemaphore`: enqueue then `signal`, wait then dequeue. The 1024 turns of
the spin loop end at any time; a timed sleep may end whenever there is no unit.

`ConcurrentQueue` is in four parts, each of which takes from the next no more than
that one's properties give:

- A sub-queue (`ProducerBase` and the two kinds). `Dequeue*` in `ProducerBase` is the
  claim: `dequeueOptimisticCount` (2257), the second look at the tail, what is given
  back on `dequeueOvercommit`, the indices from `headIndex` (2267). Locating the
  block, moving out and flagging the slots are each kind's own. `enqueue` is modelled
  access by access, `enqueue_bulk` block by block, with everything it undoes. The
  single implicit calls are the bulk calls of one, but for the constructor tried
  before the block is in the index. Elements are named by their indices, so a
  dequeue that finds a wrong block sees a wrong index. `Destroyed`,
  `ImplicitDestroyed` and `ImplicitReturned` compute what the destructors would do in
  the current state.
- `FreeList`: `Add*` is `add` and `add_knowing_refcount_is_zero`, `Get*` is `try_get`.
- `ProducerList`: `recycle_or_create_producer` and `add_producer`; the five dequeues
  (`TryDequeue`, `TryInOrder`, `TokenCall`, each single or bulk) and
  `update_current_producer_after_rotation`. A sub-queue is a count of elements, a
  dequeue from it one step. `OtherConsumers` are the tokens of threads not modelled,
  which move the global offset.
- `ImplicitProducerHash`: `get_or_add_implicit_producer` and the callback at a
  thread's end; ids are used again.

Things met in that code and modelled as they are: a token's single dequeue tests
its quota with `++consumed == QUOTA` (1200) and the bulk one with `>=` (1257-1264);
an implicit producer whose first `new_block_index` failed never tries again
(2904-2905). An assignment that throws in a dequeue destroys and flags the same
elements as one that does not, and is not told apart.

## Runs

| run | instance | question |
|---|---|---|
| `fastq_safety` | 4 slots, batch 2, wrap at 8, 2 items, stale loads | are cursors ordered, slots race-free, `size`/`empty` honest, lag below a batch, and is it a FIFO |
| `fastq_progress` | 2 slots, batch 3, 1 item | can the threads block each other when a batch never fills |
| `flush` | 2 slots, batch 2; `flush()` by the producer, or by both | does the producer's final `flush()` show all items and keep the FIFO; with both, does each pop still take one place in order |
| `flush_both` | 2 slots, batch 2 | README.md:27 when both threads flush: does not hold |
| `correctness_test` | 8 items, 4 slots, batch 3 | can the test abort or hang |
| `benchmark` | 2-bit payloads, 4 slots, batch 3 | does the benchmark return, with right counts |
| `lifetime` | every 8-bit capacity | is `p & mask_` `p % capacity_` for each capacity let through |
| `rwq` | blocks of 2 and 4 slots; a circle of five; a chain of up to three; alone and blocking | FIFO, assertions, room, no lost wake-up |
| `rwq_empty` | a queue constructed for no element | readerwriterqueue.h:349-350 on the block the consumer moves on to: does not hold |
| `competitors` | each queue of `Competitors` with 1 to 3 slots and up to 3 threads (`MutexQueue`: 4) | FIFO or pool, tickets, honest failures, no endless waits, tries that need no later call |
| `concurrent_queue` | ten sub-queues of blocks of 2; a free list of 2 nodes and 3 threads; 2 producers and tokens; a hash that doubles, 2 threads | the parts of `ConcurrentQueue` |
| `index_overwritten` | an explicit sub-queue whose `enqueue_bulk` fails half way | concurrentqueue.h:1862: does not hold |

**Bounds.** `Modulus` is the only bound on the ring, and a faithful one: the code's
counters wrap too. Eight positions over four slots make two laps, so every pair
of a slot and a lap parity occurs, with the wrap between any two cursors. Two
distinct items suffice for a queue that only copies them: a reordering, loss or
duplicate shows as a difference of two values. The number of stores in flight
needs no bound, since stores are distinct and at most a ring apart. `N` bounds the test
(more than two laps of the ring), `Width` the payloads (they wrap in the run),
`MaxLength` the container of `MutexQueue`, `Bits` the word in `Lifetime`.

In `Competitors` counters wrap for real, except the tickets of `MPMCQueue`, bounded by
`MaxTickets`: two laps of its ring, enough for threads a lap apart to meet at a slot.
`Overtakes` in `AtomicQueue` keeps a thread from being overtaken by half the range of
`unsigned` between a load and its compare_exchange. `ReaderWriterQueue` has no bound
but the blocks that malloc gives (`blocksLeft`) and how many elements are told apart
(`serials`, more than can be out of place). In `ProducerBase` blocks have two
slots and there are sixteen indices, so that they wrap after eight blocks;
`last` stops the producers of the larger sub-queues and `atOnce` bounds the dequeues
under way; those without `last` run for ever, over any number of wraps. One of these
has two dequeues at once, so that one of them claims in vain again and again:
`dequeueOvercommit`, which nothing bounds, and the claims that subtract it wrap as well.
There `lag` keeps the producer within two elements of a dequeue under way: the index
a dequeue has must not come round in sixteen values while it sleeps. `MaxSize` and `Counts` bound what a
dequeue over the list of producers asks for: two, more than one producer has.

**Fairness.** `FairSpec` and the drivers assume weak fairness of each thread (the
loops of the test and the benchmark retry at once, and the scheduler runs both)
and of propagation: C++ asks that a store become visible in finite time. No
strong fairness is used. `ConcurrentFlush` asks nothing of the producer.
`Flush`, which no loop repeats, has no fairness. In `Competitors` and
`BlockingReaderWriterQueue` a call that has begun goes on (no thread stops inside the
library), but nothing is asked about when threads call; a weak compare_exchange on a
free slot does not fail for ever. `ConcurrentQueue` has safety properties only.

**What the violations show.** `flush_both`: the consumer reads `localWriter_`, the
producer pushes, flushes and ends, the consumer stores the old value: the last
items stay invisible, against README.md:27 and spsc_queue.hpp:121, which do not
say that only a thread ordered after the producer may flush. The repository's own
test is on the safe side (`FlushIsOrdered`). `rwq_empty`: `ReaderWriterQueue(0)` makes a first block of
`ceilToPow2(0 + 1) = 1` slot (readerwriterqueue.h:116), whose front and tail are always
equal. Nothing happens until the circle has two more blocks; then the producer comes
back to that block, constructs an element in it and moves `tailBlock` there, and the
consumer that follows finds the block empty, against the assertion at line 351. The
comment at 101 allows any size. `index_overwritten`: an `enqueue_bulk` of
an explicit producer that reaches `MAX_SUBQUEUE_SIZE` (or has no memory) half way
sets `pr_blockIndexSlotsUsed` back although the blocks it linked in stay
(concurrentqueue.h:2095). The next calls use such a block, whose index slot is then not
counted, and when they go on to a new block, the index seems to have room and the
entry of a block with elements in it is overwritten. Nothing in the repository
uses this queue.

**Known to fail, and left out of the runs.** A failing `pop` stores to `reader_` each
time, so a consumer polling an empty queue touches both atomics on every call, although
README.md:12 says that they are only touched once per batch. With a constructor that throws at a
block boundary an explicit producer leaves the next block reset and not flagged empty
(concurrentqueue.h:1922-1926): `DestructorIsExact` and `DrainedBlocksAreReusable` fail
with `throws` set for an explicit sub-queue. With three threads the count of used
slots of the implicit producer hash can fall behind (concurrentqueue.h:3514: a thread
takes over a removed slot of an older table, and its entry is later copied to a free slot of
a newer one, against the note at 3419). The last two are listed among the
hazards.

**The benchmark's limits.** `Returns` needs the ring to hold a batch (main uses 512
against 2^17) and stores seen at once. With a ring smaller than a batch, or with
arbitrarily stale loads, the consumer can leave while the producer still sees a
full ring and retries forever in its inner loop, which does not look at `stop`.

## Proofs

Each theorem holds for every value of the constants that the module's named
assumption admits, and where it asks for more it says so as its own hypothesis. The
assumptions are about types, about names that must differ (no thread both pushes and
pops, `NoData` is no item), and these numbers:

- `SizeTAssumption`: `Modulus % Capacity = 0` and `Capacity < Modulus`, from the
  constructor's test for powers of two (`Lifetime`).
- `AtomicQueueAssumption`: the size divides the range of the counters, and half the
  range is more than the size and the pushers together, and no less than the poppers.
  The code does not test it; `unsigned` counters and the repository's instances meet
  it by far.
- `AtomicQueueMutexAssumption`: the same of the ring, and fewer threads than values of
  the lock's counters.
- `ProducerListAssumption`: producers are numbered from one, as they are counted, and an
  offset has at least one value.
- `ProducerBaseAssumption`: the range of the indices is a multiple of two blocks, as a
  power of two is; calls are for at least one element; the dequeuing threads are
  finitely many.
- `HashAssumption`: the first table is not empty, no thread has one of the two invalid
  ids, and a thread's hash is a natural number, any for each; producers are numbered from
  one, as they are made.
- `RWQAssumption`: `MAX_BLOCK_SIZE` is a power of two, at least 2, as the code asserts
  (readerwriterqueue.h:111-112).
- `BenchmarkAssumption`: payloads are `0 .. Width - 1`, and every load returns the
  newest store, as in the model.

### FastqSPSC

The invariant one wants, `NoDataRace`, is not inductive: that a push is ordered
after the right pop depends on which stores are still in flight, on every cached
copy, and on the batches. `CursorOrder` is. It places every cursor-valued thing
on one arc that starts at the producer's `cachedReader` and is at most `Capacity`
long, in this order:

    cachedReader <= stores to reader_ <= localReader <= cachedWriter
                 <= stores to writer_ <= localWriter <= cachedReader + Capacity

with the views beside the stores that carry them. Distances are wrapping
differences from `cachedReader`. The only step that moves the base is
`PushLoadReader`; lemma `Rebase` (a distance shrinks by the distance the base
moved, across the wrap) carries all conjuncts over at once. All other steps move
one point towards its neighbour: `SubIncrement` for increments, `StoreKeepsOrder`
for stores, `PropagateKeepsOrder` for propagation.

From `TypeOK` and `CursorOrder`, for every batch, zero included, and with and without
stale loads:

- `NoDataRaceInvariant`: differences on the arc, and `SlotInjective` (positions
  less than a ring apart have different slots, because `Capacity` divides
  `Modulus`).
- `SizeInRangeInvariant`, `EmptyIsHonestInvariant`: the published cursors lie
  between the local ones.
- `LagBelowBatchInvariant`: with `ProducerLag` and `ConsumerLag`, the same in terms
  of what a thread itself counts.
- `Implementation`: `Spec => Fifo!Spec`. The abstract items are the slots from
  `localReader` to `localWriter`. `PushWrite` is `Enqueue`, `PopRead` is `Dequeue`,
  everything else stutters. A write hits no queued item by `SlotInjective`; a read
  shifts the indices by `AddIncrement`. Both need only `ItemsOnArc`, the part of
  `CursorOrder` that is left when `flush()` races.

### flush() during use

`CursorOrder` fails in `ConcurrentFlush`: the producer's `flush()` takes `reader_` back,
the consumer's takes `writer_` back, and each leaves the other's `lastPublished_`
anywhere. `FlushInv` is what remains. `ItemsOnArc` always holds. `ReaderOrder`, on what
the producer may load, holds until the producer flushes, and after that it loads no
more. `WriterOrder`, on what the consumer may load, holds throughout, because the
consumer reads a `localWriter_` no older than the view it has, and stores that.
`WriterViews`, that every item shown comes with its view, holds until the consumer
stores to `writer_`. An unordered read lies between the ends of its arc (`ArcBetween`).
It follows that a `flush()` by the producer alone shows everything, and nothing too
early (`ProducersFlushShowsAllInvariant`), and keeps the bounded FIFO
(`ProducersFlushImplementation`). With the consumer's `flush()` less is true
(`FlushImplementation`, `FifoOfPlaces`): the places are still taken one by one, in
order and only once filled, but where no store of the producer's orders the push before
the pop, what is copied out need not be the item. `PushIsUnordered` names these pops,
and `NoRaceWithoutConsumersFlush` says that there are none before the consumer calls
`flush()`. As soon as the consumer loads a later store of the producer's again, its pops
deliver what was pushed.

### The test and the benchmark

Both run the queue's own steps, so `CursorOrder` carries over, and the lambdas add what
their program counters say.

`TestInv`: the items inside are the numbers from `expected` to `i`, off by one between
the write (read) and the line that counts it; once the consumer has seen `done` the
producer takes no step; after `flush()` all items are visible. Hence `FlushIsOrdered`,
`FlushRevealsLessThanBatch` and `NeverAborts`, which no run checks: `Passes` does,
and liveness with it.

`CountInv` is the same for the benchmark, whose payloads wrap: the k-th item is k modulo
`Width`, if `Width` divides `Modulus`. `CountsWhatWasPopped` needs `2 * Width` to divide
`Modulus`, since the sum of 0 .. k - 1 has a half in it and k is known only up to
`Modulus`. On a machine with 64-bit payloads and cursors that does not hold, and
`SumInvariant` says what does: the sum is right up to multiples of any V with
`Modulus % (2 * V) = 0`, there of half the range of `std::uint64_t`.
`LeavesAtMostABatch` is proved for every batch but zero, with which a push under way
leaves its one item. Its invariant `LeftBehind` counts what is left from the moment the
consumer finds the queue empty: less than a batch is hidden then, the producer, which
pushes once more at most, publishes when the batch is full, and that push is counted
in advance (`OwesPush`).

### The queues of Competitors

- `MutexQueue`: `Inside` (whoever is in a call holds the mutex, and what `empty()` and
  `front()` said is still so) gives `MutexImplementsFifo` for any threads.
- `MPMCQueue`: `MpmcInv` says that a ticket that is out has one owner
  (`TicketsAreOwnedOnce`), that a turn which has come stays until its owner passes it on
  (`TurnIsKept`; a slot and a turn belong to one ticket on one side, `TurnNamesTicket`),
  and that a slot whose turn is a consumer's holds that ticket's element
  (`StorageIsKept`). `PopsItsTicket` follows for any capacity and threads. For
  `FailsOnlyWhenBusy` a try that saw another's turn, and then its counter where it was,
  has seen the slot busy (`BusyWasSeen`).
- `SPSCQueue`: `SpscInv` orders the indices on one lap as `CursorOrder` does, with one
  cached copy each and the slack slot.
- `AtomicQueueMutex`, under a mutex or the ticket lock with its ticket: with the mutex
  the owner is alone; with the ticket lock the tickets out are exactly those from
  `next_` to `ticket_`, one per thread, so that one thread is past `lock()`
  (`TicketsAreQueued`). The kind of lock whose `unlock()` takes no argument is excluded
  by hypothesis (`Locks \subseteq {"system", "ticket"}`).
- `AtomicQueue` between two threads: tickets not yet used are the last ones on each
  side, and the slots with an element are those between. It is a FIFO.
- `AtomicQueue` between any threads is a pool (`AqImplementsPool`): the state byte is a
  lock on its slot (`SlotsAreClaimed`, `OneInSlot`), whose other two values say whether
  there is an element.
- `TriesNeedNoLaterCall`: how far `head_` is beyond `tail_` (`Level`) is what the slots
  hold, plus the pushes and minus the pops that have a ticket and have not used it
  (`LevelIs`), up to the wrap. What a try found by comparing the counters stays true
  until it advances its own, since the other side only makes more of it
  (`ComparedWell`). So a side that only tries never passes the other: `Level` is not
  negative if the consumers only try, and not above `size_` if the producers do
  (`LevelKept`). Slot by slot, the element that is there, plus the pushes and minus the
  pops that wait for that slot, is the number of tickets of the slot between `tail_` and
  `head_`, of whatever laps (`SlotsBalance`, in which `x` is `tail_` as if it did not
  wrap). With `head_` not behind `tail_` that number is nowhere negative, so that a pop
  waits at an empty slot only where a push waits too; with `head_` at most a ring ahead
  it is nowhere above one, so that a push waits at a full slot only where a pop waits
  too; and the slot's state lets that one in. It relies on the bound `Overtakes`:
  no thread is overtaken by half the range of `unsigned` between its load and its
  compare_exchange.

The theorems are stated of `Competitors!Spec`; each of its behaviours runs one queue and
leaves the others as constructed (`StepOfEach`).

### ReaderWriterQueue and BlockingReaderWriterQueue

The theorems ask that every queue is constructed for at least one element (`Sized`), and
no more; without that `AssertionsHold` is false (`rwq_empty`). Block sizes, the number of
blocks, malloc's failures and the kinds of calls are arbitrary.

What one wants, that the consumer's next block has something in it and the producer's next
block has nothing, is not inductive, since it says nothing of the blocks further on. `RWQInv`
places the whole circle: for each block there is a distance to the tail block along `next`
(`RingOf`; it stands in for the recursion, and shows that every block is passed on the way). Blocks
farther from the tail block than the front block is are empty (`BeyondFront`), those between the two are
full (`BehindTail`), the tail block has an element unless it is the front block
(`TailFilled`), and every slot between front and tail holds an object (`Objects`). To
these it adds what each thread has found out and still relies on: the cached `localFront` and
`localTail` err on the safe side only, what the producer has written but not published is there, and
the block about to be linked in holds its element (`ProducerKnows`, `ConsumerKnows`,
`NewIsFilled`). Then

- `AssertionsHoldAlways`: the assertions at 351, 416, 467, 588 and 618.
- `RoomForSizeAlways`: an enqueue that finds the block full, and the front block next, sees
  all other blocks full; the arithmetic is that of lines 116-123.
- `RWQFifo`: each step keeps the items, appends one, or takes the first off (`Keeps`,
  `Adds`, `Removes`). A step changes one block, so the lemmas say what that does to the
  contents (`ContentsOf`) of the blocks from the front to the tail block.
- `UnitsMatchInvariant`: the count of `LightweightSemaphore`, the units of the system
  semaphore and the waiter agree. `WaiterKnows` is the strengthening: between the
  waiter's look at the count and its subtraction only a signal comes, so the count does
  not shrink.
- `CountsItemsAlways`: the count, the signal to come and the unit the consumer has add up
  to the items (`Balance`). So a consumer with a unit finds an item, in its block or in the next
  (`FindsItem`), and the assertions at 865, 881, 900 and 938 hold.

`Contents` is a recursive function over the blocks. What it is at a block is proved by
induction on the distance to the tail block, in the form of a least counterexample
(`LeastOf`, `NatInd`): the library's induction theorems take a predicate as a parameter,
but that every non-empty set of naturals has a least element can be used as it is.

### ConcurrentQueue

- `FreeListKeepsNodes`: the reference count of a node is the number of threads that
  refer to it, plus one while it is on the list, about to be, or just off it
  (`RefsCounted`); a marked node is left to whoever lets go of it last (`MarkMeans`);
  hence what a thread has read or written of `next` is still so at its compare_exchange
  (`NextIsKept`), the list has no cycle (`Acyclic`), and each node is on the list or some
  thread's (`OwnedOnce`).
- `ProducersHaveOneToken`, `CountCoversList`: the compare_exchange on `inactive` gives a
  producer to one thread (`OwnedProducer`); one that is being added is counted before it
  is listed, so the count covers the list (`ListIsCounted`), also from a consumer's place
  on it, if the count was read after the tail (`PlaceIsCounted`).
- `FallsShortOnlyIfEmpty`: what a dequeue has still to look at is before it (`Follows`).
  For the walks in order that is the rest of the list. For the walk with a token it is the
  arc from where it is, round the list from the tail it read, to its place (`Ahead`); the arc
  loses its first producer with each step, and starts over at the producer that gives something.
  The walk ends at its place, with nothing on the arc. This needs that the list has no cycle
  (`ListIsAcyclic`), that it only grows at its tail (`ProducersGrow`), and that a rotation
  ends on it (`PlaceIsListed`): that uses the count's property above, without which
  `count - 1 - initialOffset % count` could be negative.
- `CountsAgree`: the indices and the two counters of dequeues wrap, and what a thread
  compares is older than what it then does. `CountsInv` has the numbers they stand for,
  which do not wrap (`Numbers`): head and tail; what is claimed and not given back, which
  is the head plus what the threads have claimed in vain or not yet decided on; and for
  each thread that has claimed, where its claim begins. Those claims are disjoint and in order (`Layout`), so the
  second look at the tail tells exactly how much of a claim is covered (`Safe`). Each
  subtraction is right after the wrap because the numbers differ by less than half
  the range (`IndexDifference`, `LessIs`). The hypotheses say so:
  - `ClaimsFit(M)` and `ClaimsAreFresh(M)`: no dequeue asks for more than `M`, nor claims
    when more than `M` were given back since it loaded `dequeueOvercommit`; and `M`, plus
    twice what all threads can claim together, is at most half the range. What was given
    back in all is not bounded: that counter wraps. With 64-bit indices this is no
    restriction. The bulk sizes of the run, with sixteen index values, do not meet
    it; there TLC finds `CountsAgree` true in every state.
  - `StaysInReach`: the tail of an explicit producer does not come to be more than half the
    range past the head. An implicit producer compares the two for each block it takes
    (`RoomIsGiven`), so for it the theorem has no such hypothesis
    (`ImplicitCountsAgreeAlways`). An explicit one does so only when its ring of blocks
    grows; a block used again is free because it was drained, which is a matter of
    blocks. TLC checks the reach with `CountsAgree`'s first conjunct.
- `ProducersAreKept`: a thread that has a producer is in some table, and with no other in
  any (`Registered`); its search comes to its key before it comes to a free slot (`OnPath`),
  because a slot is never free again, so a removed key does not cut a search short; and it
  is in each table once (`OneKey`). `HashPlaceOK` adds what a thread inside has found out: the
  tables it has searched do not have its key, and none of the slots it has passed in this one
  was its own, or, where it is to insert, free (`NotBefore`, `TakenBefore`). Only the thread
  writes its key, so a step of another disturbs none of that (`OthersPlace`, `HashStep`): it
  may take a slot, or put a table before the others, where nobody is yet. The rest is one
  lemma per action. A growing table's size is found by recursion (`NewTableSize`); that it
  is not zero is by induction on the count (`NewTableIsNotEmpty`).

### Only model-checked

- Liveness, which TLAPS does not prove: `Progress`, `Passes`, `Returns`,
  `FlushedItemsArePopped`, `WaitsEnd`, `SleeperIsWoken`.
- `MaskIsModulo`: its bit operations are recursive operators.
- Of `SubQueue`: `AssertionsHold`, `FindsItsElements`, `DestructorIsExact` and
  `DrainedBlocksAreReusable`, whose invariant would relate the block index, the blocks'
  flags and what is in them at every line of every call, and the reach of an explicit
  producer's tail.
- Of `ThreadsKeepTheirProducer` the second part, `TablesHaveFreeSlot`, which cannot be proved
  for any number of threads, as the count of used slots can fall behind (see above). Its
  first part, `ProducersAreKept`, is proved without it: that searches end is a separate matter.

## Not modelled

- `main` and `pinThread`: straight-line statistics and operating-system calls.
- `capacity()`: returns a constant. Copy and move are deleted in the code.
- Element copying: `T` is trivially copyable; a slot access is one step, and
  `NoDataRace` is what makes that sound.
- The clock and floating-point arithmetic of the benchmark's result.
- `folly` and `boost` queues: not in the repository. `barrier.h`: used by nothing.
- Of the vendored queues: allocation and alignment, moving and swapping a queue
  (forbidden during use), the approximate sizes, which only read, and the
  destructors of all but `ConcurrentQueue`'s sub-queues. Of `atomic_queue`, sizes that
  do not divide the range of the counters, and the order in which slots lie in memory.
  Of `ConcurrentQueue`, a bulk call of no elements.
- Memory orders weaker than sequential consistency outside `FastqSPSC`, the modules
  that extend it, and `SPSCQueue`.

## Plan

Done, in this order: `SizeT`, `FastqSPSC` with `BoundedFifo`, its proofs,
`CorrectnessTest`, `Benchmark`, `ConcurrentFlush`, `MutexQueue` with proofs,
`Lifetime`, `Competitors` and its queues, `BlockingReaderWriterQueue`,
`ConcurrentQueue`; then the proofs for all that extends `FastqSPSC`, for the queues of
`Competitors`, `ReaderWriterQueue` and its blocking form, the free list, the list of producers with its
dequeues, the counters of a sub-queue, and the hash of producers.

Next:

1. Proofs: the reach of an explicit producer's tail, from the blocks of its ring, and
   `FindsItsElements` for `SubQueue` without failures.
2. Weak memory for `ReaderWriterQueue`, whose fences are now taken at their word.
