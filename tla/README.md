# A TLA+ model of EbbRT-Silo

EbbRT-Silo is the Silo in-memory database ported to the EbbRT library OS. Worker cores run
optimistic transactions over an ordered index; a ticker divides time into epochs; epochs decide
when memory may be freed, what a read-only transaction sees, how transaction ids are ordered and
what the log may call persistent. On top run TPC-C and a memcached front end. This directory
models that system from the spinlock of a ticker slot up to the transactions of TPC-C, checks the
models with TLC on small instances, and proves the ticker, RCU, the tuple header, core ids,
transaction ids and the memory safety of the transactions with their collector for every size with
TLAPS.

File and line references are to the repository. The modelled build is the default one:
`NDB_MASSTREE`, `config/config-perf.h`, without `CHECK_INVARIANTS` (so `INVARIANT()` is compiled
out and `ALWAYS_ASSERT` is not).

## 1. Inventory

| Part | State | Operations | Talks to |
|---|---|---|---|
| ticker (`ticker.h`) | global tick, last completed tick, per-core slot with tick, depth, spinlock | guard construction and destruction, `tickerloop` | everything below reads its ticks |
| RCU (`rcu.h`, `rcu.cc`) | per-core depth, `queue_`, `scratch_`, last reaped epoch | regions, `free_with_fn`, `dealloc_rcu`, `do_cleanup` | ticker, px_queue |
| px_queue (`pxqueue.h`) | linked groups, free lists | `enqueue`, `empty_accept_from`, `transfer_freelist`, `clear` | RCU, version collector |
| core ids (`core.h`, `core.cc`) | counter, thread-local id | `core_id`, blocks of ids, `set_core_id`, `percore::my` | every per-core array, tids |
| tuple (`tuple.h`) | header word, tid, record, chain | lock/unlock, `stable_read`, `write_record_at`, `stable_is_latest_version` | transactions, collector |
| transactions (`txn*.h`, `base_txn_btree.h`) | read, write and absent sets; last commit tid | search, scan, put, insert, remove, abort, commit | index, tuples, RCU, ticker |
| version collector (`txn_proto2_impl.*`) | per-core queue of superseded and deleted tuples | `on_dbtuple_spill`, `on_logical_delete`, `clean_up_to_including` | index, RCU, ticker |
| B-tree (`btree.h`, `btree_impl.h`) | nodes with versions, layers | search, scan, insert, remove, split, steal, merge | transactions (in the build without Masstree), its own tests |
| ring (`circbuf.h`) | slots, head, tail | `enq`, `deq`, `peekall` | logger |
| logger (`txn_proto2_impl.*`) | log buffers, horizons, per-core sync epochs | `on_tid_finish`, `writer`, persister, `wait_until_current_point_persisted` | ring, ticker |
| memcached (`Memcached.cc`, `silomcd.cc`) | partial messages per connection | warm-up, accept, `Receive`, replies | TPC-C workers |
| TPC-C (`new-benchmarks/`) | tables, partition locks, barriers | loaders, five transactions, workers' loop | transactions or the in-place store |
| tests (`btree.cc`, `txn_btree.cc`) | | what threads call and assert | B-tree, transactions |
| allocator, containers, encodings, other workloads, statistics | | | see section 8 |

What makes the code hard: the ticker writes other cores' slots under a lock they hold while they
are guarded; readers take no locks at all; inserts are visible before their transaction commits;
three reclamation rules (RCU, snapshot-based freeing without RCU, and undoing of inserts) act on
the same tuples; splits and merges of the B-tree move keys under readers that hold nothing but a
version; and much of this depends on exactly how far ticks may run ahead of each other.
`PROJECT.json` lists the hazards at their lines, with the properties that cover them.

## 2. Modules

| Module | Models | Role |
|---|---|---|
| `EpochClock` | what the ticker promises | abstract specification |
| `Ticker` | `ticker.h`, one step per shared access | implements `EpochClock` |
| `Rcu` | regions, queueing, `do_cleanup` | on top of `EpochClock` |
| `EpochQueue` | a queue of ticks that hands over what is due | abstract specification |
| `PxQueue` | linked groups and free lists of a core's two queues | implements `EpochQueue` |
| `CoreIds` | `coreid` and `percore`, one step per access to the counter | |
| `Tid` | the layout of transaction ids, read-only ticks | operators used by `Txn*` |
| `Tuple` | the header protocol of one tuple, single loads and stores | justifies `Txn`'s atomic steps |
| `TxnState` | the state of the transactions, tuples and locks | on top of `EpochClock` and `Tid` |
| `TxnRun` | reads, puts, inserts, abort; commit up to the validation; unlocking | actions of `Txn` |
| `TxnInstall` | the writes of a commit, version chains | actions of `Txn` |
| `TxnCollect` | begin and end of a transaction, undoing of inserts, the collector | actions of `Txn` |
| `Txn` | the three together, and what they promise | the specification |
| `TxnInv` | | the inductive invariant of `Txn` |
| `TxnTests` | the programs of `txn_btree.cc` | on the store as `Txn` shows it |
| `BtreeNode` | keys, slices, nodes, search, split and steal points | operators used by `Btree` |
| `Btree` | operations on a shared tree, step by step | |
| `BtreeTests` | the programs of `btree.cc` | inputs of `Btree` |
| `Fifo` | a bounded queue | abstract specification |
| `Circbuf` | the ring, one step per access | implements `Fifo` |
| `Logger` | `txn_logger` and `txn_epoch_sync` | on top of `EpochClock` |
| `Memcached` | the front end | |
| `Tpcc` | TPC-C and its driver | on the store as `Txn` shows it |
| `*Proofs` | | theorems about `Ticker`, `Rcu`, `Tuple` and `CoreIds`, `Tid` and `Txn` |
| `MC*` | instances for TLC | |

How they fit together:

```
  Ticker  --implements-->  EpochClock  <--extends--  Rcu, Txn, Logger
  PxQueue --implements-->  EpochQueue  (its assumption is checked in Rcu and Txn)
  Tuple   --justifies--->  the atomic read, write and validation steps of Txn
  Rcu     --justifies--->  the limbo of Txn: freed once the open regions have ended
  Circbuf --implements-->  Fifo        (the queues of buffers in Logger)
  Txn     --justifies--->  the store of TxnTests and Tpcc: a commit is one step or an abort
```

`PxQueue` assumes that the ticks given to `enqueue` never go down, as the comment in the code
does. `QueueTicksGoUp` (a part of `RcuInv`) shows it of RCU's queues and `GcTicksGoUp` of the
collector's, so those two modules may treat a queue as a set of entries.

The arrows marked *justifies* are arguments of this text: the properties named in section 4 are
what the upper module takes for granted, but no refinement is checked between the two.

### State and actions against the code

*Ticker.* `slot_tick`, `depth` and `lock` are the fields of `tickinfo`. A guard is built in the
steps `GuardOutermost` (depth), `GuardLock`, `GuardReadTick`, `GuardStoreTick`, or in the single
step `GuardNested`; `GuardEnd` and `GuardUnlock` take it down. `tickerloop` is `LoopBump`,
then for each slot `LoopRead` (with the skip), `LoopLock`, `LoopStore`, `LoopUnlock`, and at last
`LoopPublish`. The delay of the loop counts up from an uninitialized variable, so the model lets a
round start at any time. `start_us_` is only a statistic and is left out.

*Rcu.* `RegionBegin`/`RegionEnd` are `scoped_rcu_base`, with and without clean-up. `do_cleanup`,
`ReapBegin`, `Reap`, `ReapEnd` are `sync::do_cleanup`, whose own region calls it again. `Acquire`,
`Unlink` and `Link` stand for the structures that use RCU: a region may keep a pointer it has read
until it ends; freed memory may be handed out again.

*CoreIds.* `core_id` takes an id from the counter the first time a thread asks and `core_id_check`
is the assertion after it; `load_count`, `swap_count`, `swap_fails` are the compare-and-swap loop
that allocates an aligned block for workers; `set_core_id` gives a worker its id; `my` is the use
of a slot.

*Tuple.* The header is a record of its bit fields. A record has two words that carry the tid of
the write they come from, so a torn read differs from a whole one. Writers lock, set the modifying
bit, spill if the read-only tick changed, write word by word and unlock. Older versions behind
`next` are taken as they are, since nobody writes them. A reading thread reads, reads a snapshot or
validates, one at a time.

*Txn.* The state is in `TxnState`; the actions are in `TxnRun` (`txn_impl.h` up to the end of
validation), `TxnInstall` (the loop over the write set and `write_record_at`) and `TxnCollect`
(`cleanup_inserted_tuple_marker`, the destructor and `clean_up_to_including`), so that the proofs
about one of them need not see the others. `tree` and `leaf_version` are the index as one leaf. The
contract used: a search finds the
tuple of a key or reports the version of the leaf; inserting a key changes the version; replacing
or removing a value does not. `heap` holds the tuples with the parts of the header that outlive a
step. `tx` is the transaction of each core with its sets and a program counter. `order` is the
sorted list of tuples to lock. `limbo` is what was handed to RCU. `serial` and `committed` are
history variables: a writer enters `serial` where it draws its tid, a reader where it begins to
validate, and stays in it if it aborts later. A commit draws its tid only while the epoch has
numbers left, since `MakeTid` does not test it. One step is one stable read, one lock, one
validation, one record write, one unlock. Values are abstract: the writing transaction and the position of the write in its write set.
A record write chooses whether the new record fits into the old one's space.

*TxnTests.* `mp_test1`, `mp_test2`, `mp_test3`, `simple_write_skew` and `batch_processing` run
their workers concurrently, each transaction as begin, reads, and a commit that fails when
something it looked up or scanned was written since. The single-threaded tests are sequences of
steps of two transactions, with the outcome each step asserts.

*BtreeNode, Btree.* A key is the sequence of its eight-byte slices; all slices but the last have
length 9. A leaf slot holds a value and the rest of its key, or the root of the next layer. A
stable read of a node is one step; a version that is kept across steps, every lock and the order
in which a leaf split publishes its parts are explicit. Writes to nodes that are locked and
modifying are one step. `map` is the abstract map; an operation changes it in the step in which it
changes the tree. `hist` records what the map held while a call was under way, and `reads` what
finished lookups and scans hold for a later validation by node versions.

*BtreeTests.* Each test is what `main` and the workers call. The sizes follow `NKeysPerNode`,
which is 3 in the run instead of 15 (a template parameter in the code; odd, as 15 is); the random
tests are replaced by all short sequences over a chosen set of calls.

*PxQueue, Circbuf.* Fields keep their names. In `PxQueue` a clean-up accepts one group per step,
and entries may be enqueued while it runs, as the collector does.

*Logger.* A core commits inside a guarded section (`Enter`, `GenCommitTid`, `OnTidFinish`,
`Leave`), fills the head of `all_buffers_`, directly or through the horizon when it compresses, and
pushes full or old buffers to its logger; `ThreadEnd` and `ThreadEndPush` are its last push. A
logger scans its cores, writes what is not too far ahead of the system's epoch, stores the epoch of
each core in two steps (load, store) and hands the buffers back. The persister visits idle cores
under their slot lock and takes the minimum. `WaitStart`/`WaitEnd` is
`wait_until_current_point_persisted`. In this port the body of `writer` and the start of both
threads are comments; they are modelled as written there, and a configuration says whether the
threads run.

*Memcached.* `WarmUp` is `AppMain`'s loop over the cores, `Accept` gives a connection its core,
`Receive` is one call of the handler with any number of new bytes: it appends them to the chain,
and cuts and answers as many complete requests as there are. A byte is the number of its request
and its position in it, so any mix-up of the framing shows.

*Tpcc.* The tables are functions of their keys, with the columns that the transactions compute
with. On Silo a transaction is one step that commits or aborts, and ids drawn before an abort stay
drawn; on `kvdb_database` each operation is a step of its own and partition locks are taken in
order. Loaders, barriers, the workers' loop with retries and its stopping rule are modelled. The
default build links the older copy of the workload in `benchmarks/`; the model follows
`new-benchmarks/`, whose transactions are the same.

## 3. Runs and bounds

The parts that share no state are checked together: `MCBlocks`, `MCTests` and `MCPrograms` have a
variable `which` that picks one of them in the initial state, while the variables of the others
rest. Their properties are the components' own, under that condition.

| Run | Question | Bounds |
|---|---|---|
| `ticker` | safety of guards and loop, refinement of `EpochClock`, inductive invariant, end of rounds | 3 cores, 5 ticks, depth 2 |
| `rcu` | use after free, double free, nested clean-up, inductive invariant, whether what was queued is freed | 2 cores, 2 objects, 5 ticks, 2 ticks per rcu tick, depth 2 |
| `blocks` | core ids: one owner per id; px_queue: list surgery, refinement of `EpochQueue`; ring: refinement of `Fifo`, delivery; tuple: torn reads, stable snapshot reads, sound validation, inductive invariant, end of reads | 2 threads, 4 ids, blocks of 2; groups of 2, 6 groups, 5 entries, 3 ticks; 3 slots, 7 items; 2 writers, 1 reading thread, 2 locks |
| `txn` | serializability, order of tids, deadlock, snapshots against the collector, order of its queue, inductive invariant | 2 cores: 2 operations each on 1 loaded and 1 absent key in 1 epoch, also with both removing; 2 loaded keys and 2 epochs, with 2 operations against 1; a writer with 2 transactions, a reader and 5 ticks; a writer with 3 transactions and 6 ticks |
| `txn_scan` | phantoms, own inserts, abort; end of commits and aborts | 2 cores, 2 operations each; scans and inserts in an empty table, or puts to a loaded and an absent key |
| `tests` | the tests of `btree.cc` in every interleaving; the assertions of `txn_btree.cc` | 3 keys per node; up to three levels, two layers, two workers with 1 and 2 calls; tables of 2 to 7 records, up to 7 transactions per worker |
| `programs` | logger, front end, TPC-C | 2 cores, 2 buffers each, 2 commits in 2 ticks or 1 in 3 with the threads, 3 in 3 without; 2 connections, 3 streams of 2 or 3 requests, any cut; 2 workers with 1 or 2 transactions each, 1 or 2 warehouses |
| `txn_collect`, `txn_own_writes`, `txn_remove_absent`, `circbuf_many`, `logger_idle` | expected violations, section 6 | |

The runs of `Txn` choose a workload in the initial state: which keys are loaded, what the
transactions of each core may do, and how many transactions, operations and ticks there are.

Why the bounds are enough for the cases that matter:

- *Ticks.* Ticks of different cores differ by at most one, so an error in that distance shows
  within two ticks. The multipliers of RCU and of read-only ticks are 25 in the code and 2 here,
  so that a boundary falls between almost any two ticks; five or six ticks give two or three
  boundaries, enough for an entry to be queued, become due and be taken.
- *Transactions.* Two transactions of two operations on two keys produce every conflict of two
  transactions: read-write, write-write, write skew, lock order, insert against insert.
- *Groups.* Groups of two entries meet the full group, the changed tick and the empty free list;
  three ticks and six groups let groups travel round the lists more than once.
- *Tuple.* Two locks allow a reader to be overtaken by two complete writes; readers never write
  shared state. The proof covers any number of both.
- *Ring.* Seven items go round three slots twice.
- *B-tree.* With three keys per node every insert or removal of a short sequence can split, steal
  or merge; the prepared trees are one call away from doing so at two levels, and in an inner layer.
- *Logger.* Two buffers of two commits run out, with and without compression, with one logger for
  two cores and with one each.
- *Front end.* A header of two bytes and bodies of 0 to 2 give every place at which a stream can be
  cut relative to a request; one stream ends in a request the server does not support.
- *TPC-C.* One district and two customers make every pair of transactions meet in the same rows.

Deadlock checking is off where a bound ends the run: transactions, locks, items or ticks are used
up. In `ticker`, `rcu` and `tests` it is on.

`txn_collect` starts from a state in which core 0 has loaded two keys and removed one of them in
epoch 1 and comes to collect four ticks later: those steps need no concurrency and are left out.

## 4. Properties

Each module has a type invariant; it is part of the inductive invariants below where the module
has one. What the runs check beyond it:

**Ticks and reclamation**

- `NoGuardInCompletedTick`: no guard, nested or not, lives in a tick the loop has published as
  completed. Everything that waits for "all cores have left tick t" rests on it.
- `ImplementsClock`: `Ticker` implements `EpochClock`, with a guard mapped to the tick it pins.
- `RoundsComplete`: a round of the loop ends, unless some core retakes its slot's lock for ever.
- `TickInv`, `RcuInv`, `TupleInv`, `TxnInv`: the inductive invariants of the proofs (section 7).
  `RcuInv` also says that no object is queued twice, that a clean-up finds `scratch_` empty, and
  that `enqueue` is called with ticks that do not go down.
- `NoUseAfterFree`: no region holds a pointer to an object that was freed. `EventuallyFreed`: what
  was queued is freed.
- `GroupsHaveOneOwner`: each group of a px_queue is in one place, and tails point to last groups.
  `ImplementsEpochQueue`: the lists hand over exactly the entries that are due, in order.

**Per-core and per-tuple protocols**

- `IdsHaveOnePlace`: an id is held by one thread, kept for one worker, or was left behind by its
  only user; the counter is past all of them.
- `ReadsAreAtomic`: a read that succeeds returns one whole record, current at some moment of the
  read. `SnapshotReadsAreStable`: a snapshot read returns the version of its snapshot whatever is
  written meanwhile. `ValidationIsSound`: a validation that succeeds means that the tuple read is
  still the latest, unwritten and not being written by another transaction. `ReadsEnd`: a read
  ends if the writes that disturb it pause.
- `ImplementsFifo`, `PeekIsPrefix`, `ItemsArrive`: with one enqueuer the ring is a bounded queue,
  `peekall` sees a prefix of it, and every item arrives.

**Transactions**

- `Serializable`: replaying the committed transactions in the order of `serial` gives every read
  and every scan its value. `TidsFollowSerialOrder`: tids agree with epochs and with conflicts, so
  the log may be replayed by tid.
- `SnapshotConsistent`: a read-only transaction sees exactly the state after the epochs before its
  snapshot. `NoDanglingPointer`: nothing a transaction, the tree, a chain or the queue can reach
  has been freed.
- `TreeLeadsToLatest`: a key leads to its latest tuple, or to one whose owner is about to replace
  it, and every unlocked latest tuple can be reached. `NoWaitCycle`, `CommitsEnd`: commits and
  aborts neither wait in a circle nor go on for ever.
- `TxnInv`: who owns a tuple in each phase of a transaction, that what is queued or released is so
  once, and that what a transaction can reach outlives its region.
- `GcTicksGoUp`: the collector's queue gets ticks in order, re-queued tuples included.

**B-tree and tests**

- `BtreeWritesRight`: an insert, insert_if_absent or remove reports whether its key was there, as
  a map would at the step in which it takes effect. `BtreeReadsRight`: a lookup next to inserts
  finds a key that stays and only values the key has had; a scan is in order and leaves out no key
  of its range that stays. `BtreeVersionsProtect`: as long as the node versions a lookup or scan
  has seen are unchanged, its result is still right; this is what phantom detection uses.
  `BtreeIsMap`: with no call under way the tree is well formed and holds the map.
- `ConcurrentTestsPass`, `ScriptsPass`: no assertion of `txn_btree.cc` fails.

**Programs**

- `LogsAreTrue`: the log of a core is a prefix of what it committed, and a writer claims an epoch
  for a core only when all its commits of that epoch are written.
- `RequestsAnswered`: each complete request gets one answer, in order, whatever the cuts; what
  remains in the connection's chain is the beginning of the next request.
- `MoneyAgrees`, `OrdersWhole`: the amounts kept in several tables agree, and an order has its
  lines, its index entry and its place in `new_order`, between transactions. `AssertsHold`: no
  assertion and no sanity check of a TPC-C transaction fails. `NoDeadlyEmbrace`: workers do not
  wait for partition locks in a circle.

Each property has a mutant in `PROJECT.json`: a plausible slip in one definition that violates it.

## 5. Fairness

| Assumed | Why the code justifies it |
|---|---|
| `Ticker`: WF of the loop's steps and of a guard's steps | own threads; a guard's steps do not wait except for the lock. The spinlock is not fair, so the loop may lose it for ever: `RoundsComplete` says so in its hypothesis |
| `Rcu`: WF of the clock, of opening an outermost region, of `free_with_fn` and of a clean-up's steps | the ticker thread and the workers' loop |
| `Rcu`: SF of closing a region with clean-up | regions nest but end; a core that opens a nested region again and again still closes the outer one. Together these say that a core keeps working: one that goes idle never cleans up, and what it has queued stays |
| `Txn`: WF of each core's next step of a commit or abort | these steps run straight through; a lock that is waited for is the only obstacle |
| `Tuple`: WF of each writer and reader | a writer holds the lock for a bounded piece of code; a reader may retry. `MaxLocks` bounds the writes, so `ReadsEnd` says that a read ends if the writes of its tuple pause, not that it ends under writes without end |
| `Circbuf`: WF of enqueue steps and of `peekall`, SF of `deq` | the enqueuer spins on a full ring, so each `deq` that takes place helps it; the logger keeps coming back |

The logger, the tests and the programs are checked for safety only.

## 6. Where code and words differ

Each has a run that expects the violation and an entry under `findings`.

1. `txn_collect`: the collector takes a removed key out of the tree
   (`txn_proto2_impl.cc:677`) before it marks the tuple as not the latest (`:680`). A transaction
   that read the tuple as absent and validates it in between commits next to one that has inserted
   the key anew, and no serial order explains both; `txn_btree.h:187` says "serializable". In the
   workloads of the run `txn` with a collector, the pattern does not occur, and `Serializable`
   holds.
2. `txn_own_writes`: `find_write_set` (`txn.h:797`) finds the first of two puts of a key, where
   `txn.h:411` speaks of "our latest (uncommited) values".
3. `txn_remove_absent`: the remove of an absent key leaves a deleted tuple in the tree on no queue,
   where the purge walker (`base_txn_btree.h:292`) counts on its being "enqueued already".
4. `circbuf_many`: with several enqueuers `head_` can come round between its load and the swap
   (`circbuf.h:47`), where `circbuf.h:11` promises "many concurrent enqueuers". The logger has one.
5. `logger_idle`: the persister advances an idle core past commits in a buffer that was never
   pushed (`txn_proto2_impl.cc:180`), against the meaning given at `txn_proto2_impl.h:318`. Both
   threads are commented out in this port.

The models also show behaviour that no run asks about; the passing runs leave these cases out, and
what they show holds without them:

- `btree_impl.h:325`: a lookup reads the right sibling's `min_key_` after it has checked its own
  leaf. If a removal makes the leaf steal the sibling's first key in between, the lookup misses it.
  `mp_test4` (in `BtreeTests`, not in the run) does not hold for this reason: `btree.cc:1035`
  asserts that the keys that stay are found.
- `btree_impl.h:1240`: a split links the new leaf before it sets `min_key_`. A thread that arrives
  from the right takes the new leaf to be responsible for any smaller key.
- `btree_impl.h:407`: a scan may report a leaf that has been merged away, whose version never
  changes again, in place of the leaf that took over its range.
- `btree_impl.h:547`: the upper bound of a scan is cut to the depth of the layer without comparing
  the prefix, so a scan over several layers can leave its range. The scans of `btree.cc` stay
  within one layer, and so do those of the run.
- `tpcc.cc:2121`: `make_workers_impl` passes `wend + 2` (`:2130`) for its last worker, which then
  also picks a warehouse that was never loaded, when there are more warehouses than workers.
- `tpcc.cc:1834`: on `kvdb_database`, which has no snapshots, `order_status` takes no partition
  lock and can find an order without its lines when two workers share a warehouse.

## 7. Proofs

Eight modules hold the theorems; all of them are about the very definitions the runs check, for
every value of the constants.

**`TickerProofs`** (any number of cores, ticks and nested guards). That no guard is in a completed
tick is not inductive: it depends on where the loop is. `TickInv` adds `LoopInv` (how far the
current tick is ahead of the published one in and between rounds) and `CoreInv` (a slot the loop
has passed holds the new tick, the others the new or the last one; a guarded core holds its slot's
lock; between reading the tick and storing it, the value read is not older than the slot). Then the loop can store into a slot only when no guard is in it:
`TickInvAlways`, `GuardsOutliveNoTick`, `SlotStaysPinned`, `SlotsStayWithinOneTick`,
`SlotsMonotonic`. `TickerImplementsClock` maps a core to the tick its outermost guard
has read, from the moment it reads it; all steps but four stutter.

**`RcuProofs`** (any number of cores and objects, any nesting, any number of ticks per rcu tick).
The argument is the grace period: if a region still holds a pointer to an object queued under rcu
tick t, the region pins a tick whose rcu tick is at most t; the completed tick is below that, so no
clean-up may take entries of t. `RcuInv` says this of pinned ticks (`PinnedWindow`), of queued objects
(`GraceOK`), of what a clean-up under way will take (`CleanupOK`) and of each core's own state
(`CoreOK`). From it: `RcuInvariant`, `NeverUsedAfterFree`, `CleanupsNeverFail`.

**`BlockProofs`**, first part (any number of readers and writers). Readers are right because a
header seen unchanged means a record unchanged. `TupleInv` has a part for the tuple, the writer,
each reader and each validator: as long as the header a reader has seen is the present one, the
words it has copied are those of the record. The version has finitely many values, so the theorems
assume `NoWrap`: the tuple is locked less often than there are values. `TupleInvariant`,
`ReadsAtomic`, `SnapshotsStable`, `ValidationSound`.

**`BlockProofs`**, second part (any number of threads, any limit, block size and alignment).
`IdsInvariant` accounts for every id below the counter; `SlotsAlwaysPrivate` follows: no two
threads use one slot of a per-core array and none uses a slot past its end.

**`TxnTypeProofs`, `TxnCollectProofs`, `TxnRunProofs`, `TxnInstallProofs`, `TxnProofs`** (any
number of cores, keys, tuples and ticks, any workload, any field widths of a tid). The question is
whether tuples are ever freed under somebody, given that three parties free them: the collector at
once, because "no snapshot needs it", RCU after the open regions, and a failed commit, which takes
its own inserts out again. None of the properties is inductive. `TxnInv` says, in this order:

- *Phases* (`PcOK`, `EpochOK`, `SnapOK`). What the place a core is at says of its sets: for
  instance that the lock list is the sorted write set, that an insert is the first entry of its
  tuple, that the epoch of a committing writer lies between the tick it pins and the current one,
  and that a snapshot is at most one tick older than its region.
- *Ownership* (`OwnsOK`, `LockOK`). For each phase the tuples a core holds, in which state, and
  that the tree still leads to them; conversely, whoever is entered as the owner of a tuple is in a
  phase that knows of it. `NoWaitCycle` follows: the holder of a tuple that is waited for is past
  its inserts, so if it waits itself, then for a lock and in address order.
- *Tree* (`TreeOK`, `TupleOK`). A key leads to a live tuple, the latest of its chain unless its
  owner is between `write_record_at` and the update of the tree; a latest tuple is in the tree or
  in the hands of one core. `TreeLeadsToLatest` follows.
- *Retirement* (`GcOK`). A tuple is on one queue, once, or in limbo, once; one that is to be freed
  at once is neither the latest nor in the tree; an entry's tick is not ahead of the clock, and one
  being collected is behind the last completed tick. `GcTicksGoUp` follows with `EpochOK`.
- *Reach* (`PtrsOK` with `Safe`). What a running transaction can reach is alive, and if it is
  queued to be freed at once then under a tick that is not due before the transaction's region
  ends, and if it is in limbo then waiting for this region. `NoDanglingPointer` follows. This is
  where the ticks enter: the collector stops one read-only tick short of the completed one.
- *Chains* (`ChainOK`, `ChainsApart`). The version behind a tuple is there for as long as a
  snapshot may go to it, and no two tuples share one; without this a snapshot reader that walks
  from a live tuple would not find a live one.

`Invariant` puts it together: `TxnTypeProofs` has the types and the initial states,
`TxnCollectProofs` what any step must leave alone so that each part of the invariant survives (the
*frame* lemmas) and the steps of begin, end, insert, undo, collector, RCU and clock, `TxnRunProofs` and
`TxnInstallProofs` the remaining steps, one lemma per action. From `Invariant` follow `Types`,
`NothingDangles`, `TreeLeads`, `NoCycle` and `TicksGoUp`. `TxnTypeProofs` also has the layout of
tids: `TidFields` (what is put into a tid is read back), `TidOrder` (tids are ordered by epoch, then
number, then core) and `SnapshotEndsReadOnlyTick` (a snapshot holds whole read-only epochs).

Assumed of the constants: cores are numbered from 0, there are at least two numbers per epoch and
core (the load transaction uses one), and enough tuples for the keys that are loaded.

Only model-checked, and why:

- all liveness (`RoundsComplete`, `EventuallyFreed`, `CommitsEnd`, `ReadsEnd`, `ItemsArrive`): it
  needs fairness and `ENABLED`, which are out of the prover's reach;
- `Serializable`, `TidsFollowSerialOrder`, `SnapshotConsistent`: they compare what was read and
  written with the history of all commits. On top of `TxnInv` they need an invariant that ties every
  version in a chain to that history, which this development does not have. `Serializable` is
  moreover not true of every workload (finding 1);
- `PxQueue` and `Circbuf` with their refinements: linked lists and a ring as data, where the
  argument is an induction over the lists;
- `Btree`, `Logger`, `Memcached`, `Tpcc` and the tests: built on recursive operators and folds.

## 8. Not modelled

- *Masstree* is a submodule whose source is not in the repository. `Txn` uses its contract (one
  leaf with a version), which `Btree` has in its own terms as `BtreeVersionsProtect`. Scans over
  several leaves, several tables and the early end of a scan are left out of `Txn`.
- *Counters that wrap*: the 24 bits of a tid's number, the 27 bits of a tuple's version, ticks. The
  code accepts the wrap of the version (`tuple.h:120`). The number starts again with each epoch;
  `MakeTid` does not test that it fits, and the models assume that it does.
- *Weak memory.* Steps are sequentially consistent. Loads and stores marked acquire and release
  are single steps; reordering of the others is not modelled.
- *Collector*: the region it leaves and opens again after 128 entries
  (`txn_proto2_impl.cc:578`); the queues of the runs are shorter.
- *B-tree*: deletion of a whole tree, printing, self-checks and the performance tests.
- *Tests of transactions* without interleaving or outcome: value sizes, long keys, typed records,
  the allocator, performance.
- *Logger*: files, `fsync`, `persist_stats`, `wait_for_idle_state`.
- *Arena allocator*: not reached in this port. Threads are never pinned, so `sync::alloc` is
  `malloc`.
- *Containers, encodings, typed tables*: sequential code over bytes; the models use values.
- *Command ports, statistics, drivers, the older copies in `benchmarks/`, YCSB, lz4, xxhash*: no
  protocol state that another part depends on, or the same transactions as `Tpcc`.
