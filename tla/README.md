# Verification of the zkEVM prover

TLA+ models of the parts of the zkEVM prover in which state is shared,
persisted or rolled back: the database that stores the Merkle tree with its caches
and connections, the tree itself, the state manager between them, the queue of proof
requests with the channel that feeds it, and the page manager of HashDB64. Each
module is translated from the C++ sources under `src/`. TLC checks them on small instances.
TLAPS proves the safety
properties of all of them for every size.

## 1. The system

The prover process runs three services (`README.md` of the repository): the
aggregator client, which receives proof requests; the executor service, which
executes batches without a proof; and the hash database (StateDB) service, the
source of the state for both. The proof computations, the fourteen state machines
and the interpreter of the ROM are sequential numeric code. What is hard is around them.

| Component | State | Operations | Talks to |
|---|---|---|---|
| Multi-write database, `hashdb/database.cpp`, `multi_write*.{cpp,hpp}` | three buffers of nodes, programs and a state root; three indexes; three flush ids; queries being sent | `write`, `setProgram`, `updateStateRoot`, `semiFlush`, `flush`, reads that miss the cache, `getFlushData`, `dbSenderThread` with `sendData` | PostgreSQL (pqxx), replicas, state manager |
| Caches, `database_cache`, `database_associative_cache` | list of records; ring, index table and counter | add, find, evict, clear, forced insertion | database |
| Connection pool, `hashdb/database.cpp` | connections in use and to be reconnected, next one, mutex | `getConnection`, `disposeConnection`, `queryFailed` | PostgreSQL, every thread that reads or stores |
| Sparse Merkle tree, `hashdb/smt.cpp` | none: nodes are in the state manager and the database | `set`, `get` | state manager, database |
| State manager, `hashdb/state_manager.cpp` | per batch: blocks, transactions, sub-states, programs, common write list | `setStateRoot`, `writeNode`, `deleteNode`, `writeProgram`, `startBlock`, `finishTx`, `finishBlock`, `flush`, `cancelBatch` | Smt above it, database below |
| Executor, `main_sm/fork_*/main` | registers, polynomials, full trace | the ROM's program; calls on the hash database | hash database |
| Prover queue, `prover/prover.cpp` | pending, current and completed requests, semaphore, mutex | `submitRequest`, `proverThread`, `cleanerThread` | aggregator client |
| Aggregator client, `service/aggregator`, `utils/watchdog.cpp` | stream, number of streams, watchdog, request map | `Gen...Proof`, `Cancel`, `GetProof`, `GetStatus`, reconnection | prover queue, aggregator |
| HashDB64, `hashdb64` (experimental, off by default) | mapped pages, free pages and their list, copies of edited pages, versions | writes, `editPage`, `getFreePage`, `flushPages`, `init` | files |

What is hard to test in it, and what makes each part correct:

* **Database.** Clients write while one thread stores. A query can throw after it
  was committed, the process can die between two queries, a read looks in the
  buffers and in the database at two moments. Correct means: what `flush`
  promised is in the database when `storedFlushId` says so; the root row never
  overtakes the nodes that were written before it and never goes back; a program that was
  written is found.
* **Tree.** The root must depend on the content alone, although deletes collapse
  branches that inserts built; the proof data must fit every mode; a node still
  in use is never among the deleted ones.
* **State manager.** Calls nest and revert, transactions fail, batches run out of
  counters; `flush` must find, among all recorded changes, those that lead to the
  final root, and write exactly enough for the new tree to be readable.
* **Queue.** Three threads share vectors under a mutex that one of them does not
  always hold. No request may be lost or computed out of order, and no wakeup missed.
* **Channel.** Reads and writes block for as long as the peer likes and fail at any
  point; the watchdog that bounds them is started and stopped by hand on every path.
* **Caches.** Pointers relinked by hand, sizes kept apart from values, an index table
  whose entries displace each other, a counter that wraps. Correct means: a hit returns the
  value stored last, and what was just stored hits.
* **Connections.** More threads than connections, failures that must be noticed by all of them, a mutex
  that one mode keeps and the other does not.
* **Pages.** The machine may stop with any part of the changed pages on the disk. The header
  there must always locate a whole version, so no page of it may be reused too early, nor changed but for
  the pages of raw data, which only grow.

`PROJECT.json` lists every hazard at its line, with the properties that cover it.

## 2. Modules and how they correspond to the code

An operator named `mut...` is a plausible fault of the definition after it. No
specification uses it; it is there to show that a property can be broken.
`PROJECT.json` ("map") gives the lines each definition translates.

### MultiWrite

One action per call or per step of the sender thread between two points where the
mutex is released. `accepted`, `intray`, `nodesStateRoot`, `built`, `unsent` and
`stored` are the fields of the three `MultiWriteData`. `writeRemote` fills the
intray of the pending buffer, `semiFlush` and `flush` accept it, `flush` hands out
an id. The sender goes from `wait` to `send` (`senderSwitch` turns the indexes and
resets the next buffer, `sendDataBuild` prepares the queries, `sendDataQuery` sends
one), to `sent` and back. `sendDataFail` is a query that throws, with or without
its commit having happened; the data set stays and `senderResume` sends it again.
`crash` loses everything but the database.

Keys are content hashes, so a map from keys to values is a set of keys. The root is
the only row that is overwritten; its values are numbered in the order of
`updateStateRoot`. A root may have any tree `T`, whose nodes need not have been written: `StateManager::flush` calls
`updateStateRoot` for every persistence, and the nodes of a batch with the cache persistence never reach the buffers.
`treeBefore[v]` is the part of the tree of root `v` that was written or in the database before it; that is what the
row may rely on (`RootAfterItsNodes`, and observation 2 for the rest). `dbReadOnly` is a variable that keeps its
initial value, so the runs have both kinds of process. The caches are abstracted: an entry may be
evicted at any time, so only the reads that miss are modelled. History variables
(`written`, `promised`, ...) record what a client has been promised.

`FlushService` is what is left of it for a client: keys and roots are set, `Flush` hands out an id,
`Store` makes some of what was written durable (a root only after the nodes set before it), `Acknowledge` moves the
stored id over ids that are durable, `Restart` forgets the rest. `MultiWrite` instantiates it with its own variables
(`ImplementsFlushService`): the buffers, the queries and the sender are hidden, every step is one of these or a stutter.
Safety only. A process with `dbReadOnly` hands out no flush id, so it implements the service too, by promising nothing.

### DatabaseCache, DatabaseAssociativeCache, Cache, DatabaseCaches

`DatabaseCache` has the list of records with its `next` and `prev` pointers; a record is named by its
key. `addKeyValue` is `addPresent`, or `addNew` followed by `evictLast` until the size fits. `DatabaseAssociativeCache`
has the ring `keys`, `values` and the table `indexes`; `forcedInsertion` is its recursion: `forcedChain` has one element
per level, up to the ninth, after which the code exits, and `putIndex` is what one level does to the table. The width of the counter is a constant
(`RawValues`, 2^32 in the code), so that it wraps in the runs. `DatabaseCaches` is the cache of nodes as `Database` uses
it: one of the two, chosen at start-up; nodes are stored with `update = false`, the state root with `true`.
`Cache` is the abstract promise, a map that may drop keys at any time, except the key that is being stored.
`recency` and `latest` are history: the keys in the order of their last use, and the value stored last for each key by
a call that returned. A process that has exited caches nothing (`Cached`).

### ConnectionPool

`getConnection` (`getPooled`, `getExhausted`, `getUnique`), the query, `queryFailed` after one that throws, and
`disposeConnection` (`disposePooled`, `disposeUnique`), for the threads that `initRemote` counts (a thread of each server,
the sender) and those it does not (`Uncounted`: the prover thread, and the detached thread of `main.cpp` that runs `loadDb2MemCache`).
`session` and `since` are history: when the session of a connection was opened, and when a thread got its connection,
both counted in failures. The assumption has the checks of `initRemote`.

### ProverQueue

`proverThread`, `cleanerThread` and the client's thread. A step is one access to a
shared vector or one lock operation, because after `sem_wait` the prover thread works
without the mutex and then unlocks it, whoever holds it: `unlock` frees the mutex
unconditionally. `GetStatus` looks at `pCurrentRequest` and then at the queue, in two steps (`GetStatusCurrent`, `GetStatusPending`)
between which the prover thread may move; `queuedAtCall` is history. `proverEraseTorn` is the data race of `erase` with
`push_back`: any of the two updates of the end of the vector may be lost. `Spec`
leaves it out, `TornSpec` and the composition in `Aggregator` have it. `Kind` says which proof each request asks for.

### Aggregator

Extends `ProverQueue` with the thread that makes its calls: `openChannel`, `readMessage`, `dispatch` (the call
itself is a step of `ProverQueue`), `callReturn`, `writeMessage`, `channelBroken` at any read or write, and
`exitMaxStreams`. The watchdog is `start`, `restart`, `stop` and `timeoutPassed`; each exits the process when called out
of turn. The clock is one bit, `late`: whether the timeout has passed since the last start.

### Smt and SmtTree

`set` and `get` as operators on trees, one operator per mode of `set`. A key is the
sequence of bits in the order `splitKey` hands them out. A node is identified with
its content, that is, Poseidon is taken to be free of collisions; so a root is a
whole tree. `set` returns the new root, the nodes it saves and deletes, and the
siblings and `insKey`/`isOld0` data for the storage state machine. `Tree` is the
reference: the tree of a content, defined from the keys below each prefix (`Half`, `Subtree`) and not
from any operation. A delete beside a node that is no leaf (`deleteNotFound`) also reads that node for its two children;
the children go to the proof only and are left out, with the error when the read fails, as every error of the database
below: `BatchExecution` cancels the batch for any of them, and `WorkingTreeIsReadable` says that the node is there to be read.

`KeysAssumption` says that keys have at least one bit and that no two keys agree on all the bits a leaf still holds.
Without it two keys with equal remainders, which would be near collisions of a
256-bit hash, could share a leaf node, and deleting one would delete both.

### StateManager and BatchExecution

`StateManager` has the state of a batch and the calls on it as operators from a batch
to a batch; `flush` is split along its phases (`purgeBlocks`, `previous`,
`changedBlocks`, `validSubStates`, `loadTx`, `loadBlock`, `flushedPrograms`, `lastNewStateRoot`), and `setStateRoot` along the
levels it works on (`Reserve`, `ReserveTx`; `setStateRoots`, `setBlockRoots`, `setTxRoots`). The loops of `flush` are recursive
functions over the positions they visit. A sub-state
records the arguments of its `Smt::set`; the nodes it wrote and deleted follow from
them, so this module really composes with `Smt`. Every call holds the mutex from
beginning to end, so a call is one step.

`BatchExecution` composes it with the executor that makes the calls and the
database they end in: `StartBlock`, `ProcessTx`, `FinishTx` and `FinishBlock` are
events of the full tracer, `Set` and `WriteProgram` are steps of the main executor,
`Flush` is the end of `MainExecutor::execute`, `CancelBatch` its error path, which
may happen at any time. What a flush must have left is compared with what can be relied on (`Kept`): the nodes that reached the SQL
database, as long as every batch went there, because the caches evict; after a batch with the cache persistence, the nodes that
were ever written to the caches, so for such a batch the properties hold up to eviction. A batch asks for a fork: the full tracer of the forks before 7
numbers blocks by transactions and emits no block events, so there the first set in a block creates it.

The ROM is a data file and is modelled as the environment, from how the
executor and the tracer use it:

* calls nest, and a failed call or transaction restores the root it began with;
* out of counters restores the root of the batch, which is then flushed;
* the program of a contract is set before the leaf that points to it, in the same
  transaction. Before the first block a program is ignored, as the transactions of the batch are hashed there;
* a transaction's first write is a set, of the nonce. So `writeProgram` never meets a transaction without a
  state (its branch that creates one is not modelled). With the branch and without this assumption
  `FlushedRootIsStored` fails: the transaction that `writeProgram` creates does not become the current one and starts from
  `currentStateRoot`, which may be an old root, so `finishTx` corrects another transaction and `flush` may end at the
  old root;
* a set never leads back to a root at which a transaction, a block or the batch
  began (`marks`): the sender's nonce and the block number have moved. Without it
  `flush` would erase a block whose current root equals its old one by accident;
* a block is closed after its last transaction has finished. Otherwise `finishBlock` could
  meet the root where the last of several transactions began, and would then discard the whole
  block (the comment there speaks of the beginning of the block).

### PageManager

Pages of the mapped files (`pm.pages`) and of the disk. Page 0 is the header of the last version, page 1 the
header of the batch. A page of key-values is a pair of what it is for and how often it was written, and the header records
for each data page where it is and what it must hold; that is what `Whole` compares. A page of raw data is how many values
were appended to it and the page linked after it. It is located by the header and edited in place, by every batch, also while the
header on the disk locates it (`AppendRaw`, `LinkRaw`); so `Grown` asks that its values and its link are still there, with
perhaps more after them. A page that has a next one, or is all zeros, refuses to be written (`Accepts`).
The data that a version keeps names the root page of the history, and reading an old key starts from there: `named` is the
page that the data of the last version names. `flushPages` sets it when the root changed, and moves the page itself always.
`editPage`, `getFreePage`, `releasePages`
and the list of free pages (`CreatePages`, `GetPages`) are operators; `flushPages` is split where a crash
makes a difference. `Crash` leaves on the disk any subset of the pages that were not synced, then `Restart` reads the header.
Pages below other pages are not told apart from pages the header names: the code edits the pages on the way to them.

## 3. Runs

Bounds are the `Max...` constants and the sizes of the sets. Deadlock is checked
where the modelled system does not stop (`smt_tree` and the queue runs). The
database and batch runs end when their bounds are used up.

| Run | Instance | Shows |
|---|---|---|
| `mw_safety` | 1 node, 1 program, 2 writes, 2 flushes, 2 roots, 1 failing query, 1 crash | `FlushDurability`, `RootAfterItsNodes`, `RootNeverGoesBack`, `StoredNeverGoesBack`, `PendingIsPrivate`, `DeliveredIsStored`, `TypeOK`, and the refinement `ImplementsFlushService` |
| `mw_reads` | a reader, 3 writes, 2 flushes, 1 failure | `ProgramReadYourWrites`, `FlushEventuallyStored` |
| `mw_nodeReads` | a reader, 3 writes | *violated*: `NodeReadYourWrites` |
| `db_caches` | 5 keys on 8 slots, ring of 4, counter of 4 bits; 5 units of memory | `ListIsRecency`, `SizeIsBounded`, `EntriesReachable`, and the refinement `ImplementsCache` |
| `conn_pool` | 5 threads, 3 of them counted, 3 connections or 1 without pool, 2 failures | `ConnectionsAreExclusive`, `RetryIsReconnected`, `ExhaustedOnlyByUncounted`, `ConnectionsReturn` |
| `pq_safety` | 3 requests, one of each kind | `RequestAccounted`, `FirstInFirstOut`, `IdleMeansDone`, `NoLostWakeup`, `EventuallyCompleted` |
| `pq_race` | 3 requests, torn updates | *violated*: `RequestAccounted` |
| `aggregator` | 2 requests, 2 streams, torn updates | `WatchdogNotMisused`, `HungChannelEnds`, `DeliveredAnswersNeverGoBack` |
| `smt_tree` | 6 keys, values 0, 1, 2 | `RootIsCanonical`, `GetIsProved`, `SetIsProved`, `SetKeepsTreeWhole` |
| `be_batches` | 4 workloads: forks 6 and 9 with 3 sets in 2 nested calls; 2 blocks with a program; a batch for the cache only, with 2 sets | `IndexesInRange`, `FlushNeverFails`, `FlushedTreeIsWhole`, `FlushedRootIsStored`, `WorkingTreeIsReadable`, `FlushedProgramsAreThere` |
| `page_manager` | 2 pages at first (raw data, history), one of each kind added later, 2 entries per list page, 5 writes, 3 versions, 2 crashes | `DiskIsWhole`, `FreePagesAreUnused`, `PagesAreAccounted` |
| `page_lastVersion` | the same without crashes | *violated*: `LastVersionIsReadable` |

Why the bounds are enough to be interesting. Three buffers turn modulo three: two
flushes, a failure and a crash let a data set be in the pending buffer while another
is retried and a third is read by a replica. Three requests let one be current, one
pending and one in the middle of `push_back` while the semaphore holds a stale count.
The six keys share prefixes of 0, 1, 2 and 3 bits, so a leaf is pushed down and lifted over
several levels and every mode occurs; all 729 contents are reached, each from all its
neighbours. Three sets in two nested calls are the shortest history in which a
sub-state builds on one that is not its neighbour; the programs and the second block, which
multiply the states, come in workloads with fewer calls. The two keys of this run part
at the second bit, so inserting the second one makes a chain, and deleting it lifts a leaf.
In the cache run four of the keys compete for four slots and one can displace the root, so chains of several displacements
happen, and so does the exit; the counter wraps after 16 insertions. Records of sizes 1, 2 and 3 make one insertion evict several. Three connections are the
number of threads that are counted, so either of the two others exhausts them. Two crashes and three versions
let a page that was freed by one version, and lost or found by a restart, be reused by the next; five writes fill
and link a page of raw data in a batch that a crash cuts short.

`FirstBatchCrashes` is FALSE: the model allows crashes from the first flush on, because before it the code is not
crash safe (section 6).

`stateManagerPurge` is on in all runs, its default. With it off a reverted transaction leaves its
root as the stored one (`FlushedRootIsStored` fails at once), because `finishTx` then does not
correct the new root.

### Fairness

* `mw_reads`: weak fairness of the sender thread as a whole. Its waits have a timeout
  (5 s), so it runs whether or not it is woken, and it is the only thread
  that takes its steps. Failures are bounded, which says that the database
  recovers. No fairness of clients is assumed.
* `pq_safety`: strong fairness of the prover thread and of a client call that
  has begun, weak fairness of the cleaner's unlock. Strong, because the mutex is taken and
  released by others all the time; it is free for seconds between two polls of the
  aggregator and two rounds of the cleaner. The aggregator need not do anything.
* `aggregator`: weak fairness of the clock and of the watchdog's thread. None for the peer: its reads and
  writes may block for ever. `HungChannelEnds` holds because of the watchdog alone.
* `conn_pool`: weak fairness of each thread that has a connection; a thread need not ask for one.

### What the violated runs show

1. `mw_nodeReads`: `findNode` skips the storing buffer when the storing and stored flush
   ids are equal, but a data set can be switched without a new flush. Until its query
   commits, a node evicted from the cache is not found. `findProgram` has no such test.
2. `pq_race`: after `sem_wait` the prover thread does not lock again, so its `erase`
   can overlap a `push_back` and a request can disappear.
3. `page_lastVersion`: a `WriteTree` that leaves the root as it was writes no version data, but its flush still moves the page of the
   history and releases the old one, which the data of the last version names. The next batch may use it for something else, and
   reads of the last version go wrong without any crash.

## 4. Proofs

All safety properties of the database, its caches and connections, of the tree, of the state manager under the executor, of the
queue and of the channel are proved for every value of the constants; TLC has checked each, and each inductive invariant, on the runs above.
`PROJECT.json` lists the theorems. None of the properties is inductive as it stands; each section below
says what had to be added. The inductive invariants are at the end of the modules they are about.

### MultiWriteProofs

For every number of nodes, programs, readers, writes, flushes, roots,
failures and crashes: `TypeCorrect`, `PendingPrivate`, `IntrayAssertion`, `SendWork`, `Durability`,
`RootComesAfter`, `RootMonotonic`, `StoredMonotonic`, `ProgramsReadable`, `ReplicaGetsStored`;
`IntrayAssertion` and `SendWork` say that two assertions of the code never fail. The only assumption is
`ConstantsAssumption`: nodes, programs and the root's row are different keys, and bounds are natural numbers.

`FlushDurability`, for instance, says nothing of a flush that is still being stored, so a step that completes it could break it. The
inductive invariant has five parts, proved in this order:

1. `IndexInv`: where the three indexes are relative to each other. While the sender is
   *busy* (it has a data set it has not published) the replica's buffer is the third one;
   otherwise it is the storing one. A reset therefore never hits a buffer in use.
2. `KeyInv`: every written key is in the database or in a buffer from which it will be sent,
   and which of the keys of the storing buffer are already in the database.
3. `FlushInv`: every promise up to `storingFlushId` is covered by the database and the storing
   buffer, every one up to `storedFlushId` by the database alone.
4. `RootInv`: roots are ordered database, storing, pending; what was written before each is covered by
   the places that reach the database no later than it does.
5. `ReadInv`: a program that a reader missed in the buffers, although it was written before, is in the database.

`StoreInv` is the conjunction of the last four and of the replica's part for a process that may write. Each part
has one lemma (`IndexNext`, `KeyNext`, ...) with one step per action.
`SwitchFacts`, `AcceptFacts` and `CommitFacts` say once what turning the indexes, accepting an
intray and committing a query do to these sets.

`ServiceRefinement` is `Spec => ImplementsFlushService`. It needs, besides `StoreInv`, that nothing is in a buffer or in the
database that was not written (`OriginInv`), because `Store` may only make durable what was written, and that a read-only process
hands out no flush id (`ReadOnlyInv`). A committed query maps to `Store`, the end of a data set to
`Acknowledge`, other steps of the sender to stutters.

### ConnectionPoolProofs

For every finite set of threads and every number of connections that passes the checks of `initRemote`
(`ConnectionPoolAssumption`): `Exclusive`, `Reconnected`, `NeverExhausted`, from `PoolInv`. It adds to the properties that
a connection without `bDisconnect` has a session opened after the last failure (`SessionInv`) and that with the pool
nobody keeps the mutex between two calls (`MutexInv`). `NeverExhausted` is a counting argument: `usedConnections` is the
number of threads that have a connection, and the counted threads alone are at most as many as the connections.

### ProverQueueProofs

For every set of requests. `TornSpec` has the data race of `erase` and `push_back`, `Spec` does not.

* With the race: `ThreadInv` (each request is submitted once, the prover thread meets only submitted requests and never erases from an
  empty queue), `Wakeup` and `AnswersCorrect` (a request answered as completed has completed, one answered as unknown was
  deleted). So the race can lose a request but not a wakeup, and not a result that was given out.
* Without it: `OrderInv`, the submitted requests are the finished ones, the current one and the pending ones, in this order. From it
  follow `InOrder`, `IdleIsDone` and `Accounted`. It needs no mutual exclusion: the mutex, which the prover thread
  releases whoever holds it, plays no part in the argument. `IdleIsDone` also needs `StatusInv`: between the two looks of
  `GetStatus` the queue only shrinks, and a request that the prover thread takes in between was in the queue when the call
  took the lock. So the answer may be IDLE while that one request is computed, and hides no other.

`AggregatorRunsQueue` is `AggregatorSpec => TornSpec`: the channel only makes steps of the queue. What is proved of the queue with
its race is therefore proved of the composition, and `AnswersNeverGoBack` uses it. `WatchdogInTurn` rests on `StreamInv`: the
watchdog runs exactly while a stream is open, and a call on the queue is under way exactly when the thread of the stream is in it.

### DatabaseCachesProofs

For every set of keys, any slots they share, every size of the ring, the table, the counter and the records.

* `Reachable`, from `MtaInv`. That an entry is found is not inductive, since the index that leads to it
  may be an old one of the same position, which becomes empty later. What is kept is `OwnIndex`: the index of an entry's own insertion is in a
  slot of its key. `ForcedStep` shows that one level of `forcedInsertion` keeps this for all entries but the one it displaces,
  which is the last of the chain, and `ForcedChain` follows the levels. After the wrap `emptyCacheSlot` compares with
  2^32 - 1 in place of 2^32, so a slot counts as full for one insertion longer than before; the proof
  shows that this is harmless. `AssociativeCacheAssumption` asks that the counter's range is a multiple
  of `cacheSize` and at least `2 * cacheSize + 2`, which powers of two below 2^32 satisfy.
* `CacheRefinement` is `Spec => ImplementsCache`, from `MtaInv` and `ContentInv`: every record and every entry has the value
  stored last for its key. A record that is present is left as it is only for keys that have one value.
* `ListInOrder` and `SizeCorrect`, from `LruInv`: a record outside of the list has no predecessor (a key that
  was evicted can come back), and the loop that evicts has at least the record just added, so it never
  follows a null pointer. One lemma for each of the three ways the list changes (`MoveKeepsList`, `AddKeepsList`, `EvictKeepsList`) and of
  the sum (`MoveKeepsSum`, `AddSum`, `EvictSum`).

### SmtProofs, SmtTreeProofs

For every width of a key, every finite or infinite set of keys that satisfies `KeysAssumption` and every set of values.
`Walk`, `Climb` and `Subtree` are recursive functions. Induction over levels is done by the least level at which a claim fails
(`SmallestNumber`, `UpFrom`, `DownTo`, from the library's `WFMin`), which the provers can use since it is about a set and not about an
operator. In this order:

1. `ClimbIs`, `NodeAtIs`, `SubtreeIs`: the recursive functions satisfy their defining equations; `SubtreeCases` and `SubtreeDepends` say what a
   subtree is and that it depends only on the values of the keys below it.
2. `WalkFacts`: what the walk of `set` and `get` finds in the tree of a content: the siblings are the subtrees beside the path,
   and the walk ends at a leaf or at nothing.
3. One lemma per mode of `set` (`UpdateIsRight`, `InsertFoundIsRight`, `InsertNotFoundIsRight`, `DeleteIsRight`, `ZeroToZeroIsRight`): the node that the
   mode puts at the bottom is the subtree of the new content there. `ClimbBuilds` then gives the root: `SetKeepsCanonical`,
   `set(Tree(c), k, v).newRoot = Tree([c EXCEPT ![k] = v])`.
4. `NothingIsLost`: every node of the new tree is one of the old tree or saved, and `set` deletes no node of the new tree. A deleted node
   is one on the old path; the hard part (`EqualNodes`, `ReplacedIsGone`) is that an equal node cannot be elsewhere in the new tree, since
   a leaf's remaining bits and its level determine the key. This is where `KeysAssumption` is used.

From these, for all sequences of calls: `RootIsAlwaysCanonical`, `GetIsAlwaysProved`, `SetIsAlwaysProved`,
`TreeIsAlwaysWhole`; and `SetsCommute`.

### BatchExecutionProofs

For every set of keys, values, programs and workloads and every number of batches. `IndexesAreInRange` and `FlushAlwaysSucceeds` hold for both values
of `stateManagerPurge`. `FlushedTreeIsAlwaysWhole`, `FlushedRootIsAlwaysStored`, `WorkingTreeIsAlwaysReadable` and
`FlushedProgramsAreAlwaysThere` have the hypothesis `stateManagerPurge`, which is the default of the configuration and what the run checks; without it
the second one is false (section 6).

The properties speak of what a flush left, so the inductive invariant `Inv` says what every batch looks like at all times:

* `BatchOK`: positions are those of the last block and transaction; in each transaction (`TxOK`) every sub-state is one `Smt::set`, and starts at the
  old root of the transaction or at the new root of an earlier sub-state.
* `Placed`: the block and transaction numbers of the executor are at or behind the end of the batch, for both ways of numbering.
* `Nested`: the roots on the stack of calls occur in this order in the current transaction (`Stacked`), so that going back to one of
  them leaves a prefix; and a root at which a transaction, a block or the batch began is met on the stack only as long as nothing has
  changed (`Marked`).
* `Linked` (with the purge): the blocks and their transactions form a chain of roots from the old root of the batch to the root the executor is at, or
  was at before the current transaction.

There is one lemma per call of the state manager (`SetStateRootsIs`, `FinishTxIs`, `FinishBlockIs`, ...), which says how it changes a batch, and one
per action (`SetIsGood`, `ReturnIsGood`, ...). For the flush: the sub-states that `validSubStates` meets going back are a `Trail`, each the predecessor of the
next one; loading them in order (`LoadedLead`, with `NothingIsLost` for each) leads from the old to the new root of the transaction. `ChangedChain` shows
that dropping unchanged blocks leaves the chain intact, and `BlocksLoad` that its blocks have all nodes of the last root. `Stored` and `Readable` are
then kept by every step: `Kept` has the tree of the last flush, the database its programs, and `Kept` with the common write list of the batch every root on the
stack.

### PageManagerProofs

For every number of data pages, every size of the pages of the free list and any number of writes, versions and crashes: `DiskStaysWhole`,
`FreePagesStayUnused` and `PagesStayAccounted`, with the hypothesis `~FirstBatchCrashes`: no crash before the first version, as in the
run. With such a crash the first and the last are false (section 6), and the invariant below does not hold. They speak of
what a header locates, with raw data edited in place; that the data of the last version names a page of it is false
(`page_lastVersion`) and not part of them.

`Safe(P, h, L, gone)` says what a version is: in the pages `P` the header `h` finds its data pages, `L` is the list of free pages that it
names, and this list names once each page below `firstUnusedPage` that is neither used nor in `gone`. A page of raw data may have grown. The inductive invariant `PageInv` says
which versions are safe where:

* in a batch (`BatchInv`) the last version is safe on the disk, and the mapped pages agree with the disk on all its pages, up to values appended to raw data (`DiskHas`, `Agree`). `InBatch`
  compares the header of the batch with that of the last version: a data page either has not moved and was not edited but for raw data, or is at a page of its own that
  the last version does not use (`Moved`). Before the first version, instead, pages are edited in place and nothing is claimed of the disk;
* during a flush (`FlushInv`) the new version is safe in the mapped pages, and the last one on the disk until the new header is there.

`GetContainerPages`, `GetPages` and `TakePages` are recursive functions over positions. `IterationExists` shows that a function given by its first value and a
step exists, so that the function in each definition is that one; `ListIs` and `GetsPages` follow it along the list, `TakesIs` along the pages taken. The
flush rests on three facts: `ContainersAreEnough`, the formula of `flushPages` gives enough pages for a list that has the pages taken for it taken out;
`CreatesChain` and `CreatesList`, `CreatePages` writes a list of exactly the free pages; and `FlushedPages`, these with the pages of the batch and of the list are all
there are. From them `NewVersionIsSafe`. A crash takes any mixture of the disk and the mapped pages (`AfterIsSafe`): both have the pages of the
version whose header is on the disk, and `CreatePages` loses the last entry of each list page at the restart, which is what `lost` collects (`StoredOrDropped`).

### Only model-checked

* Liveness: `FlushEventuallyStored`, `EventuallyCompleted`, `ConnectionsReturn`, `HungChannelEnds`. The prover has no fairness and no `ENABLED`.

## 5. Not modelled

* The walk of `loadDb2MemCache` over the tree, and the reconnection of `dbCacheSynchThread`: loops that read and store
  in the cache; the stores are those of `DatabaseCaches`.
* HashDB64 above its pages: the contents of key-value and version pages, `tree_chunk`, `state_manager_64`, and the
  in-memory mode. Its readers share no lock with the flush that recycles pages, so
  there is no promise to state for them.
* The database without multi-write, `resetDB` (debug builds), `Smt` without a state manager, the failure of a single `db.write` inside `flush`.
* Concurrent batches: disjoint in the state manager; they meet in the database, where `MultiWrite` has any number of writers.
* gRPC conversions, configuration, logging: no state of their own.
* The numeric code (state machines, STARK and SNARK provers, Poseidon, ecrecover), the ROM's interpreter and vendored and
  generated code (most of the repository's lines: the `*.verifier.cpp` and `*.chelpers.*` files and the generated executors): out of scope.

## 6. Observations

What reading and modelling showed besides the violated runs. No run is spent on what a single line of code decides.

1. `Cancel` sets `bCancelling`, which nothing reads: the request is computed and reported as completed, although
   `grpc/proto/aggregator.proto` lists the answer CANCEL.
2. `StateManager::flush` calls `updateStateRoot` for every persistence, and that writes to the SQL database: after a batch with the
   cache persistence the stored root names a tree whose nodes were never sent. So `RootAfterItsNodes` promises only the nodes written
   before the root; `NodesOf(database.stateRoot) \subseteq database.persisted` would be false in `be_batches`.
3. Without `dbConnectionsPool` a query that throws waits for ever in `queryFailed`, on the mutex its own thread holds
   (`config/config_prover.json` and `config_statedb.json` set it to false). `ConnectionsReturn` is stated for the pool.
4. The check of `initRemote` counts neither the prover thread nor the thread of `loadDb2MemCache`, so these can exhaust a pool that
   passed it. `ExhaustedOnlyByUncounted` shows that nobody else can.
5. The associative cache ends the process when the only slot of the state root is displaced and asked for again. The runs reach it.
   It also does when the index to be displaced is 2^32 - 1, which `forcedInsertion` takes for "none found"; the table
   then does not have the index of the entry being stored, so the promise of `Cache` is stated for calls that return.
6. `loadDb2MemCache` may run beside the services and put an older root over a newer one in the cache. Nothing reads it there.
7. `CreatePages` stores an offset one entry too low: each page of the free list loses its last entry at a restart.
   `PagesAreAccounted` shows that nothing else leaks.
8. The first batch of a new page file edits pages in place under a header that is already on the disk. With
   `FirstBatchCrashes = TRUE` TLC finds that `PagesAreAccounted` fails after such a crash, and `DiskIsWhole` with a third page
   at first (`FirstData = 3`). On the instance of the run `DiskIsWhole` and `FreePagesAreUnused` still hold, but only because a page of raw
   data that never reached the disk refuses all values (`Accepts`), so that no version is ever written.
9. The version data of HashDB64 names a page of history that the next batch copies and releases, so the page of an older
   version is recycled; after a `WriteTree` that does not change the root this holds for the current version too (`page_lastVersion`).
   A page of raw data that a lost batch had filled and linked may be on the disk while the header there still has it as the current
   one: after the restart `RawDataPage::Write` refuses it (`raw_data_page.cpp:95`), and with it every new value. `DiskIsWhole` is
   about what can be read.
10. `stateManagerPurge = FALSE` stores the root of a reverted transaction (section 3).

## 7. Plan

Done: all modules of section 2, and the theorems of section 4. Every safety property of a passing run is a theorem; the
liveness properties are model-checked.
