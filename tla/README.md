# Verification of the NV Embedding Cache SDK

TLA+ models of the SDK, checked with TLC on small instances and, for the parts
named in section 6, proved with TLAPS for every instance. `PROJECT.json` lists
components, runs, the source lines of each definition, mutants, findings, hazards
and theorems. Paths below are relative to the repository's root.

## 1. Inventory

The SDK serves embedding rows by key. There are **layers** (lookup and modify
over several tables), **tables** (one storage each), **low-level parts** (the GPU
cache, thread pools, heuristics, memory), and the **interfaces** built on them
(C, Python and PyTorch).

| Part | State | Operations | What is hard |
|---|---|---|---|
| Set-associative cache (`include/ecache/ec_set_associative*`, `ec_hash.h`) | tags and rows on the device, for the host variant a mirror of the tags; modify lists; custom-flow lock | lookup, custom flows; insert, update, update_accumulate, invalidate, clear_cache | kernels of lookup streams and the modify stream run in any order; a lookup reads the tag first and the row later |
| GPU table (`src/gpu_table.cu`) | the cache, contexts with their streams, an optional UVM table | table operations, contexts | the event of an operation covers the streams of one moment; the UVM table is written by kernels or by CPU tasks while lookups read it |
| GPU layer (`src/gpu_embedding_layer.cu`) | one device table, `modify_in_progress_`, a private modify stream, `kernel_launch_mutex_` | lookup, update, accumulate | ordering by events only |
| Hierarchical and linear layer, auto-insert handler (`src/hierarchical_embedding_layer.cu`, `src/linear_embedding_layer.cu`, `src/layer_utils.cpp`) | tables in order, per table a collection of missed keys and rows under `insert_lock_` | lookup with auto-insert, insert, update, accumulate, erase, clear | the lock passes from a lookup to a pool task; collections span lookups; exceptions |
| Host layer, linear host table, CPU kernels (`src/host_embedding_layer.cpp`, `cpu_ops/`) | one host table, scratch buffers, queued output copies | lookup with pooling, modify operations | rounded splits into tasks, stale scratch, value types |
| Host tables: STL map, nvHashMap, Redis, RocksDB (`include/stl_map_backed_table_detail.hpp`, `plugins/`) | partitions with locks, or a remote database | insert, update, update_accumulate, erase, clear, find | tasks and batches of several callers interleave; eviction in the middle of an insert |
| Thread pools (`src/thread_pool.cpp`, `include/thread_pool_base.hpp`) | a queue and condition variable per workgroup, workers | submit, submit_n, execute, execute_n, destructor | lost wakeups, exceptions, nesting, shutdown |
| Insert heuristics (`src/insert_heuristic.cpp`) | per table a window of hit rates and a four-state machine | insert_needed | off-by-one at state changes, counters that are never reset |
| Contexts, buffers, allocator, memory blocks | named scratch buffers, wrapped arguments with copies in several memories, huge pages | get_buffer, access, free, destruction | which copy is current; how a block was allocated |
| Distributed buffers (`src/distributed.cpp`) | shards of several processes | constructor, destructor | collectives that only some ranks need, handles closed too early |
| C API (`src/nve_c_api*.cpp`) | handles over shared objects, a thread-local error | create, use, destroy | lifetimes in any allowed order |
| PyTorch bindings (`python/pynve/torch_bindings`) | directories of loaded models, shared resources, a registry of markers | load, drop, swap, operators, backward pass | addresses used again, failing loads, buffers kept between batches |

Interactions: a layer calls tables; a GPU table drives the cache on the streams
of its contexts; auto-inserts and host tables run on the thread pool; the
auto-insert handler asks a heuristic; every call uses the buffers of its context;
the bindings own layers and contexts.

Correctness, in one sentence each: a lookup returns rows of the keys it asked
for, each as it was at one moment; rows are never overwritten under a reader; a
key is in one place of a table; a host table behaves as a map; copies in upper
tables agree with the backing store when nothing runs; every call returns and
every lock is released; nothing is used after it is gone.

## 2. Modules

| Module | Models | Checked by |
|---|---|---|
| `EmbedCacheSA` | what both cache variants share: device state, lookup streams, kernels, contexts, events, custom flows | through the next two; lemmas in `EmbedCacheProofs` |
| `CacheSADeviceModify` | modify operations computed on the device | `MCDeviceModify`; proofs in `DeviceModifyProofs` |
| `CacheSAHostModify` | modify operations computed on the host, with the mirror of the tags | `MCHostModify`; proofs in `HostModifyProofs` |
| `EcHash` | set and tag of a key | `MCRuntime` (an `ASSUME`); proofs in `ComponentProofs` |
| `GpuUvmTable` | the GPU table over a UVM table | `MCConcurrent` |
| `GpuEmbeddingLayer` | the GPU layer | `MCConcurrent`; proofs in `ComponentProofs` |
| `HierarchicalLayer` | hierarchical and linear layer with the auto-insert handler | `MCHierarchicalLayer`, `MCLayers`; proofs in `HierarchicalLayerProofs` |
| `HostLayer` | host layer, linear host table, CPU kernels | `MCLayers` |
| `Table` | what a host table promises (abstract) | as the property `ImplementsTable` |
| `PartitionedTable`, `StlTable`, `NvhmTable` | in-memory host tables | `MCHostTables`; proofs about `StlTable` in `StlSlotsProofs`, `StlTableProofs` |
| `RemoteTable`, `RedisTable`, `RocksDBTable` | host tables over a database | `MCHostTables`; proofs in `RocksDBTableProofs` |
| `ThreadPool` | SimpleThreadPool (one workgroup) and NumaThreadPool (several) | `MCConcurrent` |
| `DistributedBuffer` | the ranks that build and release a buffer | `MCConcurrent`; proofs in `ComponentProofs` |
| `InsertHeuristic` | StatisticalInsertHeuristic | `MCRuntime`; proofs in `ComponentProofs` |
| `Buffers` | allocator, contexts' buffers, `BufferWrapper`, memory blocks | `MCRuntime` |
| `CApi` | handles, objects, errors | `MCRuntime` |
| `Loader` | directories, shared resources, registry, torch operators | `MCRuntime` |
| `Gradients` | the backward pass | `MCRuntime` |

Four MC modules put several models side by side. A variable (`part` or `kind`)
chosen in `Init` says which of them a behaviour is about; the variables of the
others are `None` throughout (those of the module that the MC module extends
stay as they are), and each property names the part it speaks of. A model's
configurations and the calls made on it are a `setup`, chosen in `Init` from the
constant `Setups`, so that one run explores several uses of it.

### The cache modules

A tag is the key it stands for or `Sentinel`; a row is the key it was written
for and a small value; a slot is a set and a way. `stream[c]` is the queue of
the lookup stream of context `c`, `modify_stream` that of the modify stream;
the head of a queue may run at any time. A lookup kernel runs in two steps,
`ReadTags` and `ReadRow`; `held[c]` is what it remembers in between. A custom
flow queues a find and a gather kernel under the shared custom-flow lock. A
modify operation is `Call` (create the event), `Start` (compute the list, queue
the invalidation), `RecordEvent` (after the stream synchronisation, under the
exclusive custom-flow lock) and `Commit` (queue the row and the tag kernel).
`ahead[m][c]` counts the kernels of stream `c` that the event of `m` waits for.

Switches: `LateContexts` lets contexts be created while an operation runs,
`EventMayFail` lets CUDA calls around the event fail, `SyncAfterClear` says that
the caller of the host variant's `clear_cache` synchronises before the next
call. The passing runs use the safe setting wherever the other one breaks the
property (section 7); `device_live` and `host_modify` run with failing events.
In the host variant `errors` remembers that an event has failed: what the code
keeps only until then is stated under `~errors`. The keys of an insert there take
their turns on the host's tags (`InsertMaps`): a key that another key of the
batch has put out is inserted again in another way.

The code stores a tag, the key divided by the number of sets. `EcHash` models
that arithmetic with its casts through the unsigned type; what is proved about
it (section 6) is why the cache modules may take the tag for the key.

### GpuUvmTable

A CUDA event is a vector clock, the number of kernels of each stream it waits
for; `front[s]` is the event one would record on stream `s` now. `modify` begins
an update, `ModifyCache` queues the cache's part, `LockUvm` takes
`uvm_table_mutex_` and makes the lookup streams wait, `UpdateKernel` queues a
chunk of at most `max_modify_size` keys, or `LaunchCopies`, `SubmitTasks`,
`StartTask` and `FinishTask` do the same on the CPU; `Released` and `Return` end
the call. `Start` and `Finish` are the device. Rows count the updates applied to
them, so that a lost, repeated or reordered update shows; a CPU task adds to the
row it has read when it started, not to the one it overwrites. `CacheAfter` is
what an operation may make of the cache, an insert with any keys replaced.

### GpuEmbeddingLayer

Modify operations are numbered; `modified` is how many have finished and
`modify_in_progress` the number the event stands for. A queued lookup is the
number of modify operations it waits for; a queued modify kernel is, for each
context, the number of lookups it waits for. `reading` and `writing` are the
kernels that run.

### HierarchicalLayer and HostLayer

`HierarchicalLayer`: tables `1 .. N`, the last one the backing store. `lookup`
starts a call, `find` searches table after table, the three auto-insert actions
are the three outcomes of `auto_insert` for a table, `TaskInserts`, `TaskEnds`
and `TaskThrows` the launched task, `CopyRows` the device's later copy. A modify
call is for all tables or for one (`table_id`); `partial` are the keys modified
in one table only. A row is a key and a version. `call[c].device` are the
positions that GPU tables have filled: with outputs in device memory
(`~OutputOnHost`) and host tables below, what is collected is read from the host
copy of the output, which lacks them (`OutputRow`). `Exclusive` says that callers
run one at a time, `WaitsEach` that a caller waits for the tasks of its context
before its next call. `HostNext` leaves out exceptions and device copies, which
the instance with two callers does not have. The tables are functions from keys
to rows: host tables insert in one step, GPU tables pick the keys first and copy
the rows later, which is what the cache modules do in detail.

`HostLayer`: a lookup gathers (`GatherRow` per row and task, `FindInMap` for a
map table), fills in defaults, pools, and queues copies that `StreamCopies` does
later. Without a mask of the caller's and without a default row the layer gives
the table none: a linear table skips it, a map table dereferences it, and the
model stops there (`FindFaults`). `asked[i].cleared` remembers that the context's
mask buffer was cleared by a later lookup while its copy was queued. update and accumulate run as `UpdateRow` tasks. Elements are integers in
fixed units, a half keeps the multiples of `HalfStep`, quantised rows carry scale
and offset.

### Host tables

`Table` is the abstract specification: a call takes effect on each of its keys
once between begin and return, insert alone evicts, find answers with the row or
the absence of each key at some moment of the call, the mask, and the number of
hits it added. The four tables are mapped to it by the operators `TableRows` (or
the map itself), `AbsCall`, `AbsTodo`, `AbsAnswer`.

`PartitionedTable` has the calls of the in-memory tables: tasks that hold the
partition's lock for their whole run, exclusive for modify operations, shared for
find. A modify task visits the positions of its partition's keys in the order of
the batch. `StlTable` adds the slots and buffers and does one key per step, a find
task one mask word in two steps; an overflow gives the slots of the evicted keys
back in an order that is left open; `NvhmTable` adds the ring of prefetched keys.

`RemoteTable` has the calls of the tables over a database that executes one
command at a time: tasks of batches, and update and update_accumulate that first
find their keys and then write the ones found. `RedisTable` adds the three
storage modes and metadata commands, `RocksDBTable` the batches of a column
family. `made` counts the calls; `seen` is history for `Table`.

### ThreadPool, DistributedBuffer

A task is named by its caller, the caller's call and its index. Submission is
two steps per burst, push and notify, so that a worker can run in between. A
worker checks its queue, waits, is woken (also without cause), runs, and may
itself call the pool. The destructor queues termination tasks (`Invalid`) and
joins.

A rank walks through constructor and destructor, `rank_pc`; `entered` lists the
collectives it has entered with what it sent. An all-gather or barrier returns
when all have entered, a broadcast when the root has. `refs` are the references
to physical memory: mappings, handles, file descriptors.

### What MCRuntime collects

- `InsertHeuristic`: hit rates are multiples of 1/`Unit`; mean, variance and the
  comparison with k times the deviation are exact integers. The instances use
  powers of two, for which floats are exact too. `samples` and `inserts` are
  history.
- `Buffers`: `heap` is what the system allocated and how, `mmaps` the allocator's
  own record; `wrap` is a wrapped argument with its copies, each numbered by the
  write it holds.
- `CApi`: one action per kind of create, use and destroy; an object goes when its
  last reference does. An object has the key size it was made with, a handle the
  key type it is labelled with; `setup.compares` says whether the client compares
  the key types of the tables it gives to a hierarchical layer.
- `Loader`: `Described`, `Registered` and so on build a directory entry by entry;
  `Dispatch`, `RunLookup`, `OpEnds` are an operator, `StreamDone` the device;
  addresses are reused as soon as they are free.
- `Gradients`: sort, run-length encoding, splitting, location map and gradient
  kernels of a call; a row is the bag of what was added to it.

## 3. Plan

Done: the GPU cache (its lookups race with its modify operations), what calls it,
what runs under it, the host tables with their abstract specification, memory,
interfaces and the backward pass; the theorems of section 6.

Worth doing next:

1. the cache as an implementation of an abstract cache, so that `GpuUvmTable`'s
   assumption that each cache operation is atomic is itself a refinement;
2. proofs of `ImplementsTable` for the nvHashMap and the Redis table, along the
   lines of the STL and the RocksDB one, and of the safety properties of
   `GpuUvmTable` and `ThreadPool`;
3. the hit rates a layer computes, connected with the heuristic;
4. errors of the remote databases.

Modules meant for proofs use no recursion; theorems are in modules of their own.

## 4. Runs

| Run | Instance | Shows |
|---|---|---|
| `device_modify` | 2 contexts, both with custom flows; 2 threads (insert and accumulate; update and invalidate; both clear); 2 keys for 1 slot | `NoRowRace`: no row is written under a lookup that found it. `LookupIsAtomic`: a lookup copies its own key's row, unchanged since it read the tag. `DInv`: the inductive invariant of section 6 |
| `device_live` | 1 context, 2 threads, 1 key, 2 ways, failing events, fairness | `OneWayPerKey`; `ModifyReturns`: every call returns; `UpdateRestoresKey`: what an update hid becomes visible again |
| `device_late_context` | as `device_modify` with 1 thread, contexts created at any time | violation of `NoRowRace`, section 7 |
| `host_modify` | 1 context, an updating and a writing thread, 2 keys, 2 ways, calls of up to 2 keys, failing events | `MirrorAgrees`: host tags are device tags between operations, and the device shows no key the host does not know also when events fail. `UpdateKeepsResidency`: an update writes only to slots that show its key, until an event fails. `LookupsAtomic`: the same of `LookupIsAtomic`. `NoRowRace`, `OneWayPerKey` |
| `layers` | a hierarchical layer over host tables with all modify operations; one with modify calls for one table; one with a GPU table, 2 strides and exceptions anywhere; one with 2 callers at any time, lookups and erase, fairness; host layers over every kind of table, value type and memory | `RowsAgree`: copies and collections agree with the backing store when nothing runs, an update kernel is whole; `RowsHaveTheirKeys` after any exceptions; `InsertLockExcludes`, `LayerLockIsReleased`, `LayerModifyReturns` for the 2 callers; `LookupAnswers` against a reference definition of pooling; `HitsAreTheTables`; `LayerTypeOK` |
| `layer_stale_row` | a GPU table above 2 host tables, outputs in device memory, 1 caller that waits | violation of `RowsMatchKeys`, section 7 |
| `host_tables` | 3 keys; 3 setups of the STL table, 4 of nvHashMap, 8 of Redis, 2 of RocksDB; 1 or 2 callers, 2 to 4 calls | `ImplementsTable`: each table implements `Table`, the Redis table with the LRU handler for insert, erase and clear. `SlotsPartitioned`: each slot is free or of one key, none lost; `RowIsOwn`; `SizeBounded` |
| `concurrent` | pools of 2 workers in 1 or 2 workgroups, 4 uses; 7 uses of a UVM table by 2 contexts; 5 jobs of 3 ranks; a GPU layer with 2 contexts, 2 queued lookups each, 3 modifies and failing calls; fairness | `NoTornRow`, `RowsAreCurrent`: one writer per row, no reader beside it but for the case in section 7, lookups after an update see it. `NoOverlap`, `ReadsItsPlace` (a lookup of the GPU layer sees exactly the modifies launched before it), `GInv`. `OneBuffer`: same collectives, same shards, all released. `ConcludesAll`: execute and the destructor end with their tasks. `CallsReturn`: no wakeup is lost, everything called returns |
| `runtime` | 1 table and a window of 4 of the heuristic; 5 machines with their buffers; 5 clients of the C API; 4 pairs of models; 3 sets of batches for the backward pass | `RoundsAreComplete`, `NothingDangles`, `NothingLeaks`, `KeyTypesAgree`, `SeesLatest`, `ReachesOwnLayer`, `SharedByReference`, `GradientsExact` |
| `rocksdb_clear` | a key from `~` on | violation of `ClearEmpties`, section 7 |
| `redis_lru` | a Redis table of hashes with the LRU handler, all operations | violation of `FindKeepsRows`, section 7 |
| `failed_load` | two models that share a reference, loads may fail | violation of `WeightsReadOnce`, section 7 |

Every property of a passing run has a mutant: a definition with a plausible bug
under which TLC finds that property violated. Each passing run takes at most a few
minutes.

### Bounds

- Keys, slots: the properties speak of one slot and one or two keys, so two keys
  for one slot show replacement, two ways show placement, three keys with a
  margin of two show eviction that leaves a key behind.
- `MaxQueue`, `MaxLookups`, `MaxModifies`: two lookups behind each other show
  that an event covers more than the first kernel; three modifies show a third
  one queued behind one that waits.
- `MaxUpdate` 2 in the host variant: a key of a batch can take the way of a
  resident key that the batch then inserts again. 1 in the device variant, which
  also passes with 2; the theorems of section 6 are for any number of keys.
- `MinInsertSize` 2: collections take one or two lookups, or cut a batch.
- `max_calls`: the third and fourth call use what the first two left behind.
- `NumBits`, `MaskBits` 2: a batch of three keys spans two words of the mask, the
  second one partial.
- `max_batch_size` 1 and 2 with batches of three: several batches, the last one
  short.
- `max_run`, `short`, `warp` stand for 1024, 8 and 32 of the gradient kernels;
  runs are shorter, equal and longer.
- `CounterRange` stands for 2^64, and is reached; it is no multiple of
  `num_inserts_needed`, as 2^64 is none of the default 50.
- Three ranks: a root, one beside it and one on another host or without a shard.
- `Ids`, `Blocks` are as many as the setups need at once.

Symmetry over keys or contexts is used in the safety runs of the cache modules
(keys and contexts in `device_modify`, keys in `host_modify`), whose constants
treat them alike, and nowhere together with liveness or refinement.

Deadlock is checked except in three runs. In `device_live` and `concurrent` a call
that never returns is what the liveness properties are about; callers of
`concurrent` stop after their calls. In `runtime` every part ends after a bounded
number of calls. In `layers` an exception really leaves a lock taken for ever and
a missing mask really ends the process, which is the explicit step `Stopped`.

## 5. Fairness

| Run | Assumed | Why |
|---|---|---|
| `device_live` | weak: queued kernels run, started flows are ended, `Commit`. Strong: `Start` and `RecordEvent`, which take mutexes | CUDA streams progress; a caller of `start_custom_flow` calls `end_custom_flow`; the strong part assumes that a lock that is free again and again is obtained, which the standard library's locks give in practice and do not promise |
| `layers`, two callers | weak: pool tasks, steps of a call in progress. Strong: `lock_modify` | `TestableMutex` wakes all its waiters |
| `concurrent`, pools | weak: steps of a call, workers that are not waiting, the destructor | threads are scheduled; a worker on the condition variable needs a notification, no spurious wakeup is assumed |
| `concurrent`, UVM table | weak: steps of a call, CPU tasks, kernels at the head of a stream. Strong: `LockUvm` | threads are scheduled and streams progress; for `uvm_table_mutex_` as in the first row |
| `concurrent`, ranks | weak: each rank | processes run, and the application drops its buffer in the end |

No run assumes that a client calls, that a context is created or that an
operation fails.

## 6. Proofs

Every theorem is for all values of the constants, under the named assumptions.
Each module below extends the model it is about; the invariants that a run can
check are defined in the model, the others beside their proofs.

### The cache: `EmbedCacheProofs`, `DeviceModifyProofs`, `HostModifyProofs`

Any contexts, threads, keys, sets, ways and queue bound.

| Theorem | States | Assumes |
|---|---|---|
| `DeviceInvariant` | `Spec => []DInv` | `~LateContexts`, `~EventMayFail` |
| `DeviceNoRowRace` | `Spec => []NoRowRace` | the same |
| `DeviceLookupAtomic` | `Spec => [](TaggedRowIsOwn /\ LookupIsAtomic)` | the same |
| `DeviceOneWayPerKey` | `Spec => []OneWayPerKey` | nothing: whatever fails, whenever contexts are created |
| `HostInvariant` | `Spec => []HInv` | `~LateContexts`, `SyncAfterClear`, `OneUpdater` |
| `HostNoRowRace`, `HostLookupsAtomic` | `Spec => []NoRowRace`, `Spec => []LookupsAtomic` | the same |
| `HostMirror`, `HostOneWayPerKey`, `HostKeepsResidency` | `Spec => []MirrorAgrees`, `Spec => []OneWayPerKey`, `Spec => UpdateKeepsResidency` | `SyncAfterClear`, `OneUpdater` |

What is assumed is where the code does not have the property (section 7).
`OneUpdater` (one thread calls update and accumulate) is what
`docs/advanced.md:16` asks of the user; failing events are allowed throughout in
the host variant.

`NoRowRace` is not inductive: that the head of the modify stream may write its
rows depends on what was invalidated, waited for and recorded before. The
invariants of `EmbedCacheSA`, which both variants keep, are:

- `PlacesInv`, whatever fails: `ModifyShape` (because of `modify_mutex_` the
  modify stream holds at most the row and tag kernels of one operation and the
  invalidation of the next), `LookupShape` (a find kernel is followed by its
  gather, or its flow still holds the custom-flow lock), `ClaimedHidden` and
  `ClaimedFresh` (from the invalidation of an operation until its tag kernel has
  run its slots are invisible, and its keys are visible nowhere), `OneWayPerKey`;
- `EventsInv`: the event an operation will record was created for all contexts
  (`SnapshotCovers`), and once recorded it waits for each lookup that holds a slot
  of the list (`EventCovers`);
- `RowsInv`: tags are written over rows of their own keys (`RowsOwn`), so a
  visible tag stands over a row of its key and a lookup is atomic.

`EmbedCacheProofs` has one lemma per action they share, on top of lemmas about
what queueing and completing a kernel does to a stream. The host variant adds
`HostInv`, which ties `h_tags_` to what the device shows or will show when the
queued kernels have run: `ShownIsKnown` and `PendingHides` hold whatever fails,
`KnownIsShown` until an event has failed. That is why an `insert` whose event
fails leaves the mirror ahead of the device and never behind it.

### `ComponentProofs`

*Tags and sets* (`EcHash`; `WidthsOK`: any key width, any number of sets up to
half the range): `HashRoundTrips`, tag and set give the key back, negative keys
included; `HashTellsKeysApart`, within a set comparing the rebuilt key finds
exactly the tags written for it; `HashFreeSlotsMiss`, the sentinel is no hit for
a key that is not negative.

*The heuristic* (any tables, window, counters and hit rates; `UnitOK`,
`ParametersOK`, `RangeOK`): `HeuristicRounds` is `HeuristicSpec =>
[][WindowIsFresh /\ RoundsAreComplete /\ SteadyNeedsARun]_heuristicVars`, the
definitions that `RoundsAreComplete` of `MCRuntime` conjoins. `HInv` ties each
counter to the history of samples: `RoundCounted` (the counter of insertions,
never reset, is a multiple of `num_inserts_needed_` outside a round), `RunCounted`
and `WindowFilled`. `RangeOK` asks only that the counter has a range: the round in
which it wraps is cut short, to `LastRound` insertions, unless
`num_inserts_needed_` divides the range.

*The GPU layer* (any contexts and bounds): `GpuInvariant`, `GpuNoOverlap` and
`GpuReadsItsPlace`. The heart of `GInv` is `Ordered`: of any queued lookup and any
queued modify exactly one waits for the other. `EventIsLast` says that
`modify_in_progress_` stands behind the last modify, `SnapshotCovers` that the
event to be recorded covers every stream with queued lookups although contexts
may have been created since, because queueing needs `kernel_launch_mutex_`.

*The distributed buffer* (any number of ranks, hosts and devices):
`RanksBuildOneBuffer` is `RanksSpec /\ JobOK => [](CollectivesMatch /\
NoRankThrows /\ SameBuffer /\ AllReleased)`, the definitions that `OneBuffer` of
`MCConcurrent` conjoins. `JobOK` asks for a device, and for several hosts for MPI,
device memory and an IMEX channel; without it the constructor throws by design,
except for the torch job of section 7. The argument: what a rank has sent is
determined by where it is (`PlacesInv`: `entered[r]` is a prefix of one history),
so collectives match; `CloseInv` says that the barrier before the descriptors are
closed keeps the root's open until all have copied them, hence no constructor
throws; `ShardsInv` that all know the same shards, whose numbers are shown to be
a bijection onto `0 .. n - 1` by counting, and arithmetic gives size and
alignment; `RefsInv` says where a rank can still have references.

### `HierarchicalLayerProofs`

Any number of tables, callers and keys, any batches and sizes.

| Theorem | States | Assumes |
|---|---|---|
| `LayerInvariant` | `Spec => []LInv` | nothing |
| `LayerNoModifyDuringAutoInsert` | `Spec => []NoModifyDuringAutoInsert` | `"insert" \notin ModifyOps` |
| `LayerRowsMatchKeys` | `Spec => []RowsMatchKeys` | `BuffersKept`: outputs in host memory if there are both GPU and host tables; no GPU table, or one call at a time that waits for the one before |
| `LayerCoherent` | `Spec => [](Coherent /\ CollectedIsCurrent)` | `OneWriter`: one call at a time, no exceptions, a backing store that does not evict, GPU tables waited for, outputs as above; keys in `partial` are excepted |

`LInv` says who has which `insert_lock_` (`Locks`) and that collections fit their
buffers (`Collecting`), which exceptions do not change. `RowsInv` adds that rows
stand beside their keys in calls, collections and pending copies. `CInv` follows a
modify call down the tables: those it has passed hold the row it will leave in
the backing store, the others what the backing store holds now (`TablesAgree`),
and nothing stale is on its way into a table that was passed (`OnTheWay`).

### `RocksDBTableProofs`

Any finite set of keys, any callers, setups, masks and batch sizes; `FamilyOK`:
keys below clear's upper bound, modify calls that do not overlap and name a key
once.

- `RocksDBInvariant`: `Spec => []RInv`;
- `RocksDBImplementsTable`: `Spec => ImplementsTable`, the abstract `Table` under
  the same mapping that `MCHostTables` checks for all four tables.

The mapping alone is not enough: a find that returns must have an answer that the
abstract table allows, and an update must write what the abstract one would have
computed at that moment. `RInv` adds `LookOK` (mask, rows and hit count of a find
agree, and each row was in the table during the call), `FoundOK` (what `find_`
read of a key for an update is still there until the batch that writes it) and
that at most one modify call runs. A step maps as follows: `Begin` and `Return`
to themselves; a batch of `insert`, `erase`, `clear` or of the writing half of an
update to `Apply` on its keys; `Look` to a stutter for find, and for an update to
`Apply` on the keys it did not find, on which the call has no effect; `Settle` and
`WriteFound` to stutters. Each has a lemma of its own (`BeginSound`, `LookSound`,
`SettleSound`, ...), which `NextSound` combines.

### `StlSlotsProofs`, `StlTableProofs`

Any partitions, finite set of keys, callers, batches, masks, margins and sizes of
buffers and words; modify calls of several threads at once. `TableOK` and
`SetupsOK` describe a configuration: sizes are positive, a buffer is no smaller
than a slot (`BuffersOK`, which the constructor does not check, section 7), the
resolution margin is at most the overflow margin, `None` is no row and no slot.
`BatchesOK` says that batches have a largest length.

- `StlSlots`: `Spec => [](SlotsPartitioned /\ RowIsOwn /\ SizeBounded)`;
- `StlImplementsTable`: `Spec => ImplementsTable`, as for RocksDB.

Slots: the free slots of a partition enumerate, each once, those slots of its
buffers that no key uses (`SlotsInv`), keys have different slots, and what an
insert, erase, overflow or clear takes from one side it adds to the other. A
partition needs a new buffer only when its slots are all in use and the new key
has none, so by counting it never has more buffers than keys.

Refinement: running tasks on one partition are all finds, or one alone
(`LockInv`), so the mask word a find task has loaded and the slots it has found
stay current until it copies the rows (`LoadedInv`). What is left of a modify call
is, for each key, the number of its occurrences from the task's position on; a
step takes the next position of the partition and so lowers the count of exactly
one key by one, which is one `Apply`. Finds divide the words of the mask among
the tasks of each partition; that each word is searched by exactly one of them is
arithmetic on the task's index, and gives the exact hit count (`FindsInv`).

### Only model-checked

All liveness (out of the prover's reach); the refinement of the nvHashMap and
Redis tables; the host layer, the pools, the UVM table, and what `MCRuntime`
collects besides heuristic and hash. The theorems about `StlTable`, `RocksDBTable`,
the heuristic and the distributed buffer speak of the component's own
specification; the runs check the same definitions through the instances of
`MCHostTables`, `MCRuntime` and `MCConcurrent`, together with the other parts.

## 7. Disagreements between code and documents

Five runs show one each; they are recorded as findings.

- `device_late_context`: an operation takes its event from the streams registered
  when it starts (`src/gpu_table.cu:408`). A context created before the event is
  recorded can look up a row that the event does not wait for, and `NoRowRace`
  fails. `docs/advanced.md:20` says the operation will "wait until all inflight
  lookups have concluded", and line 7 that creating contexts during runtime is
  allowed.
- `rocksdb_clear`: `clear` deletes the range from `""` to `"~"`
  (`plugins/rocksdb/src/rocksdb_table.cpp:70`); a key whose first byte is 0x7e or
  more keeps its row. `include/table.hpp:54`: "Empties the table. Erases all
  entries."
- `failed_load`: a memory block is entered in the shared directory before its
  weights are read (`nve_loader.hpp:392`); when reading throws, the next model
  that refers to it reads nothing, although line 349 says that on a hit "weights
  are already present".
- `layer_stale_row`: with a GPU table above host tables and an output buffer in
  device memory, `collect_keys_and_data` reads the rows from the host copy of the
  output, which `access_buffer(..., copy_content = false)` does not bring up to
  date (`src/layer_utils.cpp:175`). The rows the GPU table had found are missing
  there, and the auto-insert of a host table stores whatever the buffer held under
  their keys: `RowsMatchKeys` fails.
- `redis_lru`: `HKey` drops the suffix of the name it has printed
  (`plugins/redis/src/redis_cluster_table.cpp:82`; `snprintf` does not count the
  terminating zero), so the hash of rows and the hash of metadata of a partition
  have one name, although the comment at line 95 describes the suffix. With the
  LRU handler a find sets the time stamp of each key it has hit (line 1287) over
  its row. `include/table.hpp:116`: "Looks up the values for the provided keys if
  they exist in the table."

The passing runs make assumptions on the caller or the environment. Where one is
dropped, the model shows what the code then does. Instances are those of the MC
module named.

| Assumption | Change | Then fails | Code |
|---|---|---|---|
| events can be recorded | `DeviceModify.cfg`: `EventMayFail = TRUE` | `NoRowRace` | the error of `invalidate_tags_and_sync` is not looked at (`ec_set_associative_device_modify.cuh:311`) |
| the same, host variant | `CacheSAHostModify`: `MirrorAgrees` and `UpdateKeepsResidency` without their `~errors` | `MirrorAgrees`, `UpdateKeepsResidency` | `insert` has changed `h_tags_` when the event fails (`ec_set_associative_host_modify.h:443`) |
| one updating thread at a time | `MCHostModify`: all operations for both threads | `NoRowRace` | updates share `rw_lock_` (`ec_set_associative_host_modify.h:318`); `docs/advanced.md:16` asks the user to serialise |
| synchronise after `clear_cache` | `HostModify.cfg`: `SyncAfterClear = FALSE` | `LookupsAtomic` | the copy of the tags is asynchronous and reads pinned memory later (`ec_set_associative_host_modify.h:201`) |
| callers one at a time | `MCLayers`: 2 callers and `Exclusive <- FALSE` in the first instance | `RowsAgree` | rows are read before `insert_lock_` is taken (`layer_utils.cpp:99`) |
| wait after each lookup, GPU table | `MCLayers`: `WaitsEach <- FALSE` in the third instance | `RowsHaveTheirKeys` | `insert_lock_` is released while kernels still read the buffer (`layer_utils.cpp:233`) |
| no exceptions, one stride | `Layers.cfg`: `MayThrow = TRUE` or `Strides = {1, 2}`, with `Next` for the two callers | `LayerLockIsReleased`, `LayerModifyReturns` | unlock is not exception-safe (`layer_utils.cpp:108` and `:233`) |
| `insert` not beside an auto-insert | `Layers.cfg`: `insert` in `ModifyOps` | `InsertLockExcludes` | `insert` takes no handler lock (`hierarchical_embedding_layer.cu:326`) |
| a worker is left for inner tasks | `MCConcurrent`: the nested call made by two tasks at once | `CallsReturn` | `execute` blocks a worker (`thread_pool_base.hpp:123`) |
| workgroups of equal size | `MCConcurrent`: a third worker | `CallsReturn` | termination tasks are counted by a division (`thread_pool.cpp:317`) |
| no lookup of another context while CPU tasks accumulate, private stream | `GpuUvmTable`: `QueuedLater(s, c) == FALSE` | `NoTornRow` | no lock is taken and no event recorded for the CPU tasks (`gpu_table.cu:629`); `gpu_table.hpp:59` says that contexts' streams "will be synchronized with the private stream" |
| a mask in device memory is copied before the next lookup of the context | `HostLayer`: `HitsAreTheTables` without `~a.cleared` | `HitsAreTheTables` | one host buffer for masks, cleared without waiting (`host_embedding_layer.cpp:208`) |
| a database's tables have 8-byte keys | `CApi`: `Mislabelled == {}` | `KeyTypesAgree` | every handle is labelled `NVE_KEY_INT64` (`nve_c_api_tables.cpp:360`), so `nve_host_embedding_layer_create` compares the wrong type (`nve_c_api_layers.cpp:183`) |
| the client compares key types | `CApi`: `KeyTypesAgree` without `setup.compares` | `KeyTypesAgree` | `nve_hierarchical_layer_create` does not (`nve_c_api_layers.cpp:127`) |
| contexts before updates | `MCConcurrent`: `late |-> TRUE` in a UVM setup | `NoTornRow`, `RowsAreCurrent` | `gpu_table.cu:539` |
| one host for a torch job | `MCConcurrent`: a torch job over two hosts | `OneBuffer` | `single_host_` compares the number of distinct ranks with the world size (`python/pynve/torch/nve_distributed.py:49`); `docs/multi_gpu.md:59` |
| `allocation_rate` holds a slot | `MCHostTables`: `ValueAlignment <- 8` | `SlotsPartitioned` | `check()` compares with the value, not the slot (`stl_map_backed_table.cpp:32`) |

Met while reading, not shown by a run:

- a second `start_custom_flow` before the first has ended throws, on whichever
  context, because `custom_flow_lock_` is one object (modelled; no property
  forbids it);
- with variance 0 each sample of a hit rate that never changes counts as bad, so
  rounds of insertions repeat (modelled likewise);
- the LFU eviction bound of the Redis table is the minimum with zero
  (`redis_cluster_table.cpp:540`), so it never evicts;
- a lookup of the host layer without mask and default row passes "null through to
  the table (it skips recording hits entirely)" (`host_embedding_layer.cpp:194`),
  and `table.hpp:122` allows `nullptr`; `find_` of the map tables dereferences it
  (`stl_map_backed_table_detail.hpp:462`). Modelled as `FindFaults`;
- the default allocator changes `host_mmap_allocations_` without a lock
  (`default_allocator.cpp:212` and `:235`), and all contexts share it; in the model
  a call of the allocator is atomic;
- `max_batch_size` "Must be a multiple of `mask_size`"
  (`redis_cluster_table.hpp:42`, `rocksdb_table.hpp:30`), which is in bytes, while
  `find_` needs a word of bits in a batch (`rocksdb_table.cpp:409`);
- `nve_c_api.h:330` allows NULL where `nve_c_api_heuristic.cpp:24` returns
  INVALID_ARGUMENT;
- `host_embedding_layer.hpp:26` says that the layer builds the context,
  `host_embedding_layer.cpp:48` asks the table for it;
- the linear host table counts every key as a hit (`linear_host_table.hpp:105`
  against `table.hpp:76`);
- `nve_layers.py:410` offers 'mean' and 'max'; the unweighted backward pass of
  mean reads weights that are not there (`gradient_calculator.cuh:260` has a TODO)
  and 'max' becomes mean (`nve_layers.py:478`);
- a `LayerDirectory` constructor that throws after its first layer leaves registry
  entries behind (`nve_loader.hpp:196`).

## 8. Abstractions

- A kernel handles one key; a lookup's tag and row read are separate steps. That
  a row is copied word by word shows as a race (`NoRowRace`), not as a torn row.
- Which keys are replaced or evicted is left open: counters, LRU and LFU data and
  priorities are not modelled.
- CUDA gives order within a stream and through events, nothing else.
- Rows and payloads are a key and a small number; a half is a multiple of
  `HalfStep`.
- A table under the hierarchical layer is atomic per call, except for the GPU
  table's later copy. The cache under `GpuUvmTable` is atomic per operation.
- The `key_indices` of a pooled lookup are in host memory.
- A batch of a remote find is any keys up to `max_batch_size`; the code takes
  whole words of the mask in order. Commands of a database that fail are left out.
- The hit rates the layer gives to the heuristic are not connected with the
  heuristic's module: there the answer is left open, here the hit rate.

## 9. Not modelled

| Part | Why |
|---|---|
| uncached and combined caches | no state |
| two-state FSM heuristic | sequential, left to its unit tests |
| serialization | sequential file formats |
| logging, JSON, NUMA and type utilities | no state others depend on |
| the device's lookup and pooling kernels | arithmetic on rows |
| memory pools of devices | configuration of the CUDA runtime |
| export of models, parameter servers in Python, tensor wrappers | convert and forward |
| declarations of `nve_c_api.h`; samples, tests, benchmarks | no behaviour of their own |
