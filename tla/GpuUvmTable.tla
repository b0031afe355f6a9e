---------------------------- MODULE GpuUvmTable ----------------------------
(***************************************************************************)
(* GpuTable with a UVM table below its cache (src/gpu_table.cu): find and  *)
(* find_and_combine read a row from the cache or, when the key is not      *)
(* cached, from the UVM table; update and update_accumulate change first   *)
(* the cache and then the UVM table, with a kernel or on the CPU.          *)
(*                                                                         *)
(* A CUDA event is a vector clock: the number of kernels of each stream    *)
(* that it waits for.  front[s] is the event one would record on stream s  *)
(* now.  Rows count the updates applied to them, so that an update that is *)
(* lost, repeated or out of order shows.  The cache is taken at what its   *)
(* own modules promise: each operation on it is atomic.                    *)
(***************************************************************************)
EXTENDS Naturals, Sequences, FiniteSets, SequencesExt

CONSTANTS Contexts, Keys, None, Setups

VARIABLES
    setup,      \* the configuration and the calls that are made
    contexts,   \* ContextRegistry::contexts_
    uvm_lock,   \* who owns uvm_table_mutex_ exclusively
    call,       \* call[c]: what the thread of c is doing
    calls,      \* calls[c]: calls it has made
    front, queue, done, running,    \* the streams
    held,       \* held[s]: rows the running lookup of s found in the cache
    cached, uvm,                    \* the row of each key in the cache, in the UVM table
    latest, returned,               \* updates begun, updates returned, for each key
    tasks       \* tasks[c]: the CPU tasks of an accumulation

hostVars == <<contexts, uvm_lock, call, calls, latest, returned>>
streamVars == <<front, queue>>
deviceVars == <<done, running, held>>
rowVars == <<cached, uvm>>
vars == <<setup, hostVars, streamVars, deviceVars, rowVars, tasks>>

Private == <<"private", None>>
LookupStream(c) == <<"lookup", c>>
ModifyStream(c) == <<"modify", c>>
Streams == {Private} \cup ({"lookup", "modify"} \X Contexts)

\* StreamCoordinator: the private stream, if there is one, runs what the caller queues.
QueueStream(s) == IF setup.private_stream THEN Private ELSE s

Idle == [op |-> "idle", keys |-> <<>>, rows |-> <<>>, at |-> "idle", from |-> 0, sync |-> {}]
NoTasks == [copies |-> 0, launched |-> 0, remaining |-> 0, waiting |-> {}, writing |-> {}, first |-> 0]

Init ==
    /\ setup \in Setups
    /\ contexts = setup.contexts
    /\ uvm_lock = None
    /\ call = [c \in Contexts |-> Idle]
    /\ calls = [c \in Contexts |-> 0]
    /\ front = [s \in Streams |-> [t \in Streams |-> 0]]
    /\ queue = [s \in Streams |-> <<>>]
    /\ done = [s \in Streams |-> 0]
    /\ running = {}
    /\ held = [s \in Streams |-> <<>>]
    /\ cached = [k \in Keys |-> None]
    /\ uvm = [k \in Keys |-> 0]
    /\ latest = [k \in Keys |-> 0]
    /\ returned = [k \in Keys |-> 0]
    /\ tasks = [c \in Contexts |-> NoTasks]

-----------------------------------------------------------------------------
(***************************************************************************)
(* Events and streams.                                                     *)
(***************************************************************************)
Join(v, w) == [s \in Streams |-> IF v[s] > w[s] THEN v[s] ELSE w[s]]

\* create_stream_dependency: dst waits for all that was queued on src.
Depend(f, src, dst) == [f EXCEPT ![dst] = Join(@, f[src])]

\* event_record on the streams ss, then event_wait_stream(dst).
WaitAll(f, ss, dst) ==
    [f EXCEPT ![dst] = [t \in Streams |-> Max({f[s][t] : s \in ss \cup {dst}})]]

\* cudaStreamWaitEvent on each of the streams ss.
AllWait(f, ss, event) == [s \in Streams |-> IF s \in ss THEN Join(f[s], event) ELSE f[s]]

Launched(f, s) == [f EXCEPT ![s][s] = @ + 1]
Kernel(op, keys, rows, floor, after) ==
    [op |-> op, keys |-> keys, rows |-> rows, floor |-> floor, after |-> after]

\* Queues one kernel on behalf of the stream s of the caller, under a StreamCoordinator.
Run(s, op, keys, rows, floor) ==
    LET q == QueueStream(s)
        before == Depend(front, s, q)
    IN /\ queue' = [queue EXCEPT ![q] = Append(@, Kernel(op, keys, rows, floor, before[q]))]
       /\ front' = Depend(Launched(before, q), q, s)

Drained(s) == \A t \in Streams : front[s][t] <= done[t]

-----------------------------------------------------------------------------
(***************************************************************************)
(* The calls.                                                              *)
(***************************************************************************)
Calls(c, op) ==
    /\ c \in contexts
    /\ call[c] = Idle
    /\ op \in setup.ops[c]
    /\ calls[c] < setup.max_calls
    /\ calls' = [calls EXCEPT ![c] = @ + 1]

Quiet == (\A s \in Streams : queue[s] = <<>>) /\ (\A c \in Contexts : call[c] = Idle)

\* A context that is created later is not among the streams of an event recorded earlier;
\* late: whether one may be created while an update is under way.
create_execution_context(c) ==
    /\ c \notin contexts
    /\ setup.late \/ Quiet
    /\ contexts' = contexts \cup {c}
    /\ UNCHANGED <<uvm_lock, call, calls, latest, returned, streamVars, deviceVars, rowVars, tasks>>

destroy_execution_context(c) ==
    /\ c \in contexts
    /\ setup.destroys
    /\ call[c] = Idle
    /\ Drained(LookupStream(c)) /\ Drained(ModifyStream(c))
    /\ contexts' = contexts \ {c}
    /\ UNCHANGED <<uvm_lock, call, calls, latest, returned, streamVars, deviceVars, rowVars, tasks>>

\* Mutant: the lookup does not wait for uvm_table_mutex_.
CanShareLock_Ignored == TRUE

\* uvm_lock(uvm_table_mutex_, std::defer_lock): a private stream orders all by itself.
CanShareLock == setup.private_stream \/ uvm_lock = None

\* The lock is held while the kernels are queued, and nothing else is done meanwhile.
find(c) == \E keys \in setup.batches[c] :
    /\ Calls(c, "find")
    /\ CanShareLock
    /\ Run(LookupStream(c), "lookup", keys, <<>>, returned)
    /\ UNCHANGED <<contexts, uvm_lock, call, latest, returned, deviceVars, rowVars, tasks>>

\* The rows of all keys go into one kernel, which combines them.  A bad number of keys for a
\* fixed hotness, missing weights or offsets, and COO keys throw before the kernel, and the
\* StreamCoordinator still makes the streams wait for each other.
find_and_combine(c) == \E keys \in setup.batches[c], throws \in BOOLEAN :
    /\ Calls(c, "find_and_combine")
    /\ CanShareLock
    /\ IF throws
       THEN LET s == LookupStream(c) q == QueueStream(s)
            IN front' = Depend(Depend(front, s, q), q, s) /\ UNCHANGED queue
       ELSE Run(LookupStream(c), "lookup", keys, <<>>, returned)
    /\ UNCHANGED <<contexts, uvm_lock, call, latest, returned, deviceVars, rowVars, tasks>>

\* The caller inserts the rows as its updates have left them.
insert(c) == \E keys \in setup.batches[c] :
    /\ Calls(c, "insert")
    /\ Run(ModifyStream(c), "insert", keys, [i \in DOMAIN keys |-> latest[keys[i]]], <<>>)
    /\ UNCHANGED <<contexts, uvm_lock, call, latest, returned, deviceVars, rowVars, tasks>>

erase(c) == \E keys \in setup.batches[c] :
    /\ Calls(c, "erase")
    /\ Run(ModifyStream(c), "drop", keys, <<>>, <<>>)
    /\ UNCHANGED <<contexts, uvm_lock, call, latest, returned, deviceVars, rowVars, tasks>>

clear(c) ==
    /\ Calls(c, "clear")
    /\ Run(ModifyStream(c), "drop", SetToSeq(Keys), <<>>, <<>>)
    /\ UNCHANGED <<contexts, uvm_lock, call, latest, returned, deviceVars, rowVars, tasks>>

Bumped(v, keys) == [k \in Keys |-> IF \E i \in DOMAIN keys : keys[i] = k THEN v[k] + 1 ELSE v[k]]

\* update and update_accumulate, up to the loop over the parts of the keys.
modify(c) == \E op \in {"update", "update_accumulate"} : \E keys \in setup.batches[c] :
    /\ Calls(c, op)
    /\ call' = [call EXCEPT ![c] = [Idle EXCEPT !.op = op, !.keys = keys, !.at = "cache",
                                    !.rows = [i \in DOMAIN keys |-> latest[keys[i]] + 1]]]
    /\ latest' = Bumped(latest, keys)
    /\ UNCHANGED <<contexts, uvm_lock, returned, streamVars, deviceVars, rowVars, tasks>>

\* max_modify_size keys of the cache at a time; the whole batch when update_accumulate runs on
\* a private stream.  Between two parts the queue stream is synchronised.
ModifyCache(c) ==
    LET a == call[c]
        whole == a.op = "update_accumulate" /\ setup.private_stream
        size == IF whole THEN Len(a.keys) ELSE setup.max_modify_size
        last == Min({a.from + size, Len(a.keys)})
    IN /\ a.at = "cache"
       /\ a.from > 0 => Drained(QueueStream(ModifyStream(c)))
       /\ Run(ModifyStream(c), a.op, SubSeq(a.keys, a.from + 1, last), SubSeq(a.rows, a.from + 1, last), <<>>)
       /\ call' = [call EXCEPT ![c] = [a EXCEPT !.from = last,
                                       !.at = IF last = Len(a.keys) THEN "uvm" ELSE "cache"]]
       /\ UNCHANGED <<contexts, uvm_lock, calls, latest, returned, deviceVars, rowVars, tasks>>

OnCpu(a) == a.op = "update_accumulate" /\ setup.uvm_cpu_accumulate

\* contexts_->create_sync_event()
SyncStreams(c) == {LookupStream(d) : d \in contexts}

\* uvm_table_mutex_ is taken, the lookup streams are recorded, and the update stream waits.
LockUvm(c) ==
    LET m == ModifyStream(c)
        s == QueueStream(m)
        streams == SyncStreams(c)
    IN /\ call[c].at = "uvm"
       /\ IF setup.private_stream
          THEN /\ front' = Depend(front, m, s)
               /\ UNCHANGED uvm_lock
          ELSE /\ uvm_lock = None
               /\ uvm_lock' = c
               /\ front' = WaitAll(front, streams, s)
       /\ call' = [call EXCEPT ![c].at = IF OnCpu(call[c]) THEN "copy" ELSE "kernel", ![c].sync = streams]
       /\ UNCHANGED <<contexts, calls, latest, returned, queue, deviceVars, rowVars, tasks>>

\* Mutant: nothing makes the lookup streams wait for the update.
UvmUpdateEvent_ModifyStream(c, f) == AllWait(f, {ModifyStream(c)}, f[QueueStream(ModifyStream(c))])

\* uvm_update_event: the modify stream and the lookup streams of the sync event wait for it.
UvmUpdateEvent(c, f) ==
    LET s == QueueStream(ModifyStream(c))
        lookups == IF setup.private_stream THEN {} ELSE call[c].sync
    IN AllWait(f, {ModifyStream(c)} \cup lookups, f[s])

Return(c) ==
    /\ call' = [call EXCEPT ![c] = Idle]
    /\ returned' = Bumped(returned, call[c].keys)
    /\ uvm_lock' = IF uvm_lock = c THEN None ELSE uvm_lock
    /\ UNCHANGED <<contexts, calls, latest>>

\* UpdateTable or UpdateAccumulateTable, the event behind it, and the end of the call.
UpdateKernel(c) ==
    LET a == call[c]
        s == QueueStream(ModifyStream(c))
    IN /\ a.at = "kernel"
       /\ queue' = [queue EXCEPT ![s] = Append(@, Kernel("uvm_" \o a.op, a.keys, a.rows, <<>>, front[s]))]
       /\ front' = UvmUpdateEvent(c, Launched(front, s))
       /\ Return(c)
       /\ UNCHANGED <<deviceVars, rowVars, tasks>>

-----------------------------------------------------------------------------
(***************************************************************************)
(* update_accumulate on the CPU.  Many keys: the updates are copied in     *)
(* parts, and a launcher task waits for each copy and submits the tasks    *)
(* that add it.  Few keys: one copy, a synchronisation, one wave of tasks. *)
(***************************************************************************)
CeilDiv(n, d) == (n + d - 1) \div d
Parallel(n) == n >= (setup.num_threads * setup.keys_per_task) \div 2
NumCopies(n) == IF Parallel(n) THEN CeilDiv(n, setup.keys_per_task * setup.num_threads) ELSE 1

\* updates_per_task of a single copy.
UpdatesPerTask(n) == Min({setup.keys_per_task * 2, CeilDiv(n, setup.num_threads)})

TasksOf(n) == IF Parallel(n) THEN setup.num_threads ELSE CeilDiv(n, UpdatesPerTask(n))

\* The keys start_key .. end_key - 1 of task idx of a copy, counted from 1; none, if the range
\* starts behind the last key.
TaskKeys(n, copy, idx) ==
    LET size == IF Parallel(n) THEN setup.keys_per_task ELSE UpdatesPerTask(n)
        start == (IF Parallel(n) THEN copy * setup.keys_per_task * setup.num_threads ELSE 0) + idx * size
    IN {i \in 1 .. n : i - 1 >= start /\ i - 1 < start + size}

\* The copies are queued; the launcher task is submitted.
LaunchCopies(c) ==
    LET n == Len(call[c].keys)
        s == QueueStream(ModifyStream(c))
        copies == [i \in 1 .. NumCopies(n) |->
                      Kernel("copy", <<>>, <<>>, <<>>, [front[s] EXCEPT ![s] = @ + i - 1])]
    IN /\ call[c].at = "copy"
       /\ queue' = [queue EXCEPT ![s] = @ \o copies]
       /\ front' = [front EXCEPT ![s][s] = @ + Len(copies)]
       /\ tasks' = [tasks EXCEPT ![c] = [NoTasks EXCEPT !.copies = NumCopies(n), !.first = front[s][s],
                                         !.remaining = NumCopies(n) * TasksOf(n)]]
       /\ call' = [call EXCEPT ![c].at = "wait"]
       /\ UNCHANGED <<contexts, uvm_lock, calls, latest, returned, deviceVars, rowVars>>

\* cudaEventSynchronize(copy_events.at(i)), or the synchronisation of the stream, and submit_n.
SubmitTasks(c) ==
    LET t == tasks[c]
        n == Len(call[c].keys)
    IN /\ call[c].at = "wait"
       /\ t.launched < t.copies
       /\ done[QueueStream(ModifyStream(c))] > t.first + t.launched
       /\ tasks' = [tasks EXCEPT ![c].launched = @ + 1,
                                 ![c].waiting = @ \cup ({t.launched} \X (0 .. TasksOf(n) - 1))]
       /\ UNCHANGED <<hostVars, streamVars, deviceVars, rowVars>>

\* A task adds to rows in memory, not atomically: it writes what it has read, plus its updates.
StartTask(c) == \E t \in tasks[c].waiting :
    /\ tasks' = [tasks EXCEPT ![c].waiting = @ \ {t}, ![c].writing = @ \cup {<<t[1], t[2], uvm>>}]
    /\ UNCHANGED <<hostVars, streamVars, deviceVars, rowVars>>

FinishTask(c) == \E t \in tasks[c].writing :
    LET keys == {call[c].keys[i] : i \in TaskKeys(Len(call[c].keys), t[1], t[2])}
    IN /\ uvm' = [k \in Keys |-> IF k \in keys THEN t[3][k] + 1 ELSE uvm[k]]
       /\ tasks' = [tasks EXCEPT ![c].writing = @ \ {t}, ![c].remaining = @ - 1]
       /\ UNCHANGED <<hostVars, streamVars, deviceVars, cached>>

\* The last task has released the barrier: future.wait() returns.
Released(c) ==
    LET s == QueueStream(ModifyStream(c))
    IN /\ call[c].at = "wait"
       /\ tasks[c].remaining = 0
       /\ front' = UvmUpdateEvent(c, front)
       /\ tasks' = [tasks EXCEPT ![c] = NoTasks]
       /\ Return(c)
       /\ UNCHANGED <<queue, deviceVars, rowVars>>

-----------------------------------------------------------------------------
(***************************************************************************)
(* The device.  A lookup reads the tags when it starts and the rows of     *)
(* missed keys in the UVM table until it ends.                             *)
(***************************************************************************)
Start(s) ==
    LET k == Head(queue[s])
    IN /\ queue[s] # <<>>
       /\ s \notin running
       /\ \A t \in Streams : k.after[t] <= done[t]
       /\ running' = running \cup {s}
       /\ held' = [held EXCEPT ![s] = IF k.op = "lookup" THEN cached ELSE <<>>]
       /\ UNCHANGED <<hostVars, streamVars, done, rowVars, tasks>>

Applied(rows, k) == [key \in Keys |->
    LET at == {i \in DOMAIN k.keys : k.keys[i] = key}
    IN IF at = {} \/ rows[key] = None THEN rows[key]
       ELSE IF k.op \in {"update", "uvm_update"} THEN k.rows[Max(at)]
       ELSE rows[key] + Cardinality(at)]

Named(k) == {k.keys[i] : i \in DOMAIN k.keys}

InCache == {key \in Keys : cached[key] # None}

\* SetReplaceDataKernel: the keys that are in the cache keep their rows; of the others some
\* are stored, each in a free way or in that of a key with a smaller counter.
Replaced(k) ==
    {[key \in Keys |-> IF key \in new THEN k.rows[CHOOSE i \in DOMAIN k.keys : k.keys[i] = key]
                        ELSE IF key \in old THEN None ELSE cached[key]] :
        <<new, old>> \in {p \in (SUBSET (Named(k) \ InCache)) \X (SUBSET InCache) :
                              Cardinality(p[2]) <= Cardinality(p[1])}}

\* What a finished kernel may leave in the cache.
CacheAfter(k) ==
    CASE k.op \in {"update", "update_accumulate"} -> {Applied(cached, k)}
      [] k.op = "drop" -> {[key \in Keys |-> IF key \in Named(k) THEN None ELSE cached[key]]}
      [] k.op = "insert" -> Replaced(k)
      [] OTHER -> {cached}

Finish(s) ==
    LET k == Head(queue[s])
    IN /\ s \in running
       /\ running' = running \ {s}
       /\ queue' = [queue EXCEPT ![s] = Tail(@)]
       /\ done' = [done EXCEPT ![s] = @ + 1]
       /\ held' = [held EXCEPT ![s] = <<>>]
       /\ cached' \in CacheAfter(k)
       /\ uvm' = IF k.op \in {"uvm_update", "uvm_update_accumulate"} THEN Applied(uvm, k) ELSE uvm
       /\ UNCHANGED <<hostVars, front, tasks>>

Step(c) ==
    \/ create_execution_context(c) \/ destroy_execution_context(c)
    \/ find(c) \/ find_and_combine(c) \/ insert(c) \/ erase(c) \/ clear(c) \/ modify(c)
    \/ ModifyCache(c) \/ LockUvm(c) \/ UpdateKernel(c)
    \/ LaunchCopies(c) \/ SubmitTasks(c) \/ StartTask(c) \/ FinishTask(c) \/ Released(c)

AnyStep == (\E c \in Contexts : Step(c)) \/ (\E s \in Streams : Start(s) \/ Finish(s))
Next == UNCHANGED setup /\ AnyStep

\* The call of c goes on, in its thread or in the pool's workers.
Continues(c) ==
    \/ ModifyCache(c) \/ UpdateKernel(c) \/ LaunchCopies(c) \/ SubmitTasks(c)
    \/ StartTask(c) \/ FinishTask(c) \/ Released(c)

-----------------------------------------------------------------------------
TypeOK ==
    /\ contexts \subseteq Contexts
    /\ uvm_lock \in Contexts \cup {None}
    /\ \A c \in Contexts : call[c].at \in {"idle", "cache", "uvm", "kernel", "copy", "wait"}
    /\ \A c \in Contexts : tasks[c].remaining \in Nat
    /\ cached \in [Keys -> Nat \cup {None}] /\ uvm \in [Keys -> Nat]
    /\ running \subseteq Streams

UvmUpdates == {s \in running : Head(queue[s]).op \in {"uvm_update", "uvm_update_accumulate"}}
RunningLookups == {s \in running : Head(queue[s]).op = "lookup"}
ReadFromUvm(s) == {key \in Named(Head(queue[s])) : held[s][key] = None}

\* The keys whose rows in the UVM table the CPU tasks of c are writing.
WrittenByTasks(c) ==
    {call[c].keys[i] : i \in UNION {TaskKeys(Len(call[c].keys), t[1], t[2]) : t \in tasks[c].writing}}

\* Whether the lookup that runs on s was queued behind the copies of c's accumulation.
QueuedLater(s, c) == setup.private_stream /\ done[s] >= tasks[c].first + tasks[c].copies

\* The rows of the UVM table have one writer at a time: the updates of all contexts, kernels
\* and CPU tasks, are ordered, by way of the lookup streams that each of them waits for and
\* makes wait, or by the private stream; and no lookup reads a row that an update is writing.
\* The code does not order one pair: on a private stream nothing waits for the CPU tasks of
\* an accumulation, and a lookup of another context that is queued while they run may read
\* what they write, and another context's update may write it too.
NoTornRow ==
    /\ Cardinality(UvmUpdates) <= 1
    /\ \A c \in Contexts : WrittenByTasks(c) # {} /\ ~setup.private_stream =>
          UvmUpdates = {} /\ \A d \in Contexts \ {c} : WrittenByTasks(d) = {}
    /\ \A s \in RunningLookups :
          /\ \A t \in UvmUpdates : ReadFromUvm(s) \cap Named(Head(queue[t])) = {}
          /\ \A c \in Contexts : QueuedLater(s, c) \/ ReadFromUvm(s) \cap WrittenByTasks(c) = {}

\* A lookup that was queued after an update had returned reads the updated row, from the cache
\* or from the UVM table, and never one that no update has written.
LookupIsFresh ==
    \A s \in RunningLookups : \A key \in Named(Head(queue[s])) :
        LET row == IF held[s][key] = None THEN uvm[key] ELSE held[s][key]
        IN row >= Head(queue[s]).floor[key] /\ row <= latest[key]

\* When all is done, the UVM table has every update once, and so have the rows in the cache.
TableHasUpdates ==
    Quiet => \A key \in Keys : uvm[key] = latest[key] /\ cached[key] \in {None, latest[key]}
=============================================================================
