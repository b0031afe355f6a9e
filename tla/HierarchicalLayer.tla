-------------------------- MODULE HierarchicalLayer --------------------------
(***************************************************************************)
(* HierarchicalEmbeddingLayer (src/hierarchical_embedding_layer.cu) with   *)
(* one AutoInsertHandler (src/layer_utils.cpp) per table.  A lookup asks   *)
(* the tables in turn and offers what it found to every handler; a handler *)
(* collects keys and rows until it has enough of them and then inserts     *)
(* them into its table from a task of the thread pool.  The layer's modify *)
(* operations go through the tables in turn, each under insert_lock_ of    *)
(* the table's handler, except insert, which takes no lock.  An operation  *)
(* other than clear can be asked for one table only (table_id).            *)
(*                                                                         *)
(* A table is a map and its operations are atomic (CacheSADeviceModify and *)
(* CacheSAHostModify are about what is behind that).  A GPU table ignores  *)
(* inserted keys it already has and copies the rows of the others after    *)
(* insert has returned, straight from the handler's buffer; a host table   *)
(* overwrites and copies at once.  A row is a pair of its key and a        *)
(* number, so a row under the wrong key shows.  LinearUVMEmbeddingLayer    *)
(* uses its one handler in the same way.                                   *)
(***************************************************************************)
EXTENDS Naturals, Sequences

CONSTANTS
    Keys,           \* keys
    N,              \* number of tables; table N is the backing store
    Gpu,            \* the tables on the GPU
    MayEvict,       \* the tables that may drop keys
    InsertTables,   \* the tables the heuristic may want an insert for
    MinInsertSize,  \* min_insert_size_
    MinInsertWait,  \* min_insert_wait_
    Callers,        \* threads, each with an execution context of its own
    Batches,        \* the sequences of keys a lookup asks for
    Strides,        \* the output strides of the lookups
    ModifyOps,      \* the modify operations that are called
    TableIds,       \* their table_id: one table, or 0 (a negative number in the code) for all
    OutputOnHost,   \* are the output buffers of the lookups in host memory?
    MaxVersion,     \* bound: numbers of the rows
    Exclusive,      \* does a caller start only when no other call is in progress?
    WaitsEach,      \* does a caller wait() on its context after every lookup?
    MayThrow,       \* may a table operation throw?
    None

Tables == 1 .. N
Rows == Keys \X (0 .. MaxVersion)
InvalidKey == None
Garbage == <<None, 0>>    \* what a buffer holds where nothing was written
AnyRow == Rows \cup {Garbage, None}

ASSUME TablesAssumption == N \in Nat \ {0} /\ Gpu \subseteq Tables /\ InsertTables \subseteq Tables
ASSUME TableIdsAssumption == TableIds \subseteq 0 .. N
\* The constructor refuses a GPU table after a host table.
ASSUME GpuFirstAssumption == \A t \in Gpu : 1 .. t \subseteq Gpu
ASSUME SizesAssumption == MinInsertSize \in Nat /\ MinInsertWait \in Nat /\ MaxVersion \in Nat
ASSUME NoneAssumption == None \notin Keys \cup Rows \cup Callers \cup {"task"}
ASSUME CallersAssumption == "task" \notin Callers
ASSUME BatchesAssumption == Batches \subseteq Seq(Keys)

VARIABLES
    table,            \* table[t]: the row of every key, or None
    insert_lock,      \* insert_lock[t]: who holds insert_lock_ of the handler
    collected,        \* collected[t]: insert_keys_ up to collected_keys_
    insert_data,      \* insert_data[t]: insert_data_, the whole buffer
    collected_stride, \* collected_output_stride_
    insert_freq_cnt,  \* insert_freq_cnt_
    task,             \* task[t]: "none", "queued" or "inserted", the insert in the thread pool
    copying,          \* copying[t]: keys whose rows a GPU table has yet to copy, with their index
    pc,               \* pc[c]: what the caller is doing
    call,             \* call[c]: the arguments of its call and the table it is at
    partial           \* history: the keys that were modified in one table only

handlerVars == <<insert_lock, collected, insert_data, collected_stride, insert_freq_cnt>>
vars == <<table, handlerVars, task, copying, pc, call, partial>>

NoCall == [op |-> "none", keys |-> <<>>, rows |-> <<>>, device |-> {}, stride |-> 0, table_id |-> 0, at |-> 0]

Init ==
    /\ table = [t \in Tables |-> [k \in Keys |-> IF t = N THEN <<k, 0>> ELSE None]]
    /\ insert_lock = [t \in Tables |-> None]
    /\ collected = [t \in Tables |-> <<>>]
    /\ insert_data = [t \in Tables |-> <<>>]
    /\ collected_stride = [t \in Tables |-> 0]
    /\ insert_freq_cnt = [t \in Tables |-> 0]
    /\ task = [t \in Tables |-> "none"]
    /\ copying = [t \in Tables |-> {}]
    /\ pc = [c \in Callers |-> "idle"]
    /\ call = [c \in Callers |-> NoCall]
    /\ partial = {}

\* LayerExecutionContext::wait: the insert tasks have ended and the streams are drained.
Waited == \A t \in Tables : task[t] = "none" /\ copying[t] = {}

\* When a caller makes its next call: a context serves one call at a time.
MayStart(c) ==
    /\ pc[c] = "idle"
    /\ Exclusive => \A d \in Callers : pc[d] = "idle"
    /\ WaitsEach => Waited

\* The loop over the tables: on to the next one, or done.  With a table_id there is no loop.
NextTable(c, loop, done) ==
    IF call[c].table_id = 0 /\ call[c].at < N
    THEN /\ pc' = [pc EXCEPT ![c] = loop]
         /\ call' = [call EXCEPT ![c].at = @ + 1]
    ELSE done

Return(c) ==
    /\ pc' = [pc EXCEPT ![c] = "idle"]
    /\ call' = [call EXCEPT ![c] = NoCall]

-----------------------------------------------------------------------------
(***************************************************************************)
(* lookup                                                                  *)
(***************************************************************************)
lookup(c, ks, stride) ==
    /\ MayStart(c)
    /\ pc' = [pc EXCEPT ![c] = "find"]
    /\ call' = [call EXCEPT ![c] = [op |-> "lookup", keys |-> ks, rows |-> [i \in DOMAIN ks |-> None],
                                    device |-> {}, stride |-> stride, table_id |-> 0, at |-> 1]]
    /\ UNCHANGED <<table, handlerVars, task, copying, partial>>

\* Table::find for the keys no table has resolved so far; then the handlers.  A GPU table
\* writes its rows to the output buffer on the device, a host table to the one on the host.
find(c) ==
    /\ pc[c] = "find"
    /\ LET a == call[c]
           found == [i \in DOMAIN a.keys |->
                       IF a.rows[i] # None THEN a.rows[i] ELSE table[a.at][a.keys[i]]]
           device == IF a.at \in Gpu THEN {i \in DOMAIN a.keys : found[i] # None} ELSE a.device
           next == IF a.at < N THEN a.at + 1 ELSE 1
       IN /\ call' = [call EXCEPT ![c].rows = found, ![c].device = device, ![c].at = next]
          /\ pc' = [pc EXCEPT ![c] = IF a.at < N THEN "find" ELSE "auto_insert"]
    /\ UNCHANGED <<table, handlerVars, task, copying, partial>>

max(m, n) == IF m >= n THEN m ELSE n
min(m, n) == IF m <= n THEN m ELSE n

\* Mutant: a running collection grows by whole batches.
CollectionSize_Grows(t, n) == max(Len(collected[t]) + n, MinInsertSize)

\* collection_total_size: a collection in progress is never made larger.
CollectionSize(t, n) == IF collected[t] = <<>> THEN max(n, MinInsertSize) ELSE MinInsertSize

\* A key no table resolved is collected as the invalid key.
CollectedKey(c, i) == IF call[c].rows[i] = None THEN InvalidKey ELSE call[c].keys[i]

\* collection_part_size
PartSize(c, t) ==
    LET n == Len(call[c].keys) IN min(n, CollectionSize(t, n) - Len(collected[t]))

\* ResizeableBuffer::get_ptr: a larger buffer does not keep the contents.
Buffer(t, size) ==
    IF size <= Len(insert_data[t]) THEN insert_data[t] ELSE [i \in 1 .. size |-> Garbage]

\* Does the buffer that collect_keys_and_data copies from have the rows of all tables?  It is
\* the one of the memory the last table read the keys in.  After a host table that is the
\* host's, which gets the rows of the GPU tables only when it is the caller's own, with the
\* copy of the combined output at the end of the lookup.
OutputCombined == Gpu = {} \/ N \in Gpu \/ OutputOnHost

\* That buffer's row of the i-th key, if it was written.
OutputRow(c, i) ==
    IF call[c].rows[i] = None \/ (i \in call[c].device /\ ~OutputCombined) THEN Garbage
    ELSE call[c].rows[i]

\* collect_keys_and_data
Collect(c, t) ==
    LET first == Len(collected[t])
        part == PartSize(c, t)
        buffer == Buffer(t, CollectionSize(t, Len(call[c].keys)))
    IN /\ collected' = [collected EXCEPT ![t] = @ \o [i \in 1 .. part |-> CollectedKey(c, i)]]
       /\ insert_data' = [insert_data EXCEPT ![t] = [i \in DOMAIN buffer |->
                             IF i \in first + 1 .. first + part THEN OutputRow(c, i - first)
                             ELSE buffer[i]]]

\* auto_insert when another thread, or a launched insert, has the lock.
AutoInsertBusy(c) ==
    /\ pc[c] = "auto_insert"
    /\ insert_lock[call[c].at] # None
    /\ NextTable(c, "auto_insert", Return(c))
    /\ UNCHANGED <<table, handlerVars, task, copying, partial>>

\* Mutant: the counter goes on below zero.
CountDown_Unclamped(n) == n - 1

\* --insert_freq_cnt_, and no further than zero.
CountDown(n) == IF n > 0 THEN n - 1 ELSE 0

\* auto_insert when nothing is to be collected: the lock is taken and released.
AutoInsertNotNeeded(c) ==
    LET t == call[c].at IN
    /\ pc[c] = "auto_insert"
    /\ insert_lock[t] = None
    /\ collected[t] = <<>>
    /\ insert_freq_cnt' = [insert_freq_cnt EXCEPT ![t] = CountDown(@)]
    /\ NextTable(c, "auto_insert", Return(c))
    /\ UNCHANGED <<table, insert_lock, collected, insert_data, collected_stride, task, copying, partial>>

\* auto_insert that collects, and launches an insert once it has enough; the lock then stays
\* with the task.
AutoInsertCollects(c) ==
    LET t == call[c].at
        enough == Len(collected[t]) + PartSize(c, t) >= MinInsertSize
    IN
    /\ pc[c] = "auto_insert"
    /\ insert_lock[t] = None
    /\ IF collected[t] = <<>>
       THEN /\ insert_freq_cnt[t] = 0 /\ t \in InsertTables
            /\ collected_stride' = [collected_stride EXCEPT ![t] = call[c].stride]
       ELSE /\ collected_stride[t] = call[c].stride
            /\ UNCHANGED collected_stride
    /\ Collect(c, t)
    /\ insert_lock' = [insert_lock EXCEPT ![t] = IF enough THEN "task" ELSE None]
    /\ task' = [task EXCEPT ![t] = IF enough THEN "queued" ELSE @]
    /\ NextTable(c, "auto_insert", Return(c))
    /\ UNCHANGED <<table, insert_freq_cnt, copying, partial>>

\* A lookup with another output stride throws in the middle of a collection, with the lock.
AutoInsertThrows(c) ==
    LET t == call[c].at IN
    /\ pc[c] = "auto_insert"
    /\ insert_lock[t] = None
    /\ collected[t] # <<>>
    /\ collected_stride[t] # call[c].stride
    /\ insert_lock' = [insert_lock EXCEPT ![t] = c]
    /\ Return(c)
    /\ UNCHANGED <<table, collected, insert_data, collected_stride, insert_freq_cnt, task, copying, partial>>

-----------------------------------------------------------------------------
(***************************************************************************)
(* The insert task                                                         *)
(***************************************************************************)
\* What an insert of the keys ks with rows rs may make of a host table: the keys are
\* overwritten, the last row of a key counts, and keys may be dropped.
HostInserts(t, ks, rs) ==
    LET at(k) == {i \in DOMAIN ks : ks[i] = k}
    IN {f \in [Keys -> AnyRow] : \A k \in Keys :
           \/ at(k) = {} /\ f[k] = table[t][k]
           \/ \E i \in at(k) : (\A j \in at(k) : j <= i) /\ f[k] = rs[i]
           \/ t \in MayEvict /\ f[k] = None}

\* A GPU table picks some of the absent keys, each with the index of its row.
GpuPicks(t, ks) ==
    {s \in SUBSET {x \in Keys \X DOMAIN ks : ks[x[2]] = x[1] /\ table[t][x[1]] = None} :
        \A x, y \in s : x[1] = y[1] => x = y}

\* It drops keys to make room.
GpuDrops(t) == {[k \in Keys |-> IF k \in d THEN None ELSE table[t][k]] :
                   d \in IF t \in MayEvict THEN SUBSET Keys ELSE {{}}}

\* The insert of a GPU table waits for the modify stream before it picks its keys.
TaskInserts(t) ==
    /\ task[t] = "queued"
    /\ task' = [task EXCEPT ![t] = "inserted"]
    /\ \/ /\ t \notin Gpu
          /\ \E f \in HostInserts(t, collected[t], insert_data[t]) : table' = [table EXCEPT ![t] = f]
          /\ UNCHANGED copying
       \/ /\ t \in Gpu
          /\ copying[t] = {}
          /\ \E s \in GpuPicks(t, collected[t]) : copying' = [copying EXCEPT ![t] = s]
          /\ \E f \in GpuDrops(t) : table' = [table EXCEPT ![t] = f]
    /\ UNCHANGED <<handlerVars, pc, call, partial>>

\* Mutant: the task does not release the lock.
TaskEnds_KeepsLock(t) ==
    /\ task[t] = "inserted"
    /\ task' = [task EXCEPT ![t] = "none"]
    /\ insert_freq_cnt' = [insert_freq_cnt EXCEPT ![t] = MinInsertWait]
    /\ collected' = [collected EXCEPT ![t] = <<>>]
    /\ UNCHANGED <<table, insert_lock, insert_data, collected_stride, copying, pc, call, partial>>

TaskEnds(t) ==
    /\ task[t] = "inserted"
    /\ task' = [task EXCEPT ![t] = "none"]
    /\ insert_freq_cnt' = [insert_freq_cnt EXCEPT ![t] = MinInsertWait]
    /\ collected' = [collected EXCEPT ![t] = <<>>]
    /\ insert_lock' = [insert_lock EXCEPT ![t] = None]
    /\ UNCHANGED <<table, insert_data, collected_stride, copying, pc, call, partial>>

\* The exception goes to the future; the task ends there.
TaskThrows(t) ==
    /\ MayThrow
    /\ task[t] = "queued"
    /\ task' = [task EXCEPT ![t] = "none"]
    /\ UNCHANGED <<table, handlerVars, copying, pc, call, partial>>

\* The rows are copied as they are in the buffer by then, and their tags are written.
CopyRows(t) ==
    /\ copying[t] # {}
    /\ table' = [table EXCEPT ![t] = [k \in Keys |->
                    IF \E x \in copying[t] : x[1] = k
                    THEN insert_data[t][(CHOOSE x \in copying[t] : x[1] = k)[2]]
                    ELSE @[k]]]
    /\ copying' = [copying EXCEPT ![t] = {}]
    /\ UNCHANGED <<handlerVars, task, pc, call, partial>>

-----------------------------------------------------------------------------
(***************************************************************************)
(* The modify operations, one key each                                     *)
(***************************************************************************)
\* An insert into all tables is only made for a key that none of them has: see the warning at
\* EmbeddingLayerBase::insert.
modify(c, op, k, v, id) ==
    /\ MayStart(c)
    /\ op = "insert" /\ id = 0 => \A t \in Tables : table[t][k] = None
    /\ op = "accumulate" => \A t \in Tables :
          <<k, MaxVersion>> \notin {table[t][k]} \cup {insert_data[t][i] : i \in DOMAIN collected[t]}
    /\ op \in {"erase", "clear", "accumulate"} => v = 0
    /\ op = "clear" => id = 0
    /\ pc' = [pc EXCEPT ![c] = IF op = "insert" THEN "apply" ELSE "lock"]
    /\ call' = [call EXCEPT ![c] = [op |-> op, keys |-> <<k>>, rows |-> <<<<k, v>>>>, device |-> {},
                                    stride |-> 0, table_id |-> id, at |-> IF id = 0 THEN 1 ELSE id]]
    /\ partial' = IF id = 0 THEN partial ELSE partial \cup {k}
    /\ UNCHANGED <<table, handlerVars, task, copying>>

\* Mutant: lock_modify only tries the lock.
lock_modify_Tries(c) ==
    /\ pc[c] = "lock"
    /\ insert_lock' = [insert_lock EXCEPT ![call[c].at] = c]
    /\ pc' = [pc EXCEPT ![c] = "apply"]
    /\ UNCHANGED <<table, collected, insert_data, collected_stride, insert_freq_cnt, task, copying, call, partial>>

lock_modify(c) ==
    /\ pc[c] = "lock"
    /\ insert_lock[call[c].at] = None
    /\ insert_lock' = [insert_lock EXCEPT ![call[c].at] = c]
    /\ pc' = [pc EXCEPT ![c] = "apply"]
    /\ UNCHANGED <<table, collected, insert_data, collected_stride, insert_freq_cnt, task, copying, call, partial>>

\* The operation on one table; only insert is left to the table's choice.
Applied(t, op, k, row) ==
    LET has == table[t][k] # None IN
    CASE op = "insert" ->
           IF t \in Gpu /\ has THEN {table[t]} ELSE HostInserts(t, <<k>>, <<row>>)
      [] op = "update" /\ has -> {[table[t] EXCEPT ![k] = row]}
      [] op = "accumulate" /\ has -> {[table[t] EXCEPT ![k] = <<k, @[2] + 1>>]}
      [] op = "erase" -> {[table[t] EXCEPT ![k] = None]}
      [] op = "clear" -> {[j \in Keys |-> None]}
      [] OTHER -> {table[t]}

\* Mutant: unlock_modify keeps what has been collected.
unlock_modify_KeepsCollection(c, t) ==
    /\ insert_lock' = [insert_lock EXCEPT ![t] = None]
    /\ UNCHANGED collected

\* Mutant: unlock_modify drops the collection and forgets the lock.
unlock_modify_KeepsLock(c, t) ==
    /\ collected' = [collected EXCEPT ![t] = <<>>]
    /\ UNCHANGED insert_lock

\* unlock_modify: what has been collected is not valid any more.
unlock_modify(c, t) ==
    /\ insert_lock' = [insert_lock EXCEPT ![t] = None]
    /\ collected' = [collected EXCEPT ![t] = <<>>]

\* A GPU table waits for the rows it is copying.  insert holds no lock and drops nothing.
ApplyModify(c) ==
    LET a == call[c] IN
    /\ pc[c] = "apply"
    /\ copying[a.at] = {}
    /\ \E f \in Applied(a.at, a.op, a.keys[1], a.rows[1]) : table' = [table EXCEPT ![a.at] = f]
    /\ IF a.op = "insert" THEN UNCHANGED <<insert_lock, collected>> ELSE unlock_modify(c, a.at)
    /\ NextTable(c, IF a.op = "insert" THEN "apply" ELSE "lock", Return(c))
    /\ UNCHANGED <<insert_data, collected_stride, insert_freq_cnt, task, copying, partial>>

\* A table operation that throws leaves the lock behind.
ModifyThrows(c) ==
    /\ MayThrow
    /\ pc[c] = "apply"
    /\ Return(c)
    /\ UNCHANGED <<table, handlerVars, task, copying, partial>>

-----------------------------------------------------------------------------
CallerNext(c) ==
    \/ \E ks \in Batches, s \in Strides : lookup(c, ks, s)
    \/ find(c)
    \/ AutoInsertBusy(c)
    \/ AutoInsertNotNeeded(c)
    \/ AutoInsertCollects(c)
    \/ \E op \in ModifyOps, k \in Keys, v \in 0 .. MaxVersion : \E id \in TableIds : modify(c, op, k, v, id)
    \/ lock_modify(c)
    \/ ApplyModify(c)

\* What happens as long as nothing throws and all tables are on the host.
HostNext ==
    \/ \E c \in Callers : CallerNext(c)
    \/ \E t \in Tables : TaskInserts(t) \/ TaskEnds(t)

Next ==
    \/ HostNext
    \/ \E c \in Callers : AutoInsertThrows(c) \/ ModifyThrows(c)
    \/ \E t \in Tables : TaskThrows(t) \/ CopyRows(t)

Spec == Init /\ [][Next]_vars

\* The thread pool runs its tasks, and a caller inside a call goes on.  The condition variable
\* of TestableMutex wakes every waiter: strong fairness.  After an exception none of this is of
\* use: the lock stays taken.
FairSpec ==
    /\ Init /\ [][HostNext]_vars
    /\ \A t \in Tables : WF_vars(TaskInserts(t)) /\ WF_vars(TaskEnds(t))
    /\ \A c \in Callers :
          /\ WF_vars(find(c))
          /\ WF_vars(AutoInsertBusy(c) \/ AutoInsertNotNeeded(c) \/ AutoInsertCollects(c))
          /\ SF_vars(lock_modify(c))
          /\ WF_vars(ApplyModify(c))

-----------------------------------------------------------------------------
\* The variables hold values of their types, and a collection fits the buffers it was made for.
TypeOK ==
    /\ table \in [Tables -> [Keys -> AnyRow]]
    /\ insert_lock \in [Tables -> Callers \cup {"task", None}]
    /\ \A t \in Tables :
          /\ collected[t] \in Seq(Keys \cup {InvalidKey})
          /\ insert_data[t] \in Seq(AnyRow)
          /\ copying[t] \subseteq Keys \X (1 .. Len(insert_data[t]))
          /\ Len(collected[t]) <= Len(insert_data[t])
          /\ insert_freq_cnt[t] \in 0 .. MinInsertWait
          /\ task[t] \in {"none", "queued", "inserted"}
    /\ pc \in [Callers -> {"idle", "find", "auto_insert", "lock", "apply"}]
    /\ \A c \in Callers : pc[c] # "idle" => call[c].at \in Tables
    /\ partial \subseteq Keys

\* No table ever holds the row of another key: the keys and the rows of a collection stay
\* aligned over several lookups, and keys that were not found are not inserted.
RowsMatchKeys ==
    \A t \in Tables, k \in Keys : table[t][k] # None => table[t][k][1] = k

Quiet == (\A c \in Callers : pc[c] = "idle") /\ Waited

\* When nothing is going on, no table disagrees with the backing store about a key, unless a
\* modify operation was asked for that key in one table only.
Coherent ==
    Quiet => \A t \in Tables, k \in Keys \ partial :
                table[t][k] # None /\ table[N][k] # None => table[t][k] = table[N][k]

\* What a handler has collected when no call is in progress is what the backing store holds:
\* unlock_modify has dropped what a modify operation made invalid.
CollectedIsCurrent ==
    (\A c \in Callers : pc[c] = "idle") =>
        \A t \in Tables : \A i \in DOMAIN collected[t] :
            LET k == collected[t][i] IN
            k \notin partial \cup {InvalidKey} /\ table[N][k] # None => insert_data[t][i] = table[N][k]

\* insert_lock_ prevents a modify operation in parallel to an auto-insert of the same table.
NoModifyDuringAutoInsert ==
    \A c \in Callers, t \in Tables : ~(pc[c] = "apply" /\ call[c].at = t /\ task[t] # "none")

\* insert_lock_ is always released in the end, by the thread that took it or by the insert
\* it launched.
LockIsReleased == \A t \in Tables : insert_lock[t] # None ~> insert_lock[t] = None

\* Every modify operation of the layer returns.
ModifyReturns == \A c \in Callers : pc[c] \in {"lock", "apply"} ~> pc[c] = "idle"
=============================================================================
