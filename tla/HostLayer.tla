----------------------------- MODULE HostLayer -----------------------------
(***************************************************************************)
(* HostEmbeddingLayer over one host table, and the CPU kernels it runs:    *)
(* cpu_kernel_gather, cpu_kernel_update, cpu_kernel_update_accumulate and  *)
(* cpu_kernel_pooling / cpu_kernel_concatenate with their type dispatch.   *)
(*                                                                         *)
(* A call runs on the caller's thread; a kernel cuts its rows into tasks   *)
(* that the thread pool runs in any interleaving, one row a step here.     *)
(* The lookup stream holds the copies to the caller's buffers that         *)
(* cudaMemcpyAsync has queued and the device has not done.                 *)
(*                                                                         *)
(* Numbers are integers in units of 1/Unit; a half keeps the multiples of  *)
(* HalfStep, so converting a float to a half rounds.  A mask word has      *)
(* MaskBits bits (64 in the code).                                         *)
(***************************************************************************)
EXTENDS Integers, Sequences, FiniteSets, FiniteSetsExt, Functions

CONSTANTS Keys,      \* the keys of the table
          None,      \* no value
          MaskBits,  \* bits in a max_bitmask_repr_t
          HalfStep,  \* distance between two numbers a half can hold
          Setups     \* the tables, layers and calls explored

VARIABLES setup,     \* the table, layer configuration and calls of this behaviour
          table,     \* emb_table or the map: key -> row
          call,      \* the call in progress, or None
          todo,      \* the kernel's tasks: each the rows it still has to do
          gather,    \* the gather buffer: position -> row
          hit_mask,  \* the mask words' set bits: the positions found
          counter,   \* the context's lookup counter
          slot,      \* the context's "output" host buffer: position -> elements
          outputs,   \* the caller's output of each lookup: position -> elements
          stream,    \* copies queued on the lookup stream
          calls,     \* calls made
          asked      \* history: the lookups, with the table they were made on

vars == <<setup, table, call, todo, gather, hit_mask, counter, slot, outputs, stream, calls, asked>>

(***************************************************************************)
(* Value types.                                                            *)
(***************************************************************************)
Quantized == {"QInt8RowwiseF32", "QInt8RowwiseF16", "QUint8RowwiseF32", "QUint8RowwiseF16"}

is_quant_rowwise(t) == t \in Quantized

HasOffset(t) == t \in {"QUint8RowwiseF32", "QUint8RowwiseF16"}

scale_bytes(t) == IF t \in {"QInt8RowwiseF32", "QUint8RowwiseF32"} THEN 4 ELSE 2

meta_bytes(t) == (IF HasOffset(t) THEN 2 ELSE 1) * scale_bytes(t)

dtype_size(t) == IF t = "Float32" THEN 4 ELSE IF t = "Float16" THEN 2 ELSE 1

RowSize == IF is_quant_rowwise(setup.type) THEN setup.width + meta_bytes(setup.type)
           ELSE setup.width * dtype_size(setup.type)

\* pooling_from_float: a half drops what its precision cannot hold.
from_float(t, v) == IF t = "Float16" THEN HalfStep * (v \div HalfStep) ELSE v

\* The float value of element e of a stored row.
Dequant(row, e) == row.v[e] * row.scale + (IF HasOffset(setup.type) THEN row.offset ELSE 0)

to_float(row, e) == IF is_quant_rowwise(setup.type) THEN Dequant(row, e) ELSE row.v[e]

(***************************************************************************)
(* The parameters of a lookup: what is accepted, and the bags.             *)
(***************************************************************************)
concat(p) == p.pooling = "Concatenate"

out_dtype(p) == IF p.output_type # "Unknown" THEN p.output_type
                ELSE IF is_quant_rowwise(setup.type) THEN "Float32" ELSE setup.type

min_output_stride(p) == IF concat(p) /\ out_dtype(p) = setup.type THEN RowSize
                        ELSE setup.width * dtype_size(out_dtype(p))

PoolingAccepted(p) ==
  /\ out_dtype(p) \in {"Float32", "Float16"} \/ (concat(p) /\ out_dtype(p) = setup.type)
  /\ p.output_stride >= min_output_stride(p)
  /\ concat(p) \/ ( /\ Len(p.key_indices) > 0
                    /\ p.sparse = "Fixed" =>
                         /\ p.key_indices[1] > 0
                         /\ Len(p.keys) % p.key_indices[1] = 0 )

\* Same-type Concatenate is a plain gather: the layer drops the parameters.
Pools(p) == p.pooling # "None" /\ ~(concat(p) /\ out_dtype(p) = setup.type)

fixed_hotness(p) == IF p.pooling = "None" \/ concat(p) THEN 1 ELSE p.key_indices[1]

num_bags(p) == IF p.pooling = "None" \/ concat(p) THEN Len(p.keys)
               ELSE IF p.sparse = "Fixed" THEN Len(p.keys) \div fixed_hotness(p)
               ELSE Len(p.key_indices) - 1

\* The first and last position of bag b (positions count from 1, bags too).
BagSpan(p, b) == IF p.sparse = "Fixed" \/ concat(p)
                 THEN ((b - 1) * fixed_hotness(p) + 1) .. (b * fixed_hotness(p))
                 ELSE (p.key_indices[b] + 1) .. p.key_indices[b + 1]

weighted(p) == p.pooling \in {"WeightedSum", "WeightedMean"}

mean(p) == p.pooling \in {"Mean", "WeightedMean"}

weight(p, k) == IF weighted(p) THEN p.weights[k] ELSE 1

\* An output row of decoded elements, without the scale and offset of a raw row.
Decoded(elements) == [v |-> elements, scale |-> None, offset |-> None]

Elements(n) == Decoded([e \in 1 .. setup.width |-> n])

PooledBag_SumOfCounts(p, rows, b) ==
  LET span == BagSpan(p, b)
      acc(e) == MapThenSumSet(LAMBDA k : to_float(rows[k], e) * weight(p, k), span)
  IN  IF span = {} THEN Elements(0)
      ELSE Decoded([e \in 1 .. setup.width |-> from_float(out_dtype(p),
                      IF mean(p) THEN acc(e) \div Cardinality(span) ELSE acc(e))])

\* One output row of cpu_kernel_pooling, from the gathered rows: an empty bag is
\* zero, and so is a mean whose denominator is zero.
PooledBag(p, rows, b) ==
  LET span == BagSpan(p, b)
      acc(e) == MapThenSumSet(LAMBDA k : to_float(rows[k], e) * weight(p, k), span)
      denom == IF ~mean(p) THEN 1
               ELSE IF weighted(p) THEN MapThenSumSet(LAMBDA k : weight(p, k), span)
               ELSE Cardinality(span)
  IN  IF span = {} \/ denom = 0 THEN Elements(0)
      ELSE Decoded([e \in 1 .. setup.width |-> from_float(out_dtype(p), acc(e) \div denom)])

\* One output row of cpu_kernel_concatenate: converted or dequantized, not reduced.
ConcatenatedRow(p, rows, b) ==
  Decoded([e \in 1 .. setup.width |-> from_float(out_dtype(p), to_float(rows[b], e))])

OutputRow(p, rows, b) == IF concat(p) THEN ConcatenatedRow(p, rows, b) ELSE PooledBag(p, rows, b)

(***************************************************************************)
(* Tasks.                                                                  *)
(***************************************************************************)
CeilDiv(a, b) == (a + b - 1) \div b

\* The positions of task t when each task owns `per` of n positions.
TaskSpan(t, per, n) == (t * per + 1) .. Min({(t + 1) * per, n})

\* Fill, pooling and concatenation: as many tasks as cover the rows.
RowTasks(n) ==
  LET per == Max({1, CeilDiv(n, setup.num_workers)})
  IN  [t \in 0 .. CeilDiv(n, per) - 1 |-> TaskSpan(t, per, n)]

num_threads == Min({setup.num_workers, setup.max_threads})

keys_per_task_Unaligned(n) == CeilDiv(n, num_threads)

\* Gather: a task's share is rounded up to whole mask words.
keys_per_task(n) == CeilDiv(CeilDiv(n, num_threads), MaskBits) * MaskBits

GatherTasks(n) == [t \in 0 .. num_threads - 1 |-> TaskSpan(t, keys_per_task(n), n)]

\* The position of the mask bit that task t tests for position i: the word is
\* counted from the word its share begins in.
MaskPosition(t, i, n) ==
  LET base_key == t * keys_per_task(n)
      off == i - 1 - base_key
  IN  (base_key \div MaskBits + off \div MaskBits) * MaskBits + (off % MaskBits) + 1

UpdateTasks(n) == LET per == CeilDiv(n, num_threads)
                  IN  [t \in 0 .. num_threads - 1 |-> TaskSpan(t, per, n)]

AllDone == \A t \in DOMAIN todo : todo[t] = {}

Pending == {t \in DOMAIN todo : todo[t] # {}}

\* A task takes its rows in order.
Take(t) == Min(todo[t])

Taken(t) == [todo EXCEPT ![t] = @ \ {Min(@)}]

NoTasks == <<>>

(***************************************************************************)
(* Buffers.                                                                *)
(***************************************************************************)
\* access_buffer(cudaMemoryTypeUnregistered): host memory is used as it is; device
\* and managed memory goes through the context's host buffer of that name.
IsHost(where) == where \in {"Unregistered", "Host"}

\* A copy from the device synchronizes the lookup stream: the caller's thread
\* goes on when everything queued before is done.
Synced(where) == IsHost(where) \/ stream = <<>>

Lookup == Len(outputs)

\* Writes v to row b of the caller's output, or of the host buffer standing for it.
PutOutput(b, v) == IF IsHost(setup.out_on)
                   THEN /\ outputs' = [outputs EXCEPT ![Lookup].rows[b] = v]
                        /\ UNCHANGED slot
                   ELSE /\ slot' = [slot EXCEPT ![b] = v]
                        /\ UNCHANGED outputs

\* Writes row i of the gather buffer: the scratch when pooling, else the output.
PutGather(p, i, row) == IF Pools(p)
                        THEN gather' = [gather EXCEPT ![i] = row] /\ UNCHANGED <<outputs, slot>>
                        ELSE PutOutput(i, row) /\ UNCHANGED gather

need_hitmask(p) == p.want_mask \/ setup.default # None

Idle == call = None

InPhase(phase) == call # None /\ call.phase = phase

\* Bounded by max_calls; a client that waits calls wait() before it calls again.
NewCall == /\ Idle
           /\ calls < setup.max_calls
           /\ setup.waits => stream = <<>>
           /\ calls' = calls + 1

Started(p, phase, expect, tasks) ==
  /\ call' = [p |-> p, phase |-> phase, expect |-> expect]
  /\ todo' = tasks

(***************************************************************************)
(* lookup.                                                                 *)
(***************************************************************************)
\* The lookups whose mask the device has yet to copy to the caller.
MaskQueued == {stream[j].lookup : j \in {j \in DOMAIN stream : stream[j].what = "mask"}}

\* mask0 is the mask handed to the table's find: clear in this layer, with the hits
\* of the tables above when a HierarchicalEmbeddingLayer owns the table.
\* Accepted: the mask is cleared, if one is needed, and the counter reset; nothing
\* waits for copies of earlier lookups here, and a mask that is still to be copied
\* is cleared with it (noted in asked).  A call that a check refuses changes nothing.
LookupCall(p) ==
  /\ NewCall
  /\ Len(p.keys) > 0
  /\ p.pooling = "None" \/ PoolingAccepted(p)
  /\ Started(p, "keys", None, NoTasks)
  /\ hit_mask' = IF need_hitmask(p) THEN p.mask0 ELSE hit_mask
  /\ counter' = 0
  /\ outputs' = Append(outputs, [rows |-> [b \in 1 .. num_bags(p) |-> None], mask |-> None])
  /\ asked' = Append([i \in DOMAIN asked |-> [asked[i] EXCEPT !.cleared = @ \/ (need_hitmask(p) /\ i \in MaskQueued)]],
                     [p |-> p, table |-> table, hits |-> None, cleared |-> FALSE])
  /\ UNCHANGED <<setup, table, gather, slot, stream>>

\* The table's find has the keys in host memory, and begins.
FindStarts ==
  /\ Synced(setup.keys_on)
  /\ call' = [call EXCEPT !.phase = "find"]
  /\ todo' = IF setup.kind = "linear" THEN GatherTasks(Len(call.p.keys)) ELSE NoTasks
  /\ UNCHANGED <<setup, calls, table, gather, hit_mask, counter, slot, outputs, stream, asked>>

LookupRefused(p) ==
  /\ NewCall
  /\ Len(p.keys) = 0 \/ (p.pooling # "None" /\ ~PoolingAccepted(p))
  /\ UNCHANGED <<setup, table, call, todo, gather, hit_mask, counter, slot, outputs, stream, asked>>

\* cpu_kernel_gather, one key: skipped when its mask bit is already set.
GatherRow(t) ==
  LET p == call.p
      i == Take(t)
  IN  /\ todo' = Taken(t)
      /\ IF need_hitmask(p) /\ MaskPosition(t, i, Len(p.keys)) \in hit_mask THEN UNCHANGED <<gather, outputs, slot>>
         ELSE PutGather(p, i, table[p.keys[i]])
      /\ UNCHANGED <<setup, calls, table, call, hit_mask, counter, stream, asked>>

\* The positions of a kernel's last mask word that are left to set, and all before it.
FilledMask(n) ==
  LET full_words == n \div MaskBits
      rem == n - full_words * MaskBits
  IN  1 .. (full_words * MaskBits + rem)

\* LinearHostTable::find ends: every miss is resolved, every key counted.
GatherEnds ==
  LET n == Len(call.p.keys)
  IN  /\ AllDone
      /\ hit_mask' = IF need_hitmask(call.p) THEN FilledMask(n) ELSE hit_mask
      /\ counter' = counter + n
      /\ call' = [call EXCEPT !.phase = "found"]
      /\ UNCHANGED <<setup, calls, table, todo, gather, slot, outputs, stream, asked>>

\* find of a map: it writes the rows it has, sets their bits and counts them.
FindInMap ==
  LET p == call.p
      found == {i \in DOMAIN p.keys \ p.mask0 : table[p.keys[i]] # None}
      over(rows) == [i \in DOMAIN rows |-> IF i \in found THEN table[p.keys[i]] ELSE rows[i]]
  IN  /\ need_hitmask(p)
      /\ hit_mask' = hit_mask \cup found
      /\ counter' = counter + Cardinality(found)
      /\ IF Pools(p) THEN gather' = over(gather) /\ UNCHANGED <<outputs, slot>>
         ELSE IF IsHost(setup.out_on)
              THEN outputs' = [outputs EXCEPT ![Lookup].rows = over(@)] /\ UNCHANGED <<gather, slot>>
              ELSE slot' = over(slot) /\ UNCHANGED <<gather, outputs>>
      /\ call' = [call EXCEPT !.phase = "found"]
      /\ UNCHANGED <<setup, calls, table, todo, stream, asked>>

\* Without a mask the map's find reads and writes through a null pointer: the call
\* never returns, and neither does any other of the process.
FindFaults ==
  /\ ~need_hitmask(call.p)
  /\ call' = [call EXCEPT !.phase = "fault"]
  /\ UNCHANGED <<setup, calls, table, todo, gather, hit_mask, counter, slot, outputs, stream, asked>>

misses == Len(call.p.keys) - counter

\* After the table: default rows for the keys that missed, if there is a default.
StartFill ==
  LET fills == misses > 0 /\ setup.default # None
  IN  /\ call' = [call EXCEPT !.phase = "fill"]
      /\ todo' = IF fills THEN RowTasks(Len(call.p.keys)) ELSE NoTasks
      /\ UNCHANGED <<setup, calls, table, gather, hit_mask, counter, slot, outputs, stream, asked>>

FillRow(t) ==
  LET i == Take(t)
  IN  /\ todo' = Taken(t)
      /\ IF i \in hit_mask THEN UNCHANGED <<gather, outputs, slot>>
         ELSE PutGather(call.p, i, setup.default)
      /\ UNCHANGED <<setup, calls, table, call, hit_mask, counter, stream, asked>>

WeightsMissing(p) == Pools(p) /\ weighted(p) /\ p.weights = <<>>

\* After the fill: the pooling or concatenation of the gathered rows.
StartPool ==
  /\ AllDone
  /\ ~WeightsMissing(call.p)
  /\ call' = [call EXCEPT !.phase = "pool"]
  /\ todo' = IF Pools(call.p) THEN RowTasks(num_bags(call.p)) ELSE NoTasks
  /\ UNCHANGED <<setup, calls, table, gather, hit_mask, counter, slot, outputs, stream, asked>>

\* The dispatch finds the weights missing only now: the call throws, with the rows
\* gathered and nothing pooled.
PoolThrows ==
  /\ AllDone
  /\ WeightsMissing(call.p)
  /\ call' = None
  /\ UNCHANGED <<setup, calls, table, todo, gather, hit_mask, counter, slot, outputs, stream, asked>>

PoolRow(t) ==
  /\ todo' = Taken(t)
  /\ PutOutput(Take(t), OutputRow(call.p, gather, Take(t)))
  /\ UNCHANGED <<setup, calls, table, call, gather, hit_mask, counter, stream, asked>>

\* The end: a host buffer that stands for the caller's is queued to be copied to
\* it, and the hit rate is reported.
LookupReturns ==
  LET host == IsHost(setup.out_on)
      copy(what) == [lookup |-> Lookup, what |-> what]
  IN  /\ AllDone
      /\ IF host
         THEN /\ outputs' = IF call.p.want_mask THEN [outputs EXCEPT ![Lookup].mask = hit_mask] ELSE outputs
              /\ UNCHANGED stream
         ELSE /\ stream' = stream \o <<copy("rows")>> \o (IF call.p.want_mask THEN <<copy("mask")>> ELSE <<>>)
              /\ UNCHANGED outputs
      /\ asked' = [asked EXCEPT ![Lookup].hits = counter]
      /\ call' = None
      /\ UNCHANGED <<setup, calls, table, todo, gather, hit_mask, counter, slot>>

\* The device performs the oldest copy of the lookup stream; a mask is copied from the
\* context's mask buffer, which every lookup of the context uses.
StreamCopies ==
  /\ stream # <<>>
  /\ ~InPhase("fault")
  /\ LET c == Head(stream)
     IN  outputs' = IF c.what = "mask" THEN [outputs EXCEPT ![c.lookup].mask = hit_mask]
                    ELSE [outputs EXCEPT ![c.lookup].rows = [b \in DOMAIN @ |-> slot[b]]]
  /\ stream' = Tail(stream)
  /\ UNCHANGED <<setup, calls, table, call, todo, gather, hit_mask, counter, slot, asked>>

(***************************************************************************)
(* insert, update, accumulate, clear, erase.                               *)
(***************************************************************************)
\* insert and erase serve table 0 only; update and accumulate any id up to 0.
ForThisTable(p) == IF p.op \in {"insert", "erase"} THEN p.table_id = 0 ELSE p.table_id <= 0

\* What the batch leaves in the table, one key after the other.
Touched(p) == {k \in Keys : \E i \in DOMAIN p.keys : p.keys[i] = k}

ValueFor(p, k) == p.values[CHOOSE i \in DOMAIN p.keys : p.keys[i] = k]

Added(row, update) == [row EXCEPT !.v = [e \in DOMAIN @ |-> @[e] + update.v[e]]]

\* The linear table has no notion of a missing key: clear, erase and insert do
\* nothing to it, and it accumulates floats only.
Applies(p) == /\ ForThisTable(p)
              /\ p.op \in {"update", "accumulate"} \/ setup.kind = "map"
              /\ p.op = "accumulate" => setup.type = "Float32"
              /\ p.op # "clear" => Len(p.keys) > 0

\* The table's rows once the call has returned.
Result(p) == IF ~Applies(p) THEN table
             ELSE [k \in Keys |->
                     IF p.op = "clear" THEN None
                     ELSE IF k \notin Touched(p) THEN table[k]
                     ELSE IF p.op = "erase" THEN None
                     ELSE IF p.op = "insert" THEN ValueFor(p, k)
                     ELSE IF table[k] = None THEN None
                     ELSE IF p.op = "update" THEN ValueFor(p, k)
                     ELSE Added(table[k], ValueFor(p, k))]

ModifyCall(p) ==
  LET n == Len(p.keys)
  IN  /\ NewCall
      /\ IF setup.kind = "map" \/ ~Applies(p)
         THEN table' = Result(p) /\ UNCHANGED <<call, todo>>
         ELSE Started(p, "modify", Result(p), UpdateTasks(n)) /\ UNCHANGED table
      /\ UNCHANGED <<setup, gather, hit_mask, counter, slot, outputs, stream, asked>>

\* cpu_kernel_update and cpu_kernel_update_accumulate, one key.
UpdateRow(t) ==
  LET p == call.p
      i == Take(t)
  IN  /\ todo' = Taken(t)
      /\ table' = [table EXCEPT ![p.keys[i]] =
                     IF p.op = "update" THEN p.values[i] ELSE Added(@, p.values[i])]
      /\ UNCHANGED <<setup, calls, call, gather, hit_mask, counter, slot, outputs, stream, asked>>

ModifyReturns ==
  /\ AllDone
  /\ call' = None
  /\ UNCHANGED <<setup, calls, table, todo, gather, hit_mask, counter, slot, outputs, stream, asked>>

(***************************************************************************)
(* The specification.                                                      *)
(***************************************************************************)
Positions == 1 .. Max({Len(p.keys) : p \in setup.calls} \cup {1})

Init ==
  /\ setup \in Setups
  /\ table = setup.table
  /\ call = None
  /\ todo = NoTasks
  /\ gather = [i \in Positions |-> setup.stale]
  /\ hit_mask = {}
  /\ counter = 0
  /\ slot = [i \in Positions |-> None]
  /\ outputs = <<>>
  /\ stream = <<>>
  /\ calls = 0
  /\ asked = <<>>

Calls == \E p \in setup.calls : IF p.op = "lookup" THEN LookupCall(p) \/ LookupRefused(p)
                                ELSE ModifyCall(p)

Runs == \/ InPhase("keys") /\ FindStarts
        \/ InPhase("find") /\ setup.kind = "linear" /\ (GatherEnds \/ \E t \in Pending : GatherRow(t))
        \/ InPhase("find") /\ setup.kind = "map" /\ (FindInMap \/ FindFaults)
        \/ InPhase("found") /\ StartFill
        \/ InPhase("fill") /\ (StartPool \/ PoolThrows \/ \E t \in Pending : FillRow(t))
        \/ InPhase("pool") /\ (LookupReturns \/ \E t \in Pending : PoolRow(t))
        \/ InPhase("modify") /\ (ModifyReturns \/ \E t \in Pending : UpdateRow(t))

Next == UNCHANGED setup /\ (Calls \/ Runs \/ StreamCopies)

TypeOK ==
  /\ setup \in Setups
  /\ DOMAIN table = Keys
  /\ call # None => call.phase \in {"keys", "find", "fault", "found", "fill", "pool", "modify"}
  /\ \A t \in DOMAIN todo : todo[t] \subseteq Positions
  /\ hit_mask \subseteq Positions
  /\ counter \in 0 .. Max(Positions)
  /\ Len(asked) = Len(outputs)

(***************************************************************************)
(* What a lookup promises.                                                 *)
(***************************************************************************)
Finished(i) == /\ asked[i].hits # None
               /\ \A j \in DOMAIN stream : stream[j].lookup # i

\* The row a lookup sees at position k: the caller's own where the mask said so
\* before the call, the table's, else the default; None when nothing is promised.
RowAt(a, k) == IF k \in a.p.mask0 THEN None
               ELSE IF a.table[a.p.keys[k]] # None THEN a.table[a.p.keys[k]]
               ELSE setup.default

\* The keys of bag b, as positions in order, read off the sparse layout.
BagOf(p, b) == LET first == IF p.sparse = "Fixed" THEN (b - 1) * p.key_indices[1] ELSE p.key_indices[b]
                   last == IF p.sparse = "Fixed" THEN b * p.key_indices[1] ELSE p.key_indices[b + 1]
               IN  [j \in 1 .. last - first |-> first + j]

\* The pooling contract, element by element over the bag's keys in order.
Expected(a, b) ==
  LET p == a.p
      bag == BagOf(p, b)
      total[j \in 0 .. Len(bag)] ==
        IF j = 0 THEN [e \in 1 .. setup.width |-> 0]
        ELSE [e \in 1 .. setup.width |->
                total[j - 1][e] + to_float(RowAt(a, bag[j]), e)
                                    * (IF weighted(p) THEN p.weights[bag[j]] ELSE 1)]
      weights[j \in 0 .. Len(bag)] == IF j = 0 THEN 0 ELSE weights[j - 1] + p.weights[bag[j]]
      denom == IF p.pooling = "Mean" THEN Len(bag)
               ELSE IF p.pooling = "WeightedMean" THEN weights[Len(bag)] ELSE 1
  IN  Decoded([e \in 1 .. setup.width |->
                 IF denom = 0 \/ bag = <<>> THEN 0
                 ELSE from_float(out_dtype(p), total[Len(bag)][e] \div denom)])

Promised(a, b) == IF concat(a.p) \/ a.p.pooling = "None" THEN RowAt(a, b) # None
                  ELSE \A k \in DOMAIN BagOf(a.p, b) : RowAt(a, BagOf(a.p, b)[k]) # None

\* A finished lookup has left in the caller's buffer, for every bag, the
\* combination of exactly its keys' rows (HostEmbeddingLayer::lookup with
\* cpu_kernel_pooling, cpu_kernel_concatenate or a plain gather), whatever the
\* order of the tasks and the memory the buffers are in.
LookupAnswers ==
  \A i \in DOMAIN asked : Finished(i) =>
    \A b \in DOMAIN outputs[i].rows : Promised(asked[i], b) =>
      outputs[i].rows[b] =
        IF ~Pools(asked[i].p) THEN RowAt(asked[i], b)
        ELSE IF concat(asked[i].p)
             THEN Decoded([e \in 1 .. setup.width |->
                             from_float(out_dtype(asked[i].p), to_float(RowAt(asked[i], b), e))])
        ELSE Expected(asked[i], b)

\* A row the caller marked as found before the call is left alone, and the mask
\* and the hit count a finished lookup reports are those of the keys the table
\* has: the aligned task shares and the trailing mask word of cpu_kernel_gather.
\* The mask is promised to a caller that has it in host memory, or that starts no
\* other lookup on the context before the copy of the mask is done.
HitsAreTheTables ==
  \A i \in DOMAIN asked : Finished(i) =>
    LET a == asked[i]
        present == {k \in DOMAIN a.p.keys : a.table[a.p.keys[k]] # None}
    IN  /\ a.p.want_mask /\ ~a.cleared => outputs[i].mask = present \cup a.p.mask0
        /\ a.p.mask0 = {} => a.hits = Cardinality(present)
        /\ ~Pools(a.p) /\ IsHost(setup.out_on) /\ a.p.want_mask
             => \A k \in a.p.mask0 : outputs[i].rows[k] = None

\* When cpu_kernel_update or cpu_kernel_update_accumulate is done, every key of the
\* batch has its new row and no other row has changed.
UpdateIsWhole == InPhase("modify") /\ AllDone => table = call.expect
=============================================================================
