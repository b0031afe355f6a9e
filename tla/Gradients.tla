----------------------------- MODULE Gradients -----------------------------
(***************************************************************************)
(* The backward pass: the gradient rows of a batch, one per key or one per *)
(* bag, are added up into one row for every distinct key.  The keys are    *)
(* sorted and run-length encoded, long runs are split into chunks that     *)
(* thread blocks add up on their own, and the chunks of a key meet in its  *)
(* row.  The work buffers are kept from call to call and only ever grow.   *)
(*                                                                         *)
(* Arrays start at 0, as in the code.  A row is the bag of what was added  *)
(* to it, [grad, weight], so that nothing counted twice or left out        *)
(* cancels; memory never written holds 0.                                  *)
(***************************************************************************)
EXTENDS Integers, Sequences, FiniteSets, SequencesExt, Functions

CONSTANTS None,   \* no value
          Setups  \* [max_run, short, warp, batches, calls]: the sizes 1024, 8 and 32
                  \* of the code, scaled, the batches, and how many calls are made

VARIABLES setup,
          calls,   \* calls made so far
          runner,  \* the binding's calculator: max_num_keys_ and h_location_buffer_
          buffers, \* its device buffers
          call,    \* the call whose kernels are queued, with the sizes the host read back
          result   \* the last call's batch, distinct keys and rows

vars == <<setup, calls, runner, buffers, call, result>>

(***************************************************************************)
(* What a batch asks for.                                                  *)
(***************************************************************************)
\* NVEmbeddingBag: the pooling of a mode, with and without weights.
PoolingOf(mode, weighted) ==
  IF mode = "concat" THEN "Concatenate"
  ELSE IF weighted THEN (IF mode = "sum" THEN "WeightedSum" ELSE "WeightedMean")
  ELSE (IF mode = "sum" THEN "Sum" ELSE "Mean")

Pooling(batch) == PoolingOf(batch.mode, batch.weighted)

NumKeys(batch) == Len(batch.keys)

Key(batch, p) == batch.keys[p + 1]

NumBags(batch) == Len(batch.offsets) - 1

Offset(batch, b) == batch.offsets[b + 1]

(***************************************************************************)
(* Deduper.                                                                *)
(***************************************************************************)
\* DeviceRadixSort: positions by key, those of a key in their order.
SortPairs(batch) ==
  LET positions == 0 .. NumKeys(batch) - 1
      Before(p) == {q \in positions : Key(batch, q) < Key(batch, p) \/ (Key(batch, q) = Key(batch, p) /\ q < p)}
  IN  [j \in positions |-> CHOOSE p \in positions : Cardinality(Before(p)) = j]

\* DeviceRunLengthEncode: the distinct keys, and how often each is there.
Encode(batch) ==
  LET unique == SetToSortSeq(Range(batch.keys), <)
  IN  [unique |-> unique,
       counts |-> [k \in 0 .. Len(unique) - 1 |->
                     Cardinality({p \in 0 .. NumKeys(batch) - 1 : Key(batch, p) = unique[k + 1]})]]

\* DeviceScan over one more element than there are runs: the last is the total.
ExclusiveSum(f, n) ==
  LET sum[i \in 0 .. n] == IF i = 0 THEN 0 ELSE sum[i - 1] + f[i - 1] IN sum

SplitCount_Floor(count) == count \div setup.max_run

SplitCount(count) == (count + setup.max_run - 1) \div setup.max_run

ComputeSplitCounts(counts) == [k \in DOMAIN counts |-> SplitCount(counts[k])]

SplitOffset(key_offset, i) == key_offset + i * setup.max_run

\* The key every chunk belongs to, where it starts, and where the last one ends.
ComputeLocationMapping(chunks, chunk_offsets, key_offsets, old) ==
  LET keys == DOMAIN chunks
      In(j, k) == chunk_offsets[k] <= j /\ j < chunk_offsets[k] + chunks[k]
      total == chunk_offsets[Cardinality(keys)]
  IN  [loc_map |-> [j \in DOMAIN old.loc_map |->
                      IF \E k \in keys : In(j, k) THEN CHOOSE k \in keys : In(j, k) ELSE old.loc_map[j]],
       offsets |-> [j \in DOMAIN old.offsets |->
                      IF j = total THEN key_offsets[Cardinality(keys)]
                      ELSE IF j < total THEN LET k == CHOOSE k \in keys : In(j, k)
                                             IN  SplitOffset(key_offsets[k], j - chunk_offsets[k])
                      ELSE old.offsets[j]]]

\* dedup.  The counts are written to the buffer that is the location map later.
dedup(batch, location, old) ==
  LET order == SortPairs(batch)
      enc == Encode(batch)
      u == Len(enc.unique)
      key_offsets == ExclusiveSum(enc.counts, u)
      chunks == ComputeSplitCounts(enc.counts)
      chunk_offsets == ExclusiveSum(chunks, u)
      cleared == [j \in DOMAIN old.loc_map |-> IF j < u THEN enc.counts[j] ELSE IF j < NumKeys(batch) THEN 0 ELSE old.loc_map[j]]
      mapped == ComputeLocationMapping(chunks, chunk_offsets, key_offsets, [old EXCEPT !.loc_map = cleared])
  IN  [unique |-> enc.unique,
       num_runs |-> chunk_offsets[u],
       buffers |-> [old EXCEPT !.inverse = [j \in DOMAIN @ |-> IF j < NumKeys(batch) THEN location[order[j]] ELSE @[j]],
                               !.loc_map = mapped.loc_map,
                               !.offsets = mapped.offsets]]

(***************************************************************************)
(* The binding's part: buffers that grow, then the deduper.                *)
(***************************************************************************)
Array(n) == [j \in 0 .. n |-> 0]

\* get_alloc_requirements, set_and_init_buffers: new memory for n keys.
NewBuffers(n) == [inverse |-> Array(n), loc_map |-> Array(n), offsets |-> Array(n),
                  grad_mapping |-> Array(n), weights |-> Array(n)]

InitLocation(n) == [j \in 0 .. n |-> j]

MustGrow(n) == n > runner.max

\* concat_backprop, pooling_backprop up to the deduper, which waits for its stream.
\* The mean without weights is not among the batches: see ComputeNormalizedWeights.
Backprop(batch) ==
  LET n == NumKeys(batch)
      grown == IF MustGrow(n) THEN [max |-> n, location |-> InitLocation(n)] ELSE runner
      old == IF MustGrow(n) THEN NewBuffers(n) ELSE buffers
      d == dedup(batch, grown.location, old)
  IN  /\ call = None /\ calls < setup.calls
      /\ calls' = calls + 1
      /\ runner' = grown
      /\ buffers' = d.buffers
      /\ call' = [batch |-> batch, unique |-> d.unique, num_runs |-> d.num_runs]
      /\ result' = None
      /\ UNCHANGED setup

(***************************************************************************)
(* The kernels.                                                            *)
(***************************************************************************)
BagOf(batch, p) == CHOOSE b \in 0 .. NumBags(batch) - 1 : Offset(batch, b) <= p /\ p < Offset(batch, b + 1)

InABag(batch, p) == \E b \in 0 .. NumBags(batch) - 1 : Offset(batch, b) <= p /\ p < Offset(batch, b + 1)

\* A weight over the sum of its bag's weights; the weights are read even for a
\* pooling that has none.
ComputeNormalizedWeights(batch, old) ==
  [p \in DOMAIN old |-> IF InABag(batch, p)
     THEN <<p, {q \in 0 .. NumKeys(batch) - 1 : InABag(batch, q) /\ BagOf(batch, q) = BagOf(batch, p)}>>
     ELSE old[p]]

ComputePoolingInverseMapping(batch, old) ==
  [p \in DOMAIN old |-> IF InABag(batch, p) THEN BagOf(batch, p) ELSE old[p]]

Normalized(pooling) == pooling \in {"Mean", "WeightedMean"}

\* GradientDedup: the positions of a run, <<main loop index, lane>> each; the loop
\* steps by one, by `short` or by `warp`, and the remainder follows.
Visits(count) ==
  LET step == IF count < setup.short THEN 1 ELSE IF count < setup.warp THEN setup.short ELSE setup.warp
      main == (count \div step) * step
  IN  {<<i, j>> \in (0 .. main) \X (0 .. step - 1) : i % step = 0 /\ i < main}
        \cup {<<main, j>> : j \in 0 .. count - main - 1}

\* ComputePoolingGradients: a warp at a time, the lanes below the count.
PooledVisits(count) ==
  {<<i, s>> \in (0 .. count) \X (0 .. setup.warp - 1) : i % setup.warp = 0 /\ i + s < count}

\* The gradient row and the weight with which a position enters a key's row.
Contribution(pooling, bufs, p) ==
  IF pooling = "Concatenate" THEN [grad |-> p, weight |-> 1]
  ELSE [grad |-> bufs.grad_mapping[p],
        weight |-> IF Normalized(pooling) THEN bufs.weights[p]
                   ELSE IF pooling = "WeightedSum" THEN <<p>> ELSE 1]

\* The rows set to 0 before the additions: the keys', or as many as there are chunks.
Zeroed(c) == IF Pooling(c.batch) = "Concatenate" THEN Len(c.unique) ELSE c.num_runs

\* Every chunk adds up its positions and adds the sum to its key's row.
Row(c, bufs, i) ==
  LET chunks == {r \in 0 .. c.num_runs - 1 : bufs.loc_map[r] = i}
      Visited(count) == IF Pooling(c.batch) = "Concatenate" THEN Visits(count) ELSE PooledVisits(count)
      added == UNION {{r} \X Visited(bufs.offsets[r + 1] - bufs.offsets[r]) : r \in chunks}
      What(a) == Contribution(Pooling(c.batch), bufs, bufs.inverse[bufs.offsets[a[1]] + a[2][1] + a[2][2]])
  IN  IF i >= Zeroed(c) THEN None
      ELSE [x \in {What(a) : a \in added} |-> Cardinality({a \in added : What(a) = x})]

\* CallComputeGradients, CallComputePoolingGradients; the caller takes the rows of
\* the distinct keys.
ComputeGradients ==
  LET batch == call.batch
      pooled == Pooling(batch) # "Concatenate"
      bufs == [buffers EXCEPT
                 !.weights = IF pooled /\ Normalized(Pooling(batch)) THEN ComputeNormalizedWeights(batch, @) ELSE @,
                 !.grad_mapping = IF pooled THEN ComputePoolingInverseMapping(batch, @) ELSE @]
  IN  /\ call # None
      /\ buffers' = bufs
      /\ result' = [batch |-> batch, unique |-> call.unique,
                    rows |-> [i \in 0 .. Len(call.unique) - 1 |-> Row(call, bufs, i)]]
      /\ call' = None
      /\ UNCHANGED <<setup, calls, runner>>

Init ==
  /\ setup \in Setups
  /\ calls = 0
  /\ runner = [max |-> 0, location |-> Array(0)]
  /\ buffers = NewBuffers(0)
  /\ call = None
  /\ result = None

Next ==
  \/ \E batch \in setup.batches : Backprop(batch)
  \/ ComputeGradients

TypeOK ==
  /\ runner.max \in Nat
  /\ DOMAIN buffers.inverse = 0 .. runner.max

(***************************************************************************)
(* The gradient of a weight row by definition.                             *)
(***************************************************************************)
\* What position p adds: its own gradient row, or its bag's times its weight.
Reference(batch, p) ==
  LET bag == {q \in 0 .. NumKeys(batch) - 1 : BagOf(batch, q) = BagOf(batch, p)}
  IN  IF batch.mode = "concat" THEN [grad |-> p, weight |-> 1]
      ELSE [grad |-> BagOf(batch, p),
            weight |-> IF batch.mode = "mean" THEN <<p, bag>> ELSE IF batch.weighted THEN <<p>> ELSE 1]

\* The backward pass returns every key of the batch once, in order, each with the
\* sum of exactly its own positions' gradients, whatever the batches before it
\* left in the buffers and however its runs were split.
GradientsExact ==
  result # None =>
    LET batch == result.batch
        At(k) == {p \in 0 .. NumKeys(batch) - 1 : Key(batch, p) = k}
        Sum(k) == [x \in {Reference(batch, p) : p \in At(k)} |->
                     Cardinality({p \in At(k) : Reference(batch, p) = x})]
    IN  /\ Range(result.unique) = Range(batch.keys)
        /\ \A i \in 1 .. Len(result.unique) - 1 : result.unique[i] < result.unique[i + 1]
        /\ \A i \in DOMAIN result.rows : result.rows[i] = Sum(result.unique[i + 1])

\* What a call uses fits the buffers it kept, which were sized for another batch.
BuffersFit ==
  call # None =>
    /\ call.num_runs <= NumKeys(call.batch)
    /\ NumKeys(call.batch) <= runner.max
    /\ \A r \in 0 .. call.num_runs - 1 : buffers.offsets[r] < buffers.offsets[r + 1]
    /\ buffers.offsets[call.num_runs] = NumKeys(call.batch)
=============================================================================
