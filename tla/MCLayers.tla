------------------------------ MODULE MCLayers ------------------------------
(***************************************************************************)
(* The layers.  "plain": HierarchicalLayer over host tables without        *)
(* errors, one call at a time; "one table": the same with modify calls for *)
(* one table; "throws": with a GPU table on top and exceptions anywhere,   *)
(* for a caller that waits for the tasks it launched and has its outputs   *)
(* in host memory; "concurrent": two callers at any time, over host tables *)
(* (the constants of HierarchicalLayer itself); "host": HostLayer, over    *)
(* tables of every kind, value type and memory.                            *)
(***************************************************************************)
EXTENDS Integers, HierarchicalLayer

CONSTANTS k1, k2, k3, c1, c2

VARIABLES part, setup, todo, gather, hit_mask, counter, slot, outputs, stream, calls, asked

OneKey == {<<k>> : k \in Keys}
TwoKeys == OneKey \cup {<<k1, k2>>}

P == INSTANCE HierarchicalLayer WITH
       MayEvict <- {1}, MinInsertWait <- 1, Callers <- {c1}, Batches <- TwoKeys, MaxVersion <- 1, Exclusive <- TRUE,
       ModifyOps <- {"insert", "update", "accumulate", "erase", "clear"}
O == INSTANCE HierarchicalLayer WITH
       Callers <- {c1}, MaxVersion <- 1, Exclusive <- TRUE, ModifyOps <- {"insert", "update"}, TableIds <- 0 .. N
T == INSTANCE HierarchicalLayer WITH
       Gpu <- {1}, MayEvict <- {1}, MinInsertWait <- 1, Callers <- {c1}, Batches <- TwoKeys, Strides <- {1, 2},
       Exclusive <- TRUE, WaitsEach <- TRUE, MayThrow <- TRUE, ModifyOps <- {"insert", "erase"}

(* Host layers.  Rows have two elements; k3 misses in the map tables. *)
HostRow(a, b) == [v |-> <<a, b>>, scale |-> 2, offset |-> 3]
HostRows(full) == [k \in {k1, k2, k3} |-> IF k = k1 THEN HostRow(12, 24) ELSE IF k = k2 THEN HostRow(36, -12)
                                          ELSE IF full THEN HostRow(7, 5) ELSE None]
Lookup(keys, pooling, sparse, indices, weights, out) ==
  [op |-> "lookup", keys |-> keys, mask0 |-> {}, want_mask |-> Len(keys) = 3, pooling |-> pooling, sparse |-> sparse,
   key_indices |-> indices, weights |-> weights, output_type |-> out, output_stride |-> 8]
Find(keys, mask) == [Lookup(keys, "None", "Fixed", <<1>>, <<>>, "Unknown") EXCEPT !.mask0 = mask, !.want_mask = TRUE]
Modify(op, keys, id) == [op |-> op, keys |-> keys, table_id |-> id, values |-> [i \in DOMAIN keys |-> HostRow(i, 2 * i)]]
HostSetup(kind, type, default, workers, threads, keys_on, out_on, waits, n, cs) ==
  [kind |-> kind, type |-> type, width |-> 2, default |-> default, num_workers |-> workers, max_threads |-> threads,
   keys_on |-> keys_on, out_on |-> out_on, waits |-> waits, table |-> HostRows(kind = "linear"), stale |-> HostRow(99, 99),
   max_calls |-> n, calls |-> cs]
Poolings == {Lookup(<<k1, k3, k2, k1>>, "Sum", "Fixed", <<2>>, <<>>, "Unknown"),
             Lookup(<<k1, k3, k2, k1>>, "Mean", "CSR", <<0, 1, 1, 4>>, <<>>, "Float16"),
             Lookup(<<k1, k3, k2, k1>>, "WeightedSum", "CSR", <<0, 3, 4>>, <<1, 2, -1, 3>>, "Float32"),
             Lookup(<<k1, k3, k2, k1>>, "WeightedMean", "Fixed", <<2>>, <<1, 2, -1, 1>>, "Float16"),
             Lookup(<<k3, k2, k1>>, "Concatenate", "CSR", <<0>>, <<>>, "Float16"),
             Lookup(<<k3, k2, k1>>, "Concatenate", "CSR", <<0>>, <<>>, "Unknown"),
             Lookup(<<k3, k2, k1>>, "None", "Fixed", <<1>>, <<>>, "Unknown"),
             Lookup(<<k1, k2>>, "WeightedMean", "Fixed", <<1>>, <<>>, "Unknown"),
             Lookup(<<k1, k2, k3>>, "Sum", "Fixed", <<2>>, <<>>, "Unknown")}
Masked(ps) == {[p EXCEPT !.want_mask = Len(p.keys) > 2] : p \in ps}
HostSetups ==
  {HostSetup("linear", t, None, 2, 3, "Unregistered", "Host", FALSE, 1, Poolings) :
     t \in {"Float32", "Float16", "QInt8RowwiseF32", "QUint8RowwiseF16"}}
  \cup {HostSetup("map", t, d, 3, 3, "Device", IF d = None THEN "Managed" ELSE "Device", FALSE, 2,
                  IF d = None THEN Masked(Poolings) ELSE Poolings) :
     t \in {"Float32", "QUint8RowwiseF32"}, d \in {None, HostRow(1, 1)}}
  \cup {HostSetup("linear", "Float32", None, 3, 4, "Unregistered", "Host", TRUE, 3,
          {Find(<<k1, k2, k3>>, {2, 3}), Find(<<k1, k3, k2, k1>>, {1, 3}), Modify("update", <<k3, k1>>, -1),
           Modify("accumulate", <<k1, k2, k3>>, 0), Modify("insert", <<k1>>, 0), Modify("update", <<k1>>, 1)}),
        HostSetup("map", "Float32", HostRow(1, 1), 2, 2, "Host", "Device", TRUE, 3,
          {Find(<<k1, k2, k3>>, {}), Find(<<k1, k2, k3>>, {2})}
            \cup {Modify(op, <<k3, k1>>, 0) : op \in {"insert", "update", "accumulate", "erase", "clear"}})}
H == INSTANCE HostLayer WITH Keys <- {k1, k2, k3}, MaskBits <- 2, HalfStep <- 4, Setups <- HostSetups

hier == <<handlerVars, task, copying, pc, partial>>
host == <<setup, todo, gather, hit_mask, counter, slot, outputs, stream, calls, asked>>
layerVars == <<part, table, call, hier, host>>

NoHost == setup = None /\ todo = None /\ gather = None /\ hit_mask = None /\ counter = None /\ slot = None
          /\ outputs = None /\ stream = None /\ calls = None /\ asked = None
NoHier == insert_lock = None /\ collected = None /\ insert_data = None /\ collected_stride = None
          /\ insert_freq_cnt = None /\ task = None /\ copying = None /\ pc = None /\ partial = None
LayersInit == \/ part = "plain" /\ P!Init /\ NoHost
              \/ part = "one table" /\ O!Init /\ NoHost
              \/ part = "throws" /\ T!Init /\ NoHost
              \/ part = "concurrent" /\ Init /\ NoHost
              \/ part = "host" /\ H!Init /\ NoHier

(* After an exception a lock may stay taken, and the caller may make no more   *)
(* calls: the layer may stop there.                                            *)
Stopped == IF part = "throws" THEN \E t \in Tables : insert_lock[t] \in {c1, "task"}
           ELSE part = "host" /\ (H!InPhase("fault") \/ (call = None /\ stream = <<>> /\ calls = setup.max_calls))

LayersNext == /\ UNCHANGED part
              /\ \/ part = "plain" /\ P!Next /\ UNCHANGED host
                 \/ part = "one table" /\ O!Next /\ UNCHANGED host
                 \/ part = "throws" /\ T!Next /\ UNCHANGED host
                 \/ part = "concurrent" /\ HostNext /\ UNCHANGED host
                 \/ part = "host" /\ H!Next /\ UNCHANGED hier
                 \/ Stopped /\ UNCHANGED <<table, call, hier, host>>

(* FairSpec's fairness, for the part with two callers. *)
Runs(A) == part = "concurrent" /\ A /\ UNCHANGED <<part, host>>
LayersSpec ==
    /\ LayersInit /\ [][LayersNext]_layerVars
    /\ \A t \in Tables : WF_layerVars(Runs(TaskInserts(t))) /\ WF_layerVars(Runs(TaskEnds(t)))
    /\ \A c \in Callers :
          /\ WF_layerVars(Runs(find(c)))
          /\ WF_layerVars(Runs(AutoInsertBusy(c) \/ AutoInsertNotNeeded(c) \/ AutoInsertCollects(c)))
          /\ SF_layerVars(Runs(lock_modify(c)))
          /\ WF_layerVars(Runs(ApplyModify(c)))

(* The variables hold values of their types, and a collection fits its buffers. *)
LayerTypeOK == /\ part = "plain" => P!TypeOK
               /\ part = "one table" => O!TypeOK
               /\ part = "concurrent" => TypeOK
               /\ part = "host" => H!TypeOK

(* When nothing is going on, no table disagrees with the backing store about   *)
(* a key, unless a modify was asked for that key in one table only, and what a *)
(* handler has collected is what the backing store holds: unlock_modify        *)
(* dropped what a modify made invalid.  When a CPU update kernel is done,      *)
(* every key of the batch has its new row and no other row has changed.        *)
RowsAgree == /\ part = "plain" => P!Coherent /\ P!CollectedIsCurrent
             /\ part = "one table" => O!Coherent /\ O!CollectedIsCurrent
             /\ part = "host" => H!UpdateIsWhole

(* No table ever holds the row of another key, also after exceptions in       *)
(* lookups, modify operations and insert tasks: keys and rows of a collection *)
(* stay aligned over several lookups, and missed keys are not inserted.       *)
RowsHaveTheirKeys == /\ part = "plain" => P!RowsMatchKeys
                     /\ part = "one table" => O!RowsMatchKeys
                     /\ part = "throws" => T!RowsMatchKeys

(* A finished lookup of the host layer has left in the caller's buffer, for    *)
(* every bag, the combination of exactly its keys' rows, whatever the order of *)
(* the tasks, the value type and the memory the buffers are in.                *)
LookupAnswers == part = "host" => H!LookupAnswers

(* The mask and the hit count of a finished host lookup are those of the keys  *)
(* the table has, and rows found before the call are left alone.               *)
HitsAreTheTables == part = "host" => H!HitsAreTheTables

(* insert_lock_ keeps a modify operation out of a table while an auto-insert   *)
(* of it is under way, whatever the two callers do.                            *)
InsertLockExcludes == part = "concurrent" => NoModifyDuringAutoInsert

(* insert_lock_ is always released in the end, by the thread that took it or   *)
(* by the insert it launched.                                                  *)
LayerLockIsReleased ==
    \A t \in Tables : (part = "concurrent" /\ insert_lock[t] # None) ~> (part = "concurrent" /\ insert_lock[t] = None)

(* Every modify operation of the layer returns. *)
LayerModifyReturns ==
    \A c \in Callers :
        (part = "concurrent" /\ pc[c] \in {"lock", "apply"}) ~> (part = "concurrent" /\ pc[c] = "idle")
=============================================================================
