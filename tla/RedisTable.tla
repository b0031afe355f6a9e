---------------------------- MODULE RedisTable ----------------------------
(***************************************************************************)
(* RedisClusterTable (plugins/redis/src/redis_cluster_table.cpp) in its    *)
(* three storage modes: plain strings on a standalone server, one shared   *)
(* hash, and one hash per partition with overflow handling.                *)
(*                                                                         *)
(* HKey names the hashes of values and of metadata of a partition, but its *)
(* view ends one character early: the two names are equal, so a command    *)
(* for the metadata of a key works on its row.                             *)
(***************************************************************************)
EXTENDS RemoteTable

Hashed == setup.mode # "strings"

(* The keys of the hash that task t works on. *)
Hash(t) == {k \in Present : SplitByHash => setup.part_of[k] = t}

HasMeta == SplitByHash /\ setup.handler # "random"

(* HINCRBY fails on a field that holds a row, and creates a missing one. *)
hincrby(ks) == [k \in Keys |-> IF k \in ks /\ db[k] = None THEN Count ELSE db[k]]
hsetnx(ks) == [k \in Keys |-> IF k \in ks /\ db[k] = None THEN Stamp ELSE db[k]]
hset(ks) == [k \in Keys |-> IF k \in ks THEN Stamp ELSE db[k]]

MetaOfHits(ks) ==
  IF ~HasMeta THEN db ELSE IF setup.handler = "lru" THEN hset(ks) ELSE hincrby(ks)

(* find_: the hits of a batch are marked, then their metadata is written. *)
Settle(c, t) ==
  LET found == task[c][t].batch IN
  /\ call[c].stage = "look" /\ task[c][t].at = "settle"
  /\ hit_mask' = [hit_mask EXCEPT ![c] = Marked(c, t)]
  /\ hits' = [hits EXCEPT ![c] = @ + Cardinality(found)]
  /\ db' = MetaOfHits(KeysAt(c, found))
  /\ Step(c, t, [NoTask EXCEPT !.todo = task[c][t].todo])
  /\ UNCHANGED <<call, rows, made>>
  /\ Observe

(* HSET or MSET of a batch; an insert into a hash has more in its pipeline. *)
Write(c, t) ==
  /\ Sends(c, t, {"insert", "update", "update_accumulate"})
  /\ LET S == Batch(c, t)
         more == call[c].op = "insert" /\ Hashed
     IN  /\ db' = Written(c, S)
         /\ Step(c, t, [task[c][t] EXCEPT !.todo = @ \ S,
                          !.at = IF more THEN "measure" ELSE "run",
                          !.batch = IF more THEN S ELSE {}])
  /\ UNCHANGED <<call, outputs, made>>
  /\ Observe

MetaOfInserts(ks) ==
  IF ~HasMeta THEN db ELSE IF setup.handler = "lru" THEN hsetnx(ks) ELSE hincrby(ks)

(* The rest of the pipeline: metadata, then HLEN. *)
Measure(c, t) ==
  /\ task[c][t].at = "measure"
  /\ db' = MetaOfInserts(KeysAt(c, task[c][t].batch))
  /\ Step(c, t, [task[c][t] EXCEPT !.batch = {},
                   !.at = IF Cardinality(Hash(t)') > setup.overflow_margin THEN "overflow" ELSE "run"])
  /\ UNCHANGED <<call, outputs, made>>
  /\ Observe

(* The keys to evict: all of the hash but resolution_margin, whichever those *)
(* are; none for LFU, whose count is the minimum of the excess and zero.     *)
Excess(ks) == IF setup.handler = "lfu" THEN 0 ELSE Cardinality(ks) - setup.resolution_margin

(* resolve_overflow: HKEYS or HGETALL, unless another process was faster. *)
ResolveOverflow(c, t) ==
  /\ task[c][t].at = "overflow"
  /\ IF Cardinality(Hash(t)) <= setup.resolution_margin
     THEN Step(c, t, [task[c][t] EXCEPT !.at = "run"])
     ELSE \E ks \in SUBSET Hash(t) :
            /\ Cardinality(ks) = Excess(Hash(t))
            /\ Step(c, t, [task[c][t] EXCEPT !.victims = IF setup.handler = "lfu" THEN Hash(t) ELSE ks,
                             !.at = IF setup.handler = "lfu" THEN "halve" ELSE "evict"])
  /\ UNCHANGED <<db, call, outputs, made, seen>>

(* delete_batch: HDEL of a batch, then HLEN; the rest is spared once the     *)
(* hash is small enough.                                                     *)
Evict(c, t) ==
  /\ task[c][t].at = "evict"
  /\ \E ks \in SUBSET task[c][t].victims :
       /\ Cardinality(ks) = Minimum(Cardinality(task[c][t].victims), setup.max_batch_size)
       /\ db' = Without(ks)
       /\ LET left == IF Cardinality(Hash(t)') <= setup.resolution_margin THEN {}
                      ELSE task[c][t].victims \ ks
          IN  Step(c, t, [task[c][t] EXCEPT !.victims = left, !.at = IF left = {} THEN "run" ELSE @])
  /\ UNCHANGED <<call, outputs, made>>
  /\ Observe

(* LFU: the counters of the entries that stay are halved with HINCRBY. *)
Halve(c, t) ==
  /\ task[c][t].at = "halve"
  /\ db' = hincrby(task[c][t].victims)
  /\ Step(c, t, [task[c][t] EXCEPT !.victims = {}, !.at = "run"])
  /\ UNCHANGED <<call, outputs, made>>
  /\ Observe

(* DEL or HDEL of a batch. *)
erase(c, t) ==
  /\ Sends(c, t, {"erase"})
  /\ db' = Without(KeysAt(c, Batch(c, t)))
  /\ Step(c, t, [task[c][t] EXCEPT !.todo = @ \ Batch(c, t)])
  /\ UNCHANGED <<call, outputs, made>>
  /\ Observe

(* FLUSHDB, DEL of the hash or of each partition's hash; with a namespace a  *)
(* SCAN visits the keys and each reply's keys are deleted.                   *)
clear(c, t) ==
  /\ Sends(c, t, {"clear"})
  /\ \E S \in IF setup.mode = "strings" /\ setup.namespaced
              THEN SUBSET task[c][t].todo \ {{}} ELSE {task[c][t].todo} :
       /\ db' = Without(KeysAt(c, S))
       /\ Step(c, t, [task[c][t] EXCEPT !.todo = @ \ S])
  /\ UNCHANGED <<call, outputs, made>>
  /\ Observe

TaskStep(c, t) ==
  \/ Look(c, t) \/ Settle(c, t) \/ Write(c, t) \/ Measure(c, t) \/ ResolveOverflow(c, t)
  \/ Evict(c, t) \/ Halve(c, t) \/ erase(c, t) \/ clear(c, t)

AnyStep ==
  \/ \E c \in Callers : Begin(c) \/ WriteFound(c) \/ Return(c) \/ \E t \in Tasks : TaskStep(c, t)
  \/ Quiet

Next == UNCHANGED setup /\ AnyStep

Spec == Init /\ [][Next]_vars

----------------------------------------------------------------------------
(* Properties *)

(* The variables hold values of their types. *)
TypeOK ==
  /\ setup \in Setups
  /\ db \in [Keys -> Versions \union {None, Stamp, Count}]
  /\ \A c \in Callers :
       /\ hit_mask[c] \subseteq DOMAIN rows[c]
       /\ \A t \in Tasks : task[c][t].todo \union task[c][t].batch \subseteq DOMAIN call[c].keys
       /\ hits[c] \in 0 .. Len(rows[c])

(* While no insert is under way, no hash has more keys than overflow_margin  *)
(* (for the handlers that evict): every batch that overflowed was resolved.  *)
SizeBounded ==
  (Hashed /\ setup.handler # "lfu" /\ \A c \in Callers : call[c].op # "insert")
    => \A t \in 0 .. NumTasks - 1 : Cardinality(Hash(t)) <= setup.overflow_margin
============================================================================
