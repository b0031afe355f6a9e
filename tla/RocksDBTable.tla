---------------------------- MODULE RocksDBTable ----------------------------
(***************************************************************************)
(* RocksDBTable (plugins/rocksdb/src/rocksdb_table.cpp): a column family   *)
(* accessed by the calling thread, one WriteBatch or MultiGet per batch.   *)
(***************************************************************************)
EXTENDS RemoteTable

(* process_batch of find_: the statuses of a MultiGet, a word's mask loaded  *)
(* before its first hit and stored after its last.                           *)
Settle(c, t) ==
  LET found == task[c][t].batch IN
  /\ call[c].stage = "look" /\ task[c][t].at = "settle"
  /\ hit_mask' = [hit_mask EXCEPT ![c] = Marked(c, t)]
  /\ hits' = [hits EXCEPT ![c] = @ + Cardinality(found)]
  /\ Step(c, t, [NoTask EXCEPT !.todo = task[c][t].todo])
  /\ UNCHANGED <<db, call, rows, made, seen>>

(* insert, update and update_accumulate: a WriteBatch of Puts. *)
Write(c, t) ==
  /\ Sends(c, t, {"insert", "update", "update_accumulate"})
  /\ db' = Written(c, Batch(c, t))
  /\ Step(c, t, [task[c][t] EXCEPT !.todo = @ \ Batch(c, t)])
  /\ UNCHANGED <<call, outputs, made>>
  /\ Observe

(* erase: a WriteBatch of Deletes. *)
erase(c, t) ==
  /\ Sends(c, t, {"erase"})
  /\ db' = Without(KeysAt(c, Batch(c, t)))
  /\ Step(c, t, [task[c][t] EXCEPT !.todo = @ \ Batch(c, t)])
  /\ UNCHANGED <<call, outputs, made>>
  /\ Observe

(* clear deletes the range from the empty string up to, not including, "~":  *)
(* the keys whose first byte is below that character.                        *)
clear(c, t) ==
  /\ Sends(c, t, {"clear"})
  /\ db' = Without(setup.below_tilde)
  /\ Step(c, t, NoTask)
  /\ UNCHANGED <<call, outputs, made>>
  /\ Observe

TaskStep(c, t) == Look(c, t) \/ Settle(c, t) \/ Write(c, t) \/ erase(c, t) \/ clear(c, t)

AnyStep ==
  \/ \E c \in Callers : Begin(c) \/ WriteFound(c) \/ Return(c) \/ \E t \in Tasks : TaskStep(c, t)
  \/ Quiet

Next == UNCHANGED setup /\ AnyStep

Spec == Init /\ [][Next]_vars

----------------------------------------------------------------------------
(* Properties *)

(* "Empties the table. Erases all entries." (table.hpp): when a clear has    *)
(* deleted its range and no other modify call overlaps it, no key is left.   *)
ClearEmpties ==
  \A c \in Callers : call[c].op = "clear" /\ setup.serial /\ (\A t \in Tasks : task[c][t].todo = {})
    => Present = {}

(* How the table is configured and used: one column family and no split of   *)
(* the calls, keys whose first byte is below '~', modify calls that do not   *)
(* overlap and name a key once.                                              *)
Distinct(ks) == ks \in Seq(Keys) /\ \A i, j \in DOMAIN ks : ks[i] = ks[j] => i = j

FamilyOK ==
  /\ IsFiniteSet(Keys) /\ MaxVersion \in Nat /\ None \notin Versions /\ NumBits \in Nat \ {0} /\ Tasks = {0}
  /\ \A s \in Setups :
       /\ s.mode = "family" /\ s.num_partitions = 0 /\ s.below_tilde = Keys /\ s.serial
       /\ s.ops \subseteq ModifyOps \union {"find"} /\ s.versions \subseteq Versions
       /\ \A ks \in s.batches : Distinct(ks)

(***************************************************************************)
(* The inductive invariant of the refinement.                              *)
(***************************************************************************)
Optional == Versions \union {None}

CallOK(r) ==
  /\ r \in [op : ModifyOps \union {"find"}, keys : Seq(Keys), version : Versions, mask : SUBSET Nat, stage : {"look", "write"}]
  /\ Distinct(r.keys) /\ r.mask \subseteq DOMAIN r.keys
  /\ r.op # "find" => r.mask = {}
  /\ r.op = "find" => r.stage = "look"
  /\ ~Looks(r.op) => r.stage = "write"
  /\ r.op = "clear" => \A k \in Keys : \E i \in DOMAIN r.keys : r.keys[i] = k

TaskOK(c) ==
  LET todo == task[c][0].todo IN
  /\ todo \subseteq DOMAIN call[c].keys
  /\ task[c][0].at = "run" => task[c][0].batch = {} /\ task[c][0].loaded = {}
  /\ task[c][0].at = "settle" =>
       /\ call[c].stage = "look"
       /\ task[c][0].loaded = hit_mask[c] \cap InWords(task[c][0].batch, Len(call[c].keys))
  /\ call[c].op = "clear" => todo = {} \/ todo = DOMAIN call[c].keys

(* find_: the mask has the keys found so far, each with a row of the time of *)
(* the call, but for the batch whose reply is not yet settled.               *)
LookOK(c) ==
  LET n == DOMAIN call[c].keys
      found == (hit_mask[c] \ call[c].mask) \union task[c][0].batch
  IN  /\ call[c].mask \subseteq hit_mask[c] /\ hit_mask[c] \subseteq n \ task[c][0].todo
      /\ task[c][0].batch \subseteq n \ (task[c][0].todo \union hit_mask[c])
      /\ DOMAIN rows[c] = n
      /\ \A i \in n : rows[c][i] # None <=> i \in found
      /\ \A i \in n \ (call[c].mask \union task[c][0].todo) : <<call[c].keys[i], rows[c][i]>> \in seen[c]
      /\ hits[c] = Cardinality(hit_mask[c]) - Cardinality(call[c].mask)

(* update and update_accumulate: what find_ read is still what is there. *)
FoundOK(c) ==
  \A i \in IF call[c].stage = "look" THEN hit_mask[c] \union task[c][0].batch ELSE task[c][0].todo :
    rows[c][i] # None /\ rows[c][i] = db[call[c].keys[i]]

CallerOK(c) ==
  IF call[c] = NoCall THEN task[c][0] = NoTask /\ seen[c] = {}
  ELSE /\ CallOK(call[c]) /\ TaskOK(c)
       /\ call[c].stage = "look" => LookOK(c)
       /\ call[c].op \in {"update", "update_accumulate"} => FoundOK(c)
       /\ Content(db) \subseteq seen[c]

TaskRecords ==
  [at : {"run", "settle"}, todo : SUBSET Nat, batch : SUBSET Nat, loaded : SUBSET Nat, victims : {{}}]

RTypes ==
  /\ setup \in Setups
  /\ db \in [Keys -> Optional]
  /\ task \in [Callers -> [Tasks -> TaskRecords]]
  /\ hit_mask \in [Callers -> SUBSET Nat] /\ rows \in [Callers -> Seq(Optional)] /\ hits \in [Callers -> Int]
  /\ call = [c \in Callers |-> call[c]] /\ seen = [c \in Callers |-> seen[c]]

RInv ==
  /\ RTypes
  /\ \A c \in Callers : CallerOK(c)
  /\ \A c, d \in Callers : call[c].op \in ModifyOps /\ call[d].op \in ModifyOps => c = d
============================================================================
