--------------------------- MODULE MCHostTables ---------------------------
(***************************************************************************)
(* The host tables side by side: a behaviour is one of one table, chosen   *)
(* at the start, and each implements the abstract table.                   *)
(***************************************************************************)
EXTENDS Integers, Sequences, FiniteSets
CONSTANTS k1, k2, k3, c1, c2, Wild, None, Stamp, Count

VARIABLES kind,                              \* which table
          setup, call, hit_mask, rows, hits, made, seen,
          at,                                \* the tasks of the calls
          db,                                \* the rows
          cursor,                            \* what find tasks have loaded
          slot_map, available_slots, slot_buffers, data

Keys == {k1, k2, k3}
Callers == {c1, c2}
MaxVersion == 1
NumBits == 2

OnePart == [k \in Keys |-> 0]
TwoParts == [k \in Keys |-> IF k = k3 THEN 1 ELSE 0]
AllOps == {"insert", "update", "update_accumulate", "erase", "clear", "find"}

NoMask == {{}}
Masks == {{}, {1}, {2, 3}}

(* Long sequences of calls on one partition, with duplicate keys; a find over *)
(* two mask words and two partitions; two threads while each insert evicts.   *)
StlSetups == {
    [part_of |-> OnePart, overflow_margin |-> 2, resolution_margin |-> 1, callers |-> {c1}, max_calls |-> 4, masks |-> NoMask,
     ops |-> AllOps, batches |-> {<<k1, k2>>, <<k3, k1>>, <<k2, k2>>}, versions |-> {0}],
    [part_of |-> TwoParts, overflow_margin |-> 3, resolution_margin |-> 2, callers |-> {c1}, max_calls |-> 3, masks |-> Masks,
     ops |-> AllOps, batches |-> {<<k1, k3, k2>>}, versions |-> {0, 1}],
    [part_of |-> TwoParts, overflow_margin |-> 1, resolution_margin |-> 0, callers |-> {c1, c2}, max_calls |-> 2, masks |-> NoMask,
     ops |-> {"insert", "erase", "find"}, batches |-> {<<k1, k2>>, <<k3, k1>>}, versions |-> {0}]}

(* One thread and a short queue, no queue, or no prefetched rows; two threads. *)
NvhmSetup(queue, prefetch, callers, ops, batches, calls, margin) ==
  [part_of |-> TwoParts, overflow_margin |-> margin, resolution_margin |-> margin - 1,
   callers |-> callers, max_calls |-> calls, ops |-> ops, batches |-> batches,
   masks |-> IF callers = {c1} THEN Masks ELSE NoMask, versions |-> {0, 1},
   key_fetch_queue_length |-> queue, prefetch_values |-> prefetch]
NvhmSetups == {
    NvhmSetup(1, TRUE, {c1}, AllOps, {<<k1, k2>>, <<k2, k2>>}, 3, 2),
    NvhmSetup(2, TRUE, {c1, c2}, {"insert", "find"}, {<<k3, k1, k2>>}, 2, 3),
    NvhmSetup(1, FALSE, {c1}, {"insert", "find"}, {<<k1, k2, k3>>, <<k2>>}, 3, 4),
    NvhmSetup(0, TRUE, {c1}, {"insert", "find"}, {<<k1, k2, k3>>, <<k2>>}, 3, 4)}

(* The storage modes, with and without work split over tasks; one thread with *)
(* every operation, two threads with an operation of each kind.  With the LRU *)
(* handler only the operations that do not look up: find_, which update and   *)
(* update_accumulate call too, overwrites the rows it hits (see LruSetup).    *)
RedisSetup(mode, handler, parts, batch, margin, callers, ops) ==
  [mode |-> mode, handler |-> handler, num_partitions |-> parts, max_batch_size |-> batch,
   part_of |-> TwoParts, namespaced |-> parts = 2, overflow_margin |-> margin,
   resolution_margin |-> margin - 1, serial |-> TRUE, callers |-> callers, ops |-> ops,
   batches |-> {<<k2, k3, k1>>}, masks |-> IF callers = {c1} THEN Masks ELSE NoMask,
   versions |-> IF callers = {c1} THEN {0, 1} ELSE {0}, max_calls |-> IF callers = {c1} THEN 4 ELSE 3]
RedisSetups == {
    RedisSetup("strings", "random", 2, 2, 1, {c1, c2}, {"insert", "update_accumulate", "find"}),
    RedisSetup("strings", "random", 2, 2, 1, {c1}, AllOps),
    RedisSetup("strings", "random", 0, 2, 1, {c1}, AllOps),
    RedisSetup("hash", "random", 0, 2, 2, {c1, c2}, {"insert", "update", "clear", "find"}),
    [RedisSetup("hashes", "random", 2, 2, 1, {c1, c2}, {"insert", "find"}) EXCEPT !.part_of = OnePart],
    RedisSetup("hashes", "random", 2, 2, 2, {c1}, AllOps),
    RedisSetup("hashes", "lru", 2, 2, 1, {c1}, {"insert", "erase", "clear"}),
    RedisSetup("hashes", "lfu", 2, 2, 1, {c1}, AllOps)}

(* The LRU handler with lookups. *)
LruSetup == RedisSetup("hashes", "lru", 2, 2, 2, {c1}, AllOps)

RocksDBSetup(batch, callers, ops) ==
  [mode |-> "family", num_partitions |-> 0, max_batch_size |-> batch, part_of |-> OnePart,
   below_tilde |-> Keys, serial |-> TRUE, callers |-> callers, ops |-> ops,
   masks |-> IF callers = {c1} THEN Masks ELSE NoMask,
   batches |-> {<<k1, k2, k3>>}, versions |-> IF callers = {c1} THEN {0, 1} ELSE {0}, max_calls |-> IF callers = {c1} THEN 4 ELSE 3]
RocksDBSetups == {
    RocksDBSetup(2, {c1}, AllOps),
    RocksDBSetup(2, {c1, c2}, {"insert", "erase", "update_accumulate", "find"})}

S == INSTANCE StlTable WITH Setups <- StlSetups, loaded <- cursor, NumPartitions <- 2, MaxFindTaskSize <- 1,
       AllocationRate <- 4, MaxValueSize <- 2, MetaSize <- 0, ValueAlignment <- 2
N == INSTANCE NvhmTable WITH Setups <- NvhmSetups, map <- db, NumPartitions <- 2, MaxFindTaskSize <- 2
R == INSTANCE RedisTable WITH Setups <- RedisSetups, Tasks <- {0, 1}, task <- at
D == INSTANCE RocksDBTable WITH Setups <- RocksDBSetups, Tasks <- {0}, task <- at
(* A table one of whose keys starts with a byte from '~' on. *)
W == INSTANCE RocksDBTable WITH Tasks <- {0}, task <- at,
       Setups <- {[RocksDBSetup(2, {c1}, {"insert", "clear"}) EXCEPT !.below_tilde = {k1}]}
L == INSTANCE RedisTable WITH Setups <- {LruSetup}, Tasks <- {0, 1}, task <- at

ASSUME S!SetupsOK /\ S!ConfigOK /\ S!SlotsOK /\ S!BuffersOK /\ S!NonesOK /\ S!BatchesOK /\ N!SetupsOK /\ N!ConfigOK /\ R!SetupsOK /\ D!SetupsOK /\ D!FamilyOK

NoSlots == slot_map = None /\ available_slots = None /\ slot_buffers = None /\ data = None

Init ==
  \/ kind = "stl" /\ S!Init /\ db = None
  \/ kind = "nvhm" /\ N!Init /\ NoSlots
  \/ kind = "redis" /\ R!Init /\ NoSlots /\ cursor = None
  \/ kind = "rocksdb" /\ D!Init /\ NoSlots /\ cursor = None

Next ==
  \/ kind = "stl" /\ S!Next /\ UNCHANGED <<kind, db>>
  \/ kind = "nvhm" /\ N!Next /\ UNCHANGED <<kind, slot_map, available_slots, slot_buffers, data>>
  \/ kind = "redis" /\ R!Next /\ UNCHANGED <<kind, cursor, slot_map, available_slots, slot_buffers, data>>
  \/ kind = "rocksdb" /\ D!Next /\ UNCHANGED <<kind, cursor, slot_map, available_slots, slot_buffers, data>>

vars == <<kind, setup, call, hit_mask, rows, hits, made, seen, at, db, cursor,
          slot_map, available_slots, slot_buffers, data>>

Spec == Init /\ [][Next]_vars
LruSpec == kind = "redis" /\ L!Init /\ NoSlots /\ cursor = None /\ [][Next]_vars
ClearSpec == kind = "rocksdb" /\ W!Init /\ NoSlots /\ cursor = None /\ [][Next]_vars

A == INSTANCE Table WITH
       row <- IF kind = "stl" THEN S!TableRows ELSE db,
       call <- IF kind \in {"stl", "nvhm"} THEN call ELSE IF kind = "redis" THEN R!AbsCall ELSE D!AbsCall,
       todo <- CASE kind = "stl" -> S!AbsTodo [] kind = "nvhm" -> N!AbsTodo
                 [] kind = "redis" -> R!AbsTodo [] OTHER -> D!AbsTodo,
       answer <- CASE kind = "stl" -> S!AbsAnswer [] kind = "nvhm" -> N!AbsAnswer
                   [] kind = "redis" -> R!AbsAnswer [] OTHER -> D!AbsAnswer

(* The variables hold values of their types. *)
TypeOK == CASE kind = "stl" -> S!TypeOK [] kind = "nvhm" -> N!TypeOK [] kind = "redis" -> R!TypeOK [] OTHER -> D!RInv

(* StlTable: every slot of the buffers is free, once, or of exactly one key. *)
SlotsPartitioned == kind = "stl" => S!SlotsPartitioned

(* StlTable: a key's slot holds a row that was written for that key. *)
RowIsOwn == kind = "stl" => S!RowIsOwn

(* Overflow handling bounds the partitions of the STL, nvhm and Redis tables. *)
SizeBounded ==
  CASE kind = "stl" -> S!SizeBounded [] kind = "nvhm" -> N!SizeBounded
    [] kind = "redis" -> R!SizeBounded [] OTHER -> TRUE

(* The host tables implement the abstract one: whatever the tasks, batches,   *)
(* locks and other callers, each call takes effect on each of its keys once,  *)
(* nothing else changes a row, insert alone evicts, and find answers with     *)
(* rows of the time of its call and with the number of hits it added.  Not    *)
(* covered are the lookups of a Redis table with the LRU handler, which the   *)
(* next property is about, and Redis and RocksDB modify calls that overlap.   *)
ImplementsTable == A!Spec

(* "Looks up the values for the provided keys if they exist in the table."    *)
(* (include/table.hpp:116), in a const member function: while no other call   *)
(* is under way, a find changes no row.                                       *)
FindKeepsRows == [][(\A c \in Callers : call[c].op \in {"none", "find"}) => db' = db]_vars

(* "Empties the table. Erases all entries." (include/table.hpp:54): when the  *)
(* clear of a RocksDB table has done its work, the table has no key.          *)
ClearEmpties == kind = "rocksdb" => W!ClearEmpties
============================================================================
