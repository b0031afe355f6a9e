----------------------------- MODULE StlTable -----------------------------
(***************************************************************************)
(* STLContainerTable, the host table of stl_map_backed_table_detail.hpp: a *)
(* hash map from keys to slots of buffers that are allocated as needed.    *)
(*                                                                         *)
(* A row is a key and a version.  Which keys an overflow evicts is left    *)
(* open, which covers the random, the LRU and the LFU handler; their       *)
(* metadata is not modelled.                                               *)
(***************************************************************************)
EXTENDS PartitionedTable

CONSTANTS AllocationRate, MaxValueSize, MetaSize, ValueAlignment,
          Wild                 \* what back() of an empty vector yields; a foreign row

Rows == Keys \X Versions

SlotsOK ==
  /\ {MaxValueSize, ValueAlignment} \subseteq Nat \ {0}
  /\ MetaSize \in Nat
  /\ AllocationRate \in Nat /\ AllocationRate >= MaxValueSize

slot_stride == ((MaxValueSize + MetaSize + ValueAlignment - 1) \div ValueAlignment) * ValueAlignment
slots_per_buffer == AllocationRate \div slot_stride

(* A partition never has more buffers than it has keys. *)
Slots == Parts \X (1 .. slots_per_buffer * Cardinality(Keys))

(* The constructor compares allocation_rate with max_value_size only; a      *)
(* buffer has a slot if it is no smaller than a slot with its metadata.      *)
BuffersOK == AllocationRate >= slot_stride
NonesOK == None \notin Slots \union Rows \union Versions \union {Wild}

VARIABLES slot_map, available_slots, slot_buffers, data, \* the partitions
          loaded           \* the mask word a find task works on

table == <<slot_map, available_slots, slot_buffers, data>>
vars == <<setup, table, call, at, loaded, outputs, made, seen>>

Init ==
  /\ InitCalls
  /\ slot_map = [k \in Keys |-> None]
  /\ available_slots = [p \in Parts |-> <<>>]
  /\ slot_buffers = [p \in Parts |-> 0]
  /\ data = [s \in Slots |-> None]
  /\ loaded = [c \in Callers |-> [t \in Tasks |-> None]]

Present == {k \in Keys : slot_map[k] # None}
Mapped(p) == {k \in Present : PartOf[k] = p}
RowAt(s) == IF s \in Slots THEN data[s] ELSE None
Held(k) == RowAt(slot_map[k])

(* The version of a row for key k; another key's row is none of k's. *)
Version(k, row) == IF row = None THEN None ELSE IF row[1] = k THEN row[2] ELSE Wild
TableRows == [k \in Keys |-> IF slot_map[k] = None THEN None ELSE Version(k, Held(k))]

Begin(c) == BeginCall(c, TableRows) /\ UNCHANGED <<table, loaded>>
StartTask(c, t) == TakeTask(c, t) /\ UNCHANGED <<table, loaded>>
Return(c) == ReturnCall(c) /\ UNCHANGED <<table, loaded>>

Write(slot, row) == data' = IF slot \in Slots THEN [data EXCEPT ![slot] = row] ELSE data

(* insert of a key that is there: its row is overwritten, nothing else. *)
InsertPresent(c, t) ==
  /\ ModifyStep(c, t, {"insert"})
  /\ slot_map[Key(c, t)] # None
  /\ Write(slot_map[Key(c, t)], <<Key(c, t), call[c].version>>)
  /\ UNCHANGED <<slot_map, available_slots, slot_buffers, loaded>>
  /\ Observe(TableRows')

Overflow_OffByOne(p) == Cardinality(Mapped(p)) > OverflowMargin
Overflow(p) == Cardinality(Mapped(p)) >= OverflowMargin

(* How many keys an insert evicts: an overflow leaves ResolutionMargin. *)
Excess(p) ==
  LET size == Cardinality(Mapped(p))
  IN  IF Overflow(p) /\ size > ResolutionMargin THEN size - ResolutionMargin ELSE 0

(* The keys it may evict, in the order in which their slots are reclaimed. *)
Victims(p) == {ks \in [1 .. Excess(p) -> Mapped(p)] : IsInjective(ks)}

(* A new buffer's slots, pushed from its end to its start. *)
NewSlots(p) ==
  [i \in 1 .. slots_per_buffer |-> <<p, (slot_buffers[p] + 1) * slots_per_buffer + 1 - i>>]

Reclaimed_Lost(ks) == <<>>
Reclaimed(ks) == [i \in DOMAIN ks |-> slot_map[ks[i]]]

Unmapped_KeepsVictims(ks) == slot_map
Unmapped(ks) == [k \in Keys |-> IF k \in ks THEN None ELSE slot_map[k]]

InsertNew(c, t) ==
  LET p == t[1]
      k == Key(c, t)
  IN  /\ ModifyStep(c, t, {"insert"})
      /\ slot_map[k] = None
      /\ \E ks \in Victims(p) :
           LET free == available_slots[p] \o Reclaimed(ks)
               slots == IF free = <<>> THEN NewSlots(p) ELSE free
               slot == IF slots = <<>> THEN Wild ELSE slots[Len(slots)]
           IN  /\ slot_buffers' = [slot_buffers EXCEPT ![p] = IF free = <<>> THEN @ + 1 ELSE @]
               /\ available_slots' = [available_slots EXCEPT ![p] =
                                        SubSeq(slots, 1, Len(slots) - 1)]
               /\ Write(slot, <<k, call[c].version>>)
               /\ slot_map' = [Unmapped(Range(ks)) EXCEPT ![k] = slot]
      /\ UNCHANGED loaded
      /\ Observe(TableRows')

(* update and update_accumulate: the row of a key that is there. *)
update(c, t) ==
  LET k == Key(c, t) IN
  /\ ModifyStep(c, t, {"update", "update_accumulate"})
  /\ IF slot_map[k] = None
     THEN UNCHANGED data
     ELSE Write(slot_map[k],
                IF call[c].op = "update" THEN <<k, call[c].version>>
                ELSE <<k, (Held(k)[2] + 1) % (MaxVersion + 1)>>)
  /\ UNCHANGED <<slot_map, available_slots, slot_buffers, loaded>>
  /\ Observe(TableRows')

erase(c, t) ==
  LET k == Key(c, t) IN
  /\ ModifyStep(c, t, {"erase"})
  /\ IF slot_map[k] = None
     THEN UNCHANGED <<slot_map, available_slots>>
     ELSE /\ available_slots' = [available_slots EXCEPT ![t[1]] = Append(@, slot_map[k])]
          /\ slot_map' = [slot_map EXCEPT ![k] = None]
  /\ UNCHANGED <<slot_buffers, data, loaded>>
  /\ Observe(TableRows')

Cleared_KeepsSlots(p) == UNCHANGED available_slots
Cleared(p) == available_slots' = [available_slots EXCEPT ![p] = <<>>]

clear(c, t) ==
  /\ ModifyStep(c, t, {"clear"})
  /\ slot_map' = Unmapped(Mapped(t[1]))
  /\ Cleared(t[1])
  /\ slot_buffers' = [slot_buffers EXCEPT ![t[1]] = 0]
  /\ UNCHANGED <<data, loaded>>
  /\ Observe(TableRows')

----------------------------------------------------------------------------
(* find_: the mask words of a task, each loaded, searched and joined *)

(* The word as loaded, and the slots found for the keys of this part that    *)
(* are no hits in it yet.                                                    *)
LoadWord(c, t) ==
  /\ IsFind(c) /\ Running(c, t) /\ loaded[c][t] = None
  /\ LET mask == hit_mask[c] \cap InWord(c, t)
         new == {i \in InWord(c, t) \ mask :
                   PartOf[call[c].keys[i]] = t[1] /\ slot_map[call[c].keys[i]] # None}
     IN  loaded' = [loaded EXCEPT ![c][t] =
                      [mask |-> mask, new |-> new, slot |-> [i \in new |-> slot_map[call[c].keys[i]]]]]
  /\ UNCHANGED <<setup, table, call, at, outputs, made, seen>>

Joined(c, t) == hit_mask[c] \union loaded[c][t].mask \union loaded[c][t].new

NewHits(c, t) == Cardinality(loaded[c][t].mask \union loaded[c][t].new) - Cardinality(loaded[c][t].mask)

(* The rows are copied, a prefetched one after the search for the next, and  *)
(* the word is joined.                                                       *)
JoinWord(c, t) ==
  /\ IsFind(c) /\ Running(c, t) /\ loaded[c][t] # None
  /\ rows' = [rows EXCEPT ![c] = [i \in DOMAIN @ |->
                IF i \in loaded[c][t].new THEN Version(call[c].keys[i], RowAt(loaded[c][t].slot[i])) ELSE @[i]]]
  /\ hit_mask' = [hit_mask EXCEPT ![c] = Joined(c, t)]
  /\ hits' = [hits EXCEPT ![c] = @ + NewHits(c, t)]
  /\ loaded' = [loaded EXCEPT ![c][t] = None]
  /\ StepDone(c, t)
  /\ UNCHANGED <<setup, table, call, made, seen>>

Done == Rest /\ UNCHANGED vars

TaskStep(c, t) ==
  \/ StartTask(c, t) \/ InsertPresent(c, t) \/ InsertNew(c, t) \/ update(c, t)
  \/ erase(c, t) \/ clear(c, t) \/ LoadWord(c, t) \/ JoinWord(c, t)

Next ==
  \/ \E c \in Callers : Begin(c) \/ Return(c) \/ \E t \in Tasks : TaskStep(c, t)
  \/ Done

Spec == Init /\ [][Next]_vars

----------------------------------------------------------------------------
(* Properties *)

(* The variables hold values of their types; no key maps outside the buffers. *)
TypeOK ==
  /\ CallsOK
  /\ slot_map \in [Keys -> Slots \union {None}]
  /\ available_slots \in [Parts -> Seq(Slots)]
  /\ slot_buffers \in [Parts -> 0 .. Cardinality(Keys)]
  /\ data \in [Slots -> Rows \union {None}]

Allocated(p) == {p} \X (1 .. slot_buffers[p] * slots_per_buffer)

(* Every slot of a partition's buffers is either free, once, or the slot of  *)
(* exactly one key of that partition: evictions, erasures, buffers and clear *)
(* never lose a slot and never give one to two keys.                         *)
SlotsPartitioned ==
  \A p \in Parts :
    LET used == {slot_map[k] : k \in Mapped(p)}
        free == {available_slots[p][i] : i \in DOMAIN available_slots[p]}
    IN  /\ used \union free = Allocated(p)
        /\ used \cap free = {}
        /\ Cardinality(used) = Cardinality(Mapped(p))
        /\ Cardinality(free) = Len(available_slots[p])

(* A key's slot holds a row that was written for that key. *)
RowIsOwn == \A k \in Present : Held(k) # None /\ Held(k)[1] = k

(* Overflow handling bounds a partition: at most OverflowMargin keys, or one *)
(* more than what an overflow leaves if that is larger.                      *)
SizeBounded ==
  \A p \in Parts : \/ Cardinality(Mapped(p)) <= OverflowMargin
                   \/ Cardinality(Mapped(p)) <= ResolutionMargin + 1
============================================================================
