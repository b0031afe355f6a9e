--------------------------- MODULE StlTableProofs ---------------------------
(***************************************************************************)
(* STLContainerTable implements the abstract Table: proofs about StlTable, *)
(* from those about its slots and its tasks.                               *)
(***************************************************************************)
EXTENDS StlSlotsProofs

T == INSTANCE Table WITH row <- TableRows, todo <- AbsTodo, answer <- AbsAnswer

(* What the callers of StlTable see is a behaviour of the abstract table. *)
ImplementsTable == T!Spec

----------------------------------------------------------------------------
(* What the steps do to the rows *)

(* The rows of a slot map m and the content d of the slots. *)
RowsIn(m, d) == [k \in Keys |-> IF m[k] = None THEN None ELSE Version(k, IF m[k] \in Slots THEN d[m[k]] ELSE None)]

LEMMA RowsInAre ==
  ASSUME TableOK, NEW m \in [Keys -> Slots \union {None}], NEW d,
         \A k \in Keys : m[k] # None => d[m[k]] \in Rows /\ d[m[k]][1] = k
  PROVE  \A k \in Keys : IF m[k] = None THEN RowsIn(m, d)[k] = None
                         ELSE RowsIn(m, d)[k] = d[m[k]][2] /\ RowsIn(m, d)[k] \in Versions /\ RowsIn(m, d)[k] # None
PROOF
  <1>1. ASSUME NEW k \in Keys, m[k] # None
        PROVE  RowsIn(m, d)[k] = d[m[k]][2] /\ RowsIn(m, d)[k] \in Versions /\ RowsIn(m, d)[k] # None
    <2>1. m[k] \in Slots /\ d[m[k]] \in Rows /\ d[m[k]][1] = k
      BY <1>1, Zenon
    <2>2. d[m[k]] # None /\ None \notin Versions
      BY <2>1, Zenon DEF TableOK, NonesOK
    <2>3. RowsIn(m, d)[k] = d[m[k]][2]
      BY <1>1, <2>1, <2>2, Zenon DEF RowsIn, Version
    <2>4. d[m[k]][2] \in Versions
      BY <2>1 DEF Rows
    <2> QED
      BY <2>2, <2>3, <2>4, Zenon
  <1> QED
    BY <1>1, Zenon DEF RowsIn

LEMMA RowsAre ==
  ASSUME TableOK, TableInv
  PROVE  /\ \A k \in Keys : IF slot_map[k] = None THEN TableRows[k] = None
                            ELSE TableRows[k] = data[slot_map[k]][2] /\ TableRows[k] \in Versions /\ TableRows[k] # None
         /\ TableRows = [k \in Keys |-> TableRows[k]]
PROOF
  <1>1. TableRows = RowsIn(slot_map, data)
    BY Zenon DEF TableRows, RowsIn, Held, RowAt
  <1>2. /\ slot_map \in [Keys -> Slots \union {None}]
        /\ \A k \in Keys : slot_map[k] # None => data[slot_map[k]] \in Rows /\ data[slot_map[k]][1] = k
    BY Zenon DEF TableInv, TableTypes, OwnRows, Present
  <1> QED
    BY <1>1, <1>2, RowsInAre, ZenonT(60) DEF RowsIn

LEMMA NewRowsAre ==
  ASSUME TableOK, TableInv'
  PROVE  /\ \A k \in Keys : IF slot_map'[k] = None THEN TableRows'[k] = None
                            ELSE /\ TableRows'[k] = data'[slot_map'[k]][2]
                                 /\ TableRows'[k] \in Versions /\ TableRows'[k] # None
         /\ TableRows' = [k \in Keys |-> TableRows'[k]]
PROOF
  <1>1. TableRows' = RowsIn(slot_map', data')
    BY Zenon DEF TableRows, RowsIn, Held, RowAt
  <1>2. /\ slot_map' \in [Keys -> Slots \union {None}]
        /\ \A k \in Keys : slot_map'[k] # None => data'[slot_map'[k]] \in Rows /\ data'[slot_map'[k]][1] = k
    BY Zenon DEF TableInv, TableTypes, OwnRows, Present
  <1> QED
    BY <1>1, <1>2, RowsInAre, ZenonT(60) DEF RowsIn

LEMMA RowKept ==
  ASSUME TableOK, TableInv, TableInv', NEW l \in Keys, slot_map'[l] = slot_map[l],
         slot_map[l] # None => data'[slot_map[l]] = data[slot_map[l]]
  PROVE  TableRows'[l] = TableRows[l]
PROOF
  <1>1. CASE slot_map[l] = None
    BY <1>1, RowsAre, NewRowsAre, Zenon
  <1>2. CASE slot_map[l] # None
    <2>1. TableRows[l] = data[slot_map[l]][2]
      BY <1>2, RowsAre, Zenon
    <2>2. TableRows'[l] = data'[slot_map'[l]][2]
      BY <1>2, NewRowsAre, Zenon
    <2> QED
      BY <1>2, <2>1, <2>2, Zenon
  <1> QED
    BY <1>1, <1>2, Zenon

(* A call takes effect on the keys S, and evicts the keys ev. *)
Applied(c, S, ev) ==
  TableRows' = [k \in Keys |-> IF k \in ev THEN None
                               ELSE IF k \in S THEN T!Effect(call[c].op, TableRows[k], call[c].version)
                               ELSE TableRows[k]]

LEMMA AppliedByKey ==
  ASSUME TableOK, TableInv', NEW c, NEW S, NEW ev,
         \A k \in Keys : TableRows'[k] = IF k \in ev THEN None
                                         ELSE IF k \in S THEN T!Effect(call[c].op, TableRows[k], call[c].version)
                                         ELSE TableRows[k]
  PROVE  Applied(c, S, ev)
BY NewRowsAre, Zenon DEF Applied

(* The row of a key that is there is written. *)
LEMMA RowChanged ==
  ASSUME TableOK, TableInv, TableInv', NEW k \in Keys, slot_map[k] # None,
         NEW v, Write(slot_map[k], <<k, v>>), UNCHANGED slot_map
  PROVE  \A l \in Keys : TableRows'[l] = IF l = k THEN v ELSE TableRows[l]
PROOF
  <1>1. slot_map[k] \in Slots /\ k \in Present
    BY Zenon DEF TableInv, TableTypes, Present
  <1>2. data' = [data EXCEPT ![slot_map[k]] = <<k, v>>]
    BY <1>1, Zenon DEF Write
  <1>3. data \in [Slots -> Rows \union {None}] /\ data'[slot_map[k]][2] = v
    BY <1>1, <1>2 DEF TableInv, TableTypes
  <1>4. ASSUME NEW l \in Keys, l # k, slot_map[l] # None PROVE data'[slot_map[l]] = data[slot_map[l]]
    <2>1. slot_map[l] \in Slots /\ slot_map[l] # slot_map[k]
      BY <1>1, <1>4, Zenon DEF TableInv, TableTypes, SlotsInv, Present
    <2> QED
      BY <1>2, <1>3, <2>1, Zenon
  <1>5. TableRows'[k] = v
    BY <1>3, NewRowsAre, Zenon
  <1>6. ASSUME NEW l \in Keys, l # k PROVE TableRows'[l] = TableRows[l]
    BY <1>4, <1>6, RowKept, Zenon
  <1> QED
    BY <1>5, <1>6, Zenon

LEMMA InsertPresentApplies ==
  ASSUME TableOK, SetupsOK, TasksInv, TableInv, TableInv', NEW c \in Callers, NEW t \in Tasks, InsertPresent(c, t)
  PROVE  Applied(c, {Key(c, t)}, {})
PROOF
  <1>1. /\ ModifyStep(c, t, {"insert"}) /\ slot_map[Key(c, t)] # None /\ UNCHANGED slot_map
        /\ Write(slot_map[Key(c, t)], <<Key(c, t), call[c].version>>)
        /\ {"insert"} \in SUBSET KeyOps
    BY Zenon DEF InsertPresent, KeyOps
  <1>2. Key(c, t) \in Keys /\ call[c].op = "insert"
    BY <1>1, KeyOfStep, Zenon DEF ModifyStep
  <1>3. \A l \in Keys : TableRows'[l] = IF l = Key(c, t) THEN call[c].version ELSE TableRows[l]
    BY <1>1, <1>2, RowChanged, Zenon
  <1>4. \A r : T!Effect(call[c].op, r, call[c].version) = call[c].version
    BY <1>2, Zenon DEF T!Effect
  <1> QED
    BY <1>3, <1>4, AppliedByKey, Zenon

LEMMA UpdateApplies ==
  ASSUME TableOK, SetupsOK, TasksInv, TableInv, TableInv', NEW c \in Callers, NEW t \in Tasks, update(c, t)
  PROVE  Applied(c, {Key(c, t)}, {})
PROOF
  <1> DEFINE k == Key(c, t)
  <1>1. ModifyStep(c, t, {"update", "update_accumulate"}) /\ UNCHANGED slot_map
        /\ {"update", "update_accumulate"} \in SUBSET KeyOps
    BY Zenon DEF update, KeyOps
  <1>2. k \in Keys /\ call[c].op \in {"update", "update_accumulate"} /\ UNCHANGED setup
    BY <1>1, KeyOfStep, Zenon DEF ModifyStep
  <1>3. None \notin Versions
    BY Zenon DEF TableOK, NonesOK
  <1>4. /\ call[c].op = "update" =>
             \A r : T!Effect(call[c].op, r, call[c].version) = IF r = None THEN None ELSE call[c].version
        /\ call[c].op = "update_accumulate" =>
             \A r : T!Effect(call[c].op, r, call[c].version) = IF r \in Versions THEN (r + 1) % (MaxVersion + 1) ELSE r
    BY Zenon DEF T!Effect, T!Accumulated, T!Versions, Versions
  <1>5. CASE slot_map[k] = None
    <2>1. data' = data
      BY <1>5, Zenon DEF update
    <2>2. \A l \in Keys : TableRows'[l] = TableRows[l] /\ TableRows[k] = None
      BY <1>1, <1>2, <1>5, <2>1, RowsAre, RowKept, Zenon
    <2>3. T!Effect(call[c].op, TableRows[k], call[c].version) = TableRows[k]
      BY <1>2, <1>3, <1>4, <2>2, Zenon
    <2> QED
      BY <2>2, <2>3, AppliedByKey, Zenon
  <1>6. CASE slot_map[k] # None
    <2> DEFINE v == IF call[c].op = "update" THEN call[c].version ELSE (Held(k)[2] + 1) % (MaxVersion + 1)
    <2>1. Write(slot_map[k], <<k, v>>)
      BY <1>6, Zenon DEF update
    <2>2. Held(k) = data[slot_map[k]]
      BY <1>2, <1>6, PresentFacts, Zenon
    <2>3. \A l \in Keys : TableRows'[l] = IF l = k THEN v ELSE TableRows[l]
      <3> HIDE DEF v
      <3> QED
        BY <1>1, <1>2, <1>6, <2>1, RowChanged, Zenon
    <2>4. TableRows[k] = Held(k)[2] /\ TableRows[k] \in Versions /\ TableRows[k] # None
      BY <1>2, <1>6, <2>2, RowsAre, Zenon
    <2>5. T!Effect(call[c].op, TableRows[k], call[c].version) = v
      <3>1. CASE call[c].op = "update"
        BY <1>4, <2>4, <3>1, Zenon
      <3>2. CASE call[c].op # "update"
        BY <1>2, <1>4, <2>4, <3>2, Zenon
      <3> QED
        BY <3>1, <3>2, Zenon
    <2> HIDE DEF v
    <2> QED
      BY <2>3, <2>5, AppliedByKey, Zenon
  <1> QED
    BY <1>5, <1>6, Zenon

LEMMA EraseApplies ==
  ASSUME TableOK, SetupsOK, TasksInv, TableInv, TableInv', NEW c \in Callers, NEW t \in Tasks, erase(c, t)
  PROVE  Applied(c, {Key(c, t)}, {}) /\ \A l \in Keys : PartOf[l] # t[1] => slot_map'[l] = slot_map[l]
PROOF
  <1> DEFINE k == Key(c, t)
  <1>1. ModifyStep(c, t, {"erase"}) /\ data' = data /\ {"erase"} \in SUBSET KeyOps
    BY Zenon DEF erase, KeyOps
  <1>2. k \in Keys /\ PartOf[k] = t[1] /\ call[c].op = "erase"
    BY <1>1, KeyOfStep, Zenon DEF ModifyStep
  <1>3. \A l \in Keys : slot_map'[l] = IF l = k THEN None ELSE slot_map[l]
    BY <1>2, Zenon DEF erase, TableInv, TableTypes
  <1>4. \A r : T!Effect(call[c].op, r, call[c].version) = None
    BY <1>2, Zenon DEF T!Effect
  <1>5. TableRows'[k] = None
    BY <1>2, <1>3, NewRowsAre, Zenon
  <1>6. ASSUME NEW l \in Keys, l # k PROVE TableRows'[l] = TableRows[l]
    BY <1>1, <1>3, <1>6, RowKept, Zenon
  <1>7. Applied(c, {k}, {})
    BY <1>4, <1>5, <1>6, AppliedByKey, Zenon
  <1> QED
    BY <1>2, <1>3, <1>7, Zenon

LEMMA InsertNewApplies ==
  ASSUME TableOK, SetupsOK, TasksInv, TableInv, TableInv', NEW c \in Callers, NEW t \in Tasks, InsertNew(c, t)
  PROVE  /\ \E ev \in SUBSET Keys : Applied(c, {Key(c, t)}, ev)
         /\ \A l \in Keys : PartOf[l] # t[1] => slot_map'[l] = slot_map[l]
PROOF
  <1> DEFINE k == Key(c, t)
             p == t[1]
  <1>1. ModifyStep(c, t, {"insert"}) /\ {"insert"} \in SUBSET KeyOps /\ slot_map[k] = None
    BY Zenon DEF InsertNew, KeyOps
  <1>2. k \in Keys /\ PartOf[k] = p /\ p \in Parts /\ call[c].op = "insert"
    BY <1>1, KeyOfStep, Zenon DEF ModifyStep
  <1>3. PICK vs \in Victims(p) : \E slot, bufs, free : GivesSlot(c, t, Range(vs), slot, bufs, free)
    BY InsertNewGives, Zenon
  <1> DEFINE ks == Range(vs)
  <1>4. PICK slot, bufs, free : GivesSlot(c, t, ks, slot, bufs, free)
    BY <1>3, Zenon
  <1> HIDE DEF ks
  <1>5. /\ ks \subseteq Mapped(p) /\ bufs \in 0 .. Cardinality(Keys)
        /\ slot \in FirstSlots(p, bufs) /\ slot \notin SlotsOf(Mapped(p) \ ks)
        /\ Write(slot, <<k, call[c].version>>)
        /\ slot_map' = [Unmapped(ks) EXCEPT ![k] = slot]
    BY <1>4, Zenon DEF GivesSlot
  <1>6. slot \in Slots /\ slot[1] = p /\ None \notin Slots
    <2>1. FirstSlots(p, bufs) \subseteq Slots
      BY <1>2, <1>5, FirstSlotsReal, Zenon
    <2>2. slot[1] = p
      BY <1>5 DEF FirstSlots
    <2> QED
      BY <1>5, <2>1, <2>2, Zenon DEF TableOK, NonesOK
  <1>7. slot_map'[k] = slot /\ \A l \in Keys \ {k} : slot_map'[l] = IF l \in ks THEN None ELSE slot_map[l]
    BY <1>2, <1>5, Zenon DEF Unmapped
  <1>8. ks \subseteq Keys /\ k \notin ks /\ \A l \in ks : PartOf[l] = p
    BY <1>1, <1>5, Zenon DEF Mapped, Present
  <1>9. data' = [data EXCEPT ![slot] = <<k, call[c].version>>] /\ data \in [Slots -> Rows \union {None}]
    BY <1>5, <1>6, Zenon DEF Write, TableInv, TableTypes
  <1>10. TableRows'[k] = call[c].version
    <2>1. data'[slot][2] = call[c].version
      BY <1>6, <1>9
    <2> QED
      BY <1>2, <1>6, <1>7, <2>1, NewRowsAre, Zenon
  <1>11. ASSUME NEW l \in ks PROVE TableRows'[l] = None
    BY <1>7, <1>8, NewRowsAre, Zenon
  <1>12. ASSUME NEW l \in Keys, l # k, l \notin ks PROVE TableRows'[l] = TableRows[l]
    <2>1. slot_map'[l] = slot_map[l]
      BY <1>7, <1>12, Zenon
    <2>2. CASE slot_map[l] = None
      BY <2>1, <2>2, RowKept, Zenon
    <2>3. CASE slot_map[l] # None
      <3>1. slot_map[l] \in Slots /\ slot_map[l][1] = PartOf[l] /\ l \in Mapped(PartOf[l])
        BY <2>3, PresentFacts, Zenon
      <3>2. slot_map[l] # slot
        <4>1. CASE PartOf[l] = p
          BY <1>5, <1>12, <3>1, <4>1, Zenon DEF SlotsOf
        <4>2. CASE PartOf[l] # p
          BY <1>6, <3>1, <4>2, Zenon
        <4> QED
          BY <4>1, <4>2, Zenon
      <3>3. data'[slot_map[l]] = data[slot_map[l]]
        BY <1>9, <3>1, <3>2, Zenon
      <3> QED
        BY <2>1, <3>3, RowKept, Zenon
    <2> QED
      BY <2>2, <2>3, Zenon
  <1>13. \A r : T!Effect(call[c].op, r, call[c].version) = call[c].version
    BY <1>2, Zenon DEF T!Effect
  <1>14. Applied(c, {k}, ks)
    BY <1>8, <1>10, <1>11, <1>12, <1>13, AppliedByKey, Zenon
  <1> QED
    BY <1>2, <1>7, <1>8, <1>14, Zenon

LEMMA ClearApplies ==
  ASSUME TableOK, SetupsOK, TasksInv, TableInv, TableInv', NEW c \in Callers, NEW t \in Tasks, clear(c, t)
  PROVE  /\ Applied(c, {k \in Keys : PartOf[k] = t[1]}, {})
         /\ \A l \in Keys : PartOf[l] # t[1] => slot_map'[l] = slot_map[l]
PROOF
  <1> DEFINE p == t[1]
             S == {k \in Keys : PartOf[k] = p}
  <1>1. call[c].op = "clear" /\ data' = data
    BY Zenon DEF clear, ModifyStep
  <1>2. \A l \in Keys : slot_map'[l] = IF l \in Mapped(p) THEN None ELSE slot_map[l]
    BY Zenon DEF clear, Unmapped
  <1>3. \A l \in Keys : PartOf[l] = p /\ slot_map[l] # None => l \in Mapped(p)
    BY Zenon DEF Mapped, Present
  <1>4. \A l \in Mapped(p) : PartOf[l] = p
    BY Zenon DEF Mapped
  <1>5. \A r : T!Effect(call[c].op, r, call[c].version) = None
    BY <1>1, Zenon DEF T!Effect
  <1>6. ASSUME NEW l \in Keys, PartOf[l] = p PROVE TableRows'[l] = None
    <2>1. slot_map'[l] = None
      BY <1>2, <1>3, <1>6, Zenon
    <2> QED
      BY <2>1, NewRowsAre, Zenon
  <1>7. ASSUME NEW l \in Keys, PartOf[l] # p PROVE TableRows'[l] = TableRows[l] /\ slot_map'[l] = slot_map[l]
    <2>1. slot_map'[l] = slot_map[l]
      BY <1>2, <1>4, <1>7, Zenon
    <2> QED
      BY <1>1, <2>1, RowKept, Zenon
  <1>8. \A l \in Keys : l \in S <=> PartOf[l] = p
    BY Zenon
  <1> HIDE DEF S
  <1>9. Applied(c, S, {})
    BY <1>5, <1>6, <1>7, <1>8, AppliedByKey, Zenon
  <1> QED
    BY <1>7, <1>9, Zenon DEF S

LEMMA JoinSearches ==
  ASSUME SetupsOK, ConfigOK, BatchesOK, TasksInv, CallsInv, NEW c \in Callers, NEW t \in Tasks, IsFind(c), Running(c, t),
         call' = call, setup' = setup, StepDone(c, t), NEW i \in DOMAIN call[c].keys
  PROVE  Searched(c, i)' <=> Searched(c, i) \/ (i \in InWord(c, t) /\ PartOf[call[c].keys[i]] = t[1])
PROOF
  <1> DEFINE b == at[c][t]
             w == (i - 1) \div NumBits
             p == PartOf[call[c].keys[i]]
             Seen(u, a) == a < at[c][u] /\ WordAt(c, u, a) = w
             SeenNow(u, a) == a < at'[c][u] /\ WordAt(c, u, a) = w
  <1>1. t \in TasksOf(c) /\ TasksOf(c) \subseteq Tasks
    <2>1. call[c].keys \in Seq(Keys) /\ Len(call[c].keys) <= MaxBatch
      BY DEF TasksInv, Calls, CallsInv, CallInv
    <2> QED
      BY <2>1, RunningTask, BatchTasks, Zenon DEF TasksOf
  <1>2. b \in 1 .. TaskSize(c, t) /\ b \in Nat /\ TaskSize(c, t) \in Nat
    <2>1. Steps(c, t) = TaskSize(c, t)
      BY DEF Steps, IsFind
    <2>2. TaskSize(c, t) \in Nat
      <3>1. TaskSize(c, t) \in 1 .. MaxFindTaskSize /\ MaxFindTaskSize \in Nat \ {0}
        BY <1>1, FindTask, Zenon DEF TasksInv, ConfigOK
      <3> QED
        BY <3>1
    <2> QED
      BY <2>1, <2>2 DEF Running
  <1>3. at'[c][t] = b + 1 /\ \A u \in TasksOf(c) : u # t => at'[c][u] = at[c][u]
    <2>1. StepFrom(c, t, b + 1) = b + 1
      BY Zenon DEF StepFrom, IsFind
    <2> QED
      BY <1>1, <2>1, Zenon DEF StepDone, TasksInv
  <1>4. Searched(c, i) <=> \E u \in TasksOf(c) : u[1] = p /\ \E a \in 1 .. TaskSize(c, u) : Seen(u, a)
    BY Zenon DEF Searched
  <1>5. Searched(c, i)' <=> \E u \in TasksOf(c) : u[1] = p /\ \E a \in 1 .. TaskSize(c, u) : SeenNow(u, a)
    <2>1. TasksOf(c)' = TasksOf(c) /\ PartOf' = PartOf
      BY Zenon DEF TasksOf, IsFind, PartOf
    <2>2. \A u, a : WordAt(c, u, a)' = WordAt(c, u, a) /\ TaskSize(c, u)' = TaskSize(c, u)
      BY Zenon DEF WordAt, TaskSize
    <2> QED
      BY <2>1, <2>2, Zenon DEF Searched
  <1>6. i \in InWord(c, t) <=> WordAt(c, t, b) = w
    <2>1. i \in 1 .. Len(call[c].keys)
      BY DEF TasksInv, Calls
    <2> QED
      BY <2>1, Zenon DEF InWord, Word, WordAt
  <1>7. \A a \in 1 .. TaskSize(c, t) : a < b + 1 <=> a < b \/ a = b
    <2> HIDE DEF b
    <2> QED
      BY <1>2
  <1> HIDE DEF w, p, b
  <1>8. \A u \in TasksOf(c) : u # t => \A a : SeenNow(u, a) <=> Seen(u, a)
    BY <1>3, Zenon
  <1>9. \A a \in 1 .. TaskSize(c, t) : SeenNow(t, a) <=> Seen(t, a) \/ (a = b /\ WordAt(c, t, b) = w)
    BY <1>3, <1>7, Zenon DEF b
  <1> HIDE DEF Seen, SeenNow
  <1>10. Searched(c, i)' => Searched(c, i) \/ (WordAt(c, t, b) = w /\ p = t[1])
    BY <1>4, <1>5, <1>8, <1>9, Zenon
  <1>11. Searched(c, i) => Searched(c, i)'
    BY <1>4, <1>5, <1>8, <1>9, Zenon
  <1>12. WordAt(c, t, b) = w /\ p = t[1] => Searched(c, i)'
    BY <1>1, <1>2, <1>5, <1>9, Zenon
  <1> QED
    BY <1>6, <1>10, <1>11, <1>12, Zenon DEF p

LEMMA JoinFinds ==
  ASSUME SetupsOK, TableOK, BatchesOK, TasksInv, TableInv, OutputsInv, CallsInv, FindsInv,
         NEW c \in Callers, NEW t \in Tasks, JoinWord(c, t)
  PROVE  FindsInv'
PROOF
  <1> DEFINE keys == call[c].keys
             word == loaded[c][t]
             new == Found(c, t)
  <1>1. /\ call' = call /\ setup' = setup /\ seen' = seen /\ slot_map' = slot_map /\ IsFind(c) /\ Running(c, t)
        /\ StepDone(c, t) /\ loaded[c][t] # None /\ ConfigOK
        /\ loaded' = [loaded EXCEPT ![c][t] = None]
        /\ at' = [at EXCEPT ![c][t] = StepFrom(c, t, at[c][t] + 1)]
    BY Zenon DEF JoinWord, StepDone, outputs, table, TasksInv, TableOK
  <1>2. /\ word.mask \subseteq hit_mask[c] /\ word.mask \cap new = {} /\ word.new = new
        /\ \A i \in new : word.slot[i] = slot_map[keys[i]]
    <2>1. LoadedInv(c, t)
      BY Zenon DEF FindsInv
    <2> QED
      BY <1>1, <2>1, Zenon DEF LoadedInv
  <1>3. /\ DOMAIN rows[c] = DOMAIN keys
        /\ \A i \in DOMAIN keys : IF i \in call[c].mask \/ ~Searched(c, i) THEN rows[c][i] = None
                                  ELSE <<keys[i], rows[c][i]>> \in seen[c]
        /\ hit_mask[c] = call[c].mask \union {i \in DOMAIN rows[c] : rows[c][i] # None}
        /\ hits[c] = Cardinality(hit_mask[c]) - Cardinality(call[c].mask)
    <2>1. FindInv(c)
      BY Zenon DEF FindsInv
    <2> QED
      BY <1>1, <2>1, Zenon DEF FindInv
  <1>4. /\ rows'[c] = [i \in DOMAIN rows[c] |-> IF i \in new THEN Version(keys[i], RowAt(word.slot[i])) ELSE rows[c][i]]
        /\ hit_mask'[c] = hit_mask[c] \union new
        /\ hits'[c] = hits[c] + (Cardinality(word.mask \union new) - Cardinality(word.mask))
        /\ \A d \in Callers : d # c => rows'[d] = rows[d] /\ hit_mask'[d] = hit_mask[d] /\ hits'[d] = hits[d]
    <2>1. /\ rows' = [rows EXCEPT ![c] = [i \in DOMAIN rows[c] |->
                        IF i \in word.new THEN Version(keys[i], RowAt(word.slot[i])) ELSE rows[c][i]]]
          /\ hit_mask' = [hit_mask EXCEPT ![c] = Joined(c, t)]
          /\ hits' = [hits EXCEPT ![c] = hits[c] + NewHits(c, t)]
      BY Zenon DEF JoinWord, OutputsInv
    <2>2. Joined(c, t) = hit_mask[c] \union new
      BY <1>2, Zenon DEF Joined
    <2>3. NewHits(c, t) = Cardinality(word.mask \union new) - Cardinality(word.mask)
      BY <1>2, Zenon DEF NewHits
    <2> HIDE DEF word, new
    <2> QED
      BY <1>2, <2>1, <2>2, <2>3, Zenon DEF OutputsInv
  <1>5. keys \in Seq(Keys) /\ call[c].mask \subseteq DOMAIN keys /\ IsFiniteSet(DOMAIN keys)
    <2>1. keys \in Seq(Keys)
      BY DEF TasksInv, Calls
    <2>2. IsFiniteSet(DOMAIN keys)
      BY <2>1, FS_Interval
    <2> QED
      BY <2>1, <2>2, Zenon DEF CallsInv, CallInv
  <1>6. /\ new \subseteq DOMAIN keys
        /\ \A i \in new : /\ i \in InWord(c, t) /\ i \notin call[c].mask /\ PartOf[keys[i]] = t[1]
                          /\ slot_map[keys[i]] # None
        /\ \A i \in DOMAIN keys : i \in InWord(c, t) /\ i \notin call[c].mask /\ PartOf[keys[i]] = t[1] /\ i \notin new
                                    => slot_map[keys[i]] = None
    <2>1. InWord(c, t) \subseteq DOMAIN keys
      BY <1>5 DEF InWord
    <2> QED
      BY <2>1, Zenon DEF Found
  <1>7. \A i \in DOMAIN keys : keys[i] \in Keys
    BY <1>5
  <1>8. \A i \in InWord(c, t) : PartOf[keys[i]] = t[1] => ~Searched(c, i)
    BY <1>1, Unsearched, Zenon
  <1> HIDE DEF new, word
  <1>9. \A i \in new : rows'[c][i] = TableRows[keys[i]] /\ rows'[c][i] # None
    <2>1. ASSUME NEW i \in new PROVE rows'[c][i] = TableRows[keys[i]]
      <3>0. i \in DOMAIN rows[c] /\ word.slot[i] = slot_map[keys[i]]
        BY <1>2, <1>3, <1>6, Zenon
      <3>1. rows'[c][i] = Version(keys[i], RowAt(word.slot[i]))
        BY <1>4, <3>0, Zenon
      <3>2. rows'[c][i] = Version(keys[i], RowAt(slot_map[keys[i]]))
        BY <3>0, <3>1, Zenon
      <3> QED
        BY <1>6, <1>7, <3>2, Zenon DEF TableRows, Held
    <2>2. \A k \in Keys : slot_map[k] # None => TableRows[k] # None
      BY RowsAre, Zenon
    <2>3. ASSUME NEW i \in new PROVE TableRows[keys[i]] # None
      <3>1. keys[i] \in Keys /\ slot_map[keys[i]] # None
        BY <1>6, <1>7, Zenon
      <3> QED
        BY <2>2, <3>1, Zenon
    <2> QED
      BY <2>1, <2>3, Zenon
  <1>10. DOMAIN rows'[c] = DOMAIN keys /\ \A i \in DOMAIN keys : i \notin new => rows'[c][i] = rows[c][i]
    BY <1>3, <1>4, Zenon
  <1>11. \A i \in DOMAIN keys : <<keys[i], TableRows[keys[i]]>> \in seen[c]
    <2>1. Content(TableRows) \subseteq seen[c]
      BY <1>1, RunningTask, Zenon DEF CallsInv, CallInv
    <2> QED
      BY <1>7, <2>1, Zenon DEF Content
  <1>12. \A i \in DOMAIN keys : Searched(c, i)' <=> Searched(c, i) \/ (i \in InWord(c, t) /\ PartOf[keys[i]] = t[1])
    BY <1>1, JoinSearches, Zenon
  <1>13. ASSUME NEW i \in DOMAIN keys
         PROVE  IF i \in call[c].mask \/ ~Searched(c, i)' THEN rows'[c][i] = None
                ELSE <<keys[i], rows'[c][i]>> \in seen[c]
    <2>1. CASE i \in new
      <3>1. i \notin call[c].mask /\ Searched(c, i)'
        BY <1>6, <1>12, <2>1, Zenon
      <3>2. <<keys[i], rows'[c][i]>> \in seen[c]
        BY <1>9, <1>11, <2>1, Zenon
      <3> QED
        BY <3>1, <3>2, Zenon
    <2>2. CASE i \notin new /\ i \in InWord(c, t) /\ PartOf[keys[i]] = t[1]
      <3>1. rows'[c][i] = None
        BY <1>3, <1>8, <1>10, <2>2, Zenon
      <3>2. i \notin call[c].mask => TableRows[keys[i]] = None
        BY <1>6, <1>7, <2>2, RowsAre, Zenon
      <3>3. i \notin call[c].mask => <<keys[i], rows'[c][i]>> \in seen[c]
        BY <1>11, <3>1, <3>2, Zenon
      <3> QED
        BY <3>1, <3>3, Zenon
    <2>3. CASE i \notin new /\ ~(i \in InWord(c, t) /\ PartOf[keys[i]] = t[1])
      <3>1. (Searched(c, i)' <=> Searched(c, i)) /\ rows'[c][i] = rows[c][i]
        BY <1>10, <1>12, <2>3, Zenon
      <3> QED
        BY <1>3, <3>1, Zenon
    <2> QED
      BY <2>1, <2>2, <2>3, Zenon
  <1>14. hit_mask'[c] = call[c].mask \union {i \in DOMAIN rows'[c] : rows'[c][i] # None}
    <2>1. \A i : i \in hit_mask[c] <=> i \in call[c].mask \/ (i \in DOMAIN keys /\ rows[c][i] # None)
      BY <1>3, Zenon
    <2>2. \A i : i \in hit_mask'[c] <=> i \in call[c].mask \/ (i \in DOMAIN keys /\ rows'[c][i] # None)
      BY <1>4, <1>6, <1>9, <1>10, <2>1, Zenon
    <2> QED
      BY <1>10, <2>2, Zenon
  <1>15. hits'[c] = Cardinality(hit_mask'[c]) - Cardinality(call[c].mask)
    <2>1. hit_mask[c] \subseteq DOMAIN keys /\ hit_mask[c] \cap new = {}
      <3>1. ASSUME NEW i \in new PROVE i \notin hit_mask[c]
        BY <1>3, <1>6, <1>8, Zenon
      <3> QED
        BY <1>3, <1>5, <3>1, Zenon
    <2>2. /\ IsFiniteSet(hit_mask[c]) /\ IsFiniteSet(new) /\ IsFiniteSet(word.mask) /\ IsFiniteSet(call[c].mask)
      BY <1>2, <1>5, <1>6, <2>1, FS_Subset, Zenon
    <2>3. /\ Cardinality(hit_mask[c]) \in Nat /\ Cardinality(new) \in Nat
          /\ Cardinality(word.mask) \in Nat /\ Cardinality(call[c].mask) \in Nat
      BY <2>2, FS_CardinalityType, Zenon
    <2>4. \A A, B : IsFiniteSet(A) /\ IsFiniteSet(B) /\ A \cap B = {} =>
            Cardinality(A \union B) = Cardinality(A) + Cardinality(B)
      <3>1. SUFFICES ASSUME NEW A, NEW B, IsFiniteSet(A), IsFiniteSet(B), A \cap B = {}
                     PROVE  Cardinality(A \union B) = Cardinality(A) + Cardinality(B)
        BY Zenon
      <3>2. Cardinality(A \union B) = Cardinality(A) + Cardinality(B) - Cardinality(A \cap B)
        BY <3>1, FS_Union, Zenon
      <3>3. Cardinality(A \cap B) = 0 /\ Cardinality(A) \in Nat /\ Cardinality(B) \in Nat
        BY <3>1, FS_EmptySet, FS_CardinalityType, Zenon
      <3> QED
        BY <3>2, <3>3
    <2>5. Cardinality(hit_mask[c] \union new) = Cardinality(hit_mask[c]) + Cardinality(new)
      BY <2>1, <2>2, <2>4, Zenon
    <2>6. Cardinality(word.mask \union new) = Cardinality(word.mask) + Cardinality(new)
      BY <1>2, <2>2, <2>4, Zenon
    <2>7. /\ Cardinality(hit_mask'[c]) = Cardinality(hit_mask[c]) + Cardinality(new)
          /\ hits'[c] = hits[c] + ((Cardinality(word.mask) + Cardinality(new)) - Cardinality(word.mask))
      BY <1>4, <2>5, <2>6, Zenon
    <2> QED
      BY <1>3, <2>3, <2>7
  <1>16. FindInv(c)'
    BY <1>1, <1>10, <1>13, <1>14, <1>15, Zenon DEF FindInv
  <1>17. /\ \A d \in Callers : \A u \in Tasks : ~(d = c /\ u = t) => loaded'[d][u] = loaded[d][u] /\ at'[d][u] = at[d][u]
         /\ \A d \in Callers : d # c => at'[d] = at[d]
         /\ loaded'[c][t] = None
         /\ DOMAIN loaded' = Callers /\ \A d \in Callers : DOMAIN loaded'[d] = Tasks
    BY <1>1, Zenon DEF FindsInv, TasksInv
  <1>18. ASSUME NEW d \in Callers, d # c PROVE FindInv(d)'
    BY <1>1, <1>4, <1>17, <1>18, FindKept, Zenon DEF FindsInv
  <1>19. ASSUME NEW d \in Callers, NEW u \in Tasks, ~(d = c /\ u = t) PROVE LoadedInv(d, u)'
    <2>1. LoadedInv(d, u) /\ hit_mask[d] \subseteq hit_mask'[d] /\ loaded'[d][u] = loaded[d][u] /\ at'[d][u] = at[d][u]
      BY <1>4, <1>17, <1>19, Zenon DEF FindsInv
    <2> QED
      BY <1>1, <2>1, LoadedKept, Zenon
  <1>20. LoadedInv(c, t)'
    BY <1>17, Zenon DEF LoadedInv
  <1> QED
    BY <1>16, <1>17, <1>18, <1>19, <1>20, Zenon DEF FindsInv

LEMMA FindsStep ==
  ASSUME SetupsOK, TableOK, BatchesOK, TasksInv, TableInv, OutputsInv, CallsInv, LockInv, FindsInv, [Next]_vars
  PROVE  FindsInv'
PROOF
  <1>0. ConfigOK /\ TableInv'
    BY TableStep, Zenon DEF TableOK
  <1>1. CASE UNCHANGED vars
    <2>1. /\ setup' = setup /\ call' = call /\ at' = at /\ rows' = rows /\ hit_mask' = hit_mask /\ hits' = hits
          /\ seen' = seen /\ loaded' = loaded /\ slot_map' = slot_map
      BY <1>1, Zenon DEF vars, outputs, table
    <2>2. \A d \in Callers : FindInv(d)'
      BY <2>1, FindKept, Zenon DEF FindsInv
    <2>3. \A d \in Callers : \A u \in Tasks : LoadedInv(d, u)'
      BY <2>1, LoadedKept, Zenon DEF FindsInv
    <2> QED
      BY <2>1, <2>2, <2>3, Zenon DEF FindsInv
  <1>2. ASSUME NEW c \in Callers, Begin(c) PROVE FindsInv'
    BY <1>2, BeginFinds, Zenon
  <1>3. ASSUME NEW c \in Callers, Return(c) PROVE FindsInv'
    <2>1. /\ call' = [call EXCEPT ![c] = NoCall] /\ at' = at /\ seen' = [seen EXCEPT ![c] = {}] /\ setup' = setup
          /\ rows' = rows /\ hit_mask' = hit_mask /\ hits' = hits /\ loaded' = loaded /\ slot_map' = slot_map
          /\ \A t \in TasksOf(c) : at[c][t] > Steps(c, t)
      BY <1>3, Zenon DEF Return, ReturnCall, outputs, table
    <2>2. call'[c] = NoCall /\ \A d \in Callers : d # c => call'[d] = call[d] /\ seen'[d] = seen[d]
      BY <2>1, Zenon DEF TasksInv, OutputsInv
    <2>3. FindInv(c)'
      BY <2>2 DEF FindInv, IsFind, NoCall
    <2>4. ASSUME NEW d \in Callers, d # c PROVE FindInv(d)'
      BY <2>1, <2>2, <2>4, FindKept, Zenon DEF FindsInv
    <2>5. ASSUME NEW t \in Tasks PROVE loaded[c][t] = None
      <3>1. SUFFICES ASSUME loaded[c][t] # None PROVE FALSE
        BY Zenon
      <3>2. IsFind(c) /\ Running(c, t)
        BY <3>1, Zenon DEF FindsInv, LoadedInv
      <3>3. t \in TasksOf(c) /\ call[c] \in Calls
        BY <3>2, RunningTask, Zenon DEF TasksInv
      <3>4. Steps(c, t) = TaskSize(c, t) /\ TaskSize(c, t) \in 1 .. MaxFindTaskSize /\ MaxFindTaskSize \in Nat
        <4>1. Steps(c, t) = TaskSize(c, t)
          BY <3>2 DEF Steps, IsFind
        <4> QED
          BY <1>0, <3>2, <3>3, <4>1, FindTask, Zenon DEF ConfigOK
      <3> QED
        BY <2>1, <3>2, <3>3, <3>4 DEF Running
    <2>6. ASSUME NEW d \in Callers, NEW t \in Tasks PROVE LoadedInv(d, t)'
      <3>1. CASE d = c
        BY <2>1, <2>5, <3>1, Zenon DEF LoadedInv
      <3>2. CASE d # c
        BY <2>1, <2>2, <3>2, LoadedKept, Zenon DEF FindsInv
      <3> QED
        BY <3>1, <3>2, Zenon
    <2> QED
      BY <2>1, <2>3, <2>4, <2>6, Zenon DEF FindsInv
  <1>4. ASSUME NEW c \in Callers, NEW t \in Tasks, TaskStep(c, t) PROVE FindsInv'
    <2>1. CASE StartTask(c, t)
      BY <1>0, <2>1, StartFinds, Zenon
    <2>2. CASE LoadWord(c, t)
      BY <1>0, <2>2, LoadFinds, Zenon
    <2>3. CASE JoinWord(c, t)
      BY <2>3, JoinFinds, Zenon
    <2>4. ASSUME NEW ops, ModifyStep(c, t, ops), "find" \notin ops, Observe(TableRows'), loaded' = loaded,
                 \A k \in Keys : PartOf[k] # t[1] => slot_map'[k] = slot_map[k]
          PROVE  FindsInv'
      BY <2>4, ModifyFinds, Zenon
    <2>5. CASE InsertPresent(c, t) \/ update(c, t)
      <3>1. "find" \notin {"insert"} /\ "find" \notin {"update", "update_accumulate"}
        OBVIOUS
      <3> QED
        BY <2>4, <2>5, <3>1, Zenon DEF InsertPresent, update
    <2>6. CASE InsertNew(c, t)
      <3>1. /\ ModifyStep(c, t, {"insert"}) /\ "find" \notin {"insert"} /\ Observe(TableRows') /\ loaded' = loaded
        BY <2>6, Zenon DEF InsertNew
      <3> QED
        BY <1>0, <2>4, <2>6, <3>1, InsertNewApplies, Zenon
    <2>7. CASE erase(c, t)
      <3>1. /\ ModifyStep(c, t, {"erase"}) /\ "find" \notin {"erase"} /\ Observe(TableRows') /\ loaded' = loaded
        BY <2>7 DEF erase
      <3> QED
        BY <1>0, <2>4, <2>7, <3>1, EraseApplies, Zenon
    <2>8. CASE clear(c, t)
      <3>1. /\ ModifyStep(c, t, {"clear"}) /\ "find" \notin {"clear"} /\ Observe(TableRows') /\ loaded' = loaded
        BY <2>8 DEF clear
      <3> QED
        BY <1>0, <2>4, <2>8, <3>1, ClearApplies, Zenon
    <2> QED
      BY <1>4, <2>1, <2>2, <2>3, <2>5, <2>6, <2>7, <2>8, Zenon DEF TaskStep
  <1> QED
    BY <1>1, <1>2, <1>3, <1>4, Zenon DEF Next, Done

----------------------------------------------------------------------------
(* The steps, as the abstract table sees them *)

LEMMA ModifyIsApply ==
  ASSUME CallsInv, OutputsInv, NEW c \in Callers, NEW t \in Tasks, NEW ops \in SUBSET T!Modifies, ModifyStep(c, t, ops),
         Observe(TableRows'), NEW S \in SUBSET Keys, NEW ev \in SUBSET Keys, Applied(c, S, ev),
         AbsTodo' = Lowered(c, S), \A k \in S : AbsTodo[c][k] > 0, ev = {} \/ ops = {"insert"}
  PROVE  T!Apply(c)
PROOF
  <1>1. call[c].op \in T!Modifies /\ call' = call /\ outputs' = outputs /\ call[c].op \in ops
    BY Zenon DEF ModifyStep
  <1>2. S \in SUBSET {k \in Keys : AbsTodo[c][k] > 0}
    BY Zenon
  <1>3. ev \in IF call[c].op = "insert" THEN SUBSET Keys ELSE {{}}
    BY <1>1, Zenon
  <1>4. AbsTodo' = [AbsTodo EXCEPT ![c] = [k \in Keys |-> IF k \in S THEN @[k] - 1 ELSE @[k]]]
    BY Zenon DEF Lowered, AbsTodo
  <1>5. T!Idle = NoCall /\ T!Content(TableRows') = Content(TableRows')
    BY Zenon DEF T!Idle, NoCall, T!Content, Content
  <1>6. seen' = [d \in Callers |-> IF call[d] = T!Idle THEN seen[d] ELSE seen[d] \union T!Content(TableRows')]
    BY <1>5, Zenon DEF Observe, CallsInv, CallInv
  <1>7. AbsAnswer' = AbsAnswer
    BY <1>1, Zenon DEF AbsAnswer, outputs
  <1>8. TableRows' = [k \in Keys |-> IF k \in ev THEN None
                               ELSE IF k \in S THEN T!Effect(call[c].op, TableRows[k], call[c].version)
                               ELSE TableRows[k]]
    BY Zenon DEF Applied
  <1> QED
    BY <1>1, <1>2, <1>3, <1>4, <1>6, <1>7, <1>8, Zenon DEF T!Apply

LEMMA SameCardinality == \A S : T!Cardinality(S) = Cardinality(S)
BY Zenon DEF T!Cardinality, Cardinality

LEMMA EveryKeyOnce ==
  ASSUME ConfigOK, NEW k \in Keys
  PROVE  T!Occurrences(EveryKey, k) = 1
PROOF
  <1>1. Enumerates(EveryKey, Keys)
    BY EveryKeyEnumerates, Zenon DEF ConfigOK
  <1>2. PICK i \in DOMAIN EveryKey : EveryKey[i] = k
    BY <1>1, Zenon DEF Enumerates
  <1>3. {j \in DOMAIN EveryKey : EveryKey[j] = k} = {i}
    BY <1>1, <1>2 DEF Enumerates
  <1>4. Cardinality({i}) = 1
    BY FS_Singleton
  <1>5. T!Occurrences(EveryKey, k) = Cardinality({j \in DOMAIN EveryKey : EveryKey[j] = k})
    BY SameCardinality, Zenon DEF T!Occurrences
  <1> QED
    BY <1>3, <1>4, <1>5, Zenon

LEMMA LeftKept ==
  ASSUME NEW d, NEW k, call'[d] = call[d], at'[d] = at[d], setup' = setup
  PROVE  Left(d, k)' = Left(d, k)
PROOF
  <1>1. PartOf' = PartOf
    BY Zenon DEF PartOf
  <1>2. at'[d][<<PartOf'[k], 0>>] = at[d][<<PartOf[k], 0>>]
    BY <1>1, Zenon
  <1> QED
    BY <1>2 DEF Left

LEMMA BeginIsBegin ==
  ASSUME SetupsOK, TableOK, BatchesOK, TasksInv, OutputsInv, CallsInv, NEW c \in Callers, Begin(c)
  PROVE  T!Begin(c)
PROOF
  <1>1. /\ BeginCall(c, TableRows) /\ TableRows' = TableRows /\ ConfigOK /\ setup' = setup
        /\ at' = [at EXCEPT ![c] = [t \in Tasks |-> 0]] /\ call[c] = NoCall
        /\ hits' = [hits EXCEPT ![c] = 0]
        /\ seen' = [seen EXCEPT ![c] = Content(TableRows)]
    BY RowsUnchanged, Zenon DEF Begin, BeginCall, TableOK
  <1>2. PICK op \in Operations, v \in Versions, ks \in Seq(Keys), mask \in SUBSET Nat :
           /\ mask \subseteq DOMAIN ks
           /\ op = "clear" => ks = EveryKey
           /\ op = "find" => Len(ks) <= MaxBatch
           /\ op # "find" => mask = {}
           /\ call' = [call EXCEPT ![c] = [op |-> op, keys |-> ks, version |-> v, mask |-> mask]]
           /\ hit_mask' = [hit_mask EXCEPT ![c] = mask]
           /\ rows' = [rows EXCEPT ![c] = IF op = "find" THEN [i \in DOMAIN ks |-> None] ELSE <<>>]
    BY <1>1, BeginFacts, Zenon
  <1>3. /\ call'[c] = [op |-> op, keys |-> ks, version |-> v, mask |-> mask]
        /\ \A t \in Tasks : at'[c][t] = 0
    BY <1>1, <1>2, Zenon DEF TasksInv
  <1>4. \A d \in Callers : d # c => /\ call'[d] = call[d] /\ hit_mask'[d] = hit_mask[d] /\ hits'[d] = hits[d]
                                    /\ rows'[d] = rows[d] /\ at'[d] = at[d]
    BY <1>1, <1>2, Zenon DEF OutputsInv, TasksInv
  <1>5. call'[c].op = op /\ call'[c].keys = ks /\ op # "none" /\ call'[c] # NoCall
    <2>1. call'[c].op = op /\ call'[c].keys = ks
      BY <1>3
    <2>2. op # "none" /\ NoCall.op = "none"
      BY DEF Operations, NoCall
    <2> QED
      BY <2>1, <2>2, Zenon
  <1>6. call' = [call EXCEPT ![c] = call'[c]]
    BY <1>2, <1>3, Zenon
  <1>7. ASSUME NEW k \in Keys
        PROVE  Left(c, k)' = IF op = "find" THEN 0 ELSE T!Occurrences(ks, k)
    <2>1. <<PartOf[k], 0>> \in Tasks
      BY <1>1, FirstTask, PartsOfKeys, Zenon
    <2>2. at'[c][<<PartOf'[k], 0>>] = 0
      BY <1>1, <1>3, <2>1, Zenon DEF PartOf
    <2>3. CASE op = "find"
      BY <1>5, <2>3, Zenon DEF Left
    <2>4. CASE op = "clear"
      <3>1. Left(c, k)' = IF 0 <= 1 THEN 1 ELSE 0
        BY <1>5, <2>2, <2>4 DEF Left
      <3>2. Left(c, k)' = 1
        BY <3>1
      <3> QED
        BY <1>1, <1>2, <2>4, <3>2, EveryKeyOnce
    <2>5. CASE op \notin {"find", "clear"}
      <3>1. Left(c, k)' = Cardinality({i \in 1 .. Len(ks) : ks[i] = k})
        BY <1>5, <2>2, <2>5, Zenon DEF Left
      <3>2. {i \in 1 .. Len(ks) : ks[i] = k} = {i \in DOMAIN ks : ks[i] = k}
        OBVIOUS
      <3>3. T!Occurrences(ks, k) = Cardinality({i \in DOMAIN ks : ks[i] = k})
        BY SameCardinality, Zenon DEF T!Occurrences
      <3> QED
        BY <2>5, <3>1, <3>2, <3>3, Zenon
    <2> QED
      BY <2>3, <2>4, <2>5, Zenon
  <1>8. \A d \in Callers : \A k \in Keys : d # c => Left(d, k)' = Left(d, k)
    BY <1>1, <1>4, LeftKept, Zenon
  <1>9. AbsTodo' = [AbsTodo EXCEPT ![c] = [k \in Keys |->
                      IF call'[c].op = "find" THEN 0 ELSE T!Occurrences(call'[c].keys, k)]]
    BY <1>5, <1>7, <1>8, Zenon DEF AbsTodo
  <1>10. call'[c].op = "clear" => \A k \in Keys : AbsTodo'[c][k] = 1
    <2>1. op = "clear" => \A k \in Keys : Left(c, k)' = 1
      BY <1>1, <1>2, <1>7, EveryKeyOnce
    <2> QED
      BY <1>5, <2>1, Zenon DEF AbsTodo
  <1>11. seen' = [seen EXCEPT ![c] = T!Content(TableRows)]
    BY <1>1, Zenon DEF T!Content, Content
  <1>12. AbsAnswer' = [AbsAnswer EXCEPT ![c] = T!NoAnswer]
    BY <1>4, <1>5, Zenon DEF AbsAnswer, T!NoAnswer
  <1>13. T!Idle = NoCall
    BY Zenon DEF T!Idle, NoCall
  <1> QED
    BY <1>1, <1>5, <1>6, <1>9, <1>10, <1>11, <1>12, <1>13, Zenon DEF T!Begin

LEMMA ReturnIsReturn ==
  ASSUME SetupsOK, TableOK, BatchesOK, TasksInv, OutputsInv, CallsInv, FindsInv, NEW c \in Callers, Return(c)
  PROVE  T!Return(c)
PROOF
  <1>1. /\ call' = [call EXCEPT ![c] = NoCall] /\ at' = at /\ seen' = [seen EXCEPT ![c] = {}] /\ setup' = setup
        /\ rows' = rows /\ hit_mask' = hit_mask /\ hits' = hits /\ TableRows' = TableRows /\ ConfigOK
        /\ call[c] # NoCall /\ \A t \in TasksOf(c) : at[c][t] > Steps(c, t)
    BY RowsUnchanged, Zenon DEF Return, ReturnCall, outputs, TableOK
  <1>2. call'[c] = NoCall /\ \A d \in Callers : d # c => call'[d] = call[d]
    BY <1>1, Zenon DEF TasksInv
  <1>3. call[c] \in Calls /\ PartOf \in [Keys -> Parts] /\ call[c].op # "none"
    BY <1>1, PartsOfKeys, Zenon DEF TasksInv, CallsInv, CallInv
  <1>4. ASSUME NEW k \in Keys PROVE Left(c, k) = 0 /\ Left(c, k)' = 0
    <2>1. Left(c, k)' = 0
      BY <1>2 DEF Left, NoCall
    <2>2. CASE IsFind(c)
      BY <2>1, <2>2, Zenon DEF Left, IsFind
    <2>3. CASE ~IsFind(c)
      <3> DEFINE t == <<PartOf[k], 0>>
                 a == at[c][t]
      <3>1. t \in TasksOf(c) /\ t \in Tasks
        BY <1>1, <1>3, <2>3, FirstTask DEF TasksOf
      <3>2. a > Steps(c, t) /\ a \in Nat
        BY <1>1, <3>1, Zenon DEF TasksInv
      <3>3. Left(c, k) = LeftAt(c, k, a)
        BY LeftIs, Zenon
      <3>4. CASE call[c].op = "clear"
        <4>1. Steps(c, t) = 1
          BY <3>4 DEF Steps, IsFind
        <4>2. ~(a <= 1)
          <5> HIDE DEF a
          <5> QED
            BY <3>2, <4>1
        <4> QED
          BY <2>1, <3>3, <3>4, <4>2 DEF LeftAt
      <3>5. CASE call[c].op # "clear"
        <4>1. Steps(c, t) = Len(call[c].keys) /\ Len(call[c].keys) \in Nat
          BY <1>3, <2>3, <3>5 DEF Steps, Calls
        <4>2. a # 0 /\ a > Len(call[c].keys)
          <5> HIDE DEF a
          <5> QED
            BY <3>2, <4>1
        <4> HIDE DEF a
        <4>3. Positions(c, k, a) = {}
          BY <3>2, <4>1, <4>2 DEF Positions
        <4>4. LeftAt(c, k, a) = Cardinality({})
          BY <1>3, <2>3, <3>5, <4>2, <4>3, Zenon DEF LeftAt, IsFind
        <4>5. Cardinality({}) = 0
          BY FS_EmptySet
        <4> QED
          BY <2>1, <3>3, <4>4, <4>5, Zenon
      <3> QED
        BY <3>4, <3>5, Zenon
    <2> QED
      BY <2>2, <2>3, Zenon
  <1>5. \A k \in Keys : AbsTodo[c][k] = 0
    BY <1>4, Zenon DEF AbsTodo
  <1>6. AbsTodo' = AbsTodo
    <2>1. \A d \in Callers : \A k \in Keys : d # c => Left(d, k)' = Left(d, k)
      BY <1>1, <1>2, LeftKept, Zenon
    <2> QED
      BY <1>4, <2>1, Zenon DEF AbsTodo
  <1>7. /\ AbsAnswer'[c] = [rows |-> rows[c], mask |-> hit_mask[c], hits |-> hits[c]]
        /\ AbsAnswer' = [AbsAnswer EXCEPT ![c] = AbsAnswer'[c]]
    BY <1>1, <1>2, Zenon DEF AbsAnswer
  <1>8. ASSUME IsFind(c) PROVE T!Answers(c, AbsAnswer'[c])
    <2>1. \A i \in DOMAIN call[c].keys : Searched(c, i)
      <3>1. ASSUME NEW i \in DOMAIN call[c].keys PROVE Searched(c, i)
        <4>1. i \in 1 .. Len(call[c].keys) /\ call[c].keys[i] \in Keys
          BY <1>3 DEF Calls
        <4> DEFINE p == PartOf[call[c].keys[i]]
        <4>2. p \in Parts
          BY <1>3, <4>1, Zenon
        <4>3. PICK t \in TasksOf(c) : /\ t[1] = p
                                      /\ \E a \in 1 .. TaskSize(c, t) : WordAt(c, t, a) = (i - 1) \div NumBits
          BY <1>1, <1>3, <1>8, <4>1, <4>2, WordsCover, Zenon
        <4>4. Steps(c, t) = TaskSize(c, t)
          BY <1>8 DEF Steps, IsFind
        <4>5. TaskSize(c, t) \in 1 .. MaxFindTaskSize /\ MaxFindTaskSize \in Nat /\ at[c][t] \in Nat
          <5>1. TasksOf(c) \subseteq Tasks
            <6>1. call[c].keys \in Seq(Keys) /\ Len(call[c].keys) <= MaxBatch
              BY <1>3, <1>8 DEF Calls, CallsInv, CallInv
            <6> QED
              BY <1>1, <1>8, <6>1, BatchTasks, Zenon DEF TasksOf
          <5>2. at[c][t] \in Nat
            BY <5>1, Zenon DEF TasksInv
          <5> QED
            BY <1>1, <1>3, <1>8, <5>2, FindTask, Zenon DEF ConfigOK
        <4>6. \A a \in 1 .. TaskSize(c, t) : a < at[c][t]
          BY SMTT(40), <1>1, <4>4, <4>5
        <4> QED
          BY <4>3, <4>6, Zenon DEF Searched
      <3> QED
        BY <3>1, Zenon
    <2>2. FindInv(c)
      BY Zenon DEF FindsInv
    <2> DEFINE ans == AbsAnswer'[c]
    <2>3. ans.rows = rows[c] /\ ans.mask = hit_mask[c] /\ ans.hits = hits[c]
      BY <1>7
    <2> HIDE DEF ans
    <2>4. /\ DOMAIN rows[c] = DOMAIN call[c].keys
          /\ \A i \in DOMAIN call[c].keys :
               IF i \in call[c].mask THEN rows[c][i] = None ELSE <<call[c].keys[i], rows[c][i]>> \in seen[c]
          /\ hit_mask[c] = call[c].mask \union {i \in DOMAIN rows[c] : rows[c][i] # None}
          /\ hits[c] = Cardinality(hit_mask[c]) - Cardinality(call[c].mask)
      BY <1>8, <2>1, <2>2, Zenon DEF FindInv
    <2>5. T!Answers(c, ans)
      BY <2>3, <2>4, SameCardinality, Zenon DEF T!Answers
    <2> QED
      BY <1>8, <2>5, Zenon DEF ans, IsFind
  <1>9. IF call[c].op = "find" THEN T!Answers(c, AbsAnswer'[c]) ELSE AbsAnswer'[c] = T!NoAnswer
    <2>1. ~IsFind(c) => rows[c] = <<>> /\ hit_mask[c] = {} /\ hits[c] = 0
      BY <1>1, Zenon DEF CallsInv, CallInv
    <2> QED
      BY <1>7, <1>8, <2>1, Zenon DEF IsFind, T!NoAnswer
  <1>10. T!Idle = NoCall
    BY Zenon DEF T!Idle, NoCall
  <1> QED
    BY <1>1, <1>5, <1>6, <1>7, <1>9, <1>10, Zenon DEF T!Return

(* Every step is a step of the abstract table, or none. *)
LEMMA StepIsTableStep ==
  ASSUME SetupsOK, TableOK, BatchesOK, TasksInv, TableInv, OutputsInv, CallsInv, FindsInv, [Next]_vars
  PROVE  [T!Next]_T!vars
PROOF
  <1>0. ConfigOK /\ TableInv'
    BY TableStep, Zenon DEF TableOK
  <1>1. ASSUME setup' = setup, call' = call, at' = at, outputs' = outputs, seen' = seen, table' = table
        PROVE  T!vars' = T!vars
    <2>1. AbsTodo' = AbsTodo
      BY <1>1, LeftKept, Zenon DEF AbsTodo
    <2>2. AbsAnswer' = AbsAnswer
      BY <1>1, Zenon DEF AbsAnswer, outputs
    <2> QED
      BY <1>1, <2>1, <2>2, RowsUnchanged, Zenon DEF T!vars
  <1>2. CASE UNCHANGED vars
    BY <1>1, <1>2, Zenon DEF vars
  <1>3. ASSUME NEW c \in Callers, Begin(c) PROVE T!Next
    BY <1>3, BeginIsBegin, Zenon DEF T!Next
  <1>4. ASSUME NEW c \in Callers, Return(c) PROVE T!Next
    BY <1>4, ReturnIsReturn, Zenon DEF T!Next
  <1>5. ASSUME NEW c \in Callers, NEW t \in Tasks, TaskStep(c, t) PROVE T!Next \/ T!vars' = T!vars
    <2>1. CASE StartTask(c, t)
      <3>1. AbsTodo' = AbsTodo
        BY <1>0, <2>1, TodoStart, Zenon DEF StartTask
      <3>2. AbsAnswer' = AbsAnswer
        BY <2>1, Zenon DEF AbsAnswer, outputs, StartTask, TakeTask
      <3>3. table' = table /\ call' = call /\ seen' = seen
        BY <2>1, Zenon DEF StartTask, TakeTask
      <3> QED
        BY <3>1, <3>2, <3>3, RowsUnchanged, Zenon DEF T!vars
    <2>2. CASE LoadWord(c, t)
      BY <1>1, <2>2, Zenon DEF LoadWord
    <2>3. CASE JoinWord(c, t)
      <3>1. /\ setup' = setup /\ call' = call /\ seen' = seen /\ table' = table /\ IsFind(c) /\ Running(c, t)
            /\ at' = [at EXCEPT ![c][t] = StepFrom(c, t, @ + 1)]
            /\ \E r : rows' = [rows EXCEPT ![c] = r]
            /\ \E m : hit_mask' = [hit_mask EXCEPT ![c] = m]
            /\ \E n : hits' = [hits EXCEPT ![c] = n]
        BY <2>3, Zenon DEF JoinWord, StepDone
      <3>2. /\ call[c] # NoCall
            /\ \A d \in Callers : d # c => /\ at'[d] = at[d] /\ rows'[d] = rows[d]
                                           /\ hit_mask'[d] = hit_mask[d] /\ hits'[d] = hits[d]
        <4>1. call[c] # NoCall
          BY <3>1, RunningTask, Zenon
        <4> QED
          BY <3>1, <4>1, Zenon DEF OutputsInv, TasksInv
      <3>3. \A d \in Callers : \A k \in Keys : Left(d, k)' = Left(d, k)
        <4>1. \A k \in Keys : Left(c, k)' = 0 /\ Left(c, k) = 0
          BY <3>1, Zenon DEF Left, IsFind
        <4> QED
          BY <3>1, <3>2, <4>1, LeftKept, Zenon
      <3>4. AbsTodo' = AbsTodo
        BY <3>3, Zenon DEF AbsTodo
      <3>5. AbsAnswer' = AbsAnswer
        BY <3>1, <3>2, Zenon DEF AbsAnswer
      <3> QED
        BY <3>1, <3>4, <3>5, RowsUnchanged, Zenon DEF T!vars
    <2>4. ASSUME NEW ops \in SUBSET KeyOps, ModifyStep(c, t, ops), Observe(TableRows'),
                 NEW ev \in SUBSET Keys, Applied(c, {Key(c, t)}, ev), ev = {} \/ ops = {"insert"}
          PROVE  T!Next
      <3>1. t = <<t[1], 0>>
        <4>1. Running(c, t) /\ call[c].op \in KeyOps
          BY <2>4, Zenon DEF ModifyStep
        <4>2. ~IsFind(c)
          BY <4>1 DEF IsFind, KeyOps
        <4> QED
          BY <4>1, <4>2, RunningTask, Zenon
      <3>2. AbsTodo[c][Key(c, t)] > 0 /\ AbsTodo' = Lowered(c, {Key(c, t)})
        BY <1>0, <2>4, <3>1, TodoKey, Zenon
      <3>3. Key(c, t) \in Keys /\ ops \in SUBSET T!Modifies
        <4>1. KeyOps \subseteq T!Modifies
          BY DEF KeyOps, T!Modifies
        <4> QED
          BY <2>4, <4>1, KeyOfStep, Zenon
      <3> DEFINE S == {Key(c, t)}
      <3>4. /\ S \in SUBSET Keys /\ \A k \in S : AbsTodo[c][k] > 0
            /\ AbsTodo' = Lowered(c, S) /\ Applied(c, S, ev)
        BY <2>4, <3>2, <3>3, Zenon
      <3> HIDE DEF S
      <3>5. T!Apply(c)
        BY <2>4, <3>3, <3>4, ModifyIsApply, Zenon
      <3> QED
        BY <3>5, Zenon DEF T!Next
    <2>5. CASE InsertPresent(c, t)
      <3>1. {"insert"} \in SUBSET KeyOps /\ {} \in SUBSET Keys
        BY Zenon DEF KeyOps
      <3> QED
        BY <1>0, <2>4, <2>5, <3>1, InsertPresentApplies, Zenon DEF InsertPresent
    <2>6. CASE InsertNew(c, t)
      <3>1. {"insert"} \in SUBSET KeyOps /\ ModifyStep(c, t, {"insert"}) /\ Observe(TableRows')
        BY <2>6, Zenon DEF KeyOps, InsertNew
      <3>2. PICK ev \in SUBSET Keys : Applied(c, {Key(c, t)}, ev)
        BY <1>0, <2>6, InsertNewApplies, Zenon
      <3> QED
        BY <2>4, <3>1, <3>2, Zenon
    <2>7. CASE update(c, t)
      <3>1. {"update", "update_accumulate"} \in SUBSET KeyOps /\ {} \in SUBSET Keys
        BY Zenon DEF KeyOps
      <3> QED
        BY <1>0, <2>4, <2>7, <3>1, UpdateApplies, Zenon DEF update
    <2>8. CASE erase(c, t)
      <3>1. {"erase"} \in SUBSET KeyOps /\ {} \in SUBSET Keys
        BY Zenon DEF KeyOps
      <3> QED
        BY <1>0, <2>4, <2>8, <3>1, EraseApplies, Zenon DEF erase
    <2>9. CASE clear(c, t)
      <3> DEFINE S == {k \in Keys : PartOf[k] = t[1]}
      <3>1. ModifyStep(c, t, {"clear"}) /\ Observe(TableRows')
        BY <2>9, Zenon DEF clear
      <3>2. t = <<t[1], 0>>
        <4>1. Running(c, t) /\ call[c].op = "clear"
          BY <3>1, Zenon DEF ModifyStep
        <4>2. ~IsFind(c)
          BY <4>1 DEF IsFind
        <4> QED
          BY <4>1, <4>2, RunningTask, Zenon
      <3>3. Applied(c, S, {})
        BY <1>0, <2>9, ClearApplies, Zenon
      <3>4. S \in SUBSET Keys /\ \A k \in Keys : k \in S <=> PartOf[k] = t[1]
        BY Zenon
      <3> HIDE DEF S
      <3>5. (\A k \in S : AbsTodo[c][k] > 0) /\ AbsTodo' = Lowered(c, S)
        BY <1>0, <3>1, <3>2, <3>4, TodoClear, Zenon
      <3>6. {"clear"} \in SUBSET T!Modifies /\ {} \in SUBSET Keys
        BY Zenon DEF T!Modifies
      <3> QED
        BY <3>1, <3>3, <3>4, <3>5, <3>6, ModifyIsApply, ZenonT(60) DEF T!Next
    <2> QED
      BY <1>5, <2>1, <2>2, <2>3, <2>5, <2>6, <2>7, <2>8, <2>9, Zenon DEF TaskStep
  <1> QED
    BY <1>2, <1>3, <1>4, <1>5, Zenon DEF Next, Done

LEMMA InitIsTableInit ==
  ASSUME SetupsOK, TableOK, Init
  PROVE  T!Init /\ OutputsInv /\ CallsInv /\ LockInv /\ FindsInv
PROOF
  <1>1. /\ \A c \in Callers : /\ call[c] = NoCall /\ hit_mask[c] = {} /\ rows[c] = <<>> /\ hits[c] = 0
                              /\ seen[c] = {} /\ DOMAIN loaded[c] = Tasks
                              /\ \A t \in Tasks : at[c][t] = 0 /\ loaded[c][t] = None
        /\ DOMAIN loaded = Callers
    BY Zenon DEF Init, InitCalls
  <1>2. NoCall.op = "none" /\ NoCall.keys = <<>> /\ NoCall.mask = {}
    BY DEF NoCall
  <1>3. T!Init
    <2>1. TableRows = [k \in Keys |-> None]
      BY Zenon DEF Init, TableRows
    <2>2. AbsTodo = [c \in Callers |-> [k \in Keys |-> 0]]
      <3>1. \A c \in Callers : \A k \in Keys : Left(c, k) = 0
        BY <1>1, <1>2 DEF Left
      <3> QED
        BY <3>1, Zenon DEF AbsTodo
    <2>3. AbsAnswer = [c \in Callers |-> T!NoAnswer]
      BY <1>1, Zenon DEF AbsAnswer, T!NoAnswer
    <2> QED
      BY <2>1, <2>2, <2>3, Zenon DEF T!Init, T!Idle, NoCall, Init, InitCalls
  <1>4. OutputsInv
    BY Zenon DEF Init, InitCalls, OutputsInv
  <1>5. \A c \in Callers : ~IsFind(c)
    BY <1>1, <1>2 DEF IsFind
  <1>6. CallsInv
    BY <1>1, <1>2, <1>5, Zenon DEF CallsInv, CallInv
  <1>7. \A c \in Callers : \A t \in Tasks : ~Running(c, t)
    BY <1>1 DEF Running
  <1>8. LockInv
    BY <1>7, Zenon DEF LockInv
  <1>9. FindsInv
    BY <1>1, <1>5, Zenon DEF FindsInv, FindInv, LoadedInv
  <1> QED
    BY <1>3, <1>4, <1>6, <1>8, <1>9, Zenon

(* The table is a map from keys to rows to its callers, however the tasks of *)
(* their calls interleave: every insert, update, accumulation and erasure    *)
(* takes effect on each of its keys once per occurrence, and find answers    *)
(* each key with a row, or an absence, there was during the call, with the   *)
(* mask of all hits and the number of those it added.                        *)
THEOREM StlImplementsTable ==
  ASSUME TableOK, SetupsOK, BatchesOK
  PROVE  Spec => ImplementsTable
PROOF
  <1> DEFINE Inv == TasksInv /\ TableInv /\ OutputsInv /\ CallsInv /\ LockInv /\ FindsInv
  <1>1. Init => Inv /\ T!Init
    BY InitInv, InitIsTableInit, Zenon
  <1>2. Inv /\ [Next]_vars => Inv'
    <2>1. ConfigOK
      BY Zenon DEF TableOK
    <2> QED
      BY <2>1, TasksStep, TableStep, OutputsStep, CallsStep, LockStep, FindsStep, Zenon
  <1>3. Inv /\ [Next]_vars => [T!Next]_T!vars
    BY StepIsTableStep, Zenon
  <1> QED
    BY <1>1, <1>2, <1>3, PTL DEF Spec, ImplementsTable, T!Spec
============================================================================
