----------------------- MODULE HierarchicalLayerProofs ------------------------
(***************************************************************************)
(* Proofs about the hierarchical layer and its auto-insert handlers, for   *)
(* any number of tables, callers and keys, any batches and any sizes: the  *)
(* locks, that rows stay with their keys, and agreement of the tables with *)
(* the backing store.  First what each step does, and that it keeps types, *)
(* locks and sizes in order; then rows and agreement.                      *)
(***************************************************************************)
EXTENDS HierarchicalLayer, Integers, TLAPS

----------------------------------------------------------------------------
(* The invariants *)

\* The rows of all numbers: concurrent accumulates may pass MaxVersion.
AllRows == (Keys \X Nat) \cup {Garbage, None}
Collectable == Keys \cup {InvalidKey}
CallRecords == [op : ModifyOps \cup {"lookup", "none"}, keys : Seq(Keys), rows : Seq(AllRows),
                device : SUBSET Nat, stride : Strides \cup {0}, table_id : 0 .. N, at : 0 .. N]

(* The variables hold values of their types, and a call in progress is at a   *)
(* table and has a place for the row of each of its keys.                     *)
LTypes ==
    /\ table \in [Tables -> [Keys -> AllRows]]
    /\ insert_lock \in [Tables -> Callers \cup {"task", None}]
    /\ collected \in [Tables -> Seq(Collectable)]
    /\ insert_data \in [Tables -> Seq(AllRows)]
    /\ task \in [Tables -> {"none", "queued", "inserted"}]
    /\ copying \in [Tables -> SUBSET (Keys \X Nat)]
    /\ pc \in [Callers -> {"idle", "find", "auto_insert", "lock", "apply"}]
    /\ call \in [Callers -> CallRecords]
    /\ \A c \in Callers : pc[c] # "idle" => call[c].at \in Tables /\ Len(call[c].rows) = Len(call[c].keys)
    /\ \A c \in Callers : pc[c] \in {"lock", "apply"} => call[c].op \in ModifyOps /\ Len(call[c].keys) = 1

(* A launched insert has the lock of its handler, and so has a modify         *)
(* operation that runs, unless it is an insert.                               *)
Locks ==
    /\ \A t \in Tables : task[t] # "none" => insert_lock[t] = "task"
    /\ \A c \in Callers : pc[c] = "apply" /\ call[c].op # "insert" => insert_lock[call[c].at] = c

(* A collection that may grow is shorter than an insert needs it, and its     *)
(* buffer is large enough for that and for what a GPU table has yet to copy.  *)
Collecting ==
    \A t \in Tables :
        /\ Len(collected[t]) <= Len(insert_data[t])
        /\ collected[t] # <<>> => MinInsertSize <= Len(insert_data[t])
        /\ insert_lock[t] = None => collected[t] = <<>> \/ Len(collected[t]) < MinInsertSize
        /\ \A x \in copying[t] : x[2] \in DOMAIN insert_data[t]

LInv == LTypes /\ Locks /\ Collecting

\* What an operation op on key k makes of the row of key j in table t, eviction apart.
RowAfter(t, op, k, row, j) ==
    LET old == table[t][j] IN
    CASE op = "clear" -> None
      [] op # "clear" /\ j # k -> old
      [] op = "insert" /\ j = k -> IF t \in Gpu /\ old # None THEN old ELSE row
      [] op = "update" /\ j = k -> IF old # None THEN row ELSE None
      [] op = "accumulate" /\ j = k -> IF old # None THEN <<k, old[2] + 1>> ELSE None
      [] op = "erase" /\ j = k -> None
      [] OTHER -> old

----------------------------------------------------------------------------
(* Types, locks and sizes *)

(* The loop over the tables touches one caller and keeps its arguments. *)
LEMMA NextTableFacts ==
    ASSUME LTypes, NEW c \in Callers, pc[c] # "idle", NEW loop \in {"auto_insert", "lock", "apply"},
           NextTable(c, loop, Return(c))
    PROVE  /\ pc' \in [Callers -> {"idle", "find", "auto_insert", "lock", "apply"}]
           /\ call' \in [Callers -> CallRecords]
           /\ \A d \in Callers \ {c} : pc'[d] = pc[d] /\ call'[d] = call[d]
           /\ \/ /\ call[c].at \in Tables /\ call[c].at < N /\ pc'[c] = loop
                 /\ call'[c].at = call[c].at + 1 /\ call'[c].at \in Tables
                 /\ call[c].table_id = 0 /\ call'[c].table_id = 0
                 /\ call'[c].op = call[c].op /\ call'[c].keys = call[c].keys /\ call'[c].rows = call[c].rows
              \/ (call[c].at = N \/ call[c].table_id # 0) /\ pc'[c] = "idle"
PROOF
  <1>1. N \in Nat /\ N > 0 /\ call[c].at \in 1 .. N /\ call[c] \in CallRecords
    BY TablesAssumption DEF LTypes, Tables
  <1>2. CASE call[c].table_id = 0 /\ call[c].at < N
    <2>1. pc' = [pc EXCEPT ![c] = loop] /\ call' = [call EXCEPT ![c].at = @ + 1]
      BY Zenon, <1>2 DEF NextTable
    <2>2. call[c].at + 1 \in 0 .. N /\ call[c].at + 1 \in 1 .. N
      BY <1>1, <1>2
    <2>3. call' = [call EXCEPT ![c] = [call[c] EXCEPT !.at = call[c].at + 1]]
      BY Zenon, <2>1
    <2>4. [call[c] EXCEPT !.at = call[c].at + 1] \in CallRecords
      BY Zenon, <1>1, <2>2 DEF CallRecords
    <2>5. /\ [call[c] EXCEPT !.at = call[c].at + 1].at = call[c].at + 1
          /\ [call[c] EXCEPT !.at = call[c].at + 1].table_id = call[c].table_id
          /\ [call[c] EXCEPT !.at = call[c].at + 1].op = call[c].op
          /\ [call[c] EXCEPT !.at = call[c].at + 1].keys = call[c].keys
          /\ [call[c] EXCEPT !.at = call[c].at + 1].rows = call[c].rows
      BY ZenonT(30), <1>1 DEF CallRecords
    <2>6. /\ pc' \in [Callers -> {"idle", "find", "auto_insert", "lock", "apply"}]
          /\ call' \in [Callers -> CallRecords]
          /\ call'[c] = [call[c] EXCEPT !.at = call[c].at + 1] /\ pc'[c] = loop
          /\ \A d \in Callers \ {c} : pc'[d] = pc[d] /\ call'[d] = call[d]
      BY ZenonT(30), <2>1, <2>3, <2>4 DEF LTypes
    <2> QED
      BY Zenon, <1>1, <1>2, <2>2, <2>5, <2>6 DEF Tables
  <1>3. CASE call[c].at = N \/ call[c].table_id # 0
    <2>1. pc' = [pc EXCEPT ![c] = "idle"] /\ call' = [call EXCEPT ![c] = NoCall]
      <3>1. ~(call[c].table_id = 0 /\ call[c].at < N)
        BY <1>1, <1>3
      <3> QED
        BY Zenon, <3>1 DEF NextTable, Return
    <2>2. NoCall \in CallRecords
      BY <1>1 DEF NoCall, CallRecords
    <2> QED
      BY Zenon, <1>3, <2>1, <2>2 DEF LTypes
  <1> QED
    BY <1>1, <1>2, <1>3

LEMMA ReturnFacts ==
    ASSUME LTypes, NEW c \in Callers, Return(c)
    PROVE  /\ pc' \in [Callers -> {"idle", "find", "auto_insert", "lock", "apply"}]
           /\ call' \in [Callers -> CallRecords]
           /\ \A d \in Callers \ {c} : pc'[d] = pc[d] /\ call'[d] = call[d]
           /\ pc'[c] = "idle"
PROOF
  <1>1. NoCall \in CallRecords
    BY TablesAssumption DEF NoCall, CallRecords
  <1> QED
    BY Zenon, <1>1 DEF LTypes, Return

LEMMA InitLInv ==
    ASSUME Init
    PROVE  LInv
PROOF
  <1>1. NoCall \in CallRecords
    BY TablesAssumption DEF NoCall, CallRecords
  <1>2. LTypes
    BY <1>1 DEF Init, LTypes, AllRows, Collectable
  <1>3. Locks /\ Collecting
    BY NoneAssumption, SizesAssumption DEF Init, Locks, Collecting
  <1> QED
    BY Zenon, <1>2, <1>3 DEF LInv

(* A call begins at the first table, unless it is for one table only; a       *)
(* lookup has no rows yet, a modify operation one key with its row, and an    *)
(* insert into all tables a key no table has.                                 *)
LEMMA StartFacts ==
    ASSUME LTypes, NEW c \in Callers,
           \/ \E ks \in Batches, s \in Strides : lookup(c, ks, s)
           \/ \E op \in ModifyOps, k \in Keys, v \in 0 .. MaxVersion, id \in TableIds : modify(c, op, k, v, id)
    PROVE  /\ UNCHANGED <<table, insert_lock, collected, insert_data, task, copying>> /\ MayStart(c)
           /\ partial \subseteq partial'
           /\ \E p \in {"find", "lock", "apply"}, r \in CallRecords :
                 /\ pc' = [pc EXCEPT ![c] = p] /\ call' = [call EXCEPT ![c] = r]
                 /\ r.at \in Tables /\ (r.table_id = 0 => r.at = 1) /\ Len(r.rows) = Len(r.keys)
                 /\ p # "find" => r.op \in ModifyOps /\ Len(r.keys) = 1
                 /\ p = "apply" => r.op = "insert"
                 /\ p # "find" /\ r.table_id # 0 => r.op # "clear" /\ r.keys[1] \in partial'
                 /\ p # "find" /\ r.table_id = 0 /\ r.op = "insert" => \A t \in Tables : table[t][r.keys[1]] = None
                 /\ p = "find" => \A i \in DOMAIN r.keys : r.rows[i] = None
                 /\ \A i \in DOMAIN r.keys : r.rows[i] # None => r.rows[i][1] = r.keys[i]
PROOF
  <1>1. /\ UNCHANGED <<table, insert_lock, collected, insert_data, task, copying>> /\ MayStart(c)
        /\ partial \subseteq partial'
    <2>1. ASSUME NEW ks, NEW s, lookup(c, ks, s)
          PROVE  /\ UNCHANGED <<table, insert_lock, collected, insert_data, task, copying>> /\ MayStart(c)
                 /\ partial \subseteq partial'
      BY Zenon, <2>1 DEF lookup, handlerVars
    <2>2. ASSUME NEW op, NEW k, NEW v, NEW id, modify(c, op, k, v, id)
          PROVE  /\ UNCHANGED <<table, insert_lock, collected, insert_data, task, copying>> /\ MayStart(c)
                 /\ partial \subseteq partial'
      BY Zenon, <2>2 DEF modify, handlerVars
    <2> QED
      BY Zenon, <2>1, <2>2
  <1>4. N \in Nat /\ 1 \in Tables /\ 1 \in 0 .. N /\ 0 \in 0 .. N /\ \A id \in TableIds : id # 0 => id \in Tables /\ id \in 0 .. N
    BY TablesAssumption, TableIdsAssumption DEF Tables
  <1>2. CASE \E ks \in Batches, s \in Strides : lookup(c, ks, s)
    <2>1. PICK ks \in Batches, s \in Strides : lookup(c, ks, s)
      BY Zenon, <1>2
    <2> DEFINE r == [op |-> "lookup", keys |-> ks, rows |-> [i \in DOMAIN ks |-> None],
                     device |-> {}, stride |-> s, table_id |-> 0, at |-> 1]
    <2>2. ks \in Seq(Keys)
      BY Zenon, BatchesAssumption
    <2>3. [i \in DOMAIN ks |-> None] \in Seq(AllRows) /\ Len([i \in DOMAIN ks |-> None]) = Len(ks)
      BY <2>2 DEF AllRows
    <2>4. r \in CallRecords
      BY <1>4, <2>2, <2>3 DEF CallRecords
    <2>5. pc' = [pc EXCEPT ![c] = "find"] /\ call' = [call EXCEPT ![c] = r]
      BY Zenon, <2>1 DEF lookup
    <2>6. r.at = 1 /\ r.at \in Tables /\ Len(r.rows) = Len(r.keys) /\ \A i \in DOMAIN r.keys : r.rows[i] = None
      BY Zenon, <1>4, <2>3
    <2> HIDE DEF r
    <2> QED
      BY ZenonT(60), <1>1, <2>4, <2>5, <2>6
  <1>3. CASE \E op \in ModifyOps, k \in Keys, v \in 0 .. MaxVersion, id \in TableIds : modify(c, op, k, v, id)
    <2>1. PICK op \in ModifyOps, k \in Keys, v \in 0 .. MaxVersion, id \in TableIds : modify(c, op, k, v, id)
      BY Zenon, <1>3
    <2> DEFINE at == IF id = 0 THEN 1 ELSE id
               r == [op |-> op, keys |-> <<k>>, rows |-> <<<<k, v>>>>, device |-> {},
                     stride |-> 0, table_id |-> id, at |-> at]
               p == IF op = "insert" THEN "apply" ELSE "lock"
    <2>2. <<k, v>> \in AllRows
      BY SizesAssumption DEF AllRows
    <2>3. <<<<k, v>>>> \in Seq(AllRows) /\ <<k>> \in Seq(Keys) /\ Len(<<k>>) = 1 /\ Len(<<<<k, v>>>>) = 1
      BY <2>2
    <2>7. id \in 0 .. N /\ at \in 0 .. N /\ at \in Tables /\ (id = 0 => at = 1)
      BY Zenon, <1>4
    <2>5. /\ pc' = [pc EXCEPT ![c] = p] /\ call' = [call EXCEPT ![c] = r]
          /\ op = "insert" /\ id = 0 => \A t \in Tables : table[t][k] = None
          /\ id # 0 => op # "clear" /\ k \in partial'
      BY Zenon, <2>1 DEF modify
    <2> HIDE DEF at
    <2>4. r \in CallRecords
      BY <2>3, <2>7 DEF CallRecords
    <2>6. /\ r.at = at /\ r.table_id = id /\ Len(r.rows) = Len(r.keys) /\ r.op = op /\ Len(r.keys) = 1 /\ r.keys[1] = k
          /\ \A i \in DOMAIN r.keys : r.rows[i][1] = r.keys[i]
      BY <2>3
    <2> HIDE DEF r
    <2> QED
      BY ZenonT(60), <1>1, <2>4, <2>5, <2>6, <2>7
  <1> QED
    BY Zenon, <1>2, <1>3

LEMMA StartLInv ==
    ASSUME LInv, NEW c \in Callers,
           \/ \E ks \in Batches, s \in Strides : lookup(c, ks, s)
           \/ \E op \in ModifyOps, k \in Keys, v \in 0 .. MaxVersion, id \in TableIds : modify(c, op, k, v, id)
    PROVE  LInv'
PROOF
  <1>1. UNCHANGED <<table, insert_lock, collected, insert_data, task, copying>>
    BY Zenon, StartFacts DEF LInv
  <1>2. PICK p \in {"find", "lock", "apply"}, r \in CallRecords :
          /\ pc' = [pc EXCEPT ![c] = p] /\ call' = [call EXCEPT ![c] = r]
          /\ r.at \in Tables /\ Len(r.rows) = Len(r.keys)
          /\ p # "find" => r.op \in ModifyOps /\ Len(r.keys) = 1
          /\ p = "apply" => r.op = "insert"
    BY ZenonT(60), StartFacts DEF LInv
  <1>3. LTypes'
    <2>1. /\ pc' \in [Callers -> {"idle", "find", "auto_insert", "lock", "apply"}]
          /\ call' \in [Callers -> CallRecords]
          /\ pc'[c] = p /\ call'[c] = r /\ \A d \in Callers \ {c} : pc'[d] = pc[d] /\ call'[d] = call[d]
      BY Zenon, <1>2 DEF LInv, LTypes
    <2> QED
      BY Zenon, <1>1, <1>2, <2>1 DEF LInv, LTypes
  <1>4. Locks' /\ Collecting'
    BY Zenon, <1>1, <1>2 DEF LInv, LTypes, Locks, Collecting
  <1> QED
    BY Zenon, <1>3, <1>4 DEF LInv

(* What an operation makes of a table. *)
LEMMA HostInsertsFacts ==
    ASSUME LTypes, NEW t \in Tables, NEW ks \in Seq(Collectable), NEW rs \in Seq(AllRows),
           Len(ks) <= Len(rs), NEW f \in HostInserts(t, ks, rs)
    PROVE  /\ f \in [Keys -> AllRows]
           /\ \A k \in Keys : \/ t \in MayEvict /\ f[k] = None
                              \/ f[k] = table[t][k] /\ \A i \in DOMAIN ks : ks[i] # k
                              \/ \E i \in DOMAIN ks : ks[i] = k /\ f[k] = rs[i]
PROOF
  <1> DEFINE at(k) == {i \in DOMAIN ks : ks[i] = k}
  <1>1. /\ f \in [Keys -> AnyRow]
        /\ \A k \in Keys : \/ at(k) = {} /\ f[k] = table[t][k]
                           \/ \E i \in at(k) : (\A j \in at(k) : j <= i) /\ f[k] = rs[i]
                           \/ t \in MayEvict /\ f[k] = None
    BY Zenon DEF HostInserts
  <1>2. AnyRow \subseteq AllRows
    BY SizesAssumption DEF AnyRow, AllRows, Rows
  <1> QED
    BY Zenon, <1>1, <1>2

LEMMA AppliedFacts ==
    ASSUME LTypes, NEW t \in Tables, NEW op \in ModifyOps, NEW k \in Keys, NEW row \in AllRows,
           NEW f \in Applied(t, op, k, row)
    PROVE  /\ f \in [Keys -> AllRows]
           /\ \A j \in Keys : (t \in MayEvict /\ f[j] = None) \/ f[j] = RowAfter(t, op, k, row, j)
PROOF
  <1>1. table[t] \in [Keys -> AllRows] /\ None \in AllRows
    BY Zenon DEF LTypes, AllRows
  <1>2. CASE op = "insert"
    <2>1. CASE t \in Gpu /\ table[t][k] # None
      <3>1. f = table[t]
        BY Zenon, <1>2, <2>1 DEF Applied
      <3> QED
        BY <1>1, <1>2, <2>1, <3>1, Zenon DEF RowAfter
    <2>2. CASE ~(t \in Gpu /\ table[t][k] # None)
      <3> DEFINE ks == <<k>>
                 rs == <<row>>
      <3>1. f \in HostInserts(t, ks, rs)
        BY <1>2, <2>2, Zenon DEF Applied
      <3>2. ks \in Seq(Collectable) /\ rs \in Seq(AllRows) /\ Len(ks) <= Len(rs)
            /\ DOMAIN ks = {1} /\ ks[1] = k /\ rs[1] = row
        BY DEF Collectable
      <3> HIDE DEF ks, rs
      <3>3. /\ f \in [Keys -> AllRows]
            /\ \A j \in Keys : \/ t \in MayEvict /\ f[j] = None
                               \/ f[j] = table[t][j] /\ j # k
                               \/ j = k /\ f[j] = row
        BY <3>1, <3>2, HostInsertsFacts
      <3> QED
        BY <1>2, <2>2, <3>3, Zenon DEF RowAfter
    <2> QED
      BY Zenon, <2>1, <2>2
  <1>3. CASE op = "update"
    <2>1. f = IF table[t][k] # None THEN [table[t] EXCEPT ![k] = row] ELSE table[t]
      BY <1>3, Zenon DEF Applied
    <2>2. f \in [Keys -> AllRows] /\ \A j \in Keys : f[j] = IF j = k /\ table[t][k] # None THEN row ELSE table[t][j]
      BY Zenon, <1>1, <2>1
    <2> QED
      BY <1>3, <2>2, Zenon DEF RowAfter
  <1>4. CASE op = "accumulate"
    <2>1. f = IF table[t][k] # None THEN [table[t] EXCEPT ![k] = <<k, table[t][k][2] + 1>>] ELSE table[t]
      BY <1>4, Zenon DEF Applied
    <2>2. table[t][k] # None => <<k, table[t][k][2] + 1>> \in AllRows
      BY <1>1 DEF AllRows, Garbage
    <2>3. f \in [Keys -> AllRows]
          /\ \A j \in Keys : f[j] = IF j = k /\ table[t][k] # None THEN <<k, table[t][k][2] + 1>> ELSE table[t][j]
      BY Zenon, <1>1, <2>1, <2>2
    <2> QED
      BY <1>4, <2>3, Zenon DEF RowAfter
  <1>5. CASE op = "erase"
    <2>1. f = [table[t] EXCEPT ![k] = None]
      BY <1>5, Zenon DEF Applied
    <2>2. f \in [Keys -> AllRows] /\ \A j \in Keys : f[j] = IF j = k THEN None ELSE table[t][j]
      BY Zenon, <1>1, <2>1
    <2> QED
      BY <1>5, <2>2, Zenon DEF RowAfter
  <1>6. CASE op = "clear"
    <2>1. f = [j \in Keys |-> None]
      BY <1>6, Zenon DEF Applied
    <2> QED
      BY <1>1, <1>6, <2>1, Zenon DEF RowAfter
  <1>7. CASE op \notin {"insert", "update", "accumulate", "erase", "clear"}
    <2>1. f = table[t]
      BY <1>7, Zenon DEF Applied
    <2>2. \A j \in Keys : RowAfter(t, op, k, row, j) = table[t][j]
      BY <1>7, Zenon DEF RowAfter
    <2> QED
      BY Zenon, <1>1, <2>1, <2>2
  <1> QED
    BY Zenon, <1>2, <1>3, <1>4, <1>5, <1>6, <1>7

(* Sequences by their elements. *)
LEMMA MadeSeq ==
    ASSUME NEW S, NEW n \in Nat, NEW f \in [1 .. n -> S]
    PROVE  f \in Seq(S) /\ Len(f) = n /\ DOMAIN f = 1 .. n
PROOF
  OBVIOUS

LEMMA JoinedSeq ==
    ASSUME NEW S, NEW a \in Seq(S), NEW b \in Seq(S)
    PROVE  /\ a \o b \in Seq(S) /\ Len(a \o b) = Len(a) + Len(b)
           /\ \A i \in 1 .. Len(a) : (a \o b)[i] = a[i]
           /\ \A i \in Len(a) + 1 .. Len(a) + Len(b) : (a \o b)[i] = b[i - Len(a)]
PROOF
  OBVIOUS

(* A lookup adds keys and their rows at the end of a collection, and the      *)
(* buffer is large enough for them and keeps the rows collected before.       *)
LEMMA CollectFacts ==
    ASSUME LInv, NEW c \in Callers, pc[c] = "auto_insert", NEW t \in Tables, insert_lock[t] = None, Collect(c, t)
    PROVE  /\ collected' \in [Tables -> Seq(Collectable)] /\ insert_data' \in [Tables -> Seq(AllRows)]
           /\ \A u \in Tables \ {t} : collected'[u] = collected[u] /\ insert_data'[u] = insert_data[u]
           /\ Len(collected'[t]) = Len(collected[t]) + PartSize(c, t)
           /\ Len(collected'[t]) <= Len(insert_data'[t]) /\ DOMAIN insert_data[t] \subseteq DOMAIN insert_data'[t]
           /\ collected'[t] # <<>> => MinInsertSize <= Len(insert_data'[t])
           /\ \A i \in DOMAIN collected'[t] :
                 \/ /\ i \in DOMAIN collected[t]
                    /\ collected'[t][i] = collected[t][i] /\ insert_data'[t][i] = insert_data[t][i]
                 \/ \E j \in DOMAIN call[c].keys :
                       collected'[t][i] = CollectedKey(c, j) /\ insert_data'[t][i] = OutputRow(c, j)
PROOF
  <1> DEFINE first == Len(collected[t])
             n == Len(call[c].keys)
             part == PartSize(c, t)
             size == CollectionSize(t, n)
             buffer == Buffer(t, size)
             new == [i \in 1 .. part |-> CollectedKey(c, i)]
             data == [i \in DOMAIN buffer |-> IF i \in first + 1 .. first + part THEN OutputRow(c, i - first) ELSE buffer[i]]
  <1>1. /\ collected' = [collected EXCEPT ![t] = collected[t] \o new]
        /\ insert_data' = [insert_data EXCEPT ![t] = data]
    BY Zenon DEF Collect
  <1>2. /\ collected[t] \in Seq(Collectable) /\ first \in Nat /\ n \in Nat /\ MinInsertSize \in Nat
        /\ insert_data[t] \in Seq(AllRows) /\ first <= Len(insert_data[t])
        /\ first # 0 => MinInsertSize <= Len(insert_data[t]) /\ first < MinInsertSize
        /\ collected[t] = <<>> <=> first = 0
        /\ first = Len(collected[t]) /\ DOMAIN collected[t] = 1 .. first /\ DOMAIN call[c].keys = 1 .. n
        /\ \A i \in 1 .. n : call[c].keys[i] \in Keys /\ call[c].rows[i] \in AllRows
    <2>1. /\ call[c].keys \in Seq(Keys) /\ call[c].rows \in Seq(AllRows) /\ Len(call[c].rows) = n
      BY Zenon DEF LInv, LTypes, CallRecords
    <2> QED
      BY <2>1, SizesAssumption DEF LInv, LTypes, Collecting
  <1>3. /\ size \in Nat /\ part \in 0 .. n /\ first + part <= size /\ MinInsertSize <= size
        /\ first # 0 => size <= Len(insert_data[t])
    <2>1. part = IF n <= size - first THEN n ELSE size - first
      BY Zenon DEF PartSize, min
    <2>2. size = IF first = 0 THEN IF n >= MinInsertSize THEN n ELSE MinInsertSize ELSE MinInsertSize
      BY Zenon, <1>2 DEF CollectionSize, max
    <2> HIDE DEF size, part, first, n
    <2>3. /\ size \in Nat /\ first <= size /\ MinInsertSize <= size
          /\ first # 0 => size <= Len(insert_data[t])
      BY <1>2, <2>2
    <2>4. part \in 0 .. n /\ first + part <= size
      <3>1. n \in Nat /\ first \in Nat /\ size \in Nat /\ first <= size
        BY Zenon, <1>2, <2>3
      <3>2. CASE n <= size - first
        BY ONLY <2>1, <3>1, <3>2
      <3>3. CASE ~(n <= size - first)
        BY ONLY <2>1, <3>1, <3>3
      <3> QED
        BY Zenon, <3>2, <3>3
    <2> QED
      BY Zenon, <2>3, <2>4
  <1> HIDE DEF size, part, first, n
  <1>4. /\ buffer \in Seq(AllRows) /\ size <= Len(buffer) /\ DOMAIN insert_data[t] \subseteq DOMAIN buffer
        /\ first # 0 => buffer = insert_data[t]
    <2>1. CASE size <= Len(insert_data[t])
      BY Zenon, <1>2, <2>1 DEF Buffer
    <2>2. CASE ~(size <= Len(insert_data[t]))
      <3>1. buffer = [i \in 1 .. size |-> Garbage]
        BY Zenon, <2>2 DEF Buffer
      <3>2. [i \in 1 .. size |-> Garbage] \in [1 .. size -> AllRows]
        BY Zenon DEF AllRows
      <3>3. buffer \in Seq(AllRows) /\ Len(buffer) = size
        BY ZenonT(60), <1>3, <3>1, <3>2, MadeSeq
      <3> QED
        BY <1>2, <1>3, <2>2, <3>3
    <2> QED
      BY Zenon, <2>1, <2>2
  <1> HIDE DEF buffer
  <1>5. new \in Seq(Collectable) /\ Len(new) = part
    <2>1. new \in [1 .. part -> Collectable] /\ part \in Nat
      BY <1>2, <1>3 DEF CollectedKey, Collectable
    <2> HIDE DEF new
    <2> QED
      BY Zenon, <2>1, MadeSeq
  <1>6. data \in Seq(AllRows) /\ Len(data) = Len(buffer)
    <2>1. \A i \in first + 1 .. first + part : OutputRow(c, i - first) \in AllRows
      <3> SUFFICES ASSUME NEW i \in first + 1 .. first + part PROVE OutputRow(c, i - first) \in AllRows
        BY Zenon
      <3>1. i - first \in 1 .. n
        BY <1>2, <1>3
      <3> QED
        BY ZenonT(60), <1>2, <3>1 DEF OutputRow, AllRows
    <2>2. \A i \in 1 .. Len(buffer) : buffer[i] \in AllRows
      BY <1>4
    <2>3. DOMAIN buffer = 1 .. Len(buffer) /\ Len(buffer) \in Nat
      BY <1>4
    <2>4. data \in [1 .. Len(buffer) -> AllRows]
      BY Zenon, <2>1, <2>2, <2>3
    <2> HIDE DEF data
    <2> QED
      BY Zenon, <2>3, <2>4, MadeSeq
  <1>7. /\ collected[t] \o new \in Seq(Collectable) /\ Len(collected[t] \o new) = first + part
        /\ \A i \in 1 .. first : (collected[t] \o new)[i] = collected[t][i]
        /\ \A i \in first + 1 .. first + part : (collected[t] \o new)[i] = CollectedKey(c, i - first)
    <2>1. \A i \in first + 1 .. first + part : i - first \in 1 .. part
      BY <1>2, <1>3
    <2>2. \A i \in 1 .. part : new[i] = CollectedKey(c, i)
      BY Zenon
    <2> HIDE DEF new
    <2>3. /\ collected[t] \o new \in Seq(Collectable) /\ Len(collected[t] \o new) = first + part
          /\ \A i \in 1 .. first : (collected[t] \o new)[i] = collected[t][i]
          /\ \A i \in first + 1 .. first + part : (collected[t] \o new)[i] = new[i - first]
      <3>1. collected[t] \in Seq(Collectable) /\ new \in Seq(Collectable)
        BY Zenon, <1>2, <1>5
      <3>2. /\ collected[t] \o new \in Seq(Collectable) /\ Len(collected[t] \o new) = Len(collected[t]) + Len(new)
            /\ \A i \in 1 .. Len(collected[t]) : (collected[t] \o new)[i] = collected[t][i]
            /\ \A i \in Len(collected[t]) + 1 .. Len(collected[t]) + Len(new) :
                  (collected[t] \o new)[i] = new[i - Len(collected[t])]
        BY ONLY <3>1, JoinedSeq, ZenonT(30)
      <3>3. first = Len(collected[t]) /\ part = Len(new)
        BY Zenon, <1>2, <1>5
      <3> QED
        BY ONLY <3>2, <3>3, ZenonT(30)
    <2> QED
      BY ZenonT(60), <2>1, <2>2, <2>3
  <1>8. /\ \A i \in 1 .. first : data[i] = insert_data[t][i]
        /\ \A i \in first + 1 .. first + part : data[i] = OutputRow(c, i - first)
    <2>1. DOMAIN buffer = 1 .. Len(buffer) /\ Len(buffer) \in Nat /\ first + part <= Len(buffer)
      BY <1>2, <1>3, <1>4
    <2> QED
      BY SMTT(60), <1>2, <1>3, <1>4, <2>1
  <1> HIDE DEF new, data
  <1>9. collected'[t] = collected[t] \o new /\ insert_data'[t] = data
    BY Zenon, <1>1 DEF LInv, LTypes
  <1>10. ASSUME NEW i \in DOMAIN collected'[t]
         PROVE  \/ /\ i \in DOMAIN collected[t]
                   /\ collected'[t][i] = collected[t][i] /\ insert_data'[t][i] = insert_data[t][i]
                \/ \E j \in DOMAIN call[c].keys :
                      collected'[t][i] = CollectedKey(c, j) /\ insert_data'[t][i] = OutputRow(c, j)
    <2>1. i \in 1 .. first + part
      BY <1>7, <1>9
    <2>2. CASE i \in 1 .. first
      BY <1>2, <1>7, <1>8, <1>9, <2>2
    <2>3. CASE i \in first + 1 .. first + part
      <3>1. i - first \in DOMAIN call[c].keys
        BY SMTT(60), <1>2, <1>3, <2>3
      <3> QED
        BY Zenon, <1>7, <1>8, <1>9, <2>3, <3>1
    <2> QED
      BY SMTT(60), <1>2, <1>3, <2>1, <2>2, <2>3
  <1>11. collected' \in [Tables -> Seq(Collectable)] /\ insert_data' \in [Tables -> Seq(AllRows)]
         /\ \A u \in Tables \ {t} : collected'[u] = collected[u] /\ insert_data'[u] = insert_data[u]
    BY Zenon, <1>1, <1>6, <1>7 DEF LInv, LTypes
  <1>12. Len(collected'[t]) = first + part /\ first + part <= Len(insert_data'[t])
         /\ MinInsertSize <= Len(insert_data'[t]) /\ DOMAIN insert_data[t] \subseteq DOMAIN insert_data'[t]
    BY <1>2, <1>3, <1>4, <1>6, <1>7, <1>9
  <1> QED
    BY Zenon, <1>10, <1>11, <1>12 DEF part, first

\* A step of caller c that leaves the calls of the others alone.
OnlyCaller(c) ==
    /\ pc' \in [Callers -> {"idle", "find", "auto_insert", "lock", "apply"}]
    /\ call' \in [Callers -> CallRecords]
    /\ \A d \in Callers \ {c} : pc'[d] = pc[d] /\ call'[d] = call[d]
    /\ pc'[c] # "idle" => call'[c].at \in Tables /\ Len(call'[c].rows) = Len(call'[c].keys)
    /\ pc'[c] \in {"lock", "apply"} => call'[c].op \in ModifyOps /\ Len(call'[c].keys) = 1

LEMMA TypesStep ==
    ASSUME LTypes, NEW c \in Callers, OnlyCaller(c),
           table' \in [Tables -> [Keys -> AllRows]],
           insert_lock' \in [Tables -> Callers \cup {"task", None}],
           collected' \in [Tables -> Seq(Collectable)],
           insert_data' \in [Tables -> Seq(AllRows)],
           task' \in [Tables -> {"none", "queued", "inserted"}],
           copying' \in [Tables -> SUBSET (Keys \X Nat)]
    PROVE  LTypes'
PROOF
  <1>1. ASSUME NEW d \in Callers
        PROVE  /\ pc'[d] # "idle" => call'[d].at \in Tables /\ Len(call'[d].rows) = Len(call'[d].keys)
               /\ pc'[d] \in {"lock", "apply"} => call'[d].op \in ModifyOps /\ Len(call'[d].keys) = 1
    <2>1. CASE d = c
      BY Zenon, <2>1 DEF OnlyCaller
    <2>2. CASE d # c
      <3>1. pc'[d] = pc[d] /\ call'[d] = call[d]
        BY Zenon, <2>2 DEF OnlyCaller
      <3> QED
        BY Zenon, <3>1 DEF LTypes
    <2> QED
      BY Zenon, <2>1, <2>2
  <1> QED
    BY <1>1, ZenonT(30) DEF OnlyCaller, LTypes

(* The rows a lookup has once it has asked one more table. *)
LEMMA FindFacts ==
    ASSUME LTypes, NEW c \in Callers, find(c)
    PROVE  /\ UNCHANGED <<table, insert_lock, collected, insert_data, task, copying>>
           /\ pc[c] = "find" /\ pc'[c] \in {"find", "auto_insert"}
           /\ pc' \in [Callers -> {"idle", "find", "auto_insert", "lock", "apply"}]
           /\ call' \in [Callers -> CallRecords]
           /\ \A d \in Callers \ {c} : pc'[d] = pc[d] /\ call'[d] = call[d]
           /\ call'[c].at \in Tables /\ call'[c].keys = call[c].keys /\ Len(call'[c].rows) = Len(call'[c].keys)
           /\ \A i \in DOMAIN call[c].keys :
                 \/ call[c].rows[i] # None /\ call'[c].rows[i] = call[c].rows[i]
                 \/ \E t \in Tables : call'[c].rows[i] = table[t][call[c].keys[i]]
PROOF
  <1> DEFINE a == call[c]
             found == [i \in DOMAIN a.keys |-> IF a.rows[i] # None THEN a.rows[i] ELSE table[a.at][a.keys[i]]]
             device == IF a.at \in Gpu THEN {i \in DOMAIN a.keys : found[i] # None} ELSE a.device
             next == IF a.at < N THEN a.at + 1 ELSE 1
             r == [a EXCEPT !.rows = found, !.device = device, !.at = next]
  <1>1. /\ pc[c] = "find" /\ UNCHANGED <<table, insert_lock, collected, insert_data, task, copying>>
        /\ call' = [call EXCEPT ![c].rows = found, ![c].device = device, ![c].at = next]
        /\ pc' = [pc EXCEPT ![c] = IF a.at < N THEN "find" ELSE "auto_insert"]
    BY Zenon DEF find, handlerVars
  <1>2. a \in CallRecords /\ a.at \in Tables /\ Len(a.rows) = Len(a.keys) /\ next \in Tables
    <2>1. a \in CallRecords /\ a.at \in Tables /\ Len(a.rows) = Len(a.keys)
      BY Zenon, <1>1 DEF LTypes
    <2>2. \A n \in Tables : (IF n < N THEN n + 1 ELSE 1) \in Tables
      BY TablesAssumption DEF Tables
    <2> QED
      BY Zenon, <2>1, <2>2
  <1>3. a.keys \in Seq(Keys) /\ a.rows \in Seq(AllRows) /\ DOMAIN a.keys = 1 .. Len(a.keys) /\ Len(a.keys) \in Nat
    BY <1>2 DEF CallRecords
  <1>4. found \in [1 .. Len(a.keys) -> AllRows]
    <2> SUFFICES ASSUME NEW i \in 1 .. Len(a.keys)
                 PROVE  (IF a.rows[i] # None THEN a.rows[i] ELSE table[a.at][a.keys[i]]) \in AllRows
      BY Zenon, <1>3
    <2>1. a.keys[i] \in Keys /\ a.rows[i] \in AllRows
      BY <1>2, <1>3
    <2>2. table[a.at] \in [Keys -> AllRows]
      BY ZenonT(60), <1>2 DEF LTypes
    <2> HIDE DEF a
    <2> QED
      BY Zenon, <2>1, <2>2
  <1>5. \A i \in DOMAIN a.keys : \/ a.rows[i] # None /\ found[i] = a.rows[i]
                                 \/ found[i] = table[a.at][a.keys[i]]
    BY Zenon
  <1>13. device \in SUBSET Nat
    <2>1. DOMAIN a.keys \subseteq Nat
      BY <1>3
    <2>2. a.device \in SUBSET Nat
      BY Zenon, <1>2 DEF CallRecords
    <2> HIDE DEF found
    <2> QED
      BY Zenon, <2>1, <2>2
  <1> HIDE DEF found, next, device
  <1>6. found \in Seq(AllRows) /\ Len(found) = Len(a.keys)
    BY Zenon, <1>3, <1>4, MadeSeq
  <1>7. call' = [call EXCEPT ![c] = r]
    BY ZenonT(60), <1>1
  <1>8. r \in CallRecords /\ r.at = next /\ r.keys = a.keys /\ r.rows = found
    <2>1. Tables \subseteq 0 .. N
      BY TablesAssumption DEF Tables
    <2> HIDE DEF a
    <2> QED
      BY ZenonT(60), <1>2, <1>6, <1>13, <2>1 DEF CallRecords
  <1> HIDE DEF r
  <1>9. call' \in [Callers -> CallRecords] /\ call'[c] = r /\ \A d \in Callers \ {c} : pc'[d] = pc[d] /\ call'[d] = call[d]
    <2>1. call \in [Callers -> CallRecords] /\ pc \in [Callers -> {"idle", "find", "auto_insert", "lock", "apply"}]
      BY Zenon DEF LTypes
    <2>2. \A d \in Callers \ {c} : pc'[d] = pc[d]
      BY Zenon, <1>1, <2>1
    <2>3. call' \in [Callers -> CallRecords] /\ call'[c] = r /\ \A d \in Callers \ {c} : call'[d] = call[d]
      BY Zenon, <1>7, <1>8, <2>1
    <2> QED
      BY Zenon, <2>2, <2>3
  <1>10. /\ pc'[c] \in {"find", "auto_insert"}
         /\ pc' \in [Callers -> {"idle", "find", "auto_insert", "lock", "apply"}]
    BY Zenon, <1>1 DEF LTypes
  <1>11. call'[c].at \in Tables /\ call'[c].keys = call[c].keys /\ Len(call'[c].rows) = Len(call'[c].keys)
    BY Zenon, <1>2, <1>6, <1>8, <1>9
  <1>12. \A i \in DOMAIN call[c].keys :
           \/ call[c].rows[i] # None /\ call'[c].rows[i] = call[c].rows[i]
           \/ \E t \in Tables : call'[c].rows[i] = table[t][call[c].keys[i]]
    BY ZenonT(60), <1>2, <1>5, <1>8, <1>9
  <1> QED
    BY Zenon, <1>1, <1>9, <1>10, <1>11, <1>12

LEMMA FindLInv ==
    ASSUME LInv, NEW c \in Callers, find(c)
    PROVE  LInv'
PROOF
  <1>1. LTypes'
    <2>1. OnlyCaller(c) /\ UNCHANGED <<table, insert_lock, collected, insert_data, task, copying>>
      BY Zenon, FindFacts DEF LInv, OnlyCaller
    <2> QED
      BY ZenonT(60), <2>1, TypesStep DEF LInv, LTypes
  <1>2. Locks' /\ Collecting'
    BY FindFacts DEF LInv, Locks, Collecting
  <1> QED
    BY Zenon, <1>1, <1>2 DEF LInv

(* Outcomes of auto_insert and of a modify step that leave the tables alone. *)
LEMMA PassLInv ==
    ASSUME LInv, NEW c \in Callers, AutoInsertBusy(c) \/ AutoInsertNotNeeded(c) \/ AutoInsertThrows(c) \/ ModifyThrows(c)
    PROVE  LInv'
PROOF
  <1>1. UNCHANGED <<table, collected, insert_data, task, copying>> /\ pc[c] # "idle"
    BY Zenon DEF AutoInsertBusy, AutoInsertNotNeeded, AutoInsertThrows, ModifyThrows, handlerVars
  <1>2. /\ pc' \in [Callers -> {"idle", "find", "auto_insert", "lock", "apply"}]
        /\ call' \in [Callers -> CallRecords]
        /\ \A d \in Callers \ {c} : pc'[d] = pc[d] /\ call'[d] = call[d]
        /\ \/ pc'[c] = "idle"
           \/ /\ pc'[c] = "auto_insert" /\ call'[c].at \in Tables
              /\ call'[c].keys = call[c].keys /\ call'[c].rows = call[c].rows
    <2>1. CASE AutoInsertBusy(c) \/ AutoInsertNotNeeded(c)
      BY Zenon, <1>1, <2>1, NextTableFacts DEF LInv, AutoInsertBusy, AutoInsertNotNeeded
    <2>2. CASE AutoInsertThrows(c) \/ ModifyThrows(c)
      BY Zenon, <2>2, ReturnFacts DEF LInv, AutoInsertThrows, ModifyThrows
    <2> QED
      BY Zenon, <2>1, <2>2
  <1>3. \/ insert_lock' = insert_lock
        \/ \E t \in Tables : insert_lock[t] = None /\ insert_lock' = [insert_lock EXCEPT ![t] = c]
    <2>1. call[c].at \in Tables
      BY Zenon, <1>1 DEF LInv, LTypes
    <2> QED
      BY Zenon, <2>1 DEF AutoInsertBusy, AutoInsertNotNeeded, AutoInsertThrows, ModifyThrows, handlerVars
  <1>4. LTypes'
    <2>1. OnlyCaller(c)
      BY Zenon, <1>1, <1>2 DEF OnlyCaller, LInv, LTypes
    <2>2. insert_lock' \in [Tables -> Callers \cup {"task", None}]
      BY ZenonT(60), <1>3 DEF LInv, LTypes
    <2> QED
      BY ZenonT(60), <1>1, <2>1, <2>2, TypesStep DEF LInv, LTypes
  <1>5. Locks'
    BY SMTT(60), <1>1, <1>2, <1>3, NoneAssumption DEF LInv, LTypes, Locks
  <1>6. Collecting'
    BY Zenon, <1>1, <1>3, NoneAssumption DEF LInv, LTypes, Collecting
  <1> QED
    BY Zenon, <1>4, <1>5, <1>6 DEF LInv

LEMMA CollectsLInv ==
    ASSUME LInv, NEW c \in Callers, AutoInsertCollects(c)
    PROVE  LInv'
PROOF
  <1> DEFINE t == call[c].at
             enough == Len(collected[t]) + PartSize(c, t) >= MinInsertSize
  <1>1. /\ pc[c] = "auto_insert" /\ insert_lock[t] = None /\ Collect(c, t) /\ UNCHANGED <<table, copying>>
        /\ insert_lock' = [insert_lock EXCEPT ![t] = IF enough THEN "task" ELSE None]
        /\ task' = [task EXCEPT ![t] = IF enough THEN "queued" ELSE @]
        /\ NextTable(c, "auto_insert", Return(c))
    BY Zenon DEF AutoInsertCollects
  <1>2. t \in Tables /\ LTypes /\ Locks /\ Collecting
    BY Zenon, <1>1 DEF LInv, LTypes
  <1> HIDE DEF t
  <1>3. /\ pc' \in [Callers -> {"idle", "find", "auto_insert", "lock", "apply"}]
        /\ call' \in [Callers -> CallRecords]
        /\ \A d \in Callers \ {c} : pc'[d] = pc[d] /\ call'[d] = call[d]
        /\ \/ pc'[c] = "idle"
           \/ /\ pc'[c] = "auto_insert" /\ call'[c].at \in Tables
              /\ call'[c].keys = call[c].keys /\ call'[c].rows = call[c].rows
    BY Zenon, <1>1, <1>2, NextTableFacts
  <1>4. /\ collected' \in [Tables -> Seq(Collectable)] /\ insert_data' \in [Tables -> Seq(AllRows)]
        /\ \A u \in Tables \ {t} : collected'[u] = collected[u] /\ insert_data'[u] = insert_data[u]
        /\ Len(collected'[t]) = Len(collected[t]) + PartSize(c, t)
        /\ Len(collected'[t]) <= Len(insert_data'[t]) /\ DOMAIN insert_data[t] \subseteq DOMAIN insert_data'[t]
        /\ collected'[t] # <<>> => MinInsertSize <= Len(insert_data'[t])
    BY Zenon, <1>1, <1>2, CollectFacts
  <1>5. /\ insert_lock' \in [Tables -> Callers \cup {"task", None}] /\ task' \in [Tables -> {"none", "queued", "inserted"}]
        /\ \A u \in Tables \ {t} : insert_lock'[u] = insert_lock[u] /\ task'[u] = task[u]
        /\ enough => insert_lock'[t] = "task"
        /\ ~enough => insert_lock'[t] = None /\ task'[t] = task[t]
    BY Zenon, <1>1, <1>2 DEF LTypes
  <1>6. LTypes'
    <2>1. OnlyCaller(c)
      BY Zenon, <1>1, <1>2, <1>3 DEF OnlyCaller, LTypes
    <2>2. table' \in [Tables -> [Keys -> AllRows]] /\ copying' \in [Tables -> SUBSET (Keys \X Nat)]
      BY Zenon, <1>1, <1>2 DEF LTypes
    <2> QED
      BY ZenonT(60), <1>2, <1>4, <1>5, <2>1, <2>2, TypesStep
  <1>7. Locks'
    <2>1. \A u \in Tables : task'[u] # "none" => insert_lock'[u] = "task"
      BY Zenon, <1>1, <1>2, <1>5, NoneAssumption DEF Locks
    <2>2. ASSUME NEW d \in Callers, pc'[d] = "apply", call'[d].op # "insert" PROVE insert_lock'[call'[d].at] = d
      <3>1. d # c /\ pc[d] = "apply" /\ call'[d] = call[d]
        BY Zenon, <1>3, <2>2
      <3>2. insert_lock[call[d].at] = d /\ call[d].at \in Tables
        BY Zenon, <1>2, <2>2, <3>1 DEF Locks, LTypes
      <3> QED
        BY <1>1, <1>5, <3>1, <3>2, NoneAssumption
    <2> QED
      BY Zenon, <2>1, <2>2 DEF Locks
  <1>8. Collecting'
    <2>1. insert_lock'[t] = None => Len(collected'[t]) < MinInsertSize
      <3>1. Len(collected'[t]) \in Nat /\ MinInsertSize \in Nat
        BY SMTT(60), <1>2, <1>4, SizesAssumption
      <3> QED
        BY <1>4, <1>5, <3>1, NoneAssumption
    <2> QED
      BY ZenonT(60), <1>1, <1>2, <1>4, <1>5, <2>1 DEF Collecting
  <1> QED
    BY Zenon, <1>6, <1>7, <1>8 DEF LInv

(* What the insert of a task makes of its table. *)
LEMMA TaskInsertsFacts ==
    ASSUME LInv, NEW t \in Tables, TaskInserts(t)
    PROVE  /\ UNCHANGED <<insert_lock, collected, insert_data, pc, call>>
           /\ task[t] = "queued" /\ task' \in [Tables -> {"none", "queued", "inserted"}]
           /\ table' \in [Tables -> [Keys -> AllRows]] /\ copying' \in [Tables -> SUBSET (Keys \X Nat)]
           /\ \A u \in Tables \ {t} : task'[u] = task[u] /\ table'[u] = table[u] /\ copying'[u] = copying[u]
           /\ \A k \in Keys : \/ t \in MayEvict /\ table'[t][k] = None
                              \/ table'[t][k] = table[t][k]
                              \/ \E i \in DOMAIN collected[t] : collected[t][i] = k /\ table'[t][k] = insert_data[t][i]
           /\ t \notin Gpu => copying' = copying
           /\ \A x \in copying'[t] : x \in copying[t] \/ (x[2] \in DOMAIN collected[t] /\ collected[t][x[2]] = x[1])
PROOF
  <1>1. /\ UNCHANGED <<insert_lock, collected, insert_data, pc, call>>
        /\ task[t] = "queued" /\ task' = [task EXCEPT ![t] = "inserted"]
    BY Zenon DEF TaskInserts, handlerVars
  <1>2. /\ table[t] \in [Keys -> AllRows] /\ collected[t] \in Seq(Collectable) /\ insert_data[t] \in Seq(AllRows)
        /\ Len(collected[t]) <= Len(insert_data[t]) /\ LTypes
    BY Zenon DEF LInv, LTypes, Collecting
  <1>3. /\ task' \in [Tables -> {"none", "queued", "inserted"}] /\ \A u \in Tables \ {t} : task'[u] = task[u]
    BY Zenon, <1>1 DEF LInv, LTypes
  <1>4. CASE t \notin Gpu
    <2>1. PICK f \in HostInserts(t, collected[t], insert_data[t]) : table' = [table EXCEPT ![t] = f]
      BY Zenon, <1>4 DEF TaskInserts
    <2>2. copying' = copying
      BY Zenon, <1>4 DEF TaskInserts
    <2>3. /\ f \in [Keys -> AllRows]
          /\ \A k \in Keys : \/ t \in MayEvict /\ f[k] = None
                             \/ f[k] = table[t][k]
                             \/ \E i \in DOMAIN collected[t] : collected[t][i] = k /\ f[k] = insert_data[t][i]
      BY <1>2, HostInsertsFacts, ZenonT(30)
    <2>4. table'[t] = f /\ table' \in [Tables -> [Keys -> AllRows]] /\ \A u \in Tables \ {t} : table'[u] = table[u]
      BY Zenon, <1>2, <2>1, <2>3 DEF LTypes
    <2>5. copying' \in [Tables -> SUBSET (Keys \X Nat)] /\ \A u \in Tables \ {t} : copying'[u] = copying[u]
      BY Zenon, <1>2, <2>2 DEF LTypes
    <2> QED
      BY <1>1, <1>3, <2>2, <2>3, <2>4, <2>5
  <1>5. CASE t \in Gpu
    <2>1. PICK s \in GpuPicks(t, collected[t]) : copying' = [copying EXCEPT ![t] = s]
      BY Zenon, <1>5 DEF TaskInserts
    <2>2. PICK f \in GpuDrops(t) : table' = [table EXCEPT ![t] = f]
      BY Zenon, <1>5 DEF TaskInserts
    <2>3. f \in [Keys -> AllRows] /\ \A k \in Keys : (t \in MayEvict /\ f[k] = None) \/ f[k] = table[t][k]
      <3>1. PICK d \in IF t \in MayEvict THEN SUBSET Keys ELSE {{}} :
              f = [k \in Keys |-> IF k \in d THEN None ELSE table[t][k]]
        BY Zenon DEF GpuDrops
      <3>2. t \in MayEvict \/ d = {}
        BY Zenon, <3>1
      <3> QED
        BY Zenon, <1>2, <3>1, <3>2 DEF AllRows
    <2>4. table'[t] = f /\ table' \in [Tables -> [Keys -> AllRows]] /\ \A u \in Tables \ {t} : table'[u] = table[u]
      BY Zenon, <1>2, <2>2, <2>3 DEF LTypes
    <2>5. s \in SUBSET (Keys \X Nat) /\ \A x \in s : x[2] \in DOMAIN collected[t] /\ collected[t][x[2]] = x[1]
      <3>1. s \subseteq {x \in Keys \X DOMAIN collected[t] : collected[t][x[2]] = x[1] /\ table[t][x[1]] = None}
        BY Zenon DEF GpuPicks
      <3>2. DOMAIN collected[t] \subseteq Nat
        BY <1>2
      <3> QED
        BY Zenon, <3>1, <3>2
    <2>6. /\ copying'[t] = s /\ copying' \in [Tables -> SUBSET (Keys \X Nat)]
          /\ \A u \in Tables \ {t} : copying'[u] = copying[u]
      BY Zenon, <1>2, <2>1, <2>5 DEF LTypes
    <2> QED
      BY Zenon, <1>1, <1>3, <1>5, <2>3, <2>4, <2>5, <2>6
  <1> QED
    BY Zenon, <1>4, <1>5

(* The copy that a GPU table makes of the rows it has picked. *)
LEMMA CopyRowsFacts ==
    ASSUME LInv, NEW t \in Tables, CopyRows(t)
    PROVE  /\ UNCHANGED <<insert_lock, collected, insert_data, task, pc, call>>
           /\ table' \in [Tables -> [Keys -> AllRows]] /\ copying' \in [Tables -> SUBSET (Keys \X Nat)]
           /\ \A u \in Tables \ {t} : table'[u] = table[u] /\ copying'[u] = copying[u]
           /\ copying[t] # {} /\ copying'[t] = {}
           /\ \A k \in Keys : \/ table'[t][k] = table[t][k]
                              \/ \E x \in copying[t] : x[1] = k /\ table'[t][k] = insert_data[t][x[2]]
PROOF
  <1> DEFINE pick(k) == CHOOSE x \in copying[t] : x[1] = k
             f == [k \in Keys |-> IF \E x \in copying[t] : x[1] = k THEN insert_data[t][pick(k)[2]] ELSE table[t][k]]
  <1>1. /\ UNCHANGED <<insert_lock, collected, insert_data, task, pc, call>> /\ copying[t] # {}
        /\ copying' = [copying EXCEPT ![t] = {}]
    BY Zenon DEF CopyRows, handlerVars
  <1>2. table' = [table EXCEPT ![t] = f]
    BY Zenon DEF CopyRows
  <1>3. /\ table[t] \in [Keys -> AllRows] /\ insert_data[t] \in Seq(AllRows) /\ LTypes
        /\ \A x \in copying[t] : x[2] \in DOMAIN insert_data[t]
    BY Zenon DEF LInv, LTypes, Collecting
  <1>4. ASSUME NEW k \in Keys, \E x \in copying[t] : x[1] = k
        PROVE  pick(k) \in copying[t] /\ pick(k)[1] = k /\ insert_data[t][pick(k)[2]] \in AllRows
    <2>1. pick(k) \in copying[t] /\ pick(k)[1] = k
      BY Zenon, <1>4
    <2> HIDE DEF pick
    <2> QED
      BY <1>3, <2>1
  <1> HIDE DEF pick
  <1>5. f \in [Keys -> AllRows]
        /\ \A k \in Keys : \/ f[k] = table[t][k]
                           \/ \E x \in copying[t] : x[1] = k /\ f[k] = insert_data[t][x[2]]
    BY Zenon, <1>3, <1>4
  <1> HIDE DEF f
  <1>6. table'[t] = f /\ table' \in [Tables -> [Keys -> AllRows]] /\ \A u \in Tables \ {t} : table'[u] = table[u]
    BY Zenon, <1>2, <1>3, <1>5 DEF LTypes
  <1>7. /\ copying'[t] = {} /\ copying' \in [Tables -> SUBSET (Keys \X Nat)]
        /\ \A u \in Tables \ {t} : copying'[u] = copying[u]
    BY Zenon, <1>1, <1>3 DEF LTypes
  <1> QED
    BY <1>1, <1>5, <1>6, <1>7

(* The task, and the device that copies for it. *)
LEMMA TaskLInv ==
    ASSUME LInv, NEW t \in Tables, TaskInserts(t) \/ TaskEnds(t) \/ TaskThrows(t) \/ CopyRows(t)
    PROVE  LInv'
PROOF
  <1>1. /\ UNCHANGED <<insert_data, pc, call>>
        /\ table' \in [Tables -> [Keys -> AllRows]] /\ copying' \in [Tables -> SUBSET (Keys \X Nat)]
        /\ task' \in [Tables -> {"none", "queued", "inserted"}]
        /\ \A u \in Tables : task'[u] = "none" \/ task[u] # "none"
        /\ \A u \in Tables : \A x \in copying'[u] : x \in copying[u] \/ x[2] \in DOMAIN collected[u]
    <2>1. CASE TaskInserts(t)
      BY ZenonT(60), <2>1, TaskInsertsFacts
    <2>2. CASE TaskEnds(t) \/ TaskThrows(t)
      <3>1. UNCHANGED <<insert_data, pc, call, table, copying>> /\ task' = [task EXCEPT ![t] = "none"]
        BY Zenon, <2>2 DEF TaskEnds, TaskThrows, handlerVars
      <3> QED
        BY Zenon, <3>1 DEF LInv, LTypes
    <2>3. CASE CopyRows(t)
      <3>1. UNCHANGED <<insert_data, pc, call, task>>
        BY ZenonT(60), <2>3 DEF CopyRows, handlerVars
      <3>2. /\ table' \in [Tables -> [Keys -> AllRows]] /\ copying' \in [Tables -> SUBSET (Keys \X Nat)]
            /\ \A u \in Tables : \A x \in copying'[u] : x \in copying[u]
        BY Zenon, <2>3, CopyRowsFacts
      <3> QED
        BY Zenon, <3>1, <3>2 DEF LInv, LTypes
    <2> QED
      BY Zenon, <2>1, <2>2, <2>3
  <1>2. \/ UNCHANGED <<insert_lock, collected>>
        \/ /\ insert_lock[t] = "task" /\ task'[t] = "none"
           /\ insert_lock' = [insert_lock EXCEPT ![t] = None] /\ collected' = [collected EXCEPT ![t] = <<>>]
           /\ copying' = copying
    <2>1. CASE TaskEnds(t)
      BY Zenon, <2>1 DEF TaskEnds, LInv, LTypes, Locks
    <2>2. CASE TaskInserts(t) \/ TaskThrows(t) \/ CopyRows(t)
      BY ZenonT(60), <2>2 DEF TaskInserts, TaskThrows, CopyRows, handlerVars
    <2> QED
      BY Zenon, <2>1, <2>2
  <1>3. insert_lock' \in [Tables -> Callers \cup {"task", None}] /\ collected' \in [Tables -> Seq(Collectable)]
    <2>1. <<>> \in Seq(Collectable)
      OBVIOUS
    <2>2. CASE UNCHANGED <<insert_lock, collected>>
      BY Zenon, <2>2 DEF LInv, LTypes
    <2>3. CASE insert_lock' = [insert_lock EXCEPT ![t] = None] /\ collected' = [collected EXCEPT ![t] = <<>>]
      BY Zenon, <2>1, <2>3 DEF LInv, LTypes
    <2> QED
      BY Zenon, <1>2, <2>2, <2>3
  <1>4. LTypes'
    <2>1. pc' = pc /\ call' = call /\ insert_data' = insert_data
      BY Zenon, <1>1
    <2> QED
      BY <1>1, <1>3, <2>1, ZenonT(30) DEF LInv, LTypes
  <1>5. Locks'
    BY <1>1, <1>2, CallersAssumption DEF LInv, LTypes, Locks
  <1>6. Collecting'
    <2>1. \A u \in Tables : \A x \in copying'[u] : x[2] \in DOMAIN insert_data[u]
      <3>1. \A u \in Tables : DOMAIN collected[u] \subseteq DOMAIN insert_data[u]
        BY SMTT(60) DEF LInv, LTypes, Collecting
      <3> QED
        BY Zenon, <1>1, <3>1 DEF LInv, Collecting
    <2>2. \A u \in Tables : \/ insert_lock'[u] = insert_lock[u] /\ collected'[u] = collected[u]
                            \/ collected'[u] = <<>>
      BY Zenon, <1>2 DEF LInv, LTypes
    <2>3. Len(<<>>) = 0 /\ \A u \in Tables : Len(insert_data[u]) \in Nat
      BY SMTT(60) DEF LInv, LTypes
    <2> QED
      BY SMTT(60), <1>1, <2>1, <2>2, <2>3, SizesAssumption DEF LInv, Collecting
  <1> QED
    BY Zenon, <1>4, <1>5, <1>6 DEF LInv

(* What a modify operation does to one table. *)
LEMMA ApplyFacts ==
    ASSUME LInv, NEW c \in Callers, ApplyModify(c)
    PROVE  LET a == call[c] IN
           /\ UNCHANGED <<insert_data, task, copying>>
           /\ pc[c] = "apply" /\ copying[a.at] = {} /\ OnlyCaller(c) /\ a.at \in Tables
           /\ a.op \in ModifyOps /\ a.keys[1] \in Keys /\ a.rows[1] \in AllRows
           /\ table' \in [Tables -> [Keys -> AllRows]] /\ \A u \in Tables \ {a.at} : table'[u] = table[u]
           /\ \A j \in Keys : \/ a.at \in MayEvict /\ table'[a.at][j] = None
                              \/ table'[a.at][j] = RowAfter(a.at, a.op, a.keys[1], a.rows[1], j)
           /\ IF a.op = "insert" THEN UNCHANGED <<insert_lock, collected>>
              ELSE /\ insert_lock' = [insert_lock EXCEPT ![a.at] = None]
                   /\ collected' = [collected EXCEPT ![a.at] = <<>>]
           /\ \/ /\ a.at < N /\ pc'[c] = IF a.op = "insert" THEN "apply" ELSE "lock"
                 /\ a.table_id = 0 /\ call'[c].table_id = 0
                 /\ call'[c].at = a.at + 1 /\ call'[c].op = a.op /\ call'[c].keys = a.keys /\ call'[c].rows = a.rows
              \/ (a.at = N \/ a.table_id # 0) /\ pc'[c] = "idle"
PROOF
  <1> DEFINE a == call[c]
             loop == IF a.op = "insert" THEN "apply" ELSE "lock"
  <1>1. /\ UNCHANGED <<insert_data, task, copying>> /\ pc[c] = "apply" /\ copying[a.at] = {}
        /\ NextTable(c, loop, Return(c))
        /\ IF a.op = "insert" THEN UNCHANGED <<insert_lock, collected>>
           ELSE /\ insert_lock' = [insert_lock EXCEPT ![a.at] = None]
                /\ collected' = [collected EXCEPT ![a.at] = <<>>]
    BY ZenonT(60) DEF ApplyModify, unlock_modify
  <1>2. PICK f \in Applied(a.at, a.op, a.keys[1], a.rows[1]) : table' = [table EXCEPT ![a.at] = f]
    BY ZenonT(60) DEF ApplyModify
  <1>3. /\ LTypes /\ a \in CallRecords /\ a.at \in Tables /\ a.op \in ModifyOps
        /\ Len(a.keys) = 1 /\ Len(a.rows) = 1
    BY ZenonT(60), <1>1 DEF LInv, LTypes
  <1>4. a.keys[1] \in Keys /\ a.rows[1] \in AllRows
    <2>1. a.keys \in Seq(Keys) /\ a.rows \in Seq(AllRows)
      BY Zenon, <1>3 DEF CallRecords
    <2> QED
      BY <1>3, <2>1
  <1>5. /\ f \in [Keys -> AllRows]
        /\ \A j \in Keys : (a.at \in MayEvict /\ f[j] = None) \/ f[j] = RowAfter(a.at, a.op, a.keys[1], a.rows[1], j)
    <2> DEFINE t == a.at
               op == a.op
               k == a.keys[1]
               row == a.rows[1]
    <2>1. LTypes /\ t \in Tables /\ op \in ModifyOps /\ k \in Keys /\ row \in AllRows /\ f \in Applied(t, op, k, row)
      BY Zenon, <1>2, <1>3, <1>4
    <2> HIDE DEF t, op, k, row
    <2>2. f \in [Keys -> AllRows] /\ \A j \in Keys : (t \in MayEvict /\ f[j] = None) \/ f[j] = RowAfter(t, op, k, row, j)
      BY ONLY <2>1, AppliedFacts, ZenonT(30)
    <2> QED
      BY Zenon, <2>2 DEF t, op, k, row
  <1>6. /\ table'[a.at] = f /\ table' \in [Tables -> [Keys -> AllRows]]
        /\ \A u \in Tables \ {a.at} : table'[u] = table[u]
    BY Zenon, <1>2, <1>3, <1>5 DEF LTypes
  <1>7. /\ pc' \in [Callers -> {"idle", "find", "auto_insert", "lock", "apply"}]
        /\ call' \in [Callers -> CallRecords]
        /\ \A d \in Callers \ {c} : pc'[d] = pc[d] /\ call'[d] = call[d]
        /\ \/ /\ a.at < N /\ pc'[c] = loop
              /\ a.table_id = 0 /\ call'[c].table_id = 0
              /\ call'[c].at = a.at + 1 /\ call'[c].at \in Tables
              /\ call'[c].op = a.op /\ call'[c].keys = a.keys /\ call'[c].rows = a.rows
           \/ (a.at = N \/ a.table_id # 0) /\ pc'[c] = "idle"
    BY ZenonT(60), <1>1, <1>3, NextTableFacts
  <1>8. OnlyCaller(c)
    BY Zenon, <1>3, <1>7 DEF OnlyCaller
  <1> QED
    BY ZenonT(60), <1>1, <1>3, <1>4, <1>5, <1>6, <1>7, <1>8

LEMMA ModifyLInv ==
    ASSUME LInv, NEW c \in Callers, lock_modify(c) \/ ApplyModify(c)
    PROVE  LInv'
PROOF
  <1>1. CASE lock_modify(c)
    <2> DEFINE t == call[c].at
    <2>1. /\ pc[c] = "lock" /\ insert_lock[t] = None /\ insert_lock' = [insert_lock EXCEPT ![t] = c]
          /\ pc' = [pc EXCEPT ![c] = "apply"] /\ UNCHANGED <<table, collected, insert_data, task, copying, call>>
      BY ZenonT(60), <1>1 DEF lock_modify
    <2>2. t \in Tables /\ OnlyCaller(c)
      BY Zenon, <2>1 DEF LInv, LTypes, OnlyCaller
    <2>3. insert_lock' \in [Tables -> Callers \cup {"task", None}]
      BY Zenon, <2>1 DEF LInv, LTypes
    <2>4. LTypes'
      BY Zenon, <2>1, <2>2, <2>3, TypesStep DEF LInv, LTypes
    <2>5. Locks'
      <3>1. \A u \in Tables : task'[u] # "none" => insert_lock'[u] = "task"
        BY ZenonT(60), <2>1, <2>2, NoneAssumption DEF LInv, LTypes, Locks
      <3>2. \A d \in Callers : pc'[d] = "apply" /\ call'[d].op # "insert" => insert_lock'[call'[d].at] = d
        <4> TAKE d \in Callers
        <4>1. CASE d = c
          BY Zenon, <2>1, <2>2, <4>1 DEF LInv, LTypes
        <4>2. CASE d # c
          BY SMTT(60), <2>1, <2>2, <4>2, NoneAssumption DEF LInv, LTypes, Locks
        <4> QED
          BY Zenon, <4>1, <4>2
      <3> QED
        BY Zenon, <3>1, <3>2 DEF Locks
    <2>6. Collecting'
      BY Zenon, <2>1, <2>2, NoneAssumption DEF LInv, LTypes, Collecting
    <2> QED
      BY Zenon, <2>4, <2>5, <2>6 DEF LInv
  <1>2. CASE ApplyModify(c)
    <2> DEFINE t == call[c].at
    <2>1. /\ t \in Tables /\ OnlyCaller(c) /\ table' \in [Tables -> [Keys -> AllRows]] /\ pc[c] = "apply"
          /\ UNCHANGED <<insert_data, task, copying>>
          /\ IF call[c].op = "insert" THEN UNCHANGED <<insert_lock, collected>>
             ELSE /\ insert_lock' = [insert_lock EXCEPT ![t] = None]
                  /\ collected' = [collected EXCEPT ![t] = <<>>]
          /\ pc'[c] = "apply" => call'[c].op = "insert"
      BY Zenon, <1>2, ApplyFacts
    <2>2. insert_lock' \in [Tables -> Callers \cup {"task", None}] /\ collected' \in [Tables -> Seq(Collectable)]
      <3>1. <<>> \in Seq(Collectable)
        OBVIOUS
      <3> QED
        BY ZenonT(60), <2>1, <3>1 DEF LInv, LTypes
    <2>3. LTypes'
      BY ZenonT(60), <2>1, <2>2, TypesStep DEF LInv, LTypes
    <2>4. Locks'
      <3>1. call[c].op # "insert" => insert_lock[t] = c
        BY ZenonT(60), <2>1 DEF LInv, Locks
      <3>2. \A u \in Tables : task'[u] # "none" => insert_lock'[u] = "task"
        BY Zenon, <2>1, <3>1, CallersAssumption DEF LInv, LTypes, Locks
      <3>3. ASSUME NEW d \in Callers, pc'[d] = "apply", call'[d].op # "insert" PROVE insert_lock'[call'[d].at] = d
        <4>1. d # c /\ pc[d] = "apply" /\ call'[d] = call[d]
          BY Zenon, <2>1, <3>3 DEF OnlyCaller
        <4>2. insert_lock[call[d].at] = d /\ call[d].at \in Tables
          BY Zenon, <3>3, <4>1 DEF LInv, LTypes, Locks
        <4> QED
          BY SMTT(60), <2>1, <3>1, <4>1, <4>2 DEF LInv, LTypes
      <3> QED
        BY Zenon, <3>2, <3>3 DEF Locks
    <2>5. Collecting'
      <3>1. \A u \in Tables : \/ insert_lock'[u] = insert_lock[u] /\ collected'[u] = collected[u]
                              \/ collected'[u] = <<>>
        BY ZenonT(60), <2>1 DEF LInv, LTypes
      <3>2. Len(<<>>) = 0 /\ \A u \in Tables : Len(insert_data[u]) \in Nat
        BY DEF LInv, LTypes
      <3> QED
        BY SMTT(60), <2>1, <3>1, <3>2, SizesAssumption DEF LInv, Collecting
    <2> QED
      BY <2>3, <2>4, <2>5 DEF LInv
  <1> QED
    BY Zenon, <1>1, <1>2

LEMMA StepLInv ==
    ASSUME LInv, [Next]_vars
    PROVE  LInv'
PROOF
  <1>1. CASE UNCHANGED vars
    <2>1. UNCHANGED <<table, insert_lock, collected, insert_data, task, copying, pc, call>>
      BY Zenon, <1>1 DEF vars, handlerVars
    <2> QED
      BY Zenon, <2>1 DEF LInv, LTypes, Locks, Collecting
  <1>2. ASSUME NEW c \in Callers, CallerNext(c) PROVE LInv'
    BY Zenon, <1>2, StartLInv, FindLInv, PassLInv, CollectsLInv, ModifyLInv DEF CallerNext
  <1>3. ASSUME NEW c \in Callers, AutoInsertThrows(c) \/ ModifyThrows(c) PROVE LInv'
    BY Zenon, <1>3, PassLInv
  <1>4. ASSUME NEW t \in Tables, TaskInserts(t) \/ TaskEnds(t) \/ TaskThrows(t) \/ CopyRows(t) PROVE LInv'
    BY Zenon, <1>4, TaskLInv
  <1> QED
    BY <1>1, <1>2, <1>3, <1>4, Zenon DEF Next, HostNext

----------------------------------------------------------------------------
(* Rows, and agreement with the backing store: the invariants *)

(* Rows stand beside their keys wherever they are: in a call, in a collection *)
(* and in what a GPU table has yet to copy.                                   *)
Aligned ==
    /\ RowsMatchKeys
    /\ \A c \in Callers : pc[c] # "idle" =>
          \A i \in DOMAIN call[c].keys : call[c].rows[i] # None => call[c].rows[i][1] = call[c].keys[i]
    /\ \A t \in Tables : \A i \in DOMAIN collected[t] :
          collected[t][i] # InvalidKey => insert_data[t][i][1] = collected[t][i]
    /\ \A t \in Tables : \A x \in copying[t] : insert_data[t][x[2]][1] = x[1]

(* For one call at a time, which waits for what the calls before have         *)
(* launched: the tables a lookup has yet to offer its rows to are at rest.    *)
AtRest ==
    /\ \A t \in Tables : t \notin Gpu => copying[t] = {}
    /\ Exclusive => \A c, d \in Callers : c = d \/ pc[c] = "idle" \/ pc[d] = "idle"
    /\ Exclusive /\ WaitsEach => \A c \in Callers, t \in Tables :
          pc[c] = "find" \/ (pc[c] = "auto_insert" /\ call[c].at <= t) => task[t] = "none" /\ copying[t] = {}

\* What is collected has the rows of all tables, and the buffer of a handler is not used again
\* before a GPU table has copied it.
BuffersKept == OutputCombined /\ (Gpu = {} \/ (Exclusive /\ WaitsEach))

RowsInv == LInv /\ Aligned /\ AtRest

\* What the backing store holds of key k once the modify call of c is done.
NewRow(c, k) == RowAfter(N, call[c].op, call[c].keys[1], call[c].rows[1], k)

(* Tables a modify call has passed hold nothing but rows of after it, the     *)
(* others nothing but rows of the backing store, apart from the keys that     *)
(* were modified in one table only.                                           *)
Passed(c, t) == pc[c] \in {"lock", "apply"} /\ call[c].table_id = 0 /\ t < call[c].at
TablesAgree ==
    \A t \in Tables, k \in Keys \ partial : table[t][k] # None =>
        /\ \A c \in Callers : Passed(c, t) => table[t][k] = NewRow(c, k)
        /\ (\A c \in Callers : ~Passed(c, t)) => table[t][k] = table[N][k]

Current(t, i, k) == k \in Keys \ partial => table[N][k] # None /\ insert_data[t][i] = table[N][k]

FoundRows(c) ==
    pc[c] \in {"find", "auto_insert"} =>
        \A i \in DOMAIN call[c].keys :
            call[c].rows[i] # None /\ call[c].keys[i] \in Keys \ partial => call[c].rows[i] = table[N][call[c].keys[i]]
NewKey(c) ==
    pc[c] \in {"lock", "apply"} /\ call[c].op = "insert" /\ call[c].keys[1] \in Keys \ partial =>
        table[N][call[c].keys[1]] = None
OneTable(c) ==
    pc[c] \in {"lock", "apply"} /\ call[c].table_id # 0 => call[c].op # "clear" /\ call[c].keys[1] \in partial
CollectedRows(t) ==
    \A i \in DOMAIN collected[t] : collected[t][i] # InvalidKey => Current(t, i, collected[t][i])
CopiedRows(t) == \A x \in copying[t] : Current(t, x[2], x[1])
DroppedRows(c, t) == Passed(c, t) /\ call[c].op # "insert" => collected[t] = <<>> /\ copying[t] = {}

(* What is on its way into a table is what the backing store holds, and       *)
(* nothing is on its way into a table that a modify call other than insert    *)
(* has passed.                                                                *)
OnTheWay ==
    /\ \A c \in Callers : FoundRows(c) /\ NewKey(c) /\ OneTable(c)
    /\ \A t \in Tables : CollectedRows(t) /\ CopiedRows(t)
    /\ \A c \in Callers, t \in Tables : DroppedRows(c, t)

OneWriter == Exclusive /\ ~MayThrow /\ N \notin MayEvict /\ OutputCombined /\ (Gpu = {} \/ WaitsEach)

CInv == RowsInv /\ TablesAgree /\ OnTheWay

----------------------------------------------------------------------------
(* Locks *)

(***************************************************************************)
(* Whatever is called, and whatever throws: a launched insert and a modify *)
(* operation that runs on a table have insert_lock_ of its handler, insert *)
(* apart, and a collection fits its buffers (layer_utils.cpp).             *)
(***************************************************************************)
THEOREM LayerInvariant == Spec => []LInv
PROOF
  <1>1. Init => LInv
    BY Zenon, InitLInv
  <1>2. LInv /\ [Next]_vars => LInv'
    BY Zenon, StepLInv
  <1> QED
    BY <1>1, <1>2, PTL DEF Spec

(***************************************************************************)
(* lock_modify: no update, accumulate, erase or clear runs on a table      *)
(* while a task inserts into it, also after exceptions, and with GPU       *)
(* tables.  insert takes no lock and is left out.                          *)
(***************************************************************************)
THEOREM LayerNoModifyDuringAutoInsert ==
    ASSUME "insert" \notin ModifyOps
    PROVE  Spec => []NoModifyDuringAutoInsert
PROOF
  <1>1. LInv => NoModifyDuringAutoInsert
    <2> SUFFICES ASSUME LInv, NEW c \in Callers, NEW t \in Tables, pc[c] = "apply", call[c].at = t, task[t] # "none"
                 PROVE  FALSE
      BY Zenon DEF NoModifyDuringAutoInsert
    <2>1. call[c].op # "insert"
      BY Zenon DEF LInv, LTypes
    <2>2. insert_lock[t] = c /\ insert_lock[t] = "task"
      BY Zenon, <2>1 DEF LInv, Locks
    <2> QED
      BY Zenon, <2>2, CallersAssumption
  <1> QED
    BY <1>1, LayerInvariant, PTL

(* Without exceptions and GPU tables, as the run of the layers has it.        *)
COROLLARY FairLayerNoModifyDuringAutoInsert ==
    ASSUME "insert" \notin ModifyOps
    PROVE  FairSpec => []NoModifyDuringAutoInsert
PROOF
  <1>1. HostNext => Next
    BY Zenon DEF Next
  <1>2. FairSpec => Init /\ [][HostNext]_vars
    BY PTL DEF FairSpec
  <1>3. Init /\ [][HostNext]_vars => Spec
    BY <1>1, PTL DEF Spec
  <1> QED
    BY <1>2, <1>3, LayerNoModifyDuringAutoInsert, PTL

----------------------------------------------------------------------------
(* Rows and keys *)

LEMMA InitRows ==
    ASSUME Init
    PROVE  Aligned /\ AtRest
PROOF
  <1>1. ASSUME NEW t \in Tables, NEW k \in Keys, table[t][k] # None PROVE table[t][k][1] = k
    BY Zenon, <1>1 DEF Init
  <1>2. \A t \in Tables : collected[t] = <<>> /\ copying[t] = {}
    BY Zenon DEF Init
  <1>3. \A c \in Callers : pc[c] = "idle"
    BY Zenon DEF Init
  <1> QED
    BY <1>1, <1>2, <1>3 DEF Aligned, RowsMatchKeys, AtRest

LEMMA StartRows ==
    ASSUME RowsInv, NEW c \in Callers,
           \/ \E ks \in Batches, s \in Strides : lookup(c, ks, s)
           \/ \E op \in ModifyOps, k \in Keys, v \in 0 .. MaxVersion, id \in TableIds : modify(c, op, k, v, id)
    PROVE  Aligned' /\ AtRest'
PROOF
  <1>0. LInv /\ LTypes /\ Aligned /\ AtRest
    BY Zenon DEF RowsInv, LInv
  <1>1. UNCHANGED <<table, insert_lock, collected, insert_data, task, copying>> /\ MayStart(c)
    BY Zenon, <1>0, StartFacts
  <1>2. PICK p \in {"find", "lock", "apply"}, r \in CallRecords :
          /\ pc' = [pc EXCEPT ![c] = p] /\ call' = [call EXCEPT ![c] = r]
          /\ \A i \in DOMAIN r.keys : r.rows[i] # None => r.rows[i][1] = r.keys[i]
    BY ZenonT(60), <1>0, StartFacts
  <1>3. pc'[c] = p /\ call'[c] = r /\ \A d \in Callers \ {c} : pc'[d] = pc[d] /\ call'[d] = call[d]
    BY Zenon, <1>0, <1>2 DEF LTypes
  <1>4. Aligned'
    <2>1. ASSUME NEW d \in Callers, pc'[d] # "idle", NEW i \in DOMAIN call'[d].keys, call'[d].rows[i] # None
          PROVE  call'[d].rows[i][1] = call'[d].keys[i]
      <3>1. CASE d = c
        BY <1>2, <1>3, <2>1, <3>1
      <3>2. CASE d # c
        BY <1>0, <1>3, <2>1, <3>2 DEF Aligned
      <3> QED
        BY Zenon, <3>1, <3>2
    <2> QED
      <3>1. table' = table /\ collected' = collected /\ insert_data' = insert_data /\ copying' = copying
        BY Zenon, <1>1
      <3>2. RowsMatchKeys'
        BY Zenon, <1>0, <3>1 DEF Aligned, RowsMatchKeys
      <3>3. \A t \in Tables : \A i \in DOMAIN collected'[t] :
              collected'[t][i] # InvalidKey => insert_data'[t][i][1] = collected'[t][i]
        BY Zenon, <1>0, <3>1 DEF Aligned
      <3>4. \A t \in Tables : \A x \in copying'[t] : insert_data'[t][x[2]][1] = x[1]
        BY Zenon, <1>0, <3>1 DEF Aligned
      <3> QED
        BY Zenon, <2>1, <3>2, <3>3, <3>4 DEF Aligned
  <1>5. AtRest'
    <2>1. Exclusive => \A d \in Callers : pc[d] = "idle"
      BY Zenon, <1>1 DEF MayStart
    <2>2. WaitsEach => \A t \in Tables : task[t] = "none" /\ copying[t] = {}
      BY Zenon, <1>1 DEF MayStart, Waited
    <2> QED
      BY ZenonT(60), <1>0, <1>1, <1>3, <2>1, <2>2 DEF AtRest
  <1> QED
    BY Zenon, <1>4, <1>5

LEMMA FindRows ==
    ASSUME RowsInv, NEW c \in Callers, find(c)
    PROVE  Aligned' /\ AtRest'
PROOF
  <1>0. LTypes /\ Aligned /\ AtRest
    BY Zenon DEF RowsInv, LInv
  <1>1. /\ UNCHANGED <<table, collected, insert_data, task, copying>> /\ pc[c] = "find"
        /\ \A d \in Callers \ {c} : pc'[d] = pc[d] /\ call'[d] = call[d]
        /\ pc'[c] \in {"find", "auto_insert"} /\ call'[c].keys = call[c].keys
    BY Zenon, <1>0, FindFacts
  <1>2. ASSUME NEW i \in DOMAIN call[c].keys, call'[c].rows[i] # None
        PROVE  call'[c].rows[i][1] = call[c].keys[i]
    <2>1. CASE call[c].rows[i] # None /\ call'[c].rows[i] = call[c].rows[i]
      BY Zenon, <1>0, <1>1, <2>1 DEF Aligned
    <2>2. CASE \E t \in Tables : call'[c].rows[i] = table[t][call[c].keys[i]]
      <3>1. call[c].keys[i] \in Keys
        <4>1. call[c].keys \in Seq(Keys)
          BY Zenon, <1>0 DEF LTypes, CallRecords
        <4> QED
          BY <4>1
      <3> QED
        BY <1>0, <1>2, <2>2, <3>1 DEF Aligned, RowsMatchKeys
    <2> QED
      BY Zenon, <1>0, <2>1, <2>2, FindFacts
  <1>3. Aligned'
    <2>1. ASSUME NEW d \in Callers, pc'[d] # "idle", NEW i \in DOMAIN call'[d].keys, call'[d].rows[i] # None
          PROVE  call'[d].rows[i][1] = call'[d].keys[i]
      <3>1. CASE d = c
        BY Zenon, <1>1, <1>2, <2>1, <3>1
      <3>2. CASE d # c
        BY <1>0, <1>1, <2>1, <3>2 DEF Aligned
      <3> QED
        BY Zenon, <3>1, <3>2
    <2> QED
      BY Zenon, <1>0, <1>1, <2>1 DEF Aligned, RowsMatchKeys
  <1>4. AtRest'
    BY <1>0, <1>1 DEF AtRest
  <1> QED
    BY Zenon, <1>3, <1>4

(* Steps of a caller that leave tables, collections and copies as they are,   *)
(* and its rows and keys too.                                                 *)
LEMMA PassRows ==
    ASSUME RowsInv, NEW c \in Callers,
           \/ AutoInsertBusy(c) \/ AutoInsertNotNeeded(c) \/ AutoInsertThrows(c) \/ ModifyThrows(c) \/ lock_modify(c)
    PROVE  Aligned' /\ AtRest'
PROOF
  <1>0. LTypes /\ Aligned /\ AtRest
    BY Zenon DEF RowsInv, LInv
  <1>1. UNCHANGED <<table, collected, insert_data, task, copying>> /\ pc[c] # "idle"
    BY Zenon DEF AutoInsertBusy, AutoInsertNotNeeded, AutoInsertThrows, ModifyThrows, lock_modify, handlerVars
  <1>2. /\ \A d \in Callers \ {c} : pc'[d] = pc[d] /\ call'[d] = call[d]
        /\ \/ pc'[c] = "idle"
           \/ /\ pc[c] = "auto_insert" /\ pc'[c] = "auto_insert" /\ call'[c].at = call[c].at + 1 /\ call[c].at \in Tables
              /\ call'[c].keys = call[c].keys /\ call'[c].rows = call[c].rows
           \/ pc'[c] = "apply" /\ call'[c] = call[c]
    <2>1. CASE AutoInsertBusy(c) \/ AutoInsertNotNeeded(c)
      <3>1. pc[c] = "auto_insert" /\ NextTable(c, "auto_insert", Return(c))
        BY Zenon, <2>1 DEF AutoInsertBusy, AutoInsertNotNeeded
      <3> QED
        BY Zenon, <1>0, <3>1, NextTableFacts
    <2>2. CASE AutoInsertThrows(c) \/ ModifyThrows(c)
      BY Zenon, <1>0, <2>2, ReturnFacts DEF AutoInsertThrows, ModifyThrows
    <2>3. CASE lock_modify(c)
      BY Zenon, <1>0, <2>3 DEF lock_modify, LTypes
    <2> QED
      BY Zenon, <2>1, <2>2, <2>3
  <1>3. Aligned'
    <2>1. ASSUME NEW d \in Callers, pc'[d] # "idle"
          PROVE  pc[d] # "idle" /\ call'[d].keys = call[d].keys /\ call'[d].rows = call[d].rows
      BY Zenon, <1>1, <1>2, <2>1
    <2> QED
      BY SMTT(60), <1>0, <1>1, <2>1 DEF Aligned, RowsMatchKeys
  <1>4. AtRest'
    <2>1. \A d \in Callers : pc'[d] = "idle" \/ pc[d] # "idle"
      BY Zenon, <1>1, <1>2
    <2>2. ASSUME NEW d \in Callers, NEW t \in Tables,
                 pc'[d] = "find" \/ (pc'[d] = "auto_insert" /\ call'[d].at <= t)
          PROVE  pc[d] = "find" \/ (pc[d] = "auto_insert" /\ call[d].at <= t)
      BY <1>2, <2>2, TablesAssumption DEF Tables
    <2> QED
      BY Zenon, <1>0, <1>1, <2>1, <2>2 DEF AtRest
  <1> QED
    BY Zenon, <1>3, <1>4

(* A collection grows in a buffer that no table copies from any more. *)
LEMMA CollectsRows ==
    ASSUME RowsInv, BuffersKept, NEW c \in Callers, AutoInsertCollects(c)
    PROVE  Aligned' /\ AtRest'
PROOF
  <1> DEFINE t == call[c].at
  <1>0. LInv /\ LTypes /\ Aligned /\ AtRest
    BY Zenon DEF RowsInv, LInv
  <1>1. /\ pc[c] = "auto_insert" /\ insert_lock[t] = None /\ Collect(c, t) /\ UNCHANGED <<table, copying>>
        /\ NextTable(c, "auto_insert", Return(c))
    BY Zenon DEF AutoInsertCollects
  <1>2. t \in Tables /\ \A u \in Tables \ {t} : task'[u] = task[u]
    BY Zenon, <1>0, <1>1 DEF AutoInsertCollects, LTypes
  <1>3. copying[t] = {}
    BY SMTT(60), <1>0, <1>1, <1>2, TablesAssumption DEF BuffersKept, AtRest, Tables
  <1>4. /\ \A d \in Callers \ {c} : pc'[d] = pc[d] /\ call'[d] = call[d]
        /\ \/ pc'[c] = "idle"
           \/ /\ pc'[c] = "auto_insert" /\ call'[c].at = t + 1
              /\ call'[c].keys = call[c].keys /\ call'[c].rows = call[c].rows
    BY Zenon, <1>0, <1>1, NextTableFacts
  <1>5. /\ \A u \in Tables \ {t} : collected'[u] = collected[u] /\ insert_data'[u] = insert_data[u]
        /\ \A i \in DOMAIN collected'[t] :
              \/ /\ i \in DOMAIN collected[t]
                 /\ collected'[t][i] = collected[t][i] /\ insert_data'[t][i] = insert_data[t][i]
              \/ \E j \in DOMAIN call[c].keys :
                    collected'[t][i] = CollectedKey(c, j) /\ insert_data'[t][i] = OutputRow(c, j)
    BY Zenon, <1>0, <1>1, <1>2, CollectFacts
  <1> HIDE DEF t
  <1>6. Aligned'
    <2>1. ASSUME NEW d \in Callers, pc'[d] # "idle"
          PROVE  pc[d] # "idle" /\ call'[d].keys = call[d].keys /\ call'[d].rows = call[d].rows
      BY Zenon, <1>1, <1>4, <2>1
    <2>2. ASSUME NEW i \in DOMAIN collected'[t], collected'[t][i] # InvalidKey
          PROVE  insert_data'[t][i][1] = collected'[t][i]
      <3>1. CASE i \in DOMAIN collected[t] /\ collected'[t][i] = collected[t][i] /\ insert_data'[t][i] = insert_data[t][i]
        BY SMTT(60), <1>0, <1>2, <2>2, <3>1 DEF Aligned
      <3>2. ASSUME NEW j \in DOMAIN call[c].keys,
                   collected'[t][i] = CollectedKey(c, j), insert_data'[t][i] = OutputRow(c, j)
            PROVE  insert_data'[t][i][1] = collected'[t][i]
        <4>1. call[c].rows[j] # None
          BY Zenon, <2>2, <3>2 DEF CollectedKey
        <4>2. CollectedKey(c, j) = call[c].keys[j] /\ OutputRow(c, j) = call[c].rows[j]
          BY Zenon, <4>1 DEF CollectedKey, OutputRow, BuffersKept
        <4> QED
          BY <1>0, <1>1, <3>2, <4>1, <4>2 DEF Aligned
      <3> QED
        BY Zenon, <1>5, <3>1, <3>2
    <2>3. \A u \in Tables : \A i \in DOMAIN collected'[u] :
            collected'[u][i] # InvalidKey => insert_data'[u][i][1] = collected'[u][i]
      <3>1. \A u \in Tables \ {t} : \A i \in DOMAIN collected[u] :
              collected[u][i] # InvalidKey => insert_data[u][i][1] = collected[u][i]
        BY Zenon, <1>0 DEF Aligned
      <3>2. ASSUME NEW u \in Tables, u # t, NEW i \in DOMAIN collected'[u], collected'[u][i] # InvalidKey
            PROVE  insert_data'[u][i][1] = collected'[u][i]
        <4>1. collected'[u] = collected[u] /\ insert_data'[u] = insert_data[u]
          BY Zenon, <1>5, <3>2
        <4>2. \A j \in DOMAIN collected[u] : collected[u][j] # InvalidKey => insert_data[u][j][1] = collected[u][j]
          BY Zenon, <3>1, <3>2
        <4> QED
          BY <3>2, <4>1, <4>2
      <3> QED
        BY Zenon, <2>2, <3>2
    <2>4. \A u \in Tables : \A x \in copying[u] : insert_data'[u][x[2]][1] = x[1]
      BY SMTT(60), <1>0, <1>3, <1>5 DEF Aligned
    <2>5. RowsMatchKeys'
      BY Zenon, <1>0, <1>1 DEF Aligned, RowsMatchKeys
    <2>6. \A d \in Callers : pc'[d] # "idle" =>
             \A i \in DOMAIN call'[d].keys : call'[d].rows[i] # None => call'[d].rows[i][1] = call'[d].keys[i]
      <3> SUFFICES ASSUME NEW d \in Callers, pc'[d] # "idle"
                   PROVE  \A i \in DOMAIN call'[d].keys :
                             call'[d].rows[i] # None => call'[d].rows[i][1] = call'[d].keys[i]
        BY Zenon
      <3>1. pc[d] # "idle" /\ call'[d].keys = call[d].keys /\ call'[d].rows = call[d].rows
        BY Zenon, <2>1
      <3>2. \A i \in DOMAIN call[d].keys : call[d].rows[i] # None => call[d].rows[i][1] = call[d].keys[i]
        BY Zenon, <1>0, <3>1 DEF Aligned
      <3> QED
        BY <3>1, <3>2
    <2>7. \A u \in Tables : \A x \in copying'[u] : insert_data'[u][x[2]][1] = x[1]
      BY Zenon, <1>1, <2>4
    <2> QED
      BY Zenon, <2>3, <2>5, <2>6, <2>7 DEF Aligned
  <1>7. AtRest'
    <2>1. \A d \in Callers : pc'[d] = "idle" \/ pc[d] # "idle"
      BY Zenon, <1>1, <1>4
    <2>2. ASSUME Exclusive, WaitsEach, NEW d \in Callers, NEW u \in Tables,
                 pc'[d] = "find" \/ (pc'[d] = "auto_insert" /\ call'[d].at <= u)
          PROVE  task'[u] = "none" /\ copying[u] = {}
      <3>1. d = c /\ pc'[d] = "auto_insert" /\ t + 1 <= u
        BY <1>0, <1>1, <1>4, <2>2 DEF AtRest
      <3>2. u # t /\ t <= u
        BY <1>2, <3>1, TablesAssumption DEF Tables
      <3> QED
        BY Zenon, <1>0, <1>1, <1>2, <2>2, <3>2 DEF AtRest, t
    <2> QED
      BY Zenon, <1>0, <1>1, <2>1, <2>2 DEF AtRest
  <1> QED
    BY Zenon, <1>6, <1>7

(* Rows stay with their keys where nothing is added to what is on the way. *)
LEMMA AlignedKept ==
    ASSUME Aligned, RowsMatchKeys', insert_data' = insert_data,
           \A u \in Tables : collected'[u] = collected[u] \/ collected'[u] = <<>>,
           \A u \in Tables : \A x \in copying'[u] : insert_data[u][x[2]][1] = x[1],
           \A d \in Callers : pc'[d] # "idle" =>
              pc[d] # "idle" /\ call'[d].keys = call[d].keys /\ call'[d].rows = call[d].rows
    PROVE  Aligned'
PROOF
  <1>1. \A d \in Callers : pc'[d] # "idle" =>
           \A i \in DOMAIN call'[d].keys : call'[d].rows[i] # None => call'[d].rows[i][1] = call'[d].keys[i]
    <2> SUFFICES ASSUME NEW d \in Callers, pc'[d] # "idle", NEW i \in DOMAIN call'[d].keys, call'[d].rows[i] # None
                 PROVE  call'[d].rows[i][1] = call'[d].keys[i]
      BY Zenon
    <2>1. pc[d] # "idle" /\ call'[d].keys = call[d].keys /\ call'[d].rows = call[d].rows
      BY Zenon
    <2>2. \A j \in DOMAIN call[d].keys : call[d].rows[j] # None => call[d].rows[j][1] = call[d].keys[j]
      BY Zenon, <2>1 DEF Aligned
    <2> QED
      BY Zenon, <2>1, <2>2
  <1>2. DOMAIN <<>> = {}
    OBVIOUS
  <1>3. \A u \in Tables : \A i \in DOMAIN collected'[u] :
           collected'[u][i] # InvalidKey => insert_data'[u][i][1] = collected'[u][i]
    <2> SUFFICES ASSUME NEW u \in Tables, NEW i \in DOMAIN collected'[u], collected'[u][i] # InvalidKey
                 PROVE  insert_data[u][i][1] = collected'[u][i]
      BY Zenon
    <2>1. collected'[u] = collected[u]
      BY Zenon, <1>2
    <2>2. \A j \in DOMAIN collected[u] : collected[u][j] # InvalidKey => insert_data[u][j][1] = collected[u][j]
      BY Zenon DEF Aligned
    <2> QED
      BY Zenon, <2>1, <2>2
  <1> QED
    BY Zenon, <1>1, <1>3 DEF Aligned, InvalidKey

LEMMA TaskRows ==
    ASSUME RowsInv, NEW t \in Tables, TaskInserts(t) \/ TaskEnds(t) \/ TaskThrows(t) \/ CopyRows(t)
    PROVE  Aligned' /\ AtRest'
PROOF
  <1>0. LInv /\ LTypes /\ Aligned /\ AtRest
    BY Zenon DEF RowsInv, LInv
  <1>1. CASE TaskInserts(t)
    <2>1. /\ UNCHANGED <<insert_lock, collected, insert_data, pc, call>> /\ task[t] = "queued"
          /\ \A u \in Tables \ {t} : task'[u] = task[u] /\ table'[u] = table[u] /\ copying'[u] = copying[u]
          /\ \A k \in Keys : \/ table'[t][k] = None
                             \/ table'[t][k] = table[t][k]
                             \/ \E i \in DOMAIN collected[t] : collected[t][i] = k /\ table'[t][k] = insert_data[t][i]
          /\ t \notin Gpu => copying' = copying
          /\ \A x \in copying'[t] : x \in copying[t] \/ (x[2] \in DOMAIN collected[t] /\ collected[t][x[2]] = x[1])
          /\ copying' \in [Tables -> SUBSET (Keys \X Nat)]
      BY ZenonT(60), <1>0, <1>1, TaskInsertsFacts
    <2>2. \A i \in DOMAIN collected[t] : collected[t][i] \in Keys => insert_data[t][i][1] = collected[t][i]
      BY Zenon, <1>0, NoneAssumption DEF Aligned, InvalidKey
    <2>3. \A x \in copying'[t] : insert_data[t][x[2]][1] = x[1]
      <3>1. \A x \in copying'[t] : x[1] \in Keys
        BY SMTT(60), <2>1
      <3> QED
        <4> SUFFICES ASSUME NEW x \in copying'[t] PROVE insert_data[t][x[2]][1] = x[1]
          BY Zenon
        <4>1. CASE x \in copying[t]
          BY Zenon, <1>0, <4>1 DEF Aligned
        <4>2. CASE x[2] \in DOMAIN collected[t] /\ collected[t][x[2]] = x[1]
          BY Zenon, <2>2, <3>1, <4>2
        <4> QED
          BY Zenon, <2>1, <4>1, <4>2
    <2>4. Aligned'
      <3>1. RowsMatchKeys'
        <4> SUFFICES ASSUME NEW u \in Tables, NEW k \in Keys, table'[u][k] # None PROVE table'[u][k][1] = k
          BY Zenon DEF RowsMatchKeys
        <4>1. table[u][k] # None => table[u][k][1] = k
          BY Zenon, <1>0 DEF Aligned, RowsMatchKeys
        <4>2. CASE u # t
          BY Zenon, <2>1, <4>1, <4>2
        <4>3. CASE u = t
          <5>1. CASE table'[t][k] = table[t][k]
            BY Zenon, <4>1, <4>3, <5>1
          <5>2. CASE \E i \in DOMAIN collected[t] : collected[t][i] = k /\ table'[t][k] = insert_data[t][i]
            BY Zenon, <2>2, <4>3, <5>2
          <5> QED
            BY Zenon, <2>1, <4>3, <5>1, <5>2
        <4> QED
          BY Zenon, <4>2, <4>3
      <3> QED
        <4>1. /\ insert_data' = insert_data /\ \A u \in Tables : collected'[u] = collected[u]
              /\ \A d \in Callers : pc'[d] = pc[d] /\ call'[d] = call[d]
          BY Zenon, <2>1
        <4>2. \A u \in Tables : \A x \in copying'[u] : insert_data[u][x[2]][1] = x[1]
          <5>1. ASSUME NEW u \in Tables, u # t PROVE \A x \in copying'[u] : insert_data[u][x[2]][1] = x[1]
            <6>1. copying'[u] = copying[u]
              BY Zenon, <2>1, <5>1
            <6>2. \A x \in copying[u] : insert_data[u][x[2]][1] = x[1]
              BY Zenon, <1>0 DEF Aligned
            <6> QED
              BY Zenon, <6>1, <6>2
          <5>2. ASSUME NEW u \in Tables, u = t PROVE \A x \in copying'[u] : insert_data[u][x[2]][1] = x[1]
            BY Zenon, <2>3, <5>2
          <5> QED
            BY Zenon, <5>1, <5>2
        <4> QED
          BY Zenon, <1>0, <3>1, <4>1, <4>2, AlignedKept
    <2>5. AtRest'
      <3>1. pc' = pc /\ call' = call /\ \A u \in Tables \ {t} : task'[u] = task[u] /\ copying'[u] = copying[u]
        BY Zenon, <2>1
      <3>2. \A u \in Tables : u \notin Gpu => copying'[u] = {}
        BY Zenon, <1>0, <2>1, <3>1 DEF AtRest
      <3>3. Exclusive /\ WaitsEach => \A c \in Callers :
              ~(pc[c] = "find" \/ (pc[c] = "auto_insert" /\ call[c].at <= t))
        <4>1. task[t] # "none"
          BY Zenon, <2>1
        <4> QED
          BY Zenon, <1>0, <4>1 DEF AtRest
      <3>4. ASSUME Exclusive /\ WaitsEach, NEW c \in Callers, NEW u \in Tables,
                   pc[c] = "find" \/ (pc[c] = "auto_insert" /\ call[c].at <= u)
            PROVE  task'[u] = "none" /\ copying'[u] = {}
        <4>1. u # t
          BY Zenon, <3>3, <3>4
        <4>2. task[u] = "none" /\ copying[u] = {}
          BY Zenon, <1>0, <3>4 DEF AtRest
        <4> QED
          BY Zenon, <3>1, <4>1, <4>2
      <3>5. Exclusive => \A c, d \in Callers : c = d \/ pc[c] = "idle" \/ pc[d] = "idle"
        BY Zenon, <1>0 DEF AtRest
      <3> QED
        BY Zenon, <3>1, <3>2, <3>4, <3>5 DEF AtRest
    <2> QED
      BY Zenon, <2>4, <2>5
  <1>2. CASE TaskEnds(t) \/ TaskThrows(t)
    <2>1. /\ UNCHANGED <<table, insert_data, copying, pc, call>> /\ task' = [task EXCEPT ![t] = "none"]
          /\ collected' = collected \/ collected' = [collected EXCEPT ![t] = <<>>]
      BY Zenon, <1>2 DEF TaskEnds, TaskThrows, handlerVars
    <2>2. \A u \in Tables : (collected'[u] = collected[u] \/ collected'[u] = <<>>) /\ task'[u] \in {"none", task[u]}
      BY Zenon, <1>0, <2>1 DEF LTypes
    <2>3. Aligned'
      <3>1. /\ table' = table /\ insert_data' = insert_data /\ copying' = copying
            /\ \A d \in Callers : pc'[d] = pc[d] /\ call'[d] = call[d]
        BY Zenon, <2>1
      <3>2. RowsMatchKeys' /\ \A u \in Tables : \A x \in copying'[u] : insert_data[u][x[2]][1] = x[1]
        BY Zenon, <1>0, <3>1 DEF Aligned, RowsMatchKeys
      <3> QED
        BY Zenon, <1>0, <2>2, <3>1, <3>2, AlignedKept
    <2>4. AtRest'
      BY ZenonT(60), <1>0, <2>1, <2>2 DEF AtRest
    <2> QED
      BY <2>3, <2>4
  <1>3. CASE CopyRows(t)
    <2>1. /\ UNCHANGED <<insert_lock, collected, insert_data, task, pc, call>>
          /\ \A u \in Tables \ {t} : table'[u] = table[u] /\ copying'[u] = copying[u]
          /\ copying'[t] = {}
          /\ \A k \in Keys : \/ table'[t][k] = table[t][k]
                             \/ \E x \in copying[t] : x[1] = k /\ table'[t][k] = insert_data[t][x[2]]
      BY Zenon, <1>0, <1>3, CopyRowsFacts
    <2>2. RowsMatchKeys'
      <3> SUFFICES ASSUME NEW u \in Tables, NEW k \in Keys, table'[u][k] # None PROVE table'[u][k][1] = k
        BY Zenon DEF RowsMatchKeys
      <3>1. table[u][k] # None => table[u][k][1] = k
        BY Zenon, <1>0 DEF Aligned, RowsMatchKeys
      <3>2. CASE u # t
        BY Zenon, <2>1, <3>1, <3>2
      <3>3. CASE u = t
        <4>1. CASE table'[t][k] = table[t][k]
          BY Zenon, <3>1, <3>3, <4>1
        <4>2. CASE \E x \in copying[t] : x[1] = k /\ table'[t][k] = insert_data[t][x[2]]
          <5>1. PICK x \in copying[t] : x[1] = k /\ table'[t][k] = insert_data[t][x[2]]
            BY Zenon, <4>2
          <5>2. insert_data[t][x[2]][1] = x[1]
            BY Zenon, <1>0, <5>1 DEF Aligned
          <5> QED
            BY Zenon, <3>3, <5>1, <5>2
        <4> QED
          BY Zenon, <2>1, <3>3, <4>1, <4>2
      <3> QED
        BY Zenon, <3>2, <3>3
    <2>3. \A u \in Tables : copying'[u] \subseteq copying[u]
      BY Zenon, <2>1
    <2>4. Aligned'
      <3>1. /\ insert_data' = insert_data /\ \A u \in Tables : collected'[u] = collected[u]
            /\ \A d \in Callers : pc'[d] = pc[d] /\ call'[d] = call[d]
        BY Zenon, <2>1
      <3>2. \A u \in Tables : \A x \in copying'[u] : insert_data[u][x[2]][1] = x[1]
        BY Zenon, <1>0, <2>3 DEF Aligned
      <3> QED
        BY Zenon, <1>0, <2>2, <3>1, <3>2, AlignedKept
    <2>5. AtRest'
      <3>1. pc' = pc /\ call' = call /\ task' = task
        BY Zenon, <2>1
      <3>2. \A u \in Tables : copying[u] = {} => copying'[u] = {}
        BY Zenon, <2>3
      <3> QED
        BY Zenon, <1>0, <3>1, <3>2 DEF AtRest
    <2> QED
      BY <2>4, <2>5
  <1> QED
    BY Zenon, <1>1, <1>2, <1>3

LEMMA ApplyRows ==
    ASSUME RowsInv, NEW c \in Callers, ApplyModify(c)
    PROVE  Aligned' /\ AtRest'
PROOF
  <1> DEFINE a == call[c]
             t == a.at
             k == a.keys[1]
             row == a.rows[1]
  <1>0. LInv /\ LTypes /\ Aligned /\ AtRest
    BY Zenon DEF RowsInv, LInv
  <1>1. /\ UNCHANGED <<insert_data, task, copying>> /\ pc[c] = "apply" /\ t \in Tables /\ k \in Keys
        /\ \A d \in Callers \ {c} : pc'[d] = pc[d] /\ call'[d] = call[d]
        /\ \A u \in Tables \ {t} : table'[u] = table[u]
        /\ \A j \in Keys : table'[t][j] = None \/ table'[t][j] = RowAfter(t, a.op, k, row, j)
        /\ collected' = collected \/ collected' = [collected EXCEPT ![t] = <<>>]
        /\ \/ pc'[c] \in {"lock", "apply"} /\ call'[c].keys = a.keys /\ call'[c].rows = a.rows
           \/ pc'[c] = "idle"
    BY Zenon, <1>0, ApplyFacts DEF OnlyCaller
  <1>2. row # None => row[1] = k
    <2>1. Len(a.keys) = 1 /\ a.keys \in Seq(Keys)
      BY Zenon, <1>0, <1>1 DEF LTypes, CallRecords
    <2>2. 1 \in DOMAIN a.keys
      BY SMTT(60), <2>1
    <2> QED
      BY Zenon, <1>0, <1>1, <2>2 DEF Aligned
  <1>3. ASSUME NEW j \in Keys, table'[t][j] # None PROVE table'[t][j][1] = j
    <2>1. table[t][j] # None => table[t][j][1] = j
      BY Zenon, <1>0, <1>1 DEF Aligned, RowsMatchKeys
    <2>2. table'[t][j] = RowAfter(t, a.op, k, row, j)
      BY Zenon, <1>1, <1>3
    <2> HIDE DEF t, k, row, a
    <2>3. RowAfter(t, a.op, k, row, j) \in {None, table[t][j]} \/ (j = k /\ RowAfter(t, a.op, k, row, j) \in {row, <<k, table[t][j][2] + 1>>})
      BY ZenonT(30) DEF RowAfter
    <2> QED
      BY SMTT(60), <1>2, <1>3, <2>1, <2>2, <2>3
  <1> HIDE DEF t, k, row
  <1>4. Aligned'
    <2>1. RowsMatchKeys'
      <3> SUFFICES ASSUME NEW u \in Tables, NEW j \in Keys, table'[u][j] # None PROVE table'[u][j][1] = j
        BY Zenon DEF RowsMatchKeys
      <3>1. CASE u = t
        BY Zenon, <1>3, <3>1
      <3>2. CASE u # t
        <4>1. table'[u] = table[u]
          BY Zenon, <1>1, <3>2
        <4>2. table[u][j] # None => table[u][j][1] = j
          BY Zenon, <1>0 DEF Aligned, RowsMatchKeys
        <4> QED
          BY Zenon, <4>1, <4>2
      <3> QED
        BY Zenon, <3>1, <3>2
    <2>2. \A u \in Tables : collected'[u] = collected[u] \/ collected'[u] = <<>>
      BY Zenon, <1>0, <1>1 DEF LTypes
    <2>3. ASSUME NEW d \in Callers, pc'[d] # "idle"
          PROVE  pc[d] # "idle" /\ call'[d].keys = call[d].keys /\ call'[d].rows = call[d].rows
      BY Zenon, <1>1, <2>3
    <2> QED
      <3>1. insert_data' = insert_data /\ \A u \in Tables : \A x \in copying'[u] : insert_data[u][x[2]][1] = x[1]
        BY Zenon, <1>0, <1>1 DEF Aligned
      <3> QED
        BY Zenon, <1>0, <2>1, <2>2, <2>3, <3>1, AlignedKept
  <1>5. AtRest'
    <2>1. \A d \in Callers : pc'[d] = "idle" \/ pc[d] # "idle"
      BY Zenon, <1>1
    <2>2. \A d \in Callers : pc'[d] \in {"find", "auto_insert"} => pc'[d] = pc[d] /\ call'[d] = call[d]
      BY Zenon, <1>1
    <2> QED
      BY ZenonT(60), <1>0, <1>1, <2>1, <2>2 DEF AtRest
  <1> QED
    BY <1>4, <1>5

LEMMA StepRows ==
    ASSUME RowsInv, BuffersKept, [Next]_vars
    PROVE  RowsInv'
PROOF
  <1>1. LInv'
    BY Zenon, StepLInv DEF RowsInv
  <1>2. CASE UNCHANGED vars
    <2>1. UNCHANGED <<table, collected, insert_data, task, copying, pc, call>>
      BY Zenon, <1>2 DEF vars, handlerVars
    <2> QED
      <3>1. /\ table' = table /\ collected' = collected /\ insert_data' = insert_data /\ task' = task
            /\ copying' = copying /\ pc' = pc /\ call' = call
        BY Zenon, <2>1
      <3>2. Aligned'
        BY Zenon, <3>1 DEF RowsInv, Aligned, RowsMatchKeys
      <3>3. AtRest'
        BY Zenon, <3>1 DEF RowsInv, AtRest
      <3> QED
        BY Zenon, <1>1, <3>2, <3>3 DEF RowsInv
  <1>3. ASSUME NEW c \in Callers, CallerNext(c) PROVE Aligned' /\ AtRest'
    BY Zenon, <1>3, StartRows, FindRows, PassRows, CollectsRows, ApplyRows DEF CallerNext
  <1>4. ASSUME NEW c \in Callers, AutoInsertThrows(c) \/ ModifyThrows(c) PROVE Aligned' /\ AtRest'
    BY Zenon, <1>4, PassRows
  <1>5. ASSUME NEW t \in Tables, TaskInserts(t) \/ TaskEnds(t) \/ TaskThrows(t) \/ CopyRows(t) PROVE Aligned' /\ AtRest'
    BY Zenon, <1>5, TaskRows
  <1>6. ASSUME Next PROVE Aligned' /\ AtRest'
    BY <1>3, <1>4, <1>5, <1>6, Zenon DEF Next, HostNext
  <1> QED
    BY Zenon, <1>1, <1>2, <1>6 DEF RowsInv

(***************************************************************************)
(* No table ever holds the row of another key, whatever is looked up,      *)
(* collected, modified and thrown: collect_keys_and_data keeps the keys    *)
(* and the rows of several lookups in step, a lookup's missed keys are not *)
(* inserted, and a GPU table copies from a buffer nobody has written to    *)
(* since.  With a GPU table this takes one call at a time, which waits for *)
(* what was launched before; host tables need no such caller.  With both   *)
(* kinds of tables the outputs have to be in host memory (OutputCombined). *)
(***************************************************************************)
THEOREM LayerRowsMatchKeys ==
    ASSUME BuffersKept
    PROVE  Spec => []RowsMatchKeys
PROOF
  <1>1. Init => RowsInv
    BY Zenon, InitLInv, InitRows DEF RowsInv
  <1>2. RowsInv /\ [Next]_vars => RowsInv'
    BY Zenon, StepRows
  <1>3. RowsInv => RowsMatchKeys
    BY Zenon DEF RowsInv, Aligned
  <1> QED
    BY <1>1, <1>2, <1>3, PTL DEF Spec

----------------------------------------------------------------------------
(* Agreement with the backing store *)

LEMMA SameRows ==
    ASSUME NEW f \in [Keys -> AllRows], NEW g \in [Keys -> AllRows], \A k \in Keys : f[k] = g[k]
    PROVE  f = g
OBVIOUS

LEMMA Writers ==
    ASSUME OneWriter, CInv
    PROVE  /\ BuffersKept /\ N \in Tables /\ N \notin MayEvict /\ LInv /\ LTypes /\ TablesAgree /\ OnTheWay /\ RowsInv
           /\ \A c, d \in Callers : c = d \/ pc[c] = "idle" \/ pc[d] = "idle"
PROOF
  <1>1. N \in Tables
    BY TablesAssumption DEF Tables
  <1> QED
    BY Zenon, <1>1 DEF OneWriter, BuffersKept, CInv, RowsInv, LInv, AtRest

LEMMA SameNewRow ==
    ASSUME NEW c \in Callers, NEW k \in Keys, table'[N][k] = table[N][k],
           call'[c].op = call[c].op, call'[c].keys = call[c].keys, call'[c].rows = call[c].rows
    PROVE  NewRow(c, k)' = NewRow(c, k)
PROOF
  BY ZenonT(30) DEF NewRow, RowAfter

(* An insert changes no other key than its own. *)
LEMMA InsertNewRow ==
    ASSUME NEW c \in Callers, NEW k \in Keys, call[c].op = "insert",
           k = call[c].keys[1] => table[N][k] = None, table[N][k] # None
    PROVE  NewRow(c, k) = table[N][k]
PROOF
  <1>1. k # call[c].keys[1]
    BY Zenon
  <1> QED
    BY <1>1, ZenonT(30) DEF NewRow, RowAfter

(* What an operation leaves of a key in a table that agreed with the backing  *)
(* store agrees with what it will leave there.                                *)
LEMMA RowAfterAgrees ==
    ASSUME NEW t \in Tables, NEW op, NEW k \in Keys, NEW row, NEW j \in Keys,
           table[t][j] # None => table[t][j] = table[N][j],
           op = "insert" /\ j = k => table[N][k] = None,
           RowAfter(t, op, k, row, j) # None
    PROVE  RowAfter(t, op, k, row, j) = RowAfter(N, op, k, row, j)
PROOF
  <1>1. op # "clear"
    BY Zenon DEF RowAfter
  <1>2. CASE j # k
    <2>1. \A u \in {t, N} : RowAfter(u, op, k, row, j) = table[u][j]
      BY <1>1, <1>2, ZenonT(30) DEF RowAfter
    <2> QED
      BY Zenon, <2>1
  <1>3. CASE j = k /\ op = "insert"
    <2>1. table[N][j] = None /\ table[t][j] = None
      BY Zenon, <1>3
    <2>2. \A u \in {t, N} : RowAfter(u, op, k, row, j) = IF u \in Gpu /\ table[u][j] # None THEN table[u][j] ELSE row
      BY <1>3, ZenonT(30) DEF RowAfter
    <2> QED
      BY Zenon, <2>1, <2>2
  <1>4. CASE j = k /\ op = "update"
    <2>1. \A u \in {t, N} : RowAfter(u, op, k, row, j) = IF table[u][j] # None THEN row ELSE None
      BY <1>4, ZenonT(30) DEF RowAfter
    <2> QED
      BY Zenon, <2>1
  <1>5. CASE j = k /\ op = "accumulate"
    <2>1. \A u \in {t, N} : RowAfter(u, op, k, row, j) = IF table[u][j] # None THEN <<k, table[u][j][2] + 1>> ELSE None
      BY <1>5, ZenonT(30) DEF RowAfter
    <2> QED
      BY Zenon, <2>1
  <1>6. CASE j = k /\ op \notin {"insert", "update", "accumulate"}
    <2>1. op # "erase"
      BY <1>6, Zenon DEF RowAfter
    <2>2. \A u \in {t, N} : RowAfter(u, op, k, row, j) = table[u][j]
      BY <1>1, <1>6, <2>1, ZenonT(30) DEF RowAfter
    <2> QED
      BY <2>2
  <1> QED
    BY Zenon, <1>2, <1>3, <1>4, <1>5, <1>6

LEMMA OtherKeyKept ==
    ASSUME NEW t, NEW op, op # "clear", NEW k, NEW row, NEW j, j # k
    PROVE  RowAfter(t, op, k, row, j) = table[t][j]
BY ZenonT(30) DEF RowAfter

LEMMA CurrentKept ==
    ASSUME partial \subseteq partial', \A j \in Keys \ partial' : table'[N][j] = table[N][j],
           NEW t, insert_data'[t] = insert_data[t], NEW i, NEW k, Current(t, i, k)
    PROVE  Current(t, i, k)'
BY Zenon DEF Current

LEMMA OnTheWayKept ==
    ASSUME partial \subseteq partial', \A k \in Keys \ partial' : table'[N][k] = table[N][k]
    PROVE  /\ \A c : /\ FoundRows(c) /\ pc'[c] = pc[c] /\ call'[c].keys = call[c].keys /\ call'[c].rows = call[c].rows
                     => FoundRows(c)'
           /\ \A t : /\ CollectedRows(t) /\ insert_data'[t] = insert_data[t]
                     /\ collected'[t] = collected[t] \/ collected'[t] = <<>>
                     => CollectedRows(t)'
           /\ \A t : CopiedRows(t) /\ insert_data'[t] = insert_data[t] /\ copying'[t] \subseteq copying[t]
                     => CopiedRows(t)'
PROOF
  <1>1. ASSUME NEW c, FoundRows(c), pc'[c] = pc[c], call'[c].keys = call[c].keys, call'[c].rows = call[c].rows
        PROVE  FoundRows(c)'
    BY Zenon, <1>1 DEF FoundRows
  <1>2. ASSUME NEW t, CollectedRows(t), insert_data'[t] = insert_data[t],
               collected'[t] = collected[t] \/ collected'[t] = <<>>
        PROVE  CollectedRows(t)'
    <2>1. DOMAIN <<>> = {}
      OBVIOUS
    <2>2. CASE collected'[t] = <<>>
      BY Zenon, <2>1, <2>2 DEF CollectedRows
    <2>3. CASE collected'[t] = collected[t]
      BY Zenon, <1>2, <2>3, CurrentKept DEF CollectedRows
    <2> QED
      BY Zenon, <1>2, <2>2, <2>3
  <1>3. ASSUME NEW t, CopiedRows(t), insert_data'[t] = insert_data[t], copying'[t] \subseteq copying[t]
        PROVE  CopiedRows(t)'
    <2>1. ASSUME NEW x \in copying'[t] PROVE Current(t, x[2], x[1])'
      <3>1. Current(t, x[2], x[1])
        BY Zenon, <1>3 DEF CopiedRows
      <3> QED
        BY Zenon, <1>3, <3>1, CurrentKept
    <2> QED
      BY Zenon, <2>1 DEF CopiedRows
  <1> QED
    BY Zenon, <1>1, <1>2, <1>3

LEMMA InitAgrees ==
    ASSUME Init
    PROVE  TablesAgree /\ OnTheWay
PROOF
  <1>1. \A t \in Tables, k \in Keys : table[t][k] # None => t = N
    BY Zenon DEF Init
  <1>2. /\ \A t \in Tables : collected[t] = <<>> /\ copying[t] = {}
        /\ \A c \in Callers : pc[c] = "idle"
    BY Zenon DEF Init
  <1> QED
    <2>1. DOMAIN <<>> = {} /\ "idle" \notin {"find", "auto_insert", "lock", "apply"}
      OBVIOUS
    <2>2. \A c \in Callers : FoundRows(c) /\ NewKey(c) /\ OneTable(c) /\ \A t \in Tables : ~Passed(c, t)
      BY Zenon, <1>2, <2>1 DEF FoundRows, NewKey, OneTable, Passed
    <2>3. \A t \in Tables : CollectedRows(t) /\ CopiedRows(t)
      BY Zenon, <1>2, <2>1 DEF CollectedRows, CopiedRows
    <2>4. TablesAgree
      BY Zenon, <1>1, <2>2 DEF TablesAgree
    <2> QED
      BY Zenon, <2>2, <2>3, <2>4 DEF OnTheWay, DroppedRows

LEMMA StartAgrees ==
    ASSUME OneWriter, CInv, NEW c \in Callers,
           \/ \E ks \in Batches, s \in Strides : lookup(c, ks, s)
           \/ \E op \in ModifyOps, k \in Keys, v \in 0 .. MaxVersion, id \in TableIds : modify(c, op, k, v, id)
    PROVE  TablesAgree' /\ OnTheWay'
PROOF
  <1>0. LTypes /\ TablesAgree /\ OnTheWay /\ Exclusive /\ N \in Tables
    BY Zenon, Writers DEF OneWriter
  <1>1. /\ UNCHANGED <<table, insert_lock, collected, insert_data, task, copying>> /\ MayStart(c)
        /\ partial \subseteq partial'
    BY Zenon, <1>0, StartFacts
  <1>2. PICK p \in {"find", "lock", "apply"}, r \in CallRecords :
          /\ pc' = [pc EXCEPT ![c] = p] /\ call' = [call EXCEPT ![c] = r]
          /\ r.at \in Tables /\ (r.table_id = 0 => r.at = 1) /\ Len(r.rows) = Len(r.keys)
          /\ p # "find" => r.op \in ModifyOps /\ Len(r.keys) = 1
          /\ p = "apply" => r.op = "insert"
          /\ p # "find" /\ r.table_id # 0 => r.op # "clear" /\ r.keys[1] \in partial'
          /\ p # "find" /\ r.table_id = 0 /\ r.op = "insert" => \A t \in Tables : table[t][r.keys[1]] = None
          /\ p = "find" => \A i \in DOMAIN r.keys : r.rows[i] = None
          /\ \A i \in DOMAIN r.keys : r.rows[i] # None => r.rows[i][1] = r.keys[i]
    BY <1>0, StartFacts, Zenon
  <1>3. pc'[c] = p /\ call'[c] = r /\ \A d \in Callers \ {c} : pc'[d] = "idle"
    BY Zenon, <1>0, <1>1, <1>2 DEF LTypes, MayStart
  <1>4. \A d \in Callers, t \in Tables : ~Passed(d, t) /\ ~Passed(d, t)'
    <2>1. \A d \in Callers : pc[d] = "idle"
      BY Zenon, <1>0, <1>1 DEF MayStart
    <2>2. \A t \in Tables : ~(t < 1)
      BY TablesAssumption DEF Tables
    <2> QED
      BY ZenonT(60), <1>2, <1>3, <2>1, <2>2 DEF Passed
  <1>5. TablesAgree'
    BY Zenon, <1>0, <1>1, <1>4 DEF TablesAgree
  <1>6. OnTheWay'
    <2>1. table' = table /\ collected' = collected /\ insert_data' = insert_data /\ copying' = copying
      BY Zenon, <1>1
    <2>2. FoundRows(c)' /\ NewKey(c)' /\ OneTable(c)'
      <3>1. p = "find" => \A i \in DOMAIN call'[c].keys : call'[c].rows[i] = None
        BY Zenon, <1>2, <1>3
      <3>2. /\ p \in {"lock", "apply"} /\ r.table_id # 0 => r.op # "clear" /\ r.keys[1] \in partial'
            /\ p \in {"lock", "apply"} /\ r.op = "insert" /\ r.keys[1] \in Keys \ partial' => table'[N][r.keys[1]] = None
        BY Zenon, <1>0, <1>2, <2>1
      <3> QED
        BY Zenon, <1>3, <3>1, <3>2 DEF FoundRows, NewKey, OneTable
    <2>3. ASSUME NEW d \in Callers, d # c PROVE FoundRows(d)' /\ NewKey(d)' /\ OneTable(d)'
      <3>1. pc'[d] = "idle"
        BY Zenon, <1>3, <2>3
      <3> QED
        BY Zenon, <3>1 DEF FoundRows, NewKey, OneTable
    <2>4. \A u \in Tables : CollectedRows(u)' /\ CopiedRows(u)'
      BY Zenon, <1>0, <1>1, <2>1, OnTheWayKept DEF OnTheWay
    <2> QED
      BY Zenon, <1>4, <2>2, <2>3, <2>4 DEF OnTheWay, DroppedRows
  <1> QED
    BY Zenon, <1>5, <1>6

LEMMA FindAgrees ==
    ASSUME OneWriter, CInv, NEW c \in Callers, find(c)
    PROVE  TablesAgree' /\ OnTheWay'
PROOF
  <1>0. /\ LTypes /\ TablesAgree /\ OnTheWay
        /\ \A d, e \in Callers : d = e \/ pc[d] = "idle" \/ pc[e] = "idle"
    BY Zenon, Writers
  <1>1. /\ UNCHANGED <<table, collected, insert_data, task, copying>> /\ pc[c] = "find"
        /\ \A d \in Callers \ {c} : pc'[d] = pc[d] /\ call'[d] = call[d]
        /\ pc'[c] \in {"find", "auto_insert"} /\ call'[c].keys = call[c].keys
    BY ZenonT(60), <1>0, FindFacts
  <1>6. partial' = partial
    BY Zenon DEF find
  <1>2. \A d \in Callers, t \in Tables : ~Passed(d, t) /\ ~Passed(d, t)'
    BY Zenon, <1>0, <1>1 DEF Passed
  <1>3. ASSUME NEW i \in DOMAIN call[c].keys, call'[c].rows[i] # None, call[c].keys[i] \in Keys \ partial
        PROVE  call'[c].rows[i] = table[N][call[c].keys[i]]
    <2>1. CASE call[c].rows[i] # None /\ call'[c].rows[i] = call[c].rows[i]
      BY ZenonT(60), <1>0, <1>1, <1>3, <2>1 DEF OnTheWay, FoundRows
    <2>2. CASE \E t \in Tables : call'[c].rows[i] = table[t][call[c].keys[i]]
      <3>1. call[c].keys[i] \in Keys
        <4>1. call[c].keys \in Seq(Keys)
          BY Zenon, <1>0 DEF LTypes, CallRecords
        <4> QED
          BY <4>1
      <3> QED
        BY Zenon, <1>0, <1>2, <1>3, <2>2, <3>1 DEF TablesAgree
    <2> QED
      <3>1. \/ call[c].rows[i] # None /\ call'[c].rows[i] = call[c].rows[i]
            \/ \E t \in Tables : call'[c].rows[i] = table[t][call[c].keys[i]]
        <4>1. \A n \in DOMAIN call[c].keys :
                \/ call[c].rows[n] # None /\ call'[c].rows[n] = call[c].rows[n]
                \/ \E t \in Tables : call'[c].rows[n] = table[t][call[c].keys[n]]
          BY Zenon, <1>0, FindFacts
        <4> QED
          BY Zenon, <4>1
      <3> QED
        BY Zenon, <2>1, <2>2, <3>1
  <1>4. TablesAgree'
    BY Zenon, <1>0, <1>1, <1>2, <1>6 DEF TablesAgree
  <1>5. OnTheWay'
    <2>1. \A d \in Callers \ {c} : pc'[d] = "idle"
      BY Zenon, <1>0, <1>1
    <2>2. table' = table /\ collected' = collected /\ insert_data' = insert_data /\ copying' = copying
      BY Zenon, <1>1
    <2>3. FoundRows(c)'
      <3>1. call'[c].keys = call[c].keys
        BY Zenon, <1>1
      <3> QED
        BY Zenon, <1>3, <1>6, <2>2, <3>1 DEF FoundRows
    <2>4. ASSUME NEW d \in Callers, d # c PROVE FoundRows(d)'
      <3>1. pc'[d] = "idle"
        BY Zenon, <2>1, <2>4
      <3> QED
        BY Zenon, <3>1 DEF FoundRows
    <2>5. \A d \in Callers : NewKey(d)' /\ OneTable(d)'
      BY Zenon, <1>1, <2>1 DEF NewKey, OneTable
    <2>6. \A u \in Tables : CollectedRows(u)' /\ CopiedRows(u)'
      BY Zenon, <1>0, <1>6, <2>2, OnTheWayKept DEF OnTheWay
    <2> QED
      BY Zenon, <1>2, <2>3, <2>4, <2>5, <2>6 DEF OnTheWay, DroppedRows
  <1> QED
    BY Zenon, <1>4, <1>5

LEMMA PassAgrees ==
    ASSUME OneWriter, CInv, NEW c \in Callers,
           \/ AutoInsertBusy(c) \/ AutoInsertNotNeeded(c) \/ AutoInsertThrows(c) \/ lock_modify(c)
    PROVE  TablesAgree' /\ OnTheWay'
PROOF
  <1>0. LTypes /\ TablesAgree /\ OnTheWay
    BY Zenon, Writers
  <1>1. UNCHANGED <<table, collected, insert_data, task, copying, partial>>
    BY ZenonT(60) DEF AutoInsertBusy, AutoInsertNotNeeded, AutoInsertThrows, lock_modify, handlerVars
  <1>2. /\ \A d \in Callers \ {c} : pc'[d] = pc[d] /\ call'[d] = call[d]
        /\ \/ pc[c] = "auto_insert" /\ pc'[c] = "idle"
           \/ /\ pc[c] = "auto_insert" /\ pc'[c] = "auto_insert"
              /\ call'[c].keys = call[c].keys /\ call'[c].rows = call[c].rows
           \/ pc[c] = "lock" /\ pc'[c] = "apply" /\ call'[c] = call[c]
    <2>1. CASE AutoInsertBusy(c) \/ AutoInsertNotNeeded(c)
      <3>1. pc[c] = "auto_insert" /\ NextTable(c, "auto_insert", Return(c))
        BY Zenon, <2>1 DEF AutoInsertBusy, AutoInsertNotNeeded
      <3> QED
        BY Zenon, <1>0, <3>1, NextTableFacts
    <2>2. CASE AutoInsertThrows(c)
      BY ZenonT(60), <1>0, <2>2, ReturnFacts DEF AutoInsertThrows
    <2>3. CASE lock_modify(c)
      BY Zenon, <1>0, <2>3 DEF lock_modify, LTypes
    <2> QED
      BY ZenonT(60), <2>1, <2>2, <2>3
  <1>3. \A d \in Callers, t \in Tables : Passed(d, t)' <=> Passed(d, t)
    BY Zenon, <1>2 DEF Passed
  <1>4. \A d \in Callers, t \in Tables : Passed(d, t) => call'[d] = call[d]
    BY Zenon, <1>2 DEF Passed
  <1>5. TablesAgree'
    <2>1. ASSUME NEW d \in Callers, NEW t \in Tables, NEW k \in Keys, Passed(d, t)
          PROVE  NewRow(d, k)' = NewRow(d, k)
      BY Zenon, <1>1, <1>4, <2>1, SameNewRow
    <2>2. table' = table /\ partial' = partial
      BY Zenon, <1>1
    <2> QED
      <3> SUFFICES ASSUME NEW u \in Tables, NEW k \in Keys \ partial, table[u][k] # None
                   PROVE  /\ \A d \in Callers : Passed(d, u)' => table[u][k] = NewRow(d, k)'
                          /\ (\A d \in Callers : ~Passed(d, u)') => table[u][k] = table[N][k]
        BY Zenon, <2>2 DEF TablesAgree
      <3>1. /\ \A d \in Callers : Passed(d, u) => table[u][k] = NewRow(d, k)
            /\ (\A d \in Callers : ~Passed(d, u)) => table[u][k] = table[N][k]
        BY Zenon, <1>0 DEF TablesAgree
      <3> QED
        BY Zenon, <1>3, <2>1, <3>1
  <1>6. OnTheWay'
    <2>1. \A d \in Callers : pc'[d] \in {"find", "auto_insert"} =>
             pc[d] \in {"find", "auto_insert"} /\ call'[d].keys = call[d].keys /\ call'[d].rows = call[d].rows
      BY Zenon, <1>2
    <2>2. \A d \in Callers : pc'[d] \in {"lock", "apply"} => pc[d] \in {"lock", "apply"} /\ call'[d] = call[d]
      BY Zenon, <1>2
    <2>3. /\ table' = table /\ collected' = collected /\ insert_data' = insert_data /\ copying' = copying
          /\ partial' = partial
      BY Zenon, <1>1
    <2>4. ASSUME NEW d \in Callers PROVE FoundRows(d)'
      <3>1. FoundRows(d)
        BY Zenon, <1>0 DEF OnTheWay
      <3>2. CASE pc'[d] \in {"find", "auto_insert"}
        BY Zenon, <2>1, <2>3, <3>1, <3>2 DEF FoundRows
      <3>3. CASE pc'[d] \notin {"find", "auto_insert"}
        BY Zenon, <3>3 DEF FoundRows
      <3> QED
        BY Zenon, <3>2, <3>3
    <2>5. \A d \in Callers : NewKey(d)' /\ OneTable(d)'
      BY Zenon, <1>0, <2>2, <2>3 DEF OnTheWay, NewKey, OneTable
    <2>6. \A u \in Tables : CollectedRows(u)' /\ CopiedRows(u)'
      BY Zenon, <1>0, <2>3, OnTheWayKept DEF OnTheWay
    <2>7. \A d \in Callers, u \in Tables : DroppedRows(d, u)'
      BY Zenon, <1>0, <1>3, <1>4, <2>3 DEF OnTheWay, DroppedRows
    <2> QED
      BY Zenon, <2>4, <2>5, <2>6, <2>7 DEF OnTheWay
  <1> QED
    BY Zenon, <1>5, <1>6

(* A lookup collects what it found, which is what the backing store holds. *)
LEMMA CollectsAgrees ==
    ASSUME OneWriter, CInv, NEW c \in Callers, AutoInsertCollects(c)
    PROVE  TablesAgree' /\ OnTheWay'
PROOF
  <1> DEFINE t == call[c].at
  <1>0. /\ LInv /\ LTypes /\ TablesAgree /\ OnTheWay /\ AtRest /\ BuffersKept
        /\ \A d, e \in Callers : d = e \/ pc[d] = "idle" \/ pc[e] = "idle"
    BY Zenon, Writers DEF RowsInv
  <1>1. /\ pc[c] = "auto_insert" /\ insert_lock[t] = None /\ Collect(c, t) /\ UNCHANGED <<table, copying>>
        /\ NextTable(c, "auto_insert", Return(c)) /\ partial' = partial
    BY Zenon DEF AutoInsertCollects
  <1>2. t \in Tables
    BY Zenon, <1>0, <1>1 DEF LTypes
  <1>3. copying[t] = {}
    <2>1. CASE Gpu = {}
      BY Zenon, <1>0, <1>2, <2>1 DEF AtRest
    <2>2. CASE Exclusive /\ WaitsEach
      <3>1. \A u \in Tables : u <= u
        BY TablesAssumption DEF Tables
      <3> QED
        BY Zenon, <1>0, <1>1, <1>2, <2>2, <3>1 DEF AtRest
    <2> QED
      BY Zenon, <1>0, <2>1, <2>2 DEF BuffersKept
  <1>4. /\ \A d \in Callers \ {c} : pc'[d] = pc[d] /\ call'[d] = call[d]
        /\ \/ pc'[c] = "idle"
           \/ pc'[c] = "auto_insert" /\ call'[c].keys = call[c].keys /\ call'[c].rows = call[c].rows
    BY Zenon, <1>0, <1>1, NextTableFacts
  <1>5. /\ \A u \in Tables \ {t} : collected'[u] = collected[u] /\ insert_data'[u] = insert_data[u]
        /\ \A i \in DOMAIN collected'[t] :
              \/ /\ i \in DOMAIN collected[t]
                 /\ collected'[t][i] = collected[t][i] /\ insert_data'[t][i] = insert_data[t][i]
              \/ \E j \in DOMAIN call[c].keys :
                    collected'[t][i] = CollectedKey(c, j) /\ insert_data'[t][i] = OutputRow(c, j)
    BY ZenonT(60), <1>0, <1>1, <1>2, CollectFacts
  <1> HIDE DEF t
  <1>6. \A d \in Callers \ {c} : pc'[d] = "idle" /\ pc[d] = "idle"
    BY ZenonT(60), <1>0, <1>1, <1>4
  <1>7. \A d \in Callers, u \in Tables : ~Passed(d, u) /\ ~Passed(d, u)'
    BY Zenon, <1>1, <1>4, <1>6 DEF Passed
  <1>8. TablesAgree'
    BY Zenon, <1>0, <1>1, <1>7 DEF TablesAgree
  <1>9. ASSUME NEW i \in DOMAIN collected'[t], collected'[t][i] # InvalidKey, collected'[t][i] \in Keys \ partial
        PROVE  table[N][collected'[t][i]] # None /\ insert_data'[t][i] = table[N][collected'[t][i]]
    <2>1. CASE i \in DOMAIN collected[t] /\ collected'[t][i] = collected[t][i] /\ insert_data'[t][i] = insert_data[t][i]
      <3>1. CollectedRows(t)
        BY Zenon, <1>0, <1>2 DEF OnTheWay
      <3> QED
        BY Zenon, <1>9, <2>1, <3>1 DEF CollectedRows, Current
    <2>2. ASSUME NEW j \in DOMAIN call[c].keys,
                 collected'[t][i] = CollectedKey(c, j), insert_data'[t][i] = OutputRow(c, j)
          PROVE  table[N][collected'[t][i]] # None /\ insert_data'[t][i] = table[N][collected'[t][i]]
      <3>1. call[c].rows[j] # None
        BY Zenon, <1>9, <2>2 DEF CollectedKey
      <3>2. CollectedKey(c, j) = call[c].keys[j] /\ OutputRow(c, j) = call[c].rows[j]
        BY Zenon, <1>0, <3>1 DEF CollectedKey, OutputRow, BuffersKept
      <3>3. call[c].rows[j] = table[N][call[c].keys[j]]
        BY Zenon, <1>0, <1>1, <1>9, <2>2, <3>1, <3>2 DEF OnTheWay, FoundRows
      <3> QED
        BY Zenon, <2>2, <3>1, <3>2, <3>3
    <2> QED
      BY Zenon, <1>5, <2>1, <2>2
  <1>10. OnTheWay'
    <2>1. /\ table' = table /\ copying' = copying /\ \A u \in Tables : copying'[u] \subseteq copying[u]
          /\ partial' = partial
      BY Zenon, <1>1
    <2>2. ASSUME NEW u \in Tables PROVE CollectedRows(u)' /\ CopiedRows(u)'
      <3>1. CASE u = t
        <4>1. CollectedRows(u)'
          <5>1. ASSUME NEW i \in DOMAIN collected'[u], collected'[u][i] # InvalidKey
                PROVE  Current(u, i, collected[u][i])'
            <6>1. collected'[u][i] \in Keys \ partial =>
                    table[N][collected'[u][i]] # None /\ insert_data'[u][i] = table[N][collected'[u][i]]
              BY Zenon, <1>9, <3>1, <5>1
            <6> QED
              BY Zenon, <2>1, <6>1 DEF Current
          <5> QED
            BY Zenon, <5>1 DEF CollectedRows
        <4>2. CopiedRows(u)'
          BY Zenon, <1>3, <2>1, <3>1 DEF CopiedRows
        <4> QED
          BY Zenon, <4>1, <4>2
      <3>2. CASE u # t
        <4>1. collected'[u] = collected[u] /\ insert_data'[u] = insert_data[u]
          BY Zenon, <1>5, <3>2
        <4> QED
          BY Zenon, <1>0, <2>1, <4>1, OnTheWayKept DEF OnTheWay
      <3> QED
        BY Zenon, <3>1, <3>2
    <2>3. \A d \in Callers : pc'[d] \in {"find", "auto_insert"} =>
             pc[d] \in {"find", "auto_insert"} /\ call'[d].keys = call[d].keys /\ call'[d].rows = call[d].rows
      BY Zenon, <1>1, <1>4, <1>6
    <2>4. \A d \in Callers : pc'[d] \notin {"lock", "apply"}
      BY Zenon, <1>4, <1>6
    <2>5. ASSUME NEW d \in Callers PROVE FoundRows(d)' /\ NewKey(d)' /\ OneTable(d)'
      <3>1. FoundRows(d)
        BY Zenon, <1>0 DEF OnTheWay
      <3>2. CASE pc'[d] \in {"find", "auto_insert"}
        BY Zenon, <2>1, <2>3, <2>4, <3>1, <3>2 DEF FoundRows, NewKey, OneTable
      <3>3. CASE pc'[d] \notin {"find", "auto_insert"}
        BY Zenon, <2>4, <3>3 DEF FoundRows, NewKey, OneTable
      <3> QED
        BY Zenon, <3>2, <3>3
    <2> QED
      BY Zenon, <1>7, <2>2, <2>5 DEF OnTheWay, DroppedRows
  <1> QED
    BY <1>8, <1>10

(* Rows of the backing store may be put into a table, unless a modify call    *)
(* that could change them has passed it.                                      *)
LEMMA PutAgrees ==
    ASSUME OneWriter, CInv, NEW t \in Tables, UNCHANGED <<collected, insert_data, pc, call, partial>>,
           table' \in [Tables -> [Keys -> AllRows]],
           \A u \in Tables \ {t} : table'[u] = table[u],
           \A k \in Keys \ partial :
              \/ t \in MayEvict /\ table'[t][k] = None
              \/ table'[t][k] = table[t][k]
              \/ /\ table[N][k] # None /\ table'[t][k] = table[N][k]
                 /\ \A c \in Callers : Passed(c, t) => call[c].op = "insert",
           \A u \in Tables : \A x \in copying'[u] : Current(u, x[2], x[1]),
           \A c \in Callers, u \in Tables : Passed(c, u) /\ call[c].op # "insert" => copying'[u] = {}
    PROVE  TablesAgree' /\ OnTheWay'
PROOF
  <1>0. LTypes /\ TablesAgree /\ OnTheWay /\ N \in Tables /\ N \notin MayEvict
    BY Zenon, Writers
  <1>1. partial' = partial /\ \A k \in Keys \ partial : table'[N][k] = table[N][k]
    BY Zenon, <1>0
  <1>2. \A c \in Callers, u \in Tables : Passed(c, u)' <=> Passed(c, u)
    BY Zenon DEF Passed
  <1>3. \A c \in Callers, k \in Keys \ partial : NewRow(c, k)' = NewRow(c, k)
    BY Zenon, <1>1, SameNewRow
  <1>4. ASSUME NEW k \in Keys \ partial, table'[t][k] # None
        PROVE  /\ \A c \in Callers : Passed(c, t) => table'[t][k] = NewRow(c, k)
               /\ (\A c \in Callers : ~Passed(c, t)) => table'[t][k] = table[N][k]
    <2>1. CASE table'[t][k] = table[t][k]
      BY Zenon, <1>0, <1>4, <2>1 DEF TablesAgree
    <2>2. CASE /\ table[N][k] # None /\ table'[t][k] = table[N][k]
               /\ \A c \in Callers : Passed(c, t) => call[c].op = "insert"
      <3>1. ASSUME NEW c \in Callers, Passed(c, t) PROVE NewRow(c, k) = table[N][k]
        <4>1. call[c].op = "insert" /\ (k = call[c].keys[1] => table[N][k] = None)
          <5>1. call[c].op = "insert" /\ pc[c] \in {"lock", "apply"}
            BY Zenon, <2>2, <3>1 DEF Passed
          <5>2. NewKey(c)
            BY Zenon, <1>0 DEF OnTheWay
          <5> QED
            BY Zenon, <1>4, <5>1, <5>2 DEF NewKey
        <4> QED
          BY Zenon, <2>2, <4>1, InsertNewRow
      <3> QED
        BY Zenon, <2>2, <3>1
    <2> QED
      BY Zenon, <1>4, <2>1, <2>2
  <1>5. TablesAgree'
    <2>1. ASSUME NEW u \in Tables, NEW k \in Keys \ partial, table'[u][k] # None
          PROVE  /\ \A c \in Callers : Passed(c, u) => table'[u][k] = NewRow(c, k)
                 /\ (\A c \in Callers : ~Passed(c, u)) => table'[u][k] = table[N][k]
      <3>1. CASE u = t
        BY Zenon, <1>4, <2>1, <3>1
      <3>2. CASE u # t
        <4>1. table'[u] = table[u]
          BY Zenon, <3>2
        <4> QED
          <5>2. table[u][k] # None =>
                  /\ \A d \in Callers : Passed(d, u) => table[u][k] = NewRow(d, k)
                  /\ (\A d \in Callers : ~Passed(d, u)) => table[u][k] = table[N][k]
            BY Zenon, <1>0 DEF TablesAgree
          <5> QED
            BY Zenon, <2>1, <4>1, <5>2
      <3> QED
        BY Zenon, <3>1, <3>2
    <2> QED
      <3> SUFFICES ASSUME NEW u \in Tables, NEW k \in Keys \ partial, table'[u][k] # None
                   PROVE  /\ \A c \in Callers : Passed(c, u)' => table'[u][k] = NewRow(c, k)'
                          /\ (\A c \in Callers : ~Passed(c, u)') => table'[u][k] = table'[N][k]
        BY Zenon, <1>1 DEF TablesAgree
      <3> QED
        <4>1. /\ \A c \in Callers : Passed(c, u) => table'[u][k] = NewRow(c, k)
              /\ (\A c \in Callers : ~Passed(c, u)) => table'[u][k] = table[N][k]
          BY Zenon, <2>1
        <4>2. \A c \in Callers : (Passed(c, u)' <=> Passed(c, u)) /\ NewRow(c, k)' = NewRow(c, k)
          BY Zenon, <1>2, <1>3
        <4> QED
          BY Zenon, <1>1, <4>1, <4>2
  <1>6. OnTheWay'
    <2>1. collected' = collected /\ insert_data' = insert_data /\ pc' = pc /\ call' = call
      BY Zenon
    <2>2. \A u \in Tables : CollectedRows(u)'
      BY Zenon, <1>0, <1>1, <2>1, OnTheWayKept DEF OnTheWay
    <2>3. ASSUME NEW u \in Tables PROVE CopiedRows(u)'
      BY Zenon, <1>1, <2>1, CurrentKept DEF CopiedRows
    <2>4. \A c \in Callers, u \in Tables : DroppedRows(c, u)'
      BY Zenon, <1>0, <1>2, <2>1 DEF OnTheWay, DroppedRows
    <2>5. \A c \in Callers : FoundRows(c)'
      BY Zenon, <1>0, <1>1, <2>1, OnTheWayKept DEF OnTheWay
    <2>6. ASSUME NEW c \in Callers PROVE NewKey(c)' /\ OneTable(c)'
      <3>1. NewKey(c) /\ OneTable(c)
        BY Zenon, <1>0 DEF OnTheWay
      <3>2. NewKey(c)'
        BY Zenon, <1>1, <2>1, <3>1 DEF NewKey
      <3>3. OneTable(c)'
        BY Zenon, <1>1, <2>1, <3>1 DEF OneTable
      <3> QED
        BY Zenon, <3>2, <3>3
    <2> QED
      BY Zenon, <2>2, <2>3, <2>4, <2>5, <2>6 DEF OnTheWay
  <1> QED
    BY Zenon, <1>5, <1>6

LEMMA TaskAgrees ==
    ASSUME OneWriter, CInv, NEW t \in Tables, TaskInserts(t) \/ TaskEnds(t) \/ TaskThrows(t) \/ CopyRows(t)
    PROVE  TablesAgree' /\ OnTheWay'
PROOF
  <1>0. LInv /\ LTypes /\ TablesAgree /\ OnTheWay /\ N \in Tables
    BY Zenon, Writers
  <1>5. partial' = partial
    BY Zenon DEF TaskInserts, TaskEnds, TaskThrows, CopyRows
  <1>1. CASE TaskInserts(t)
    <2>1. /\ UNCHANGED <<insert_lock, collected, insert_data, pc, call>>
          /\ table' \in [Tables -> [Keys -> AllRows]] /\ copying' \in [Tables -> SUBSET (Keys \X Nat)]
          /\ \A u \in Tables \ {t} : table'[u] = table[u] /\ copying'[u] = copying[u]
          /\ \A k \in Keys : \/ t \in MayEvict /\ table'[t][k] = None
                             \/ table'[t][k] = table[t][k]
                             \/ \E i \in DOMAIN collected[t] : collected[t][i] = k /\ table'[t][k] = insert_data[t][i]
          /\ \A x \in copying'[t] : x \in copying[t] \/ (x[2] \in DOMAIN collected[t] /\ collected[t][x[2]] = x[1])
      BY ZenonT(60), <1>0, <1>1, TaskInsertsFacts
    <2>2. \A i \in DOMAIN collected[t] : collected[t][i] \in Keys \ partial =>
             /\ table[N][collected[t][i]] # None /\ insert_data[t][i] = table[N][collected[t][i]]
             /\ \A c \in Callers : Passed(c, t) => call[c].op = "insert"
      <3>1. \A i \in DOMAIN collected[t] : collected[t][i] \in Keys \ partial =>
               table[N][collected[t][i]] # None /\ insert_data[t][i] = table[N][collected[t][i]]
        BY ZenonT(60), <1>0, NoneAssumption DEF OnTheWay, CollectedRows, InvalidKey, Current
      <3>2. \A c \in Callers : Passed(c, t) /\ call[c].op # "insert" => DOMAIN collected[t] = {}
        <4>1. \A c \in Callers : Passed(c, t) /\ call[c].op # "insert" => collected[t] = <<>>
          BY Zenon, <1>0 DEF OnTheWay, DroppedRows
        <4>2. DOMAIN <<>> = {}
          OBVIOUS
        <4> QED
          BY Zenon, <4>1, <4>2
      <3> QED
        BY Zenon, <3>1, <3>2
    <2>3. \A u \in Tables : \A x \in copying'[u] : Current(u, x[2], x[1])
      <3>1. \A x \in copying'[t] : x[1] \in Keys
        <4>1. copying'[t] \in SUBSET (Keys \X Nat)
          BY Zenon, <2>1
        <4> QED
          BY <4>1
      <3>2. ASSUME NEW x \in copying'[t] PROVE Current(t, x[2], x[1])
        <4>1. CASE x \in copying[t]
          BY Zenon, <1>0, <4>1 DEF OnTheWay, CopiedRows
        <4>2. CASE x[2] \in DOMAIN collected[t] /\ collected[t][x[2]] = x[1]
          BY Zenon, <2>2, <3>1, <4>2 DEF Current
        <4> QED
          BY Zenon, <2>1, <4>1, <4>2
      <3>3. ASSUME NEW u \in Tables, u # t PROVE \A x \in copying'[u] : Current(u, x[2], x[1])
        <4>1. copying'[u] = copying[u]
          BY Zenon, <2>1, <3>3
        <4> QED
          BY Zenon, <1>0, <4>1 DEF OnTheWay, CopiedRows
      <3> QED
        BY Zenon, <3>2, <3>3
    <2>6. DOMAIN <<>> = {}
      OBVIOUS
    <2>4. \A c \in Callers, u \in Tables : Passed(c, u) /\ call[c].op # "insert" => copying'[u] = {}
      <3>1. \A c \in Callers : Passed(c, t) /\ call[c].op # "insert" => copying'[t] = {}
        <4>1. \A c \in Callers : Passed(c, t) /\ call[c].op # "insert" => copying[t] = {} /\ DOMAIN collected[t] = {}
          BY Zenon, <1>0, <2>6 DEF OnTheWay, DroppedRows
        <4> QED
          BY Zenon, <2>1, <4>1
      <3>2. ASSUME NEW u \in Tables, u # t PROVE \A c \in Callers : Passed(c, u) /\ call[c].op # "insert" => copying'[u] = {}
        <4>1. copying'[u] = copying[u]
          BY Zenon, <2>1, <3>2
        <4> QED
          BY Zenon, <1>0, <4>1 DEF OnTheWay, DroppedRows
      <3> QED
        BY Zenon, <3>1, <3>2
    <2>5. \A k \in Keys \ partial :
              \/ t \in MayEvict /\ table'[t][k] = None
              \/ table'[t][k] = table[t][k]
              \/ /\ table[N][k] # None /\ table'[t][k] = table[N][k]
                 /\ \A c \in Callers : Passed(c, t) => call[c].op = "insert"
      <3> SUFFICES ASSUME NEW k \in Keys \ partial
                   PROVE  \/ t \in MayEvict /\ table'[t][k] = None
                          \/ table'[t][k] = table[t][k]
                          \/ /\ table[N][k] # None /\ table'[t][k] = table[N][k]
                             /\ \A c \in Callers : Passed(c, t) => call[c].op = "insert"
        BY Zenon
      <3>1. CASE \E i \in DOMAIN collected[t] : collected[t][i] = k /\ table'[t][k] = insert_data[t][i]
        BY Zenon, <2>2, <3>1
      <3> QED
        BY Zenon, <2>1, <3>1
    <2> QED
      BY ZenonT(60), <1>5, <2>1, <2>3, <2>4, <2>5, PutAgrees
  <1>2. CASE TaskEnds(t)
    <2>1. UNCHANGED <<table, insert_data, copying, pc, call>> /\ collected' = [collected EXCEPT ![t] = <<>>]
      BY Zenon, <1>2 DEF TaskEnds
    <2>2. \A u \in Tables : collected'[u] = collected[u] \/ collected'[u] = <<>>
      BY Zenon, <1>0, <2>1 DEF LTypes
    <2>3. \A c \in Callers, k \in Keys : NewRow(c, k)' = NewRow(c, k)
      BY Zenon, <2>1, SameNewRow
    <2>4. TablesAgree'
      <3>1. table' = table /\ pc' = pc /\ call' = call
        BY Zenon, <2>1
      <3>3. partial' = partial
        BY Zenon, <1>5
      <3>2. \A c \in Callers, u \in Tables : Passed(c, u)' <=> Passed(c, u)
        BY Zenon, <3>1 DEF Passed
      <3> QED
        <4> SUFFICES ASSUME NEW u \in Tables, NEW k \in Keys \ partial, table'[u][k] # None
                     PROVE  /\ \A c \in Callers : Passed(c, u)' => table'[u][k] = NewRow(c, k)'
                            /\ (\A c \in Callers : ~Passed(c, u)') => table'[u][k] = table'[N][k]
          BY Zenon, <3>3 DEF TablesAgree
        <4>2. table[u][k] # None =>
                /\ \A d \in Callers : Passed(d, u) => table[u][k] = NewRow(d, k)
                /\ (\A d \in Callers : ~Passed(d, u)) => table[u][k] = table[N][k]
          BY Zenon, <1>0 DEF TablesAgree
        <4> QED
          BY Zenon, <2>3, <3>1, <3>2, <4>2
    <2>5. OnTheWay'
      <3>1. table' = table /\ insert_data' = insert_data /\ copying' = copying /\ pc' = pc /\ call' = call
        BY Zenon, <2>1
      <3>2. \A u \in Tables : CollectedRows(u)' /\ CopiedRows(u)'
        BY Zenon, <1>0, <1>5, <2>2, <3>1, OnTheWayKept DEF OnTheWay
      <3>3. \A c \in Callers : FoundRows(c)' /\ NewKey(c)' /\ OneTable(c)'
        BY Zenon, <1>0, <1>5, <3>1 DEF OnTheWay, FoundRows, NewKey, OneTable
      <3>4. \A c \in Callers, u \in Tables : DroppedRows(c, u)'
        BY Zenon, <1>0, <2>2, <3>1 DEF OnTheWay, DroppedRows, Passed
      <3> QED
        BY Zenon, <3>2, <3>3, <3>4 DEF OnTheWay
    <2> QED
      BY Zenon, <2>4, <2>5
  <1>3. CASE TaskThrows(t)
    BY Zenon, <1>3 DEF TaskThrows, OneWriter
  <1>4. CASE CopyRows(t)
    <2>1. /\ UNCHANGED <<insert_lock, collected, insert_data, task, pc, call>>
          /\ table' \in [Tables -> [Keys -> AllRows]]
          /\ \A u \in Tables \ {t} : table'[u] = table[u] /\ copying'[u] = copying[u]
          /\ copying[t] # {} /\ copying'[t] = {}
          /\ \A k \in Keys : \/ table'[t][k] = table[t][k]
                             \/ \E x \in copying[t] : x[1] = k /\ table'[t][k] = insert_data[t][x[2]]
      BY ZenonT(60), <1>0, <1>4, CopyRowsFacts
    <2>2. \A u \in Tables : copying'[u] \subseteq copying[u]
      BY Zenon, <2>1
    <2>3. \A c \in Callers : Passed(c, t) => call[c].op = "insert"
      BY ZenonT(60), <1>0, <2>1 DEF OnTheWay, DroppedRows
    <2>4. \A k \in Keys \ partial :
              \/ t \in MayEvict /\ table'[t][k] = None
              \/ table'[t][k] = table[t][k]
              \/ /\ table[N][k] # None /\ table'[t][k] = table[N][k]
                 /\ \A c \in Callers : Passed(c, t) => call[c].op = "insert"
      <3>1. \A x \in copying[t] : x[1] \in Keys \ partial => table[N][x[1]] # None /\ insert_data[t][x[2]] = table[N][x[1]]
        BY Zenon, <1>0 DEF OnTheWay, CopiedRows, Current
      <3>2. \A j \in Keys : \/ table'[t][j] = table[t][j]
                            \/ \E x \in copying[t] : x[1] = j /\ table'[t][j] = insert_data[t][x[2]]
        BY Zenon, <2>1
      <3>3. ASSUME NEW k \in Keys \ partial, NEW x \in copying[t], x[1] = k, table'[t][k] = insert_data[t][x[2]]
            PROVE  table[N][k] # None /\ table'[t][k] = table[N][k]
        BY Zenon, <3>1, <3>3
      <3> QED
        BY Zenon, <2>3, <3>2, <3>3
    <2>5. \A u \in Tables : \A x \in copying'[u] : Current(u, x[2], x[1])
      BY ZenonT(60), <1>0, <2>2 DEF OnTheWay, CopiedRows
    <2>6. \A c \in Callers, u \in Tables : Passed(c, u) /\ call[c].op # "insert" => copying'[u] = {}
      BY Zenon, <1>0, <2>2 DEF OnTheWay, DroppedRows
    <2> QED
      BY ZenonT(60), <1>5, <2>1, <2>4, <2>5, <2>6, PutAgrees
  <1> QED
    BY Zenon, <1>1, <1>2, <1>3, <1>4

(* A modify call applies its operation to the tables in turn; the backing     *)
(* store comes last.                                                          *)
LEMMA ApplyAgrees ==
    ASSUME OneWriter, CInv, NEW c \in Callers, ApplyModify(c)
    PROVE  TablesAgree' /\ OnTheWay'
PROOF
  <1> DEFINE a == call[c]
             t == a.at
             k == a.keys[1]
             row == a.rows[1]
  <1>0. /\ LInv /\ LTypes /\ TablesAgree /\ OnTheWay /\ N \in Tables /\ N \notin MayEvict
        /\ \A d, e \in Callers : d = e \/ pc[d] = "idle" \/ pc[e] = "idle"
    BY Zenon, Writers
  <1>1. /\ UNCHANGED <<insert_data, task, copying>> /\ pc[c] = "apply" /\ copying[t] = {} /\ t \in Tables /\ k \in Keys
        /\ \A d \in Callers \ {c} : pc'[d] = pc[d]
        /\ table' \in [Tables -> [Keys -> AllRows]] /\ \A u \in Tables \ {t} : table'[u] = table[u]
        /\ \A j \in Keys : (t \in MayEvict /\ table'[t][j] = None) \/ table'[t][j] = RowAfter(t, a.op, k, row, j)
        /\ IF a.op = "insert" THEN collected' = collected ELSE collected' = [collected EXCEPT ![t] = <<>>]
        /\ \/ /\ t < N /\ pc'[c] \in {"lock", "apply"} /\ call'[c].at = t + 1
              /\ a.table_id = 0 /\ call'[c].table_id = 0
              /\ call'[c].op = a.op /\ call'[c].keys = a.keys /\ call'[c].rows = a.rows
           \/ (t = N \/ a.table_id # 0) /\ pc'[c] = "idle"
    BY ZenonT(60), <1>0, ApplyFacts DEF OnlyCaller
  <1>10. partial' = partial
    BY Zenon DEF ApplyModify
  <1>2. \A d \in Callers \ {c} : pc[d] = "idle" /\ pc'[d] = "idle"
    BY Zenon, <1>0, <1>1
  <1>3. /\ \A u \in Tables \ {t} : collected'[u] = collected[u]
        /\ a.op # "insert" => collected'[t] = <<>>
        /\ a.op = "insert" => collected' = collected /\ (k \notin partial => table[N][k] = None)
        /\ a.table_id # 0 => a.op # "clear" /\ k \in partial
    BY ZenonT(60), <1>0, <1>1 DEF LTypes, OnTheWay, NewKey, OneTable
  <1>4. \A d \in Callers, u \in Tables : Passed(d, u) <=> d = c /\ a.table_id = 0 /\ u < t
    BY Zenon, <1>1, <1>2 DEF Passed
  <1>5. \A j \in Keys : NewRow(c, j) = RowAfter(N, a.op, k, row, j)
    BY Zenon DEF NewRow
  <1> HIDE DEF a, t, k, row
  <1>6. \A j \in Keys \ partial : table[t][j] # None => table[t][j] = table[N][j]
    <2>1. ~(t < t)
      <3>1. t \in Tables
        BY Zenon, <1>1
      <3> QED
        BY <3>1, TablesAssumption DEF Tables
    <2> QED
      BY ZenonT(60), <1>0, <1>1, <1>4, <2>1 DEF TablesAgree
  <1>7. \A j \in Keys \ partial : table'[t][j] # None => table'[t][j] = NewRow(c, j)
    <2> SUFFICES ASSUME NEW j \in Keys \ partial, table'[t][j] # None PROVE table'[t][j] = NewRow(c, j)
      BY Zenon
    <2>1. table'[t][j] = RowAfter(t, a.op, k, row, j)
      BY Zenon, <1>1
    <2>2. RowAfter(t, a.op, k, row, j) = RowAfter(N, a.op, k, row, j)
      <3>1. t \in Tables /\ k \in Keys /\ j \in Keys /\ (a.op = "insert" /\ j = k => table[N][k] = None)
        BY Zenon, <1>1, <1>3
      <3>2. (table[t][j] # None => table[t][j] = table[N][j]) /\ RowAfter(t, a.op, k, row, j) # None
        BY Zenon, <1>6, <2>1
      <3> QED
        BY SMTT(60), <3>1, <3>2, RowAfterAgrees
    <2> QED
      BY Zenon, <1>5, <2>1, <2>2
  <1>8. CASE t < N /\ a.table_id = 0
    <2>1. table'[N] = table[N] /\ t # N
      <3>1. ~(N < N)
        BY TablesAssumption
      <3>2. t # N
        BY Zenon, <1>8, <3>1
      <3> QED
        BY Zenon, <1>0, <1>1, <3>2
    <2>2. /\ pc'[c] \in {"lock", "apply"} /\ call'[c].at = t + 1 /\ call'[c].table_id = 0
          /\ call'[c].op = a.op /\ call'[c].keys = a.keys /\ call'[c].rows = a.rows
      BY ZenonT(60), <1>1, <1>8, <2>1
    <2>3. \A j \in Keys : NewRow(c, j)' = NewRow(c, j)
      BY Zenon, <2>1, <2>2, SameNewRow DEF a
    <2>4. \A d \in Callers, u \in Tables : Passed(d, u)' <=> d = c /\ (u < t \/ u = t)
      <3>1. \A u \in Tables : u < t + 1 <=> u < t \/ u = t
        <4>1. t \in Tables
          BY Zenon, <1>1
        <4> QED
          BY <4>1, TablesAssumption DEF Tables
      <3> QED
        BY Zenon, <1>2, <2>2, <3>1 DEF Passed
    <2>5. TablesAgree'
      <3>1. ASSUME NEW u \in Tables, NEW j \in Keys \ partial, table'[u][j] # None
            PROVE  /\ u < t \/ u = t => table'[u][j] = NewRow(c, j)
                   /\ ~(u < t \/ u = t) => table'[u][j] = table[N][j]
        <4>1. CASE u = t
          BY Zenon, <1>7, <3>1, <4>1
        <4>2. CASE u # t
          <5>1. table'[u] = table[u]
            BY Zenon, <1>1, <4>2
          <5>2. CASE u < t
            <6>1. Passed(c, u)
              BY Zenon, <1>4, <1>8, <5>2
            <6>2. table[u][j] # None => table[u][j] = NewRow(c, j)
              BY Zenon, <1>0, <6>1 DEF TablesAgree
            <6> QED
              BY Zenon, <3>1, <5>1, <5>2, <6>2
          <5>3. CASE ~(u < t)
            BY Zenon, <1>0, <1>4, <3>1, <4>2, <5>1, <5>3 DEF TablesAgree
          <5> QED
            BY Zenon, <5>2, <5>3
        <4> QED
          BY Zenon, <4>1, <4>2
      <3> QED
        BY Zenon, <1>10, <2>1, <2>3, <2>4, <3>1 DEF TablesAgree
    <2>6. OnTheWay'
      <3>1. \A u \in Tables : collected'[u] = collected[u] \/ collected'[u] = <<>>
        BY Zenon, <1>3
      <3>2. insert_data' = insert_data /\ copying' = copying
        BY Zenon, <1>1
      <3>3. \A u \in Tables : CollectedRows(u)' /\ CopiedRows(u)'
        BY Zenon, <1>0, <1>10, <2>1, <3>1, <3>2, OnTheWayKept DEF OnTheWay
      <3>4. \A u \in Tables : (u < t \/ u = t) /\ a.op # "insert" => collected'[u] = <<>> /\ copying[u] = {}
        BY ZenonT(60), <1>0, <1>1, <1>3, <1>4, <1>8 DEF OnTheWay, DroppedRows, a
      <3>5. \A d \in Callers, u \in Tables :
              Passed(d, u)' /\ call'[d].op # "insert" => collected'[u] = <<>> /\ copying'[u] = {}
        BY ZenonT(60), <1>1, <2>2, <2>4, <3>4
      <3>6. \A d \in Callers : pc'[d] \notin {"find", "auto_insert"}
        BY Zenon, <1>2, <2>2
      <3>7. \A d \in Callers : NewKey(d)' /\ OneTable(d)'
        <4>1. \A d \in Callers \ {c} : NewKey(d)' /\ OneTable(d)'
          BY Zenon, <1>2 DEF NewKey, OneTable
        <4>2. OneTable(c)'
          BY Zenon, <2>2 DEF OneTable
        <4>3. a.op = "insert" /\ k \in Keys \ partial => table[N][k] = None
          BY Zenon, <1>3
        <4>4. NewKey(c)'
          <5>1. call'[c].keys[1] = k
            BY Zenon, <2>2 DEF k
          <5> QED
            BY Zenon, <1>10, <2>1, <2>2, <4>3, <5>1 DEF NewKey
        <4> QED
          BY Zenon, <4>1, <4>2, <4>4
      <3> QED
        BY Zenon, <3>3, <3>5, <3>6, <3>7 DEF OnTheWay, FoundRows, DroppedRows
    <2> QED
      BY <2>5, <2>6
  <1>9. CASE t = N /\ a.table_id = 0
    <2>1. \A d \in Callers : pc'[d] = "idle"
      <3>1. ~(N < N)
        BY TablesAssumption
      <3> QED
        BY Zenon, <1>1, <1>2, <1>9, <3>1
    <2>2. \A d \in Callers, u \in Tables : ~Passed(d, u)'
      BY Zenon, <2>1 DEF Passed
    <2>3. \A j \in Keys : table'[N][j] = NewRow(c, j)
      BY Zenon, <1>0, <1>1, <1>5, <1>9
    <2>4. \A u \in Tables \ {N} : u < t
      BY <1>9, TablesAssumption DEF Tables
    <2>5. TablesAgree'
      <3>1. \A u \in Tables, j \in Keys \ partial : table'[u][j] # None => table'[u][j] = NewRow(c, j)
        <4> SUFFICES ASSUME NEW u \in Tables, NEW j \in Keys \ partial, table'[u][j] # None PROVE table'[u][j] = NewRow(c, j)
          BY Zenon
        <4>1. CASE u = t
          BY Zenon, <1>7, <4>1
        <4>2. CASE u # t
          <5>1. table'[u] = table[u] /\ Passed(c, u)
            BY Zenon, <1>1, <1>4, <1>9, <2>4, <4>2
          <5> QED
            BY Zenon, <1>0, <5>1 DEF TablesAgree
        <4> QED
          BY Zenon, <4>1, <4>2
      <3> QED
        BY Zenon, <1>10, <2>2, <2>3, <3>1 DEF TablesAgree
    <2>6. CASE a.op # "insert"
      <3>1. \A u \in Tables : collected'[u] = <<>> /\ copying[u] = {}
        BY ZenonT(60), <1>0, <1>1, <1>3, <1>4, <1>9, <2>4, <2>6 DEF OnTheWay, DroppedRows, a
      <3>2. copying' = copying /\ DOMAIN <<>> = {}
        <4>1. DOMAIN <<>> = {}
          OBVIOUS
        <4> QED
          BY Zenon, <1>1, <4>1
      <3>3. \A u \in Tables : CollectedRows(u)' /\ CopiedRows(u)'
        BY Zenon, <3>1, <3>2 DEF CollectedRows, CopiedRows
      <3> QED
        BY Zenon, <2>1, <2>2, <2>5, <3>3 DEF OnTheWay, FoundRows, NewKey, OneTable, DroppedRows
    <2>7. CASE a.op = "insert"
      <3>1. ASSUME NEW j \in Keys \ partial, table[N][j] # None PROVE table'[N][j] = table[N][j]
        BY Zenon, <1>3, <2>3, <2>7, <3>1, InsertNewRow DEF a, k
      <3>2. ASSUME NEW u \in Tables, NEW i, NEW j, Current(u, i, j) PROVE Current(u, i, j)'
        BY Zenon, <1>1, <1>10, <3>1, <3>2 DEF Current
      <3> QED
        <4>1. copying' = copying /\ collected' = collected
          BY Zenon, <1>1, <1>3, <2>7
        <4>2. \A u \in Tables : CollectedRows(u)' /\ CopiedRows(u)'
          BY Zenon, <1>0, <3>2, <4>1 DEF OnTheWay, CollectedRows, CopiedRows
        <4> QED
          BY Zenon, <2>1, <2>2, <2>5, <4>2 DEF OnTheWay, FoundRows, NewKey, OneTable, DroppedRows
    <2> QED
      BY Zenon, <2>6, <2>7
  <1>11. CASE a.table_id # 0
    <2>1. \A d \in Callers : pc'[d] = "idle"
      BY Zenon, <1>1, <1>2, <1>11
    <2>2. \A d \in Callers, u \in Tables : ~Passed(d, u) /\ ~Passed(d, u)'
      BY Zenon, <1>4, <1>11, <2>1 DEF Passed
    <2>3. ASSUME NEW j \in Keys \ partial PROVE RowAfter(t, a.op, k, row, j) = table[t][j]
      <3>1. j # k /\ a.op # "clear"
        BY Zenon, <1>3, <1>11
      <3> QED
        BY <3>1, OtherKeyKept
    <2>4. \A u \in Tables, j \in Keys \ partial :
             table'[u][j] = table[u][j] \/ (u \in MayEvict /\ table'[u][j] = None)
      <3>1. \A u \in Tables \ {t} : table'[u] = table[u]
        BY Zenon, <1>1
      <3>2. \A j \in Keys : (t \in MayEvict /\ table'[t][j] = None) \/ table'[t][j] = RowAfter(t, a.op, k, row, j)
        BY Zenon, <1>1
      <3> QED
        BY Zenon, <2>3, <3>1, <3>2
    <2>5. \A j \in Keys \ partial : table'[N][j] = table[N][j]
      BY Zenon, <1>0, <2>4
    <2>6. TablesAgree'
      <3> SUFFICES ASSUME NEW u \in Tables, NEW j \in Keys \ partial, table'[u][j] # None
                   PROVE  table'[u][j] = table[N][j]
        BY Zenon, <1>10, <2>2, <2>5 DEF TablesAgree
      <3>1. table'[u][j] = table[u][j]
        BY Zenon, <2>4
      <3> QED
        BY Zenon, <1>0, <2>2, <3>1 DEF TablesAgree
    <2>7. \A u \in Tables : CollectedRows(u)' /\ CopiedRows(u)'
      <3>1. \A u \in Tables : collected'[u] = collected[u] \/ collected'[u] = <<>>
        BY Zenon, <1>3
      <3>2. insert_data' = insert_data /\ copying' = copying
        BY Zenon, <1>1
      <3> QED
        BY Zenon, <1>0, <1>10, <2>5, <3>1, <3>2, OnTheWayKept DEF OnTheWay
    <2> QED
      BY Zenon, <2>1, <2>2, <2>6, <2>7 DEF OnTheWay, FoundRows, NewKey, OneTable, DroppedRows
  <1>12. t < N \/ t = N
    <2>1. t \in Tables
      BY Zenon, <1>1
    <2> QED
      BY <2>1, TablesAssumption DEF Tables
  <1> QED
    BY Zenon, <1>8, <1>9, <1>11, <1>12

LEMMA StepAgrees ==
    ASSUME OneWriter, CInv, [Next]_vars
    PROVE  CInv'
PROOF
  <1>1. RowsInv'
    BY Zenon, Writers, StepRows
  <1>2. CASE UNCHANGED vars
    <2>1. UNCHANGED <<table, collected, insert_data, copying, pc, call, partial>>
      BY Zenon, <1>2 DEF vars, handlerVars
    <2>2. \A c \in Callers, k \in Keys : NewRow(c, k)' = NewRow(c, k)
      BY Zenon, <2>1, SameNewRow
    <2>3. TablesAgree' /\ OnTheWay'
      <3>1. /\ table' = table /\ collected' = collected /\ insert_data' = insert_data /\ copying' = copying
            /\ pc' = pc /\ call' = call /\ partial' = partial
        BY Zenon, <2>1
      <3>2. \A c \in Callers, t \in Tables : Passed(c, t)' <=> Passed(c, t)
        BY Zenon, <3>1 DEF Passed
      <3>3. TablesAgree'
        <4> SUFFICES ASSUME NEW t \in Tables, NEW k \in Keys \ partial, table[t][k] # None
                     PROVE  /\ \A c \in Callers : Passed(c, t)' => table[t][k] = NewRow(c, k)'
                            /\ (\A c \in Callers : ~Passed(c, t)') => table[t][k] = table[N][k]
          BY Zenon, <3>1 DEF TablesAgree
        <4>1. /\ \A c \in Callers : Passed(c, t) => table[t][k] = NewRow(c, k)
              /\ (\A c \in Callers : ~Passed(c, t)) => table[t][k] = table[N][k]
          BY Zenon DEF CInv, TablesAgree
        <4> QED
          BY Zenon, <2>2, <3>2, <4>1
      <3>4. OnTheWay'
        BY Zenon, <3>1, <3>2, OnTheWayKept DEF CInv, OnTheWay, NewKey, OneTable, DroppedRows
      <3> QED
        BY Zenon, <3>3, <3>4
    <2> QED
      BY Zenon, <1>1, <2>3 DEF CInv
  <1>3. ASSUME NEW c \in Callers, CallerNext(c) PROVE TablesAgree' /\ OnTheWay'
    BY Zenon, <1>3, StartAgrees, FindAgrees, PassAgrees, CollectsAgrees, ApplyAgrees DEF CallerNext
  <1>4. ASSUME NEW c \in Callers, AutoInsertThrows(c) \/ ModifyThrows(c) PROVE TablesAgree' /\ OnTheWay'
    BY Zenon, <1>4, PassAgrees DEF ModifyThrows, OneWriter
  <1>5. ASSUME NEW t \in Tables, TaskInserts(t) \/ TaskEnds(t) \/ TaskThrows(t) \/ CopyRows(t)
        PROVE  TablesAgree' /\ OnTheWay'
    BY Zenon, <1>5, TaskAgrees
  <1>6. ASSUME Next PROVE TablesAgree' /\ OnTheWay'
    BY <1>3, <1>4, <1>5, <1>6, Zenon DEF Next, HostNext
  <1> QED
    BY Zenon, <1>1, <1>2, <1>6 DEF CInv

(***************************************************************************)
(* When nothing is going on, every row an upper table holds is the one the *)
(* backing store holds, and so is every row a handler has collected: what  *)
(* auto-insert brings up while the tables are modified one after the other *)
(* is never older than what the modify left behind.  unlock_modify makes   *)
(* this so by dropping the collection, and insert, which takes no lock, by *)
(* being called only for keys no table has.  One call at a time; no        *)
(* exceptions; the backing store evicts nothing; the outputs are combined  *)
(* where they are collected.  Keys modified in one table only (table_id)   *)
(* are left to the caller, as are their rows.                              *)
(***************************************************************************)
THEOREM LayerCoherent ==
    ASSUME OneWriter
    PROVE  Spec => [](Coherent /\ CollectedIsCurrent)
PROOF
  <1>1. Init => CInv
    BY Zenon, InitLInv, InitRows, InitAgrees DEF CInv, RowsInv
  <1>2. CInv /\ [Next]_vars => CInv'
    BY Zenon, StepAgrees
  <1>3. CInv => Coherent /\ CollectedIsCurrent
    <2> SUFFICES ASSUME CInv PROVE Coherent /\ CollectedIsCurrent
      BY Zenon
    <2>1. TablesAgree /\ OnTheWay
      BY Zenon DEF CInv
    <2>2. Coherent
      BY Zenon, <2>1 DEF Coherent, Quiet, TablesAgree, Passed
    <2>3. CollectedIsCurrent
      <3>1. \A t \in Tables : \A i \in DOMAIN collected[t] : collected[t][i] = InvalidKey \/ collected[t][i] \in Keys
        <4>1. \A t \in Tables : collected[t] \in Seq(Collectable)
          BY Zenon DEF CInv, RowsInv, LInv, LTypes
        <4> QED
          BY <4>1 DEF Collectable
      <3> QED
        BY Zenon, <2>1, <3>1 DEF CollectedIsCurrent, OnTheWay, CollectedRows, Current
    <2> QED
      BY Zenon, <2>2, <2>3
  <1> QED
    BY <1>1, <1>2, <1>3, PTL DEF Spec
===============================================================================
