------------------------- MODULE PartitionedTable -------------------------
(***************************************************************************)
(* The calls of the in-memory host tables (STLContainerTable and           *)
(* NvhmMapTable), whose map is split into partitions.  Every operation is  *)
(* an execute_n of tasks that take the partition's read_write lock for     *)
(* their whole run: modify operations have one exclusive task per          *)
(* partition, find has several shared ones, each for a range of the hit    *)
(* mask's words.  The tasks of a call, and of the calls of different       *)
(* threads, run in any order.                                              *)
(***************************************************************************)
EXTENDS Integers, Sequences, FiniteSets, FiniteSetsExt

CONSTANTS Keys, Callers, MaxVersion,
          NumPartitions,
          Setups,              \* the tables and their uses; a behaviour has one, chosen at the start
          NumBits,             \* bits of a mask word
          MaxFindTaskSize,     \* words of a find task
          None

Parts == 0 .. NumPartitions - 1
Versions == 0 .. MaxVersion
Operations == {"insert", "update", "update_accumulate", "erase", "clear", "find"}

(* What the configurations of the tables must satisfy. *)
SetupsOK ==
  \A s \in Setups :
    /\ s.part_of \in [Keys -> Parts]
    /\ s.overflow_margin \in Nat /\ s.resolution_margin \in 0 .. s.overflow_margin
    /\ s.callers \subseteq Callers /\ s.batches \subseteq Seq(Keys) /\ s.max_calls \in Nat
    /\ s.ops \subseteq Operations /\ s.versions \subseteq Versions
ConfigOK ==
  /\ NumPartitions \in Nat \ {0}
  /\ {NumBits, MaxFindTaskSize} \subseteq Nat \ {0}
  /\ IsFiniteSet(Keys) /\ MaxVersion \in Nat

VARIABLES setup,
          call,            \* the call each caller makes
          at,              \* the step each task of a call is at; 0 before it starts
          hit_mask, rows,  \* the outputs of find
          hits,            \* total_num_hits
          made,            \* calls made so far
          seen             \* history: the <<key, row>> pairs there were since the call began

outputs == <<hit_mask, rows, hits>>

PartOf == setup.part_of                       \* the partitioner
OverflowMargin == setup.overflow_margin
ResolutionMargin == setup.resolution_margin   \* overflow_margin * resolution_margin, truncated

MaskSize(n) == (n + NumBits - 1) \div NumBits
TasksPerPart(n) == (MaskSize(n) + MaxFindTaskSize - 1) \div MaxFindTaskSize
Batches == UNION {s.batches : s \in Setups}
MaxBatch == CHOOSE n \in {Len(b) : b \in Batches} : \A b \in Batches : Len(b) <= n
(* There is a batch, and none is larger than the largest. *)
BatchesOK == MaxBatch \in Nat \ {0} /\ \A b \in Batches : Len(b) <= MaxBatch

Tasks == Parts \X (0 .. TasksPerPart(MaxBatch) - 1)
NoCall == [op |-> "none", keys |-> <<>>, version |-> 0, mask |-> {}]

InitCalls ==
  /\ setup \in Setups
  /\ call = [c \in Callers |-> NoCall]
  /\ at = [c \in Callers |-> [t \in Tasks |-> 0]]
  /\ hit_mask = [c \in Callers |-> {}]
  /\ rows = [c \in Callers |-> <<>>]
  /\ hits = [c \in Callers |-> 0]
  /\ made = 0
  /\ seen = [c \in Callers |-> {}]

Content(table) == {<<k, table[k]>> : k \in Keys}
Observe(table) == seen' = [c \in Callers |-> IF call[c] = NoCall THEN {} ELSE seen[c] \union Content(table)]

IsFind(c) == call[c].op = "find"
TasksOf(c) ==
  IF IsFind(c) THEN Parts \X (0 .. TasksPerPart(Len(call[c].keys)) - 1) ELSE Parts \X {0}

(* The first position from i on whose key belongs to partition p, or the end. *)
PositionFrom(c, p, i) ==
  LET own == {j \in i .. Len(call[c].keys) : PartOf[call[c].keys[j]] = p}
  IN  IF own = {} THEN Len(call[c].keys) + 1 ELSE Min(own)

TaskSize(c, t) ==
  LET left == MaskSize(Len(call[c].keys)) - MaxFindTaskSize * t[2]
  IN  IF left < MaxFindTaskSize THEN left ELSE MaxFindTaskSize

Steps(c, t) ==
  CASE IsFind(c) -> TaskSize(c, t)
    [] call[c].op = "clear" -> 1
    [] OTHER -> Len(call[c].keys)

(* The first step from i on: a modify task skips the keys of other parts. *)
StepFrom(c, t, i) == IF call[c].op \in {"find", "clear"} THEN i ELSE PositionFrom(c, t[1], i)

Running(c, t) == at[c][t] \in 1 .. Steps(c, t)

(* The keys in some order. *)
EveryKey == CHOOSE ks \in [1 .. Cardinality(Keys) -> Keys] : IsInjective(ks)

(* A call begins: n keys, and for find the hits other tables already had.   *)
(* table is the content of the table.                                       *)
BeginCall(c, table) ==
  /\ call[c] = NoCall /\ c \in setup.callers /\ made < setup.max_calls
  /\ \E op \in setup.ops, v \in setup.versions :
     \E ks \in IF op = "clear" THEN {EveryKey} ELSE setup.batches :
     \E mask \in IF op = "find" THEN {m \cap DOMAIN ks : m \in setup.masks} ELSE {{}} :
       /\ op \in {"insert", "update"} \/ v = 0
       /\ call' = [call EXCEPT ![c] = [op |-> op, keys |-> ks, version |-> v, mask |-> mask]]
       /\ hit_mask' = [hit_mask EXCEPT ![c] = mask]
       /\ rows' = [rows EXCEPT ![c] = IF op = "find" THEN [i \in DOMAIN ks |-> None] ELSE <<>>]
  /\ at' = [at EXCEPT ![c] = [t \in Tasks |-> 0]]
  /\ hits' = [hits EXCEPT ![c] = 0]
  /\ made' = made + 1
  /\ seen' = [seen EXCEPT ![c] = Content(table)]
  /\ UNCHANGED setup

(* Another task that runs on partition p, and whether it shares the lock. *)
Excluded_ByWriters(c, p) == \E d \in Callers : \E t \in Tasks : t[1] = p /\ Running(d, t) /\ ~IsFind(d)
Excluded(c, p) ==
  \E d \in Callers : \E t \in Tasks : t[1] = p /\ Running(d, t) /\ ~(IsFind(c) /\ IsFind(d))

(* A worker takes up a task and gets the partition's read_write lock. *)
TakeTask(c, t) ==
  /\ call[c] # NoCall /\ t \in TasksOf(c) /\ at[c][t] = 0
  /\ ~Excluded(c, t[1])
  /\ at' = [at EXCEPT ![c][t] = StepFrom(c, t, 1)]
  /\ UNCHANGED <<setup, call, outputs, made, seen>>

StepDone(c, t) == at' = [at EXCEPT ![c][t] = StepFrom(c, t, @ + 1)]

ReturnCall(c) ==
  /\ call[c] # NoCall
  /\ \A t \in TasksOf(c) : at[c][t] > Steps(c, t)
  /\ call' = [call EXCEPT ![c] = NoCall]
  /\ seen' = [seen EXCEPT ![c] = {}]
  /\ UNCHANGED <<setup, at, outputs, made>>

(* Tasks of the modify operations: one key per step, the lock is kept. *)
Key(c, t) == call[c].keys[at[c][t]]

ModifyStep(c, t, ops) ==
  /\ call[c].op \in ops /\ Running(c, t) /\ StepDone(c, t)
  /\ UNCHANGED <<setup, call, outputs, made>>

(* The parts are scattered across the words: each starts at another one. *)
Word(c, t) ==
  LET n == MaskSize(Len(call[c].keys))
  IN  (MaxFindTaskSize * t[2] + (n * t[1]) \div NumPartitions + at[c][t] - 1) % n

InWord(c, t) == {i \in 1 .. Len(call[c].keys) : (i - 1) \div NumBits = Word(c, t)}

Rest == made = setup.max_calls /\ \A c \in Callers : call[c] = NoCall

(* The variables of the calls hold values of their types. *)
CallsOK ==
  /\ setup \in Setups
  /\ hits \in [Callers -> 0 .. MaxBatch]
  /\ \A c \in Callers : hit_mask[c] \subseteq DOMAIN rows[c]

----------------------------------------------------------------------------
(* As the abstract table sees it *)

(* How often the call must still take effect on key k. *)
Left(c, k) ==
  LET t == <<PartOf[k], 0>>
      first == IF at[c][t] = 0 THEN 1 ELSE at[c][t]
  IN  IF call[c].op \in {"none", "find"} THEN 0
      ELSE IF call[c].op = "clear" THEN (IF at[c][t] <= 1 THEN 1 ELSE 0)
      ELSE Cardinality({i \in first .. Len(call[c].keys) : call[c].keys[i] = k})

AbsTodo == [c \in Callers |-> [k \in Keys |-> Left(c, k)]]

AbsAnswer == [c \in Callers |->
  IF call[c] # NoCall THEN [rows |-> <<>>, mask |-> {}, hits |-> 0]
  ELSE [rows |-> rows[c], mask |-> hit_mask[c], hits |-> hits[c]]]
============================================================================
