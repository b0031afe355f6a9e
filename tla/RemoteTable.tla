---------------------------- MODULE RemoteTable ----------------------------
(***************************************************************************)
(* What the Redis and the RocksDB table have in common: the rows are in a  *)
(* database that executes one command at a time (a Redis command, a        *)
(* RocksDB WriteBatch or MultiGet), a call is split into tasks, a task     *)
(* into batches of at most max_batch_size keys, and update and             *)
(* update_accumulate first find_ their keys, then write the ones found.    *)
(* Commands of different tasks, callers and processes interleave.          *)
(*                                                                         *)
(* A row is a version.  db[k] is the row of key k, None without one, or    *)
(* Stamp or Count where a command meant for metadata wrote a time or a     *)
(* number in a row's place.                                                *)
(***************************************************************************)
EXTENDS Integers, Sequences, FiniteSets

CONSTANTS Keys, Callers, MaxVersion,
          Tasks,               \* 0 .. the largest number of tasks of a call - 1
          Setups,              \* the tables and their uses; a behaviour has one
          NumBits,             \* bits of a mask word
          Stamp, Count, None

(* What the configurations of the tables must satisfy; find_ needs batches   *)
(* that hold a word of the mask.                                             *)
SetupsOK ==
  \A s \in Setups :
    /\ s.max_batch_size \in Nat /\ s.max_batch_size >= NumBits
    /\ s.num_partitions \in Nat /\ 0 .. s.num_partitions - 1 \subseteq Tasks
    /\ s.part_of \in [Keys -> Tasks]
    /\ s.callers \subseteq Callers /\ s.batches \subseteq Seq(Keys) /\ s.max_calls \in Nat

VARIABLES setup,
          db,              \* the database
          call, task,      \* the call of each caller, and its tasks
          hit_mask, rows, hits, \* what find_ fills in
          made,            \* calls made so far
          seen             \* history: the <<key, row>> pairs there were since the call began

outputs == <<hit_mask, rows, hits>>
vars == <<setup, db, call, task, outputs, made, seen>>

Versions == 0 .. MaxVersion
ModifyOps == {"insert", "update", "update_accumulate", "erase", "clear"}
Looks(op) == op \in {"find", "update", "update_accumulate"}

NoCall == [op |-> "none", keys |-> <<>>, version |-> 0, mask |-> {}, stage |-> "none"]
NoTask == [at |-> "run", todo |-> {}, batch |-> {}, loaded |-> {}, victims |-> {}]

Init ==
  /\ setup \in Setups
  /\ db = [k \in Keys |-> None]
  /\ call = [c \in Callers |-> NoCall]
  /\ task = [c \in Callers |-> [t \in Tasks |-> NoTask]]
  /\ hit_mask = [c \in Callers |-> {}]
  /\ rows = [c \in Callers |-> <<>>]
  /\ hits = [c \in Callers |-> 0]
  /\ made = 0
  /\ seen = [c \in Callers |-> {}]

Present == {k \in Keys : db[k] # None}
Content(d) == {<<k, d[k]>> : k \in Keys}
Observe == seen' = [c \in Callers |-> IF call[c].op = "none" THEN {} ELSE seen[c] \union Content(db')]

KeysAt(c, S) == {call[c].keys[i] : i \in S}
Step(c, t, r) == task' = [task EXCEPT ![c][t] = r]

----------------------------------------------------------------------------
(* The split of a call into tasks *)

SplitByHash == setup.mode = "hashes"      \* one Redis hash per partition
SplitByRange == setup.mode = "strings"    \* plain strings: num_partitions only splits the work
NumTasks == IF setup.num_partitions > 1 THEN setup.num_partitions ELSE 1

Minimum(a, b) == IF a < b THEN a ELSE b
Chunk(n) == (((n + NumTasks - 1) \div NumTasks + NumBits - 1) \div NumBits) * NumBits

task_range(n, t) ==
  LET lo == Minimum(t * Chunk(n), n)
  IN  lo + 1 .. Minimum(lo + Chunk(n), n)

(* The positions of the keys ks that task t works on. *)
Share(ks, t) ==
  IF t >= NumTasks THEN {}
  ELSE IF SplitByHash THEN {i \in DOMAIN ks : setup.part_of[ks[i]] = t}
  ELSE task_range(Len(ks), t)

Tasked(ks, S) == [t \in Tasks |-> [NoTask EXCEPT !.todo = Share(ks, t) \cap S]]

(* clear is one task, or one for each hash. *)
Initially(op, ks, S) ==
  IF op = "clear" /\ ~SplitByHash
  THEN [t \in Tasks |-> [NoTask EXCEPT !.todo = IF t = 0 THEN S ELSE {}]]
  ELSE Tasked(ks, S)

(* The keys in some order. *)
EveryKey == CHOOSE ks \in [1 .. Cardinality(Keys) -> Keys] : \A i, j \in DOMAIN ks : ks[i] = ks[j] => i = j

(* A call begins.  With setup.serial the callers do not overlap modify calls. *)
Begin(c) ==
  /\ call[c] = NoCall /\ c \in setup.callers /\ made < setup.max_calls
  /\ \E op \in setup.ops, v \in setup.versions :
     \E ks \in IF op = "clear" THEN {EveryKey} ELSE setup.batches :
     \E mask \in IF op = "find" THEN {m \cap DOMAIN ks : m \in setup.masks} ELSE {{}} :
       /\ op \in ModifyOps /\ setup.serial => \A d \in Callers : call[d].op \notin ModifyOps
       /\ op \in {"insert", "update"} \/ v = 0
       /\ call' = [call EXCEPT ![c] = [op |-> op, keys |-> ks, version |-> v, mask |-> mask,
                                       stage |-> IF Looks(op) THEN "look" ELSE "write"]]
       /\ task' = [task EXCEPT ![c] = Initially(op, ks, DOMAIN ks \ mask)]
       /\ hit_mask' = [hit_mask EXCEPT ![c] = mask]
       /\ rows' = [rows EXCEPT ![c] = [i \in DOMAIN ks |-> None]]
  /\ hits' = [hits EXCEPT ![c] = 0]
  /\ made' = made + 1
  /\ seen' = [seen EXCEPT ![c] = Content(db)]
  /\ UNCHANGED db

(* A task with nothing left to do and no command on its way. *)
Over(c, t) == task[c][t] = NoTask

Return(c) ==
  /\ call[c] # NoCall
  /\ call[c].stage = "write" \/ call[c].op = "find"
  /\ \A t \in Tasks : Over(c, t)
  /\ call' = [call EXCEPT ![c] = NoCall]
  /\ rows' = [rows EXCEPT ![c] = IF call[c].op = "find" THEN @ ELSE <<>>]
  /\ hits' = [hits EXCEPT ![c] = IF call[c].op = "find" THEN @ ELSE 0]
  /\ hit_mask' = [hit_mask EXCEPT ![c] = IF call[c].op = "find" THEN @ ELSE {}]
  /\ seen' = [seen EXCEPT ![c] = {}]
  /\ UNCHANGED <<db, task, made>>

----------------------------------------------------------------------------
(* find_ *)

Word(i) == (i - 1) \div NumBits
InWords(S, n) == {i \in 1 .. n : \E j \in S : Word(i) = Word(j)}

(* A batch of keys is looked up by one command.  The code fills it with      *)
(* whole words of the mask in their order; which keys make up a batch is     *)
(* left open.                                                                *)
Look(c, t) ==
  /\ call[c].stage = "look" /\ task[c][t].at = "run"
  /\ \E S \in SUBSET task[c][t].todo \ {{}} :
       LET found == {i \in S : db[call[c].keys[i]] # None} IN
       /\ Cardinality(S) <= setup.max_batch_size
       /\ rows' = [rows EXCEPT ![c] = [i \in DOMAIN @ |->
                     IF i \in found THEN db[call[c].keys[i]] ELSE @[i]]]
       /\ Step(c, t, [task[c][t] EXCEPT !.at = "settle", !.todo = @ \ S, !.batch = found,
                        !.loaded = hit_mask[c] \cap InWords(found, Len(call[c].keys))])
  /\ UNCHANGED <<db, call, hit_mask, hits, made, seen>>

(* The words with hits after the reply: tasks that share words join them     *)
(* atomically, the others load and store them.                               *)
Marked(c, t) ==
  LET found == task[c][t].batch IN
  IF SplitByHash THEN hit_mask[c] \union found
  ELSE (hit_mask[c] \ InWords(found, Len(call[c].keys))) \union task[c][t].loaded \union found

(* The caller of find_ goes on with the keys it found. *)
WriteFound(c) ==
  /\ call[c].stage = "look" /\ call[c].op # "find"
  /\ \A t \in Tasks : Over(c, t)
  /\ call' = [call EXCEPT ![c].stage = "write"]
  /\ task' = [task EXCEPT ![c] = Tasked(call[c].keys, hit_mask[c])]
  /\ UNCHANGED <<db, outputs, made, seen>>

----------------------------------------------------------------------------
(* Batches of the modify operations *)

(* The next batch of a task: its first max_batch_size keys. *)
Batch(c, t) ==
  LET todo == task[c][t].todo
  IN  {i \in todo : Cardinality({j \in todo : j < i}) < setup.max_batch_size}

Plus(r) == IF r \in Versions THEN (r + 1) % (MaxVersion + 1) ELSE r

RowFor(c, i) == IF call[c].op = "update_accumulate" THEN Plus(rows[c][i]) ELSE call[c].version

(* The last of several equal keys of a batch counts. *)
Written(c, S) ==
  [k \in Keys |-> IF k \in KeysAt(c, S)
                  THEN RowFor(c, CHOOSE i \in S : /\ call[c].keys[i] = k
                                                  /\ \A j \in S : call[c].keys[j] = k => j <= i)
                  ELSE db[k]]

Without(ks) == [k \in Keys |-> IF k \in ks THEN None ELSE db[k]]

(* Whether task t of c is about to send its next batch of one of the ops. *)
Sends(c, t, ops) ==
  /\ call[c].stage = "write" /\ call[c].op \in ops
  /\ task[c][t].at = "run" /\ task[c][t].todo # {}

Quiet == made = setup.max_calls /\ (\A c \in Callers : call[c] = NoCall) /\ UNCHANGED vars

----------------------------------------------------------------------------
(* As the abstract table sees it *)

Busy(c) == call[c] # NoCall

AbsCall == [c \in Callers |->
  [op |-> call[c].op, keys |-> call[c].keys, version |-> call[c].version, mask |-> call[c].mask]]

Pending(c) ==
  IF call[c].op \notin ModifyOps THEN {}
  ELSE (UNION {task[c][t].todo : t \in Tasks}) \union
       (IF call[c].stage = "look" THEN hit_mask[c] \union (UNION {task[c][t].batch : t \in Tasks}) ELSE {})

AbsTodo == [c \in Callers |-> [k \in Keys |-> Cardinality({i \in Pending(c) : call[c].keys[i] = k})]]

AbsAnswer == [c \in Callers |->
  IF Busy(c) THEN [rows |-> <<>>, mask |-> {}, hits |-> 0]
  ELSE [rows |-> rows[c], mask |-> hit_mask[c], hits |-> hits[c]]]
============================================================================
