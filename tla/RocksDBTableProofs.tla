-------------------------- MODULE RocksDBTableProofs --------------------------
(***************************************************************************)
(* The RocksDB table implements the abstract Table: proved for any keys,   *)
(* callers, batches, versions, masks and batch size.  First the state of   *)
(* the abstract Table in terms of its own and what a step within a call is *)
(* to it, then the steps of find_, and then those of the modify calls.     *)
(***************************************************************************)
EXTENDS RocksDBTable, FiniteSetTheorems, TLAPS

T == INSTANCE Table WITH row <- db, call <- AbsCall, todo <- AbsTodo, answer <- AbsAnswer

(* What the callers of RocksDBTable see is a behaviour of the abstract table. *)
ImplementsTable == T!Spec

----------------------------------------------------------------------------
(* The split of a call *)

LEMMA RoundUp ==
  ASSUME NEW n \in Nat, NEW b \in Nat, b > 0
  PROVE  ((n + b - 1) \div b) * b >= n
PROOF
  <1> DEFINE m == n + b - 1
             q == m \div b
             r == m % b
  <1>1. m \in Nat /\ q \in Nat /\ r \in 0 .. b - 1 /\ m = (b * q) + r
    BY SMTT(30)
  <1>2. q * b = b * q
    BY <1>1
  <1> HIDE DEF q, r
  <1> QED
    BY <1>1, <1>2

(* The one task of a call has all its keys. *)
LEMMA WholeShare ==
  ASSUME FamilyOK, setup \in Setups, NEW ks \in Seq(Keys), NEW S
  PROVE  Tasked(ks, S)[0] = [NoTask EXCEPT !.todo = DOMAIN ks \cap S]
PROOF
  <1> DEFINE n == Len(ks)
  <1>1. setup.mode = "family" /\ setup.num_partitions = 0 /\ Tasks = {0} /\ NumBits \in Nat /\ NumBits > 0
    BY DEF FamilyOK
  <1>2. NumTasks = 1 /\ ~SplitByHash
    BY <1>1 DEF NumTasks, SplitByHash
  <1>3. n \in Nat /\ DOMAIN ks = 1 .. n
    OBVIOUS
  <1> HIDE DEF n
  <1>4. (n + 1 - 1) \div 1 = n
    BY <1>3
  <1>5. Chunk(n) = ((n + NumBits - 1) \div NumBits) * NumBits
    BY Zenon, <1>2, <1>4 DEF Chunk
  <1>6. Chunk(n) \in Nat /\ Chunk(n) >= n
    <2>1. (n + NumBits - 1) \div NumBits \in Nat
      BY <1>1, <1>3
    <2>2. ((n + NumBits - 1) \div NumBits) * NumBits \in Nat
      BY <1>1, <2>1
    <2> QED
      BY Zenon, <1>1, <1>3, <1>5, <2>2, RoundUp
  <1>7. task_range(n, 0) = 1 .. n
    <2>1. 0 * Chunk(n) = 0
      BY <1>6
    <2>2. Minimum(0, n) = 0 /\ Minimum(0 + Chunk(n), n) = n
      BY <1>3, <1>6 DEF Minimum
    <2> QED
      BY <2>1, <2>2 DEF task_range
  <1>8. Share(ks, 0) = DOMAIN ks
    BY <1>2, <1>3, <1>7 DEF Share, n
  <1> QED
    BY <1>1, <1>8, ZenonT(30) DEF Tasked

(* The sequence clear works on has every key, once. *)
LEMMA AllKeys ==
  ASSUME FamilyOK
  PROVE  /\ Distinct(EveryKey)
         /\ \A k \in Keys : \E i \in DOMAIN EveryKey : EveryKey[i] = k
PROOF
  <1> DEFINE n == Cardinality(Keys)
  <1>1. IsFiniteSet(Keys) /\ n \in Nat
    BY Zenon, FS_CardinalityType DEF FamilyOK
  <1>2. PICK f \in Bijection(1 .. n, Keys) : TRUE
    BY Zenon, <1>1, FS_CardinalityType DEF ExistsBijection
  <1>3. f \in [1 .. n -> Keys] /\ IsInjective(f)
    BY Zenon, <1>2 DEF Bijection, Injection
  <1> DEFINE ks == EveryKey
  <1>4. ks \in [1 .. n -> Keys] /\ IsInjective(ks)
    BY <1>3, ZenonT(30) DEF EveryKey, IsInjective
  <1> HIDE DEF ks
  <1>5. ks \in Injection(1 .. n, Keys)
    BY Zenon, <1>4 DEF Injection
  <1>6. Cardinality(1 .. n) = n
    BY <1>1, FS_Interval
  <1>7. ks \in Surjection(1 .. n, Keys)
    BY Zenon, <1>1, <1>5, <1>6, FS_Injection
  <1>8. \A k \in Keys : \E i \in DOMAIN ks : ks[i] = k
    BY Zenon, <1>4, <1>7 DEF Surjection
  <1>9. Distinct(ks)
    BY <1>1, <1>4 DEF Distinct, IsInjective
  <1> QED
    BY Zenon, <1>8, <1>9 DEF ks

(* How often a key occurs among positions of a call without repetitions. *)
LEMMA Occurs ==
  ASSUME NEW ks, Distinct(ks), NEW P, P \subseteq DOMAIN ks, NEW k
  PROVE  Cardinality({i \in P : ks[i] = k}) = IF \E i \in P : ks[i] = k THEN 1 ELSE 0
PROOF
  <1>1. CASE \E i \in P : ks[i] = k
    <2>1. PICK i \in P : ks[i] = k
      BY Zenon, <1>1
    <2>2. {j \in P : ks[j] = k} = {i}
      BY Zenon, <2>1 DEF Distinct
    <2> QED
      BY Zenon, <1>1, <2>2, FS_Singleton
  <1>2. CASE ~\E i \in P : ks[i] = k
    <2>1. {j \in P : ks[j] = k} = {}
      BY Zenon, <1>2
    <2> QED
      BY Zenon, <1>2, <2>1, FS_EmptySet
  <1> QED
    BY Zenon, <1>1, <1>2

----------------------------------------------------------------------------
(* The invariant *)

LEMMA InitInv ==
  ASSUME FamilyOK, Init
  PROVE  RInv
PROOF
  <1>1. Tasks = {0}
    BY Zenon DEF FamilyOK
  <1>2. NoTask \in TaskRecords
    BY Zenon DEF NoTask, TaskRecords
  <1>3. task \in [Callers -> [Tasks -> TaskRecords]]
    BY Zenon, <1>2 DEF Init
  <1>4. \A c \in Callers : CallerOK(c)
    BY Zenon, <1>1 DEF Init, CallerOK
  <1>5. rows \in [Callers -> Seq(Optional)] /\ hit_mask \in [Callers -> SUBSET Nat] /\ hits \in [Callers -> Int]
    BY DEF Init
  <1>6. \A c \in Callers : call[c].op \notin ModifyOps
    BY Zenon DEF Init, NoCall, ModifyOps
  <1> QED
    BY Zenon, <1>3, <1>4, <1>5, <1>6 DEF Init, RInv, RTypes, Optional

(* A step leaves alone what it does not change of caller d. *)
Untouched(d) ==
  /\ call'[d] = call[d] /\ task'[d] = task[d] /\ hit_mask'[d] = hit_mask[d] /\ rows'[d] = rows[d] /\ hits'[d] = hits[d]
  /\ IF call[d] = NoCall THEN seen'[d] = {} ELSE seen[d] \subseteq seen'[d] /\ Content(db)' \subseteq seen'[d]
  /\ db' = db \/ call[d].op \notin ModifyOps

LEMMA UntouchedInv ==
  ASSUME NEW d \in Callers, Untouched(d), CallerOK(d)
  PROVE  CallerOK(d)'
PROOF
  <1>1. CASE call[d] = NoCall
    BY Zenon, <1>1 DEF Untouched, CallerOK
  <1>2. CASE call[d] # NoCall
    <2>1. CallOK(call[d])' /\ (call[d].op \in {"update", "update_accumulate"} => db' = db)
      BY <1>2 DEF Untouched, CallerOK, CallOK, Distinct, ModifyOps
    <2>2. TaskOK(d)'
      BY Zenon, <1>2 DEF Untouched, CallerOK, TaskOK, InWords, Word
    <2>3. (call[d].stage = "look" => LookOK(d))'
      BY Zenon, <1>2 DEF Untouched, CallerOK, LookOK
    <2>4. (call[d].op \in {"update", "update_accumulate"} => FoundOK(d))'
      BY Zenon, <1>2, <2>1 DEF Untouched, CallerOK, FoundOK
    <2> QED
      BY Zenon, <1>2, <2>1, <2>2, <2>3, <2>4 DEF Untouched, CallerOK
  <1> QED
    BY Zenon, <1>1, <1>2

(* A step of caller c. *)
LEMMA OneCaller ==
  ASSUME RInv, RTypes', NEW c \in Callers, CallerOK(c)', \A d \in Callers \ {c} : Untouched(d),
         call'[c].op \in ModifyOps => \A d \in Callers \ {c} : call[d].op \notin ModifyOps
  PROVE  RInv'
PROOF
  <1>1. \A d \in Callers : CallerOK(d)'
    BY Zenon, UntouchedInv DEF RInv
  <1>2. \A d \in Callers \ {c} : call'[d] = call[d]
    BY Zenon DEF Untouched
  <1> QED
    BY Zenon, <1>1, <1>2 DEF RInv

(* The positions the abstract call must still take effect on, and its todo. *)
PendingAt(r, tk, mask) ==
  IF r.op \notin ModifyOps THEN {}
  ELSE tk.todo \union IF r.stage = "look" THEN mask \union tk.batch ELSE {}

Due(r, tk, mask) == [k \in Keys |-> IF \E i \in PendingAt(r, tk, mask) : r.keys[i] = k THEN 1 ELSE 0]

Todo == [c \in Callers |-> Due(call[c], task[c][0], hit_mask[c])]

LEMMA TodoIs ==
  ASSUME FamilyOK
  PROVE  RInv => AbsTodo = Todo
PROOF
  <1> SUFFICES ASSUME RInv, NEW c \in Callers, NEW k \in Keys
               PROVE  Cardinality({i \in Pending(c) : call[c].keys[i] = k})
                        = IF \E i \in PendingAt(call[c], task[c][0], hit_mask[c]) : call[c].keys[i] = k THEN 1 ELSE 0
    BY Zenon DEF AbsTodo, Todo, Due
  <1>1. Pending(c) = PendingAt(call[c], task[c][0], hit_mask[c])
    <2>1. Tasks = {0}
      BY Zenon DEF FamilyOK
    <2>2. (UNION {task[c][t].todo : t \in Tasks}) = task[c][0].todo
      BY Zenon, <2>1
    <2>3. (UNION {task[c][t].batch : t \in Tasks}) = task[c][0].batch
      BY Zenon, <2>1
    <2> QED
      BY <2>2, <2>3, ZenonT(30) DEF Pending, PendingAt
  <1>2. CASE call[c] = NoCall
    <2>1. PendingAt(call[c], task[c][0], hit_mask[c]) = {}
      BY <1>2 DEF PendingAt, NoCall, ModifyOps
    <2>2. {i \in Pending(c) : call[c].keys[i] = k} = {}
      BY Zenon, <1>1, <2>1
    <2> QED
      BY Zenon, <2>1, <2>2, FS_EmptySet
  <1>3. CASE call[c] # NoCall
    <2>1. Distinct(call[c].keys) /\ PendingAt(call[c], task[c][0], hit_mask[c]) \subseteq DOMAIN call[c].keys
      BY Zenon, <1>3 DEF RInv, CallerOK, CallOK, TaskOK, LookOK, PendingAt
    <2> QED
      BY <1>1, <2>1, Occurs, SMTT(30)
  <1> QED
    BY Zenon, <1>2, <1>3

LEMMA TodoNext ==
  ASSUME FamilyOK
  PROVE  RInv' => (AbsTodo = Todo)'
PROOF
  BY TodoIs, PTL

----------------------------------------------------------------------------
(* What the abstract table sees of a step *)

(* Callers the step leaves alone look the same. *)
AbsOf(r) == [op |-> r.op, keys |-> r.keys, version |-> r.version, mask |-> r.mask]
AnswerOf(r, rw, mask, n) ==
  IF r # NoCall THEN [rows |-> <<>>, mask |-> {}, hits |-> 0] ELSE [rows |-> rw, mask |-> mask, hits |-> n]

LEMMA AbsIs ==
  /\ AbsCall = [c \in Callers |-> AbsOf(call[c])]
  /\ AbsAnswer = [c \in Callers |-> AnswerOf(call[c], rows[c], hit_mask[c], hits[c])]
PROOF
  BY Zenon DEF AbsCall, AbsAnswer, AbsOf, AnswerOf, Busy

LEMMA AbsNext ==
  /\ AbsCall' = [c \in Callers |-> AbsOf(call'[c])]
  /\ AbsAnswer' = [c \in Callers |-> AnswerOf(call'[c], rows'[c], hit_mask'[c], hits'[c])]
PROOF
  BY Zenon DEF AbsCall, AbsAnswer, AbsOf, AnswerOf, Busy

(* The abstract state before and after a step of c that leaves the others alone. *)
LEMMA AbsStep ==
  ASSUME FamilyOK, RInv, RInv', NEW c \in Callers, \A d \in Callers \ {c} : Untouched(d)
  PROVE  /\ AbsCall' = [AbsCall EXCEPT ![c] = AbsOf(call'[c])]
         /\ AbsAnswer' = [AbsAnswer EXCEPT ![c] = AnswerOf(call'[c], rows'[c], hit_mask'[c], hits'[c])]
         /\ AbsTodo' = [AbsTodo EXCEPT ![c] = Due(call'[c], task'[c][0], hit_mask'[c])]
         /\ AbsCall[c] = AbsOf(call[c])
         /\ AbsAnswer[c] = AnswerOf(call[c], rows[c], hit_mask[c], hits[c])
         /\ AbsTodo[c] = Due(call[c], task[c][0], hit_mask[c])
PROOF
  <1>1. AbsTodo = Todo /\ AbsTodo' = Todo'
    BY Zenon, TodoIs, TodoNext
  <1>2. \A d \in Callers \ {c} : Due(call'[d], task'[d][0], hit_mask'[d]) = Due(call[d], task[d][0], hit_mask[d])
    BY Zenon DEF Untouched
  <1>3. Todo' = [Todo EXCEPT ![c] = Due(call'[c], task'[c][0], hit_mask'[c])]
    BY <1>2, ZenonT(30) DEF Todo
  <1>4. Todo[c] = Due(call[c], task[c][0], hit_mask[c])
    BY Zenon DEF Todo
  <1>5. AbsCall' = [AbsCall EXCEPT ![c] = AbsOf(call'[c])] /\ AbsCall[c] = AbsOf(call[c])
    BY Zenon, AbsIs, AbsNext DEF Untouched
  <1>6. AbsAnswer' = [AbsAnswer EXCEPT ![c] = AnswerOf(call'[c], rows'[c], hit_mask'[c], hits'[c])]
        /\ AbsAnswer[c] = AnswerOf(call[c], rows[c], hit_mask[c], hits[c])
    BY Zenon, AbsIs, AbsNext DEF Untouched
  <1> QED
    BY Zenon, <1>1, <1>3, <1>4, <1>5, <1>6

----------------------------------------------------------------------------
(* Counting *)

(* A set of positions is finite. *)
LEMMA FiniteMasks ==
  ASSUME NEW n \in Nat, NEW S, S \subseteq 1 .. n
  PROVE  IsFiniteSet(S) /\ Cardinality(S) \in Nat
PROOF
  <1>1. IsFiniteSet(1 .. n)
    BY FS_Interval
  <1>2. IsFiniteSet(S)
    BY <1>1, FS_Subset, ZenonT(30)
  <1> QED
    BY Zenon, <1>2, FS_CardinalityType

(* The abstract module counts the same way. *)
LEMMA SameCardinality == \A S : T!Cardinality(S) = Cardinality(S)
PROOF
  BY Zenon DEF T!Cardinality, Cardinality

----------------------------------------------------------------------------
(* Steps within a call *)

(* A step keeps the invariant and is a step of the abstract table. *)
Sound == RInv' /\ [T!Next]_(T!vars)

(* A step of c within its call, after which the call must still take effect *)
(* on the positions P.                                                      *)
Within(c, P) ==
  /\ RInv /\ RInv' /\ call[c] # NoCall /\ call'[c] = call[c]
  /\ \A d \in Callers \ {c} : Untouched(d)
  /\ PendingAt(call[c], task'[c][0], hit_mask'[c]) = P

LEMMA StutterStep ==
  ASSUME FamilyOK, NEW c \in Callers, Within(c, PendingAt(call[c], task[c][0], hit_mask[c])), UNCHANGED <<db, seen>>
  PROVE  UNCHANGED T!vars
PROOF
  <1>0. /\ RInv /\ RInv' /\ call[c] # NoCall /\ call'[c] = call[c] /\ \A d \in Callers \ {c} : Untouched(d)
        /\ PendingAt(call[c], task'[c][0], hit_mask'[c]) = PendingAt(call[c], task[c][0], hit_mask[c])
    BY Zenon DEF Within
  <1>1. AnswerOf(call'[c], rows'[c], hit_mask'[c], hits'[c]) = AnswerOf(call[c], rows[c], hit_mask[c], hits[c])
    BY Zenon, <1>0 DEF AnswerOf
  <1>2. Due(call'[c], task'[c][0], hit_mask'[c]) = Due(call[c], task[c][0], hit_mask[c])
    BY Zenon, <1>0 DEF Due
  <1>3. /\ AbsCall' = [AbsCall EXCEPT ![c] = AbsCall[c]] /\ AbsAnswer' = [AbsAnswer EXCEPT ![c] = AbsAnswer[c]]
        /\ AbsTodo' = [AbsTodo EXCEPT ![c] = AbsTodo[c]]
    BY <1>0, <1>1, <1>2, AbsStep
  <1>4. AbsCall' = AbsCall /\ AbsAnswer' = AbsAnswer /\ AbsTodo' = AbsTodo
    BY <1>3, ZenonT(30) DEF AbsCall, AbsAnswer, AbsTodo
  <1> QED
    BY Zenon, <1>4 DEF T!vars

(* The call takes effect on the keys at the positions D. *)
LEMMA ApplyStep ==
  ASSUME FamilyOK, NEW c \in Callers, call[c].op \in ModifyOps,
         NEW D, D \subseteq PendingAt(call[c], task[c][0], hit_mask[c]),
         Within(c, PendingAt(call[c], task[c][0], hit_mask[c]) \ D),
         db' = [k \in Keys |-> IF k \in KeysAt(c, D) THEN T!Effect(call[c].op, db[k], call[c].version) ELSE db[k]],
         seen' = [d \in Callers |-> IF call[d] = NoCall THEN seen[d] ELSE seen[d] \union Content(db')]
  PROVE  T!Apply(c)
PROOF
  <1> DEFINE P == PendingAt(call[c], task[c][0], hit_mask[c])
             ks == call[c].keys
             S == KeysAt(c, D)
             before == Due(call[c], task[c][0], hit_mask[c])
             after == Due(call'[c], task'[c][0], hit_mask'[c])
  <1>0. /\ RInv /\ RInv' /\ call[c] # NoCall /\ call'[c] = call[c] /\ \A d \in Callers \ {c} : Untouched(d)
        /\ PendingAt(call[c], task'[c][0], hit_mask'[c]) = P \ D
    BY Zenon DEF Within
  <1>1. P \subseteq DOMAIN ks /\ Distinct(ks)
    <2>1. CallOK(call[c]) /\ TaskOK(c) /\ (call[c].stage = "look" => LookOK(c))
      BY Zenon, <1>0 DEF RInv, CallerOK
    <2>2. Distinct(ks) /\ task[c][0].todo \subseteq DOMAIN ks
      BY Zenon, <2>1 DEF CallOK, TaskOK
    <2>3. call[c].stage = "look" => hit_mask[c] \subseteq DOMAIN ks /\ task[c][0].batch \subseteq DOMAIN ks
      BY Zenon, <2>1 DEF LookOK
    <2> QED
      BY Zenon, <2>2, <2>3 DEF PendingAt
  <1>2. ks \in Seq(Keys) /\ S \subseteq Keys
    BY <1>1 DEF Distinct, KeysAt
  <1>3. before = [k \in Keys |-> IF \E i \in P : ks[i] = k THEN 1 ELSE 0]
    BY Zenon DEF Due
  <1>4. after = [k \in Keys |-> IF \E i \in P \ D : ks[i] = k THEN 1 ELSE 0]
    BY Zenon, <1>0 DEF Due
  <1> HIDE DEF P, before, after, ks
  <1>5. \A k \in S : before[k] = 1 /\ after[k] = 0
    BY Zenon, <1>1, <1>2, <1>3, <1>4 DEF KeysAt, Distinct, P, ks
  <1>6. \A k \in Keys \ S : after[k] = before[k]
    BY Zenon, <1>3, <1>4 DEF KeysAt, ks
  <1>7. S \in SUBSET {k \in Keys : before[k] > 0}
    BY <1>2, <1>5
  <1>8. after = [k \in Keys |-> IF k \in S THEN before[k] - 1 ELSE before[k]]
    <2>1. after = [k \in Keys |-> after[k]]
      BY Zenon, <1>4
    <2> HIDE DEF S
    <2>2. \A k \in Keys : after[k] = IF k \in S THEN before[k] - 1 ELSE before[k]
      BY <1>5, <1>6, SMTT(30)
    <2> QED
      BY <2>1, <2>2, Zenon
  <1>9. /\ AbsCall' = [AbsCall EXCEPT ![c] = AbsOf(call'[c])] /\ AbsCall[c] = AbsOf(call[c])
        /\ AbsAnswer' = [AbsAnswer EXCEPT ![c] = AnswerOf(call'[c], rows'[c], hit_mask'[c], hits'[c])]
        /\ AbsAnswer[c] = AnswerOf(call[c], rows[c], hit_mask[c], hits[c])
        /\ AbsTodo' = [AbsTodo EXCEPT ![c] = after] /\ AbsTodo[c] = before
    BY Zenon, <1>0, AbsStep DEF before, after
  <1>10. AbsCall' = AbsCall /\ AbsAnswer' = AbsAnswer
    <2>1. AnswerOf(call'[c], rows'[c], hit_mask'[c], hits'[c]) = AnswerOf(call[c], rows[c], hit_mask[c], hits[c])
      BY Zenon, <1>0 DEF AnswerOf
    <2>2. AbsCall' = [AbsCall EXCEPT ![c] = AbsCall[c]] /\ AbsAnswer' = [AbsAnswer EXCEPT ![c] = AbsAnswer[c]]
      BY Zenon, <1>0, <1>9, <2>1
    <2> QED
      BY <2>2, ZenonT(30) DEF AbsCall, AbsAnswer
  <1>11. AbsCall[c].op = call[c].op /\ AbsCall[c].version = call[c].version
    BY <1>9, SMTT(30) DEF AbsOf
  <1>12. seen' = [d \in Callers |-> IF AbsCall[d] = T!Idle THEN seen[d] ELSE seen[d] \union T!Content(db')]
    <2>1. \A d \in Callers : AbsCall[d] = T!Idle <=> call[d] = NoCall
      <3>1. SUFFICES ASSUME NEW d \in Callers PROVE AbsCall[d] = T!Idle <=> call[d] = NoCall
        BY Zenon
      <3>2. AbsCall[d] = AbsOf(call[d])
        BY Zenon, AbsIs
      <3>3. call[d] # NoCall => call[d].op # "none"
        BY <1>0, ZenonT(30) DEF RInv, CallerOK, CallOK, ModifyOps
      <3> QED
        <4>1. AbsOf(NoCall) = T!Idle
          BY Zenon DEF AbsOf, T!Idle, NoCall
        <4>2. AbsCall[d].op = call[d].op /\ T!Idle.op = "none"
          BY <3>2 DEF AbsOf, T!Idle
        <4> QED
          BY ZenonT(60), <3>2, <3>3, <4>1, <4>2
    <2> QED
      BY Zenon, <2>1 DEF Content, T!Content
  <1>13. db' = [k \in Keys |-> IF k \in {} THEN None
                               ELSE IF k \in S THEN T!Effect(AbsCall[c].op, db[k], AbsCall[c].version)
                               ELSE db[k]]
    BY Zenon, <1>11
  <1>14. {} \in (IF AbsCall[c].op = "insert" THEN SUBSET Keys ELSE {{}}) /\ AbsCall[c].op \in T!Modifies
    BY Zenon, <1>11 DEF ModifyOps, T!Modifies
  <1>15. AbsTodo' = [AbsTodo EXCEPT ![c] = [k \in Keys |-> IF k \in S THEN AbsTodo[c][k] - 1 ELSE AbsTodo[c][k]]]
    BY Zenon, <1>8, <1>9
  <1>16. S \in SUBSET {k \in Keys : AbsTodo[c][k] > 0}
    BY Zenon, <1>7, <1>9
  <1> HIDE DEF S
  <1> QED
    BY <1>10, <1>12, <1>13, <1>14, <1>15, <1>16, ZenonT(30) DEF T!Apply

----------------------------------------------------------------------------
(* The begin of a call, and find_ *)

LEMMA BeginSound ==
  ASSUME FamilyOK, RInv, NEW c \in Callers, Begin(c), UNCHANGED setup
  PROVE  Sound
PROOF
  <1> DEFINE Starts(op, v, ks, mask) ==
        /\ op \in ModifyOps /\ setup.serial => \A d \in Callers : call[d].op \notin ModifyOps
        /\ op \in {"insert", "update"} \/ v = 0
        /\ call' = [call EXCEPT ![c] = [op |-> op, keys |-> ks, version |-> v, mask |-> mask,
                                        stage |-> IF Looks(op) THEN "look" ELSE "write"]]
        /\ task' = [task EXCEPT ![c] = Initially(op, ks, DOMAIN ks \ mask)]
        /\ hit_mask' = [hit_mask EXCEPT ![c] = mask]
        /\ rows' = [rows EXCEPT ![c] = [i \in DOMAIN ks |-> None]]
  <1>1. PICK op \in setup.ops, v \in setup.versions :
        \E ks \in IF op = "clear" THEN {EveryKey} ELSE setup.batches :
        \E mask \in IF op = "find" THEN {m \cap DOMAIN ks : m \in setup.masks} ELSE {{}} : Starts(op, v, ks, mask)
    BY ZenonT(30) DEF Begin
  <1>0. PICK ks \in IF op = "clear" THEN {EveryKey} ELSE setup.batches :
        \E mask \in IF op = "find" THEN {m \cap DOMAIN ks : m \in setup.masks} ELSE {{}} : Starts(op, v, ks, mask)
    BY <1>1, ZenonT(30)
  <1>2. PICK mask \in IF op = "find" THEN {m \cap DOMAIN ks : m \in setup.masks} ELSE {{}} : Starts(op, v, ks, mask)
    BY <1>0, ZenonT(30)
  <1>3. /\ call[c] = NoCall /\ hits' = [hits EXCEPT ![c] = 0] /\ seen' = [seen EXCEPT ![c] = Content(db)] /\ db' = db
    BY Zenon DEF Begin
  <1>4. /\ setup \in Setups /\ setup.serial /\ op \in ModifyOps \union {"find"} /\ v \in Versions /\ Tasks = {0}
    BY Zenon DEF RInv, RTypes, FamilyOK
  <1>5. Distinct(ks) /\ (op = "clear" => \A k \in Keys : \E i \in DOMAIN ks : ks[i] = k)
    BY Zenon, <1>4, AllKeys DEF FamilyOK
  <1>6. ks \in Seq(Keys) /\ mask \subseteq DOMAIN ks /\ (op # "find" => mask = {})
    BY <1>2, <1>5 DEF Distinct
  <1> DEFINE r == [op |-> op, keys |-> ks, version |-> v, mask |-> mask,
                   stage |-> IF Looks(op) THEN "look" ELSE "write"]
             n == DOMAIN ks
             tk == [NoTask EXCEPT !.todo = n \ mask]
  <1>7. Initially(op, ks, n \ mask)[0] = tk /\ Initially(op, ks, n \ mask) = [t \in Tasks |-> Initially(op, ks, n \ mask)[t]]
    <2>1. CASE op = "clear" /\ ~SplitByHash
      BY Zenon, <1>4, <2>1 DEF Initially
    <2>2. CASE ~(op = "clear" /\ ~SplitByHash)
      <3>1. Initially(op, ks, n \ mask) = Tasked(ks, n \ mask)
        BY Zenon, <2>2 DEF Initially
      <3>2. n \cap (n \ mask) = n \ mask
        BY Zenon
      <3>3. Tasked(ks, n \ mask) = [t \in Tasks |-> Tasked(ks, n \ mask)[t]]
        BY Zenon DEF Tasked
      <3> QED
        BY <1>4, <1>6, <3>1, <3>2, <3>3, WholeShare
    <2> QED
      BY Zenon, <2>1, <2>2
  <1>8. /\ tk.todo = n \ mask /\ tk.batch = {} /\ tk.loaded = {} /\ tk.at = "run" /\ tk \in TaskRecords
    <2>1. n \subseteq Nat
      BY <1>6
    <2> QED
      BY Zenon, <2>1 DEF NoTask, TaskRecords
  <1> HIDE DEF tk
  <1>9. /\ call'[c] = r /\ task'[c][0] = tk /\ hit_mask'[c] = mask /\ rows'[c] = [i \in n |-> None] /\ hits'[c] = 0
        /\ seen'[c] = Content(db)
    BY Zenon, <1>2, <1>3, <1>7 DEF RInv, RTypes
  <1>10. RTypes'
    <2>1. Initially(op, ks, n \ mask) \in [Tasks -> TaskRecords]
      BY Zenon, <1>4, <1>7, <1>8
    <2>2. task' \in [Callers -> [Tasks -> TaskRecords]]
      BY <1>2, <2>1, ZenonT(30) DEF RInv, RTypes
    <2>3. n = 1 .. Len(ks) /\ Len(ks) \in Nat /\ mask \in SUBSET Nat
      BY <1>6
    <2>4. [i \in n |-> None] \in Seq(Optional)
      BY <2>3 DEF Optional
    <2>5. rows' \in [Callers -> Seq(Optional)] /\ hit_mask' \in [Callers -> SUBSET Nat] /\ hits' \in [Callers -> Int]
      BY <1>2, <1>3, <2>3, <2>4 DEF RInv, RTypes
    <2>6. call' = [d \in Callers |-> call'[d]] /\ seen' = [d \in Callers |-> seen'[d]]
      BY <1>2, <1>3, ZenonT(30) DEF RInv, RTypes
    <2> QED
      BY Zenon, <1>3, <2>2, <2>5, <2>6 DEF RInv, RTypes
  <1>11. \A d \in Callers \ {c} : Untouched(d)
    BY Zenon, <1>2, <1>3 DEF RInv, RTypes, CallerOK, Untouched, Content
  <1>12. CallerOK(c)'
    <2>1. CallOK(r) /\ r # NoCall
      <3>1. r.op \in ModifyOps \union {"find"} /\ r.stage \in {"look", "write"} /\ r.mask \in SUBSET Nat
        BY <1>4, <1>6
      <3>2. r \in [op : ModifyOps \union {"find"}, keys : Seq(Keys), version : Versions, mask : SUBSET Nat,
                   stage : {"look", "write"}]
        BY Zenon, <1>4, <1>6, <3>1
      <3> QED
        BY Zenon, <1>4, <1>5, <1>6, <3>2 DEF CallOK, Looks, NoCall, ModifyOps
    <2>2. TaskOK(c)'
      <3>1. call'[c].keys = ks /\ call'[c].op = op /\ task'[c][0].todo = n \ mask
        BY <1>8, <1>9
      <3>2. n \ mask \subseteq n /\ (op = "clear" => n \ mask = n)
        BY <1>6, ZenonT(30)
      <3> QED
        BY <1>8, <1>9, <3>1, <3>2, ZenonT(30) DEF TaskOK
    <2>3. (call[c].stage = "look" => LookOK(c))'
      <3>1. Cardinality(mask) \in Nat
        BY SMTT(60), <1>6, FiniteMasks
      <3>2. DOMAIN rows'[c] = n /\ \A i \in n : rows'[c][i] = None
        BY Zenon, <1>9
      <3> QED
        BY <1>6, <1>8, <1>9, <3>1, <3>2 DEF LookOK
    <2>4. (call[c].op \in {"update", "update_accumulate"} => FoundOK(c))'
      BY <1>6, <1>8, <1>9 DEF FoundOK, Looks
    <2>5. Content(db)' = seen'[c]
      BY Zenon, <1>3, <1>9 DEF Content
    <2>6. CallOK(call[c])' /\ call'[c] # NoCall
      BY SMTT(60), <1>9, <2>1 DEF CallOK, Distinct
    <2> QED
      BY Zenon, <2>2, <2>3, <2>4, <2>5, <2>6 DEF CallerOK
  <1>13. call'[c].op \in ModifyOps => \A d \in Callers \ {c} : call[d].op \notin ModifyOps
    BY SMTT(60), <1>2, <1>4, <1>9
  <1>14. RInv'
    BY Zenon, <1>10, <1>11, <1>12, <1>13, OneCaller
  <1>15. r # NoCall /\ AbsOf(NoCall) = T!Idle /\ AbsOf(r) # T!Idle /\ AnswerOf(r, rows'[c], hit_mask'[c], hits'[c]) = T!NoAnswer
    BY Zenon, <1>4 DEF NoCall, ModifyOps, AbsOf, T!Idle, T!NoAnswer, AnswerOf
  <1>16. Due(r, tk, mask) = [k \in Keys |-> IF op = "find" THEN 0 ELSE T!Occurrences(ks, k)]
    <2>1. CASE op = "find"
      BY Zenon, <2>1 DEF Due, PendingAt, ModifyOps
    <2>2. CASE op # "find"
      <3>1. PendingAt(r, tk, mask) = n
        BY <1>4, <1>6, <1>8, <2>2, ZenonT(30) DEF PendingAt
      <3>2. \A k \in Keys : T!Occurrences(ks, k) = IF \E i \in n : ks[i] = k THEN 1 ELSE 0
        BY <1>5, Occurs, SameCardinality, ZenonT(30) DEF T!Occurrences
      <3> QED
        <4>1. r.keys = ks
          BY Zenon
        <4> HIDE DEF r, tk
        <4>2. Due(r, tk, mask) = [k \in Keys |-> IF \E i \in n : ks[i] = k THEN 1 ELSE 0]
          BY Zenon, <3>1, <4>1 DEF Due
        <4>3. [k \in Keys |-> IF \E i \in n : ks[i] = k THEN 1 ELSE 0] = [k \in Keys |-> T!Occurrences(ks, k)]
          BY Zenon, <3>2
        <4>4. [k \in Keys |-> T!Occurrences(ks, k)] = [k \in Keys |-> IF op = "find" THEN 0 ELSE T!Occurrences(ks, k)]
          BY Zenon, <2>2
        <4> QED
          BY Zenon, <4>2, <4>3, <4>4
    <2> QED
      BY Zenon, <2>1, <2>2
  <1>17. op = "clear" => \A k \in Keys : Due(r, tk, mask)[k] = 1
    <2>1. op = "clear" => PendingAt(r, tk, mask) = n
      BY <1>6, <1>8, ZenonT(30) DEF PendingAt, ModifyOps
    <2> QED
      BY Zenon, <1>5, <2>1 DEF Due
  <1>18. T!Begin(c)
    <2>1. /\ AbsCall' = [AbsCall EXCEPT ![c] = AbsOf(r)] /\ AbsCall[c] = T!Idle /\ AbsCall'[c] = AbsOf(r)
          /\ AbsAnswer' = [AbsAnswer EXCEPT ![c] = T!NoAnswer]
          /\ AbsTodo' = [AbsTodo EXCEPT ![c] = Due(r, tk, mask)] /\ AbsTodo'[c] = Due(r, tk, mask)
      <3>1. c \in DOMAIN AbsCall /\ c \in DOMAIN AbsTodo
        BY Zenon DEF AbsCall, AbsTodo
      <3> QED
        BY <1>3, <1>9, <1>11, <1>14, <1>15, <3>1, AbsStep
    <2>2. AbsOf(r).op = op /\ AbsOf(r).keys = ks
      BY Zenon DEF AbsOf
    <2>3. seen' = [seen EXCEPT ![c] = T!Content(db)]
      BY Zenon, <1>3 DEF Content, T!Content
    <2> HIDE DEF r
    <2>4. Due(r, tk, mask) = [k \in Keys |-> IF AbsCall'[c].op = "find" THEN 0 ELSE T!Occurrences(AbsCall'[c].keys, k)]
      BY <1>16, <2>1, <2>2, Zenon
    <2>5. AbsTodo' = [AbsTodo EXCEPT ![c] = [k \in Keys |->
                       IF AbsCall'[c].op = "find" THEN 0 ELSE T!Occurrences(AbsCall'[c].keys, k)]]
      BY <2>1, <2>4, Zenon
    <2>6. AbsCall'[c].op = "clear" => \A k \in Keys : AbsTodo'[c][k] = 1
      BY <1>17, <2>1, <2>2, Zenon
    <2>7. AbsCall' = [AbsCall EXCEPT ![c] = AbsCall'[c]] /\ AbsCall'[c] # T!Idle
      BY <1>15, <2>1, Zenon
    <2> QED
      BY <1>3, <2>1, <2>3, <2>5, <2>6, <2>7, Zenon DEF T!Begin
  <1> QED
    BY Zenon, <1>14, <1>18 DEF Sound, T!Next

(* What the steps of find_ rest on. *)
LEMMA Looking ==
  ASSUME FamilyOK, RInv, NEW c \in Callers, call[c].stage = "look"
  PROVE  /\ call[c] # NoCall /\ CallOK(call[c]) /\ TaskOK(c) /\ LookOK(c) /\ Content(db) \subseteq seen[c]
         /\ call[c].op \in {"update", "update_accumulate"} => FoundOK(c)
         /\ call[c].op \in {"find", "update", "update_accumulate"}
         /\ call[c].keys \in Seq(Keys) /\ Tasks = {0} /\ task[c][0] \in TaskRecords
PROOF
  <1>1. call[c] # NoCall
    BY DEF NoCall
  <1>2. CallOK(call[c]) /\ TaskOK(c) /\ LookOK(c) /\ Content(db) \subseteq seen[c]
        /\ (call[c].op \in {"update", "update_accumulate"} => FoundOK(c))
    BY Zenon, <1>1 DEF RInv, CallerOK
  <1>3. Tasks = {0}
    BY Zenon DEF FamilyOK
  <1>4. task[c][0] \in TaskRecords
    BY Zenon, <1>3 DEF RInv, RTypes
  <1>5. call[c].op \in {"find", "update", "update_accumulate"} /\ call[c].keys \in Seq(Keys)
    BY Zenon, <1>2 DEF CallOK, Looks, Distinct
  <1> QED
    BY Zenon, <1>1, <1>2, <1>3, <1>4, <1>5

LEMMA EmptyTask == NoTask.todo = {} /\ NoTask.batch = {} /\ NoTask.loaded = {}
PROOF
  BY DEF NoTask

LEMMA LookSound ==
  ASSUME FamilyOK, RInv, NEW c \in Callers, NEW t \in Tasks, Look(c, t), UNCHANGED setup
  PROVE  Sound
PROOF
  <1>1. /\ t = 0 /\ call[c].stage = "look" /\ task[c][0].at = "run"
        /\ UNCHANGED <<db, call, hit_mask, hits, made, seen>>
    BY Zenon DEF Look, FamilyOK
  <1>2. /\ call[c] # NoCall /\ CallOK(call[c]) /\ TaskOK(c) /\ LookOK(c) /\ Content(db) \subseteq seen[c]
        /\ call[c].op \in {"update", "update_accumulate"} => FoundOK(c)
        /\ call[c].op \in {"find", "update", "update_accumulate"}
        /\ call[c].keys \in Seq(Keys) /\ Tasks = {0} /\ task[c][0] \in TaskRecords
    BY Zenon, <1>1, Looking
  <1> DEFINE ks == call[c].keys
             n == DOMAIN ks
             todo == task[c][0].todo
             Found(S) == {i \in S : db[ks[i]] # None}
             Replied(S) == [task[c][0] EXCEPT !.at = "settle", !.todo = @ \ S, !.batch = Found(S),
                              !.loaded = hit_mask[c] \cap InWords(Found(S), Len(ks))]
  <1>3. PICK S \in SUBSET todo \ {{}} :
          /\ rows' = [rows EXCEPT ![c] = [i \in DOMAIN @ |-> IF i \in Found(S) THEN db[ks[i]] ELSE @[i]]]
          /\ task' = [task EXCEPT ![c][0] = Replied(S)]
    BY <1>1, ZenonT(30) DEF Look, Step
  <1> DEFINE found == Found(S)
             tk == Replied(S)
  <1>4. todo \subseteq n /\ todo \subseteq Nat /\ S \subseteq todo /\ found \subseteq S /\ n = 1 .. Len(ks) /\ Len(ks) \in Nat
    <2>1. todo \subseteq n
      BY Zenon, <1>2 DEF TaskOK
    <2>2. todo \subseteq Nat
      BY Zenon, <1>2 DEF TaskRecords
    <2>3. S \subseteq todo /\ found \subseteq S
      BY Zenon, <1>3
    <2>4. ks \in Seq(Keys)
      BY Zenon, <1>2
    <2> HIDE DEF ks
    <2>5. n = 1 .. Len(ks) /\ Len(ks) \in Nat
      BY <2>4, SMTT(20)
    <2> QED
      BY Zenon, <2>1, <2>2, <2>3, <2>5
  <1>5. /\ tk.at = "settle" /\ tk.todo = todo \ S /\ tk.batch = found
        /\ tk.loaded = hit_mask[c] \cap InWords(found, Len(ks)) /\ tk \in TaskRecords
    <2>1. hit_mask[c] \in SUBSET Nat /\ found \in SUBSET Nat /\ todo \ S \in SUBSET Nat
      BY Zenon, <1>4 DEF RInv, RTypes
    <2> HIDE DEF found
    <2> QED
      BY <1>2, <2>1, ZenonT(30) DEF TaskRecords, found
  <1> HIDE DEF tk, Replied
  <1>6. task'[c][0] = tk /\ task' \in [Callers -> [Tasks -> TaskRecords]]
    BY <1>2, <1>3, <1>5, ZenonT(30) DEF RInv, RTypes, tk, Replied
  <1>7. task[c][0].batch = {} /\ DOMAIN rows[c] = n /\ rows[c] \in Seq(Optional) /\ db \in [Keys -> Optional]
    BY Zenon, <1>1, <1>2 DEF TaskOK, LookOK, RInv, RTypes
  <1>8. rows'[c] = [i \in n |-> IF i \in found THEN db[ks[i]] ELSE rows[c][i]]
    <2> DEFINE New(x) == [i \in DOMAIN x |-> IF i \in found THEN db[ks[i]] ELSE x[i]]
    <2>1. rows' = [rows EXCEPT ![c] = New(@)]
      BY Zenon, <1>3
    <2> HIDE DEF New, found
    <2>2. rows'[c] = New(rows[c])
      BY Zenon, <2>1 DEF RInv, RTypes
    <2> QED
      BY Zenon, <1>7, <2>2 DEF New
  <1> HIDE DEF found, Found
  <1>9. \A i \in n : ks[i] \in Keys /\ db[ks[i]] \in Optional /\ rows[c][i] \in Optional
    <2>1. ks \in Seq(Keys) /\ rows[c] \in Seq(Optional) /\ DOMAIN rows[c] = n
      BY Zenon, <1>2, <1>7
    <2> HIDE DEF ks
    <2>2. \A i \in n : ks[i] \in Keys /\ rows[c][i] \in Optional
      BY <2>1, SMTT(20)
    <2> QED
      BY Zenon, <1>7, <2>2
  <1>10. rows'[c] \in Seq(Optional)
    BY <1>4, <1>8, <1>9
  <1>11. RTypes'
    <2>1. rows' \in [Callers -> Seq(Optional)]
      BY Zenon, <1>3, <1>10 DEF RInv, RTypes
    <2> QED
      BY Zenon, <1>1, <1>6, <2>1 DEF RInv, RTypes
  <1>12. \A d \in Callers \ {c} : Untouched(d)
    BY ZenonT(60), <1>1, <1>3 DEF RInv, RTypes, CallerOK, Untouched, Content
  <1>13. CallerOK(c)'
    <2>1. CallOK(call[c])' /\ call'[c] # NoCall
      BY <1>1, <1>2, ZenonT(60) DEF CallOK, Distinct
    <2>2. TaskOK(c)'
      <3>1. call[c].op # "clear"
        BY Zenon, <1>2
      <3> QED
        BY ZenonT(60), <1>1, <1>4, <1>5, <1>6, <3>1 DEF TaskOK, InWords, Word
    <2>3. LookOK(c)'
      <3>1. \A i \in found : db[ks[i]] # None
        BY Zenon DEF found, Found
      <3>0. /\ call[c].mask \subseteq hit_mask[c] /\ hit_mask[c] \subseteq n \ todo
            /\ \A i \in n : rows[c][i] # None <=> i \in hit_mask[c] \ call[c].mask
            /\ \A i \in n \ (call[c].mask \union todo) : <<ks[i], rows[c][i]>> \in seen[c]
        BY <1>2, <1>7, ZenonT(30) DEF LookOK
      <3>2. \A i \in S \ found : rows[c][i] = None /\ db[ks[i]] = None
        BY <1>4, <3>0, ZenonT(30) DEF found, Found
      <3>3. \A i \in n : rows'[c][i] # None <=> i \in (hit_mask[c] \ call[c].mask) \union found
        <4>1. SUFFICES ASSUME NEW i \in n
                       PROVE  rows'[c][i] # None <=> i \in (hit_mask[c] \ call[c].mask) \union found
          BY Zenon
        <4>2. CASE i \in found
          <5>1. rows'[c][i] = db[ks[i]]
            BY Zenon, <1>8, <4>1, <4>2
          <5> QED
            BY Zenon, <3>1, <4>2, <5>1
        <4>3. CASE i \notin found
          <5>1. rows'[c][i] = rows[c][i]
            BY Zenon, <1>8, <4>1, <4>3
          <5> QED
            BY Zenon, <3>0, <4>1, <4>3, <5>1
        <4> QED
          BY Zenon, <4>2, <4>3
      <3>4. \A i \in n \ (call[c].mask \union (todo \ S)) : <<ks[i], rows'[c][i]>> \in seen[c]
        <4>1. \A i \in n : <<ks[i], db[ks[i]]>> \in seen[c]
          BY Zenon, <1>2, <1>9 DEF Content
        <4> QED
          <5>1. SUFFICES ASSUME NEW i \in n, i \notin call[c].mask, i \notin todo \/ i \in S
                         PROVE  <<ks[i], rows'[c][i]>> \in seen[c]
            BY Zenon
          <5>2. CASE i \in found
            <6>1. rows'[c][i] = db[ks[i]]
              BY Zenon, <1>8, <5>1, <5>2
            <6> QED
              BY Zenon, <4>1, <5>1, <6>1
          <5>3. CASE i \notin found
            <6>1. rows'[c][i] = rows[c][i]
              BY Zenon, <1>8, <5>1, <5>3
            <6>2. CASE i \in S
              <7>1. rows[c][i] = db[ks[i]]
                BY Zenon, <3>2, <5>3, <6>2
              <7> QED
                BY Zenon, <4>1, <5>1, <6>1, <7>1
            <6>3. CASE i \notin todo
              BY Zenon, <3>0, <5>1, <6>1, <6>3
            <6> QED
              BY Zenon, <5>1, <6>2, <6>3
          <5> QED
            BY Zenon, <5>2, <5>3
      <3>5. found \subseteq n \ ((todo \ S) \union hit_mask[c])
        BY Zenon, <1>4, <3>0
      <3> QED
        BY <1>1, <1>2, <1>5, <1>6, <1>8, <3>3, <3>4, <3>5, ZenonT(30) DEF LookOK
    <2>4. (call[c].op \in {"update", "update_accumulate"} => FoundOK(c))'
      <3>1. SUFFICES ASSUME call[c].op \in {"update", "update_accumulate"}, NEW i \in hit_mask[c] \union found
                     PROVE  rows'[c][i] # None /\ rows'[c][i] = db[ks[i]]
        BY Zenon, <1>1, <1>5, <1>6 DEF FoundOK
      <3>2. i \in n
        BY Zenon, <1>2, <1>4 DEF LookOK
      <3>3. i \in found => db[ks[i]] # None
        BY Zenon DEF found, Found
      <3>4. i \in hit_mask[c] => rows[c][i] # None /\ rows[c][i] = db[ks[i]]
        BY Zenon, <1>1, <1>2, <3>1 DEF FoundOK
      <3> QED
        BY Zenon, <1>8, <3>2, <3>3, <3>4
    <2> QED
      BY ZenonT(60), <1>1, <1>2, <2>1, <2>2, <2>3, <2>4 DEF CallerOK, Content
  <1>14. RInv'
    BY ZenonT(60), <1>1, <1>11, <1>12, <1>13, OneCaller DEF RInv
  <1> DEFINE P == PendingAt(call[c], task[c][0], hit_mask[c])
             D == IF call[c].op = "find" THEN {} ELSE S \ found
  <1>15. PendingAt(call[c], tk, hit_mask[c]) = P \ D /\ D \subseteq P
    <2>1. CASE call[c].op = "find"
      BY Zenon, <2>1 DEF PendingAt, ModifyOps
    <2>2. CASE call[c].op # "find"
      <3>1. P = todo \union hit_mask[c]
        BY Zenon, <1>1, <1>2, <1>7, <2>2 DEF PendingAt, ModifyOps
      <3>2. PendingAt(call[c], tk, hit_mask[c]) = (todo \ S) \union hit_mask[c] \union found
        BY ZenonT(60), <1>1, <1>2, <1>5, <2>2 DEF PendingAt, ModifyOps
      <3>3. S \subseteq todo /\ found \subseteq S /\ todo \cap hit_mask[c] = {}
        BY Zenon, <1>2, <1>4 DEF LookOK
      <3> HIDE DEF P, found, todo
      <3> QED
        BY ZenonT(60), <2>2, <3>1, <3>2, <3>3
    <2> QED
      BY Zenon, <2>1, <2>2
  <1>16. Within(c, P \ D)
    BY <1>1, <1>2, <1>6, <1>12, <1>14, <1>15, ZenonT(60) DEF Within
  <1>17. CASE call[c].op = "find"
    <2>1. Within(c, P)
      BY Zenon, <1>16, <1>17
    <2> QED
      BY ZenonT(60), <1>1, <1>14, <2>1, StutterStep DEF Sound
  <1>18. CASE call[c].op # "find"
    <2>1. call[c].op \in ModifyOps /\ call[c].op \in {"update", "update_accumulate"}
      BY Zenon, <1>2, <1>18 DEF ModifyOps
    <2>2. db' = [k \in Keys |-> IF k \in KeysAt(c, D) THEN T!Effect(call[c].op, db[k], call[c].version) ELSE db[k]]
      <3>1. SUFFICES ASSUME NEW k \in KeysAt(c, D) PROVE T!Effect(call[c].op, db[k], call[c].version) = db[k]
        BY <1>1, <1>7, ZenonT(30)
      <3>2. db[k] = None
        BY Zenon, <1>18 DEF KeysAt, found, Found
      <3>3. None \notin T!Versions
        BY Zenon DEF FamilyOK, Versions, T!Versions
      <3> QED
        BY Zenon, <2>1, <3>2, <3>3 DEF T!Effect, T!Accumulated
    <2>3. seen' = [d \in Callers |-> IF call[d] = NoCall THEN seen[d] ELSE seen[d] \union Content(db')]
      <3>1. \A d \in Callers : call[d] # NoCall => Content(db) \subseteq seen[d]
        BY Zenon DEF RInv, CallerOK
      <3>2. seen = [d \in Callers |-> seen[d]] /\ Content(db') = Content(db)
        BY Zenon, <1>1 DEF RInv, RTypes
      <3> QED
        BY Zenon, <1>1, <3>1, <3>2
    <2> HIDE DEF P, D
    <2>4. T!Apply(c)
      BY ZenonT(60), <1>15, <1>16, <2>1, <2>2, <2>3, ApplyStep DEF P
    <2> QED
      BY Zenon, <1>14, <2>4 DEF Sound, T!Next
  <1> QED
    BY Zenon, <1>17, <1>18

----------------------------------------------------------------------------
(* The end of find_: the replies settled, and the keys found handed on *)

LEMMA SettleSound ==
  ASSUME FamilyOK, RInv, NEW c \in Callers, NEW t \in Tasks, Settle(c, t), UNCHANGED setup
  PROVE  Sound
PROOF
  <1> DEFINE ks == call[c].keys
             n == DOMAIN ks
             todo == task[c][0].todo
             found == task[c][0].batch
             mask == call[c].mask
             tk == [NoTask EXCEPT !.todo = todo]
  <1>1. /\ t = 0 /\ call[c].stage = "look" /\ task[c][0].at = "settle" /\ UNCHANGED <<db, call, rows, made, seen>>
        /\ hits' = [hits EXCEPT ![c] = @ + Cardinality(found)] /\ task' = [task EXCEPT ![c][0] = tk]
        /\ hit_mask' = [hit_mask EXCEPT ![c] = Marked(c, 0)]
    BY Zenon DEF Settle, Step, FamilyOK
  <1>2. /\ call[c] # NoCall /\ CallOK(call[c]) /\ TaskOK(c) /\ LookOK(c) /\ Content(db) \subseteq seen[c]
        /\ call[c].op \in {"update", "update_accumulate"} => FoundOK(c)
        /\ call[c].op \in {"find", "update", "update_accumulate"}
        /\ ks \in Seq(Keys) /\ Tasks = {0} /\ task[c][0] \in TaskRecords
    BY Zenon, <1>1, Looking
  <1>3. /\ todo \subseteq n /\ mask \subseteq hit_mask[c] /\ hit_mask[c] \subseteq n \ todo
        /\ found \subseteq n \ (todo \union hit_mask[c])
    BY Zenon, <1>2 DEF TaskOK, LookOK
  <1>4. Marked(c, 0) = hit_mask[c] \union found
    <2>1. ~SplitByHash
      BY Zenon DEF SplitByHash, FamilyOK, RInv, RTypes
    <2>2. task[c][0].loaded = hit_mask[c] \cap InWords(found, Len(ks))
      BY Zenon, <1>1, <1>2 DEF TaskOK
    <2> QED
      BY Zenon, <2>1, <2>2 DEF Marked
  <1>5. tk.at = "run" /\ tk.todo = todo /\ tk.batch = {} /\ tk.loaded = {} /\ tk \in TaskRecords
    BY Zenon, <1>2 DEF NoTask, TaskRecords
  <1> HIDE DEF tk
  <1>6. /\ task'[c][0] = tk /\ task' \in [Callers -> [Tasks -> TaskRecords]]
    BY Zenon, <1>1, <1>2, <1>5 DEF RInv, RTypes
  <1>7. hit_mask'[c] = hit_mask[c] \union found /\ hit_mask' \in [Callers -> SUBSET Nat]
    BY Zenon, <1>1, <1>2, <1>4 DEF RInv, RTypes, TaskRecords
  <1>8. /\ Cardinality(mask) \in Nat /\ Cardinality(hit_mask[c]) \in Nat /\ Cardinality(found) \in Nat
        /\ Cardinality(hit_mask[c] \union found) = Cardinality(hit_mask[c]) + Cardinality(found)
    <2>1. n = 1 .. Len(ks) /\ Len(ks) \in Nat
      BY <1>2
    <2>2. mask \subseteq n /\ hit_mask[c] \subseteq n /\ found \subseteq n /\ hit_mask[c] \cap found = {}
      BY Zenon, <1>3
    <2>3. IsFiniteSet(hit_mask[c]) /\ IsFiniteSet(found) /\ Cardinality(mask) \in Nat /\ Cardinality(hit_mask[c]) \in Nat
          /\ Cardinality(found) \in Nat
      BY Zenon, <2>1, <2>2, FiniteMasks
    <2> QED
      <3>1. Cardinality({}) = 0
        BY Zenon, FS_EmptySet
      <3>2. Cardinality(hit_mask[c] \union found) = Cardinality(hit_mask[c]) + Cardinality(found) - Cardinality(hit_mask[c] \cap found)
        BY Zenon, <2>3, FS_Union
      <3>3. Cardinality(hit_mask[c] \cap found) = 0
        BY Zenon, <2>2, <3>1
      <3> DEFINE h == Cardinality(hit_mask[c])
                 f == Cardinality(found)
                 both == Cardinality(hit_mask[c] \union found)
      <3>4. h \in Nat /\ f \in Nat /\ both = h + f - 0
        BY Zenon, <2>3, <3>2, <3>3
      <3> HIDE DEF h, f, both
      <3>5. both = h + f
        BY <3>4
      <3> QED
        BY Zenon, <2>3, <3>5 DEF h, f, both
  <1>9. hits'[c] = hits[c] + Cardinality(found) /\ hits' \in [Callers -> Int]
    BY <1>1, <1>8 DEF RInv, RTypes
  <1>10. RTypes'
    BY Zenon, <1>1, <1>6, <1>7, <1>9 DEF RInv, RTypes
  <1>11. \A d \in Callers \ {c} : Untouched(d)
    BY Zenon, <1>1 DEF RInv, RTypes, CallerOK, Untouched, Content
  <1> HIDE DEF found, todo, mask, n
  <1>12. LookOK(c)'
    <2> USE DEF found, todo, mask, n
    <2>1. \A i \in n : rows[c][i] # None <=> i \in (hit_mask'[c] \ mask) \union tk.batch
      <3>1. \A i \in n : rows[c][i] # None <=> i \in (hit_mask[c] \ mask) \union found
        BY Zenon, <1>2 DEF LookOK
      <3>2. (hit_mask'[c] \ mask) \union tk.batch = (hit_mask[c] \ mask) \union found
        BY Zenon, <1>3, <1>5, <1>7
      <3> QED
        BY Zenon, <3>1, <3>2
    <2>2. hits'[c] = Cardinality(hit_mask'[c]) - Cardinality(mask)
      <3>1. hits[c] = Cardinality(hit_mask[c]) - Cardinality(mask)
        BY Zenon, <1>2 DEF LookOK
      <3> QED
        BY <1>7, <1>8, <1>9, <3>1
    <2>3. mask \subseteq hit_mask'[c] /\ hit_mask'[c] \subseteq n \ tk.todo /\ tk.batch \subseteq n \ (tk.todo \union hit_mask'[c])
      BY Zenon, <1>3, <1>5, <1>7
    <2>4. DOMAIN rows[c] = n /\ \A i \in n \ (mask \union tk.todo) : <<ks[i], rows[c][i]>> \in seen[c]
      BY Zenon, <1>2, <1>5 DEF LookOK
    <2> QED
      BY ZenonT(60), <1>1, <1>6, <2>1, <2>2, <2>3, <2>4 DEF LookOK
  <1>13. CallerOK(c)'
    <2>1. CallOK(call[c])' /\ call'[c] # NoCall
      BY Zenon, <1>1, <1>2 DEF CallOK, Distinct
    <2>2. TaskOK(c)'
      BY Zenon, <1>1, <1>2, <1>3, <1>5, <1>6 DEF TaskOK, n, todo
    <2>3. (call[c].op \in {"update", "update_accumulate"} => FoundOK(c))'
      <3>1. hit_mask'[c] \union tk.batch = hit_mask[c] \union found
        BY Zenon, <1>5, <1>7
      <3> QED
        BY Zenon, <1>1, <1>2, <1>6, <3>1 DEF FoundOK, found
    <2> QED
      BY Zenon, <1>1, <1>2, <1>12, <2>1, <2>2, <2>3 DEF CallerOK, Content
  <1>14. RInv'
    BY ZenonT(60), <1>1, <1>10, <1>11, <1>13, OneCaller DEF RInv
  <1>15. PendingAt(call[c], tk, hit_mask'[c]) = PendingAt(call[c], task[c][0], hit_mask[c])
    BY <1>1, <1>5, <1>7, ZenonT(30) DEF PendingAt, found, todo
  <1>16. Within(c, PendingAt(call[c], task[c][0], hit_mask[c]))
    BY ZenonT(60), <1>1, <1>2, <1>6, <1>11, <1>14, <1>15 DEF Within
  <1> QED
    BY Zenon, <1>1, <1>14, <1>16, StutterStep DEF Sound

(* The caller of find_ goes on with the keys it found. *)
LEMMA WriteFoundSound ==
  ASSUME FamilyOK, RInv, NEW c \in Callers, WriteFound(c), UNCHANGED setup
  PROVE  Sound
PROOF
  <1> DEFINE ks == call[c].keys
             n == DOMAIN ks
             hit == hit_mask[c]
             r == [call[c] EXCEPT !.stage = "write"]
             tk == [NoTask EXCEPT !.todo = hit]
  <1>1. /\ call[c].stage = "look" /\ call[c].op # "find" /\ UNCHANGED <<db, hit_mask, rows, hits, made, seen>>
        /\ task[c][0] = NoTask
        /\ call' = [call EXCEPT ![c].stage = "write"] /\ task' = [task EXCEPT ![c] = Tasked(ks, hit)]
    BY Zenon DEF WriteFound, outputs, Over, FamilyOK
  <1>2. /\ call[c] # NoCall /\ CallOK(call[c]) /\ TaskOK(c) /\ LookOK(c) /\ Content(db) \subseteq seen[c]
        /\ call[c].op \in {"update", "update_accumulate"} => FoundOK(c)
        /\ call[c].op \in {"find", "update", "update_accumulate"}
        /\ ks \in Seq(Keys) /\ Tasks = {0} /\ task[c][0] \in TaskRecords
    BY Zenon, <1>1, Looking
  <1>3. hit \subseteq n /\ hit \in SUBSET Nat
    BY Zenon, <1>2 DEF LookOK, RInv, RTypes
  <1>4. tk.at = "run" /\ tk.todo = hit /\ tk.batch = {} /\ tk.loaded = {} /\ tk \in TaskRecords
    BY Zenon, <1>3 DEF NoTask, TaskRecords
  <1>5. Tasked(ks, hit)[0] = tk /\ Tasked(ks, hit) \in [Tasks -> TaskRecords]
    <2>1. Tasked(ks, hit)[0] = [NoTask EXCEPT !.todo = n \cap hit]
      BY <1>2, WholeShare, ZenonT(30) DEF RInv, RTypes
    <2>2. n \cap hit = hit
      BY Zenon, <1>3
    <2>3. Tasked(ks, hit) = [u \in Tasks |-> Tasked(ks, hit)[u]]
      BY Zenon DEF Tasked
    <2>4. Tasked(ks, hit)[0] = tk
      BY Zenon, <2>1, <2>2
    <2> HIDE DEF tk, ks, hit
    <2>5. \A u \in Tasks : Tasked(ks, hit)[u] \in TaskRecords
      BY Zenon, <1>2, <1>4, <2>4
    <2> QED
      BY Zenon, <2>3, <2>4, <2>5
  <1> HIDE DEF tk
  <1>6. task'[c][0] = tk /\ task' \in [Callers -> [Tasks -> TaskRecords]]
    BY Zenon, <1>1, <1>5 DEF RInv, RTypes
  <1>7. /\ call'[c] = r /\ call' = [d \in Callers |-> call'[d]] /\ \A d \in Callers \ {c} : call'[d] = call[d]
    BY <1>1, ZenonT(30) DEF RInv, RTypes
  <1>8. RTypes'
    BY Zenon, <1>1, <1>6, <1>7 DEF RInv, RTypes
  <1>9. \A d \in Callers \ {c} : Untouched(d)
    BY <1>1, <1>7 DEF RInv, RTypes, CallerOK, Untouched, Content
  <1>10. /\ r.op = call[c].op /\ r.keys = ks /\ r.version = call[c].version /\ r.mask = call[c].mask /\ r.stage = "write"
         /\ CallOK(r)
    BY Zenon, <1>1, <1>2 DEF CallOK, Distinct
  <1>11. r # NoCall
    BY Zenon, <1>10 DEF NoCall
  <1> HIDE DEF r
  <1>12. CallerOK(c)'
    <2>1. CallOK(call[c])'
      BY ZenonT(60), <1>7, <1>10 DEF CallOK, Distinct
    <2>2. TaskOK(c)'
      BY Zenon, <1>2, <1>3, <1>4, <1>6, <1>7, <1>10 DEF TaskOK
    <2>3. (call[c].op \in {"update", "update_accumulate"} => FoundOK(c))'
      <3>1. SUFFICES ASSUME call[c].op \in {"update", "update_accumulate"}, NEW i \in hit
                     PROVE  rows[c][i] # None /\ rows[c][i] = db[ks[i]]
        <4>1. call'[c].op = call[c].op /\ call'[c].stage = "write" /\ call'[c].keys = ks /\ rows' = rows /\ db' = db
          BY Zenon, <1>1, <1>7, <1>10
        <4>2. task'[c][0].todo = hit
          BY Zenon, <1>4, <1>6
        <4> QED
          BY Zenon, <4>1, <4>2 DEF FoundOK
      <3> QED
        BY Zenon, <1>1, <1>2, <3>1 DEF FoundOK
    <2> QED
      BY <1>1, <1>2, <1>7, <1>10, <1>11, <2>1, <2>2, <2>3, SMTT(30) DEF CallerOK, Content
  <1>13. RInv'
    BY Zenon, <1>1, <1>7, <1>8, <1>9, <1>10, <1>12, OneCaller DEF RInv
  <1>14. Due(r, tk, hit) = Due(call[c], task[c][0], hit)
    <2>1. PendingAt(r, tk, hit) = PendingAt(call[c], task[c][0], hit)
      BY <1>1, <1>4, <1>10 DEF PendingAt, NoTask
    <2> QED
      BY Zenon, <1>10, <2>1 DEF Due
  <1>15. AbsOf(r) = AbsOf(call[c])
    BY Zenon, <1>10 DEF AbsOf
  <1>16. AnswerOf(r, rows[c], hit, hits[c]) = AnswerOf(call[c], rows[c], hit, hits[c])
    BY Zenon, <1>2, <1>11 DEF AnswerOf
  <1>17. /\ AbsCall' = [AbsCall EXCEPT ![c] = AbsCall[c]] /\ AbsAnswer' = [AbsAnswer EXCEPT ![c] = AbsAnswer[c]]
         /\ AbsTodo' = [AbsTodo EXCEPT ![c] = AbsTodo[c]]
    BY <1>1, <1>6, <1>7, <1>9, <1>13, <1>14, <1>15, <1>16, AbsStep, SMTT(30)
  <1>18. AbsCall' = AbsCall /\ AbsAnswer' = AbsAnswer /\ AbsTodo' = AbsTodo
    BY <1>17, ZenonT(30) DEF AbsCall, AbsAnswer, AbsTodo
  <1> QED
    BY Zenon, <1>1, <1>13, <1>18 DEF Sound, T!vars

----------------------------------------------------------------------------
(* The batches of the modify operations *)

(* What sending a batch rests on. *)
LEMMA Writing ==
  ASSUME FamilyOK, RInv, NEW c \in Callers, NEW t \in Tasks, NEW ops, ops \subseteq ModifyOps, Sends(c, t, ops)
  PROVE  /\ t = 0 /\ call[c] # NoCall /\ call[c].stage = "write" /\ call[c].op \in ops
         /\ CallOK(call[c]) /\ TaskOK(c) /\ Content(db) \subseteq seen[c]
         /\ call[c].op \in {"update", "update_accumulate"} => FoundOK(c)
         /\ call[c].keys \in Seq(Keys) /\ Distinct(call[c].keys) /\ call[c].version \in Versions
         /\ Tasks = {0} /\ task[c][0] \in TaskRecords
         /\ task[c][0].at = "run" /\ task[c][0].batch = {} /\ task[c][0].loaded = {}
         /\ task[c][0].todo \subseteq DOMAIN call[c].keys /\ task[c][0].todo # {}
PROOF
  <1>1. t = 0 /\ Tasks = {0} /\ call[c].stage = "write" /\ call[c].op \in ops /\ task[c][0].at = "run" /\ task[c][0].todo # {}
    BY Zenon DEF Sends, FamilyOK
  <1>2. call[c] # NoCall
    <2>1. NoCall.stage # "write"
      BY DEF NoCall
    <2> QED
      BY Zenon, <1>1, <2>1
  <1>3. CallOK(call[c]) /\ TaskOK(c) /\ Content(db) \subseteq seen[c]
        /\ (call[c].op \in {"update", "update_accumulate"} => FoundOK(c))
    BY Zenon, <1>2 DEF RInv, CallerOK
  <1>4. task[c][0] \in TaskRecords
    BY <1>1 DEF RInv, RTypes
  <1>5. call[c].keys \in Seq(Keys) /\ Distinct(call[c].keys) /\ call[c].version \in Versions
    BY Zenon, <1>3 DEF CallOK
  <1>6. task[c][0].batch = {} /\ task[c][0].loaded = {} /\ task[c][0].todo \subseteq DOMAIN call[c].keys
    BY Zenon, <1>1, <1>3 DEF TaskOK
  <1> QED
    BY ZenonT(60), <1>1, <1>2, <1>3, <1>4, <1>5, <1>6

(* What an operation makes of a row is a row or nothing. *)
LEMMA EffectType ==
  ASSUME FamilyOK, NEW op, NEW v \in Versions, NEW x \in Optional
  PROVE  T!Effect(op, x, v) \in Optional
PROOF
  <1>1. T!Accumulated(x) \in Optional
    <2>1. CASE x \in Versions
      <3>1. x \in Int /\ MaxVersion \in Nat /\ 0 <= x
        BY <2>1 DEF FamilyOK, Versions
      <3>2. (x + 1) % (MaxVersion + 1) \in 0 .. MaxVersion
        BY <3>1
      <3> QED
        BY Zenon, <2>1, <3>2 DEF T!Accumulated, T!Versions, Versions, Optional
    <2>2. CASE x \notin Versions
      BY Zenon, <2>2 DEF T!Accumulated, T!Versions, Versions
    <2> QED
      BY Zenon, <2>1, <2>2
  <1>2. v \in Optional /\ None \in Optional
    BY Zenon DEF Optional
  <1> QED
    BY Zenon, <1>1, <1>2 DEF T!Effect

(* A batch that takes effect on the keys at the positions D. *)
LEMMA BatchSound ==
  ASSUME FamilyOK, RInv, NEW c \in Callers, NEW t \in Tasks, Sends(c, t, ModifyOps),
         NEW D, D \subseteq task[c][0].todo, call[c].op = "clear" => D = task[c][0].todo,
         task' = [task EXCEPT ![c][0] = [NoTask EXCEPT !.todo = task[c][0].todo \ D]],
         db' = [k \in Keys |-> IF k \in KeysAt(c, D) THEN T!Effect(call[c].op, db[k], call[c].version) ELSE db[k]],
         UNCHANGED <<setup, call, outputs>>, Observe
  PROVE  Sound
PROOF
  <1> DEFINE ks == call[c].keys
             todo == task[c][0].todo
             tk == [NoTask EXCEPT !.todo = todo \ D]
  <1>1. /\ t = 0 /\ call[c] # NoCall /\ call[c].stage = "write" /\ call[c].op \in ModifyOps
        /\ CallOK(call[c]) /\ TaskOK(c) /\ Content(db) \subseteq seen[c]
        /\ call[c].op \in {"update", "update_accumulate"} => FoundOK(c)
        /\ ks \in Seq(Keys) /\ Distinct(ks) /\ call[c].version \in Versions
        /\ Tasks = {0} /\ task[c][0] \in TaskRecords
        /\ task[c][0].at = "run" /\ task[c][0].batch = {} /\ task[c][0].loaded = {}
        /\ todo \subseteq DOMAIN ks /\ todo # {}
    BY Zenon, Writing
  <1>2. UNCHANGED <<setup, call, hit_mask, rows, hits>>
    BY Zenon DEF outputs
  <1>3. tk.at = "run" /\ tk.todo = todo \ D /\ tk.batch = {} /\ tk.loaded = {} /\ tk \in TaskRecords
    <2>1. todo \in SUBSET Nat
      BY Zenon, <1>1 DEF TaskRecords
    <2> QED
      BY Zenon, <2>1 DEF NoTask, TaskRecords
  <1> HIDE DEF tk
  <1>4. task'[c][0] = tk /\ task' \in [Callers -> [Tasks -> TaskRecords]]
    BY <1>1, <1>3, ZenonT(30) DEF RInv, RTypes, tk
  <1>5. db' \in [Keys -> Optional]
    <2>1. \A k \in Keys : db[k] \in Optional
      BY Zenon DEF RInv, RTypes
    <2>2. \A k \in Keys : T!Effect(call[c].op, db[k], call[c].version) \in Optional
      BY Zenon, <1>1, <2>1, EffectType
    <2> QED
      BY Zenon, <2>1, <2>2
  <1>6. \A d \in Callers : call[d] = NoCall <=> call[d].op = "none"
    BY DEF RInv, CallerOK, CallOK, NoCall, ModifyOps
  <1>7. seen' = [d \in Callers |-> IF call[d] = NoCall THEN {} ELSE seen[d] \union Content(db')]
    BY Zenon, <1>6 DEF Observe
  <1>8. RTypes'
    BY Zenon, <1>2, <1>4, <1>5, <1>7 DEF RInv, RTypes
  <1>9. Content(db') = Content(db)'
    BY Zenon DEF Content
  <1>10. \A d \in Callers \ {c} : Untouched(d)
    <2>1. SUFFICES ASSUME NEW d \in Callers \ {c} PROVE Untouched(d)
      BY Zenon
    <2>2. call[d].op \notin ModifyOps /\ task'[d] = task[d]
      BY Zenon, <1>1, <2>1 DEF RInv, RTypes
    <2>3. IF call[d] = NoCall THEN seen'[d] = {} ELSE seen[d] \subseteq seen'[d] /\ Content(db)' \subseteq seen'[d]
      BY Zenon, <1>7, <1>9
    <2> QED
      BY Zenon, <1>2, <2>2, <2>3 DEF Untouched
  <1>11. CallerOK(c)'
    <2>1. CallOK(call[c])' /\ call'[c] # NoCall
      BY <1>1, <1>2 DEF CallOK, Distinct
    <2>2. TaskOK(c)'
      BY <1>1, <1>2, <1>3, <1>4, ZenonT(30) DEF TaskOK
    <2>3. (call[c].op \in {"update", "update_accumulate"} => FoundOK(c))'
      <3>1. SUFFICES ASSUME call[c].op \in {"update", "update_accumulate"}, NEW i \in todo \ D
                     PROVE  rows[c][i] # None /\ rows[c][i] = db'[ks[i]]
        <4>1. call'[c].op = call[c].op /\ call'[c].stage = "write" /\ call'[c].keys = ks /\ rows' = rows
          BY Zenon, <1>1, <1>2
        <4>2. task'[c][0].todo = todo \ D
          BY Zenon, <1>3, <1>4
        <4> QED
          BY Zenon, <4>1, <4>2 DEF FoundOK
      <3>2. rows[c][i] # None /\ rows[c][i] = db[ks[i]]
        BY Zenon, <1>1, <3>1 DEF FoundOK
      <3>3. ks[i] \in Keys /\ ks[i] \notin KeysAt(c, D)
        BY <1>1, <3>1, SMTT(30) DEF KeysAt, Distinct
      <3> QED
        BY Zenon, <3>2, <3>3
    <2>4. Content(db)' \subseteq seen'[c]
      BY Zenon, <1>1, <1>7, <1>9
    <2> QED
      BY ZenonT(60), <1>1, <1>2, <2>1, <2>2, <2>3, <2>4 DEF CallerOK
  <1>12. RInv'
    BY Zenon, <1>1, <1>2, <1>8, <1>10, <1>11, OneCaller DEF RInv
  <1>13. /\ PendingAt(call[c], task[c][0], hit_mask[c]) = todo
         /\ PendingAt(call[c], tk, hit_mask'[c]) = todo \ D
    BY Zenon, <1>1, <1>3 DEF PendingAt
  <1>14. Within(c, PendingAt(call[c], task[c][0], hit_mask[c]) \ D)
    BY <1>1, <1>2, <1>4, <1>10, <1>12, <1>13, ZenonT(30) DEF Within
  <1>15. seen' = [d \in Callers |-> IF call[d] = NoCall THEN seen[d] ELSE seen[d] \union Content(db')]
    <2>1. \A d \in Callers : call[d] = NoCall => seen[d] = {}
      BY Zenon DEF RInv, CallerOK
    <2> QED
      BY <1>7, <2>1, ZenonT(30)
  <1>16. T!Apply(c)
    BY ZenonT(60), <1>1, <1>13, <1>14, <1>15, ApplyStep
  <1> QED
    BY Zenon, <1>12, <1>16 DEF Sound, T!Next

(* A task after a batch. *)
LEMMA AfterBatch ==
  ASSUME NEW r \in TaskRecords, r.at = "run", r.batch = {}, r.loaded = {}, NEW D
  PROVE  [r EXCEPT !.todo = @ \ D] = [NoTask EXCEPT !.todo = r.todo \ D]
PROOF
  <1>1. r = [at |-> "run", todo |-> r.todo, batch |-> {}, loaded |-> {}, victims |-> {}]
    BY Zenon DEF TaskRecords
  <1> QED
    BY <1>1 DEF NoTask

LEMMA WriteSound ==
  ASSUME FamilyOK, RInv, NEW c \in Callers, NEW t \in Tasks, Write(c, t), UNCHANGED setup
  PROVE  Sound
PROOF
  <1> DEFINE ks == call[c].keys
             todo == task[c][0].todo
             D == Batch(c, 0)
             ops == {"insert", "update", "update_accumulate"}
  <1>1. Sends(c, t, ops) /\ ops \subseteq ModifyOps
    BY Zenon DEF Write, ModifyOps
  <1>2. /\ t = 0 /\ call[c].stage = "write" /\ call[c].op \in ops
        /\ call[c].op \in {"update", "update_accumulate"} => FoundOK(c)
        /\ ks \in Seq(Keys) /\ Distinct(ks)
        /\ task[c][0] \in TaskRecords
        /\ task[c][0].at = "run" /\ task[c][0].batch = {} /\ task[c][0].loaded = {}
        /\ todo \subseteq DOMAIN ks
    <2> HIDE DEF ops
    <2>1. /\ t = 0 /\ call[c].stage = "write" /\ call[c].op \in ops
          /\ call[c].op \in {"update", "update_accumulate"} => FoundOK(c)
          /\ call[c].keys \in Seq(Keys) /\ Distinct(call[c].keys)
      BY <1>1, Writing
    <2>2. /\ task[c][0] \in TaskRecords /\ task[c][0].at = "run"
          /\ task[c][0].batch = {} /\ task[c][0].loaded = {} /\ task[c][0].todo \subseteq DOMAIN call[c].keys
      BY <1>1, Writing
    <2> HIDE DEF ks, todo
    <2> QED
      BY Zenon, <2>1, <2>2 DEF ks, todo
  <1>3. /\ db' = Written(c, D) /\ task' = [task EXCEPT ![c][0] = [task[c][0] EXCEPT !.todo = @ \ D]]
        /\ UNCHANGED <<setup, call, outputs>> /\ Observe
    BY Zenon, <1>2 DEF Write, Step
  <1>4. D \subseteq todo /\ Sends(c, t, ModifyOps) /\ call[c].op # "clear"
    BY Zenon, <1>1, <1>2 DEF Batch, Sends
  <1> HIDE DEF D
  <1>5. task' = [task EXCEPT ![c][0] = [NoTask EXCEPT !.todo = todo \ D]]
    BY <1>2, <1>3, AfterBatch, ZenonT(30)
  <1>6. \A i \in D : RowFor(c, i) = T!Effect(call[c].op, db[ks[i]], call[c].version)
    <2>1. SUFFICES ASSUME NEW i \in D PROVE RowFor(c, i) = T!Effect(call[c].op, db[ks[i]], call[c].version)
      BY Zenon
    <2>2. call[c].op \in {"update", "update_accumulate"} => rows[c][i] # None /\ rows[c][i] = db[ks[i]]
      BY Zenon, <1>2, <1>4, <2>1 DEF FoundOK
    <2>3. Plus(rows[c][i]) = T!Accumulated(rows[c][i])
      BY Zenon DEF Plus, T!Accumulated, Versions, T!Versions
    <2> QED
      BY Zenon, <1>2, <2>2, <2>3 DEF RowFor, T!Effect
  <1>7. db' = [k \in Keys |-> IF k \in KeysAt(c, D) THEN T!Effect(call[c].op, db[k], call[c].version) ELSE db[k]]
    <2> DEFINE last(k) == CHOOSE i \in D : ks[i] = k /\ \A j \in D : ks[j] = k => j <= i
    <2>1. \A k \in KeysAt(c, D) : last(k) \in D /\ ks[last(k)] = k
      <3>1. SUFFICES ASSUME NEW k \in KeysAt(c, D) PROVE last(k) \in D /\ ks[last(k)] = k
        BY ZenonT(30)
      <3>2. PICK i \in D : ks[i] = k
        BY Zenon, <3>1 DEF KeysAt
      <3>3. i \in Nat /\ \A j \in D : ks[j] = k => j = i
        BY Zenon, <1>2, <1>4, <3>2 DEF Distinct, TaskRecords
      <3>4. i <= i
        BY <3>3
      <3>5. \E j \in D : ks[j] = k /\ \A m \in D : ks[m] = k => m <= j
        BY Zenon, <3>2, <3>3, <3>4
      <3> QED
        BY Zenon, <3>5
    <2>2. \A k \in KeysAt(c, D) : RowFor(c, last(k)) = T!Effect(call[c].op, db[k], call[c].version)
      <3>1. SUFFICES ASSUME NEW k \in KeysAt(c, D)
                     PROVE  RowFor(c, last(k)) = T!Effect(call[c].op, db[k], call[c].version)
        BY Zenon
      <3>2. last(k) \in D /\ ks[last(k)] = k
        BY Zenon, <2>1, <3>1
      <3> HIDE DEF last, ks
      <3> QED
        BY Zenon, <1>6, <3>2
    <2>3. db' = [k \in Keys |-> IF k \in KeysAt(c, D) THEN RowFor(c, last(k)) ELSE db[k]]
      BY Zenon, <1>3 DEF Written
    <2> HIDE DEF last
    <2> QED
      BY Zenon, <2>2, <2>3
  <1> QED
    BY <1>3, <1>4, <1>5, <1>7, BatchSound, ZenonT(30)

LEMMA EraseSound ==
  ASSUME FamilyOK, RInv, NEW c \in Callers, NEW t \in Tasks, erase(c, t), UNCHANGED setup
  PROVE  Sound
PROOF
  <1> DEFINE D == Batch(c, 0)
  <1>1. Sends(c, t, {"erase"}) /\ {"erase"} \subseteq ModifyOps
    BY Zenon DEF erase, ModifyOps
  <1>2. /\ t = 0 /\ call[c].op = "erase" /\ task[c][0] \in TaskRecords
        /\ task[c][0].at = "run" /\ task[c][0].batch = {} /\ task[c][0].loaded = {}
    <2> DEFINE ops == {"erase"}
    <2>1. Sends(c, t, ops) /\ ops \subseteq ModifyOps
      BY Zenon, <1>1
    <2> HIDE DEF ops
    <2>2. t = 0 /\ call[c].op \in ops /\ task[c][0] \in TaskRecords
      BY <2>1, Writing
    <2>3. task[c][0].at = "run" /\ task[c][0].batch = {} /\ task[c][0].loaded = {}
      BY <2>1, Writing
    <2> QED
      BY Zenon, <2>2, <2>3 DEF ops
  <1>3. /\ db' = Without(KeysAt(c, D)) /\ task' = [task EXCEPT ![c][0] = [task[c][0] EXCEPT !.todo = @ \ D]]
        /\ UNCHANGED <<setup, call, outputs>> /\ Observe
    BY Zenon, <1>2 DEF erase, Step
  <1>4. D \subseteq task[c][0].todo /\ Sends(c, t, ModifyOps) /\ call[c].op # "clear"
    BY Zenon, <1>1, <1>2 DEF Batch, Sends
  <1> HIDE DEF D
  <1>5. task' = [task EXCEPT ![c][0] = [NoTask EXCEPT !.todo = task[c][0].todo \ D]]
    BY <1>2, <1>3, AfterBatch, ZenonT(30)
  <1>6. db' = [k \in Keys |-> IF k \in KeysAt(c, D) THEN T!Effect(call[c].op, db[k], call[c].version) ELSE db[k]]
    BY Zenon, <1>2, <1>3 DEF Without, T!Effect
  <1> QED
    BY <1>3, <1>4, <1>5, <1>6, BatchSound, ZenonT(30)

LEMMA ClearSound ==
  ASSUME FamilyOK, RInv, NEW c \in Callers, NEW t \in Tasks, clear(c, t), UNCHANGED setup
  PROVE  Sound
PROOF
  <1> DEFINE D == task[c][0].todo
             ks == call[c].keys
  <1>1. Sends(c, t, {"clear"}) /\ {"clear"} \subseteq ModifyOps
    BY Zenon DEF clear, ModifyOps
  <1>2. /\ t = 0 /\ call[c].op = "clear" /\ CallOK(call[c]) /\ TaskOK(c) /\ D # {} /\ ks \in Seq(Keys)
    BY <1>1, Writing
  <1>3. /\ db' = Without(setup.below_tilde) /\ task' = [task EXCEPT ![c][0] = NoTask]
        /\ UNCHANGED <<setup, call, outputs>> /\ Observe
    BY Zenon, <1>2 DEF clear, Step
  <1>4. setup.below_tilde = Keys /\ Sends(c, t, ModifyOps)
    BY Zenon, <1>1 DEF FamilyOK, RInv, RTypes, Sends
  <1>5. KeysAt(c, D) = Keys
    <2>1. D = DOMAIN ks
      BY Zenon, <1>2 DEF TaskOK
    <2> QED
      BY <1>2, <2>1 DEF KeysAt, CallOK
  <1>6. NoTask = [NoTask EXCEPT !.todo = D \ D]
    BY DEF NoTask
  <1>7. db' = [k \in Keys |-> IF k \in KeysAt(c, D) THEN T!Effect(call[c].op, db[k], call[c].version) ELSE db[k]]
    BY Zenon, <1>2, <1>3, <1>4, <1>5 DEF Without, T!Effect
  <1> QED
    BY <1>3, <1>4, <1>6, <1>7, BatchSound, ZenonT(30)

----------------------------------------------------------------------------
(* Return *)

LEMMA ReturnSound ==
  ASSUME FamilyOK, RInv, NEW c \in Callers, Return(c), UNCHANGED setup
  PROVE  Sound
PROOF
  <1> DEFINE ks == call[c].keys
             n == DOMAIN ks
             mask == call[c].mask
             hit == hit_mask[c]
  <1>1. /\ call[c] # NoCall /\ (call[c].stage = "write" \/ call[c].op = "find") /\ task[c][0] = NoTask
        /\ call' = [call EXCEPT ![c] = NoCall] /\ seen' = [seen EXCEPT ![c] = {}] /\ UNCHANGED <<db, task, made>>
    BY Zenon DEF Return, Over, FamilyOK
  <1>2. /\ rows' = [rows EXCEPT ![c] = IF call[c].op = "find" THEN rows[c] ELSE <<>>]
        /\ hits' = [hits EXCEPT ![c] = IF call[c].op = "find" THEN hits[c] ELSE 0]
        /\ hit_mask' = [hit_mask EXCEPT ![c] = IF call[c].op = "find" THEN hit ELSE {}]
    BY Zenon DEF Return
  <1>3. CallOK(call[c]) /\ TaskOK(c) /\ (call[c].stage = "look" => LookOK(c))
    BY Zenon, <1>1 DEF RInv, CallerOK
  <1>4. RTypes'
    <2>1. rows' \in [Callers -> Seq(Optional)] /\ hit_mask' \in [Callers -> SUBSET Nat] /\ hits' \in [Callers -> Int]
      BY <1>2 DEF RInv, RTypes
    <2>2. call' = [d \in Callers |-> call'[d]] /\ seen' = [d \in Callers |-> seen'[d]]
      BY <1>1, ZenonT(30) DEF RInv, RTypes
    <2> QED
      BY ZenonT(60), <1>1, <2>1, <2>2 DEF RInv, RTypes
  <1>5. call'[c] = NoCall /\ seen'[c] = {} /\ task'[c] = task[c]
    BY Zenon, <1>1 DEF RInv, RTypes
  <1>6. CallerOK(c)'
    BY Zenon, <1>1, <1>5 DEF CallerOK
  <1>7. \A d \in Callers \ {c} : Untouched(d)
    BY Zenon, <1>1, <1>2 DEF RInv, RTypes, CallerOK, Untouched, Content
  <1>8. RInv'
    <2>1. call'[c].op \notin ModifyOps
      BY <1>5 DEF NoCall, ModifyOps
    <2> QED
      BY ZenonT(60), <1>4, <1>6, <1>7, <2>1, OneCaller
  <1> DEFINE a == [rows |-> rows'[c], mask |-> hit_mask'[c], hits |-> hits'[c]]
  <1>9. Due(call[c], task[c][0], hit) = [k \in Keys |-> 0] /\ Due(NoCall, task'[c][0], hit_mask'[c]) = [k \in Keys |-> 0]
    <2>1. PendingAt(call[c], task[c][0], hit) = {}
      <3>1. task[c][0].todo = {} /\ task[c][0].batch = {}
        BY Zenon, <1>1, EmptyTask
      <3>2. CASE call[c].op = "find"
        BY Zenon, <3>2 DEF PendingAt, ModifyOps
      <3>3. CASE call[c].stage = "write"
        BY Zenon, <3>1, <3>3 DEF PendingAt
      <3> QED
        BY Zenon, <1>1, <3>2, <3>3
    <2>2. PendingAt(NoCall, task'[c][0], hit_mask'[c]) = {}
      BY Zenon DEF PendingAt, NoCall, ModifyOps
    <2> QED
      BY Zenon, <2>1, <2>2 DEF Due
  <1>10. AbsOf(NoCall) = T!Idle /\ AbsOf(call[c]) # T!Idle /\ AnswerOf(NoCall, rows'[c], hit_mask'[c], hits'[c]) = a
    <2>1. AbsOf(NoCall) = T!Idle /\ T!Idle.op = "none"
      BY Zenon DEF AbsOf, T!Idle, NoCall
    <2>2. AbsOf(call[c]).op = call[c].op /\ call[c].op # "none"
      BY Zenon, <1>3 DEF AbsOf, CallOK, ModifyOps
    <2> QED
      BY Zenon, <2>1, <2>2 DEF AnswerOf
  <1>11. /\ AbsCall' = [AbsCall EXCEPT ![c] = T!Idle] /\ AbsCall[c] = AbsOf(call[c])
         /\ AbsAnswer' = [AbsAnswer EXCEPT ![c] = a] /\ AbsAnswer'[c] = a
         /\ AbsTodo' = [AbsTodo EXCEPT ![c] = AbsTodo[c]] /\ AbsTodo[c] = [k \in Keys |-> 0]
    <2>1. c \in DOMAIN AbsAnswer
      BY Zenon DEF AbsAnswer
    <2> HIDE DEF a, hit
    <2> QED
      BY <1>5, <1>7, <1>8, <1>9, <1>10, <2>1, AbsStep DEF hit
  <1>12. AbsTodo' = AbsTodo
    BY <1>11, ZenonT(30) DEF AbsTodo
  <1>13. CASE call[c].op = "find"
    <2>1. rows'[c] = rows[c] /\ hit_mask'[c] = hit /\ hits'[c] = hits[c]
      BY Zenon, <1>2, <1>13 DEF RInv, RTypes
    <2>2. LookOK(c) /\ task[c][0].todo = {} /\ task[c][0].batch = {}
      <3>1. call[c].stage = "look"
        BY Zenon, <1>3, <1>13 DEF CallOK
      <3>2. task[c][0].todo = {} /\ task[c][0].batch = {}
        BY Zenon, <1>1, EmptyTask
      <3> QED
        BY Zenon, <1>3, <3>1, <3>2
    <2>3. /\ DOMAIN rows[c] = n /\ mask \subseteq hit /\ hit \subseteq n
          /\ \A i \in n : rows[c][i] # None <=> i \in hit \ mask
          /\ \A i \in n \ mask : <<ks[i], rows[c][i]>> \in seen[c]
          /\ hits[c] = Cardinality(hit) - Cardinality(mask)
      BY Zenon, <2>2 DEF LookOK
    <2>4. hit = mask \union {i \in n : rows[c][i] # None}
      BY Zenon, <2>3
    <2>5. AbsCall[c].keys = ks /\ AbsCall[c].mask = mask /\ AbsCall[c].op = "find"
      BY <1>11, <1>13 DEF AbsOf
    <2>6. a.rows = rows[c] /\ a.mask = hit /\ a.hits = hits[c]
      BY Zenon, <2>1
    <2>7. a.hits = T!Cardinality(a.mask) - T!Cardinality(mask)
      BY Zenon, <2>3, <2>6, SameCardinality
    <2> HIDE DEF a, hit, mask, n, ks
    <2>8. T!Answers(c, a)
      BY ZenonT(60), <2>3, <2>4, <2>5, <2>6, <2>7 DEF T!Answers, n
    <2>9. T!Return(c)
      BY <1>1, <1>10, <1>11, <1>12, <2>5, <2>8, ZenonT(30) DEF T!Return
    <2> QED
      BY Zenon, <1>8, <2>9 DEF Sound, T!Next
  <1>14. CASE call[c].op # "find"
    <2>1. a = T!NoAnswer
      BY ZenonT(60), <1>2, <1>14 DEF RInv, RTypes, T!NoAnswer
    <2>2. AbsCall[c].op # "find"
      BY <1>11, <1>14 DEF AbsOf
    <2> HIDE DEF a
    <2>3. T!Return(c)
      BY <1>1, <1>10, <1>11, <1>12, <2>1, <2>2, ZenonT(30) DEF T!Return
    <2> QED
      BY <1>8, <2>3 DEF Sound, T!Next
  <1> QED
    BY Zenon, <1>13, <1>14

----------------------------------------------------------------------------
(* The theorem *)

LEMMA QuietSound ==
  ASSUME FamilyOK, RInv, UNCHANGED vars
  PROVE  Sound
PROOF
  <1>1. UNCHANGED <<setup, db, call, task, hit_mask, rows, hits, seen>>
    BY Zenon DEF vars, outputs
  <1>2. RTypes'
    BY Zenon, <1>1 DEF RInv, RTypes
  <1>3. \A d \in Callers : Untouched(d)
    BY Zenon, <1>1 DEF RInv, CallerOK, Untouched, Content
  <1>4. \A d \in Callers : CallerOK(d)'
    BY Zenon, <1>3, UntouchedInv DEF RInv
  <1>5. RInv'
    BY ZenonT(60), <1>1, <1>2, <1>4 DEF RInv
  <1>6. UNCHANGED <<AbsCall, AbsTodo, AbsAnswer>>
    BY <1>1 DEF AbsCall, AbsTodo, Pending, AbsAnswer, Busy
  <1> QED
    BY Zenon, <1>1, <1>5, <1>6 DEF Sound, T!vars

LEMMA NextSound ==
  ASSUME FamilyOK, RInv, [Next]_vars
  PROVE  Sound
PROOF
  <1>1. CASE UNCHANGED vars
    BY Zenon, <1>1, QuietSound
  <1>2. CASE Next
    <2>1. UNCHANGED setup /\ AnyStep
      BY Zenon, <1>2 DEF Next
    <2>2. CASE Quiet
      BY Zenon, <2>2, QuietSound DEF Quiet
    <2>3. ASSUME NEW c \in Callers, Begin(c) \/ WriteFound(c) \/ Return(c) PROVE Sound
      BY ZenonT(60), <2>1, <2>3, BeginSound, WriteFoundSound, ReturnSound
    <2>4. ASSUME NEW c \in Callers, NEW t \in Tasks, TaskStep(c, t) PROVE Sound
      BY ZenonT(60), <2>1, <2>4, LookSound, SettleSound, WriteSound, EraseSound, ClearSound DEF TaskStep
    <2> QED
      BY Zenon, <2>1, <2>2, <2>3, <2>4 DEF AnyStep
  <1> QED
    BY Zenon, <1>1, <1>2

LEMMA InitSound ==
  ASSUME FamilyOK, Init
  PROVE  T!Init
PROOF
  <1>1. RInv
    BY Zenon, InitInv
  <1>2. AbsTodo = Todo
    BY Zenon, <1>1, TodoIs
  <1>3. \A c \in Callers : call[c] = NoCall /\ hit_mask[c] = {} /\ rows[c] = <<>> /\ hits[c] = 0
    BY Zenon DEF Init
  <1>4. AbsOf(NoCall) = T!Idle /\ AnswerOf(NoCall, <<>>, {}, 0) = T!NoAnswer
    BY Zenon DEF AbsOf, T!Idle, NoCall, AnswerOf, T!NoAnswer
  <1>5. \A c \in Callers : Due(call[c], task[c][0], hit_mask[c]) = [k \in Keys |-> 0]
    BY <1>3 DEF Due, PendingAt, NoCall, ModifyOps
  <1>6. AbsTodo = [c \in Callers |-> [k \in Keys |-> 0]]
    BY Zenon, <1>2, <1>5 DEF Todo
  <1>7. AbsCall = [c \in Callers |-> T!Idle] /\ AbsAnswer = [c \in Callers |-> T!NoAnswer]
    BY <1>3, <1>4, AbsIs, ZenonT(30)
  <1> QED
    BY Zenon, <1>6, <1>7 DEF Init, T!Init

(* What find_ has read of a key stays true until the batch that writes it:   *)
(* the invariant behind the refinement.                                      *)
THEOREM RocksDBInvariant ==
  ASSUME FamilyOK
  PROVE  Spec => []RInv
PROOF
  <1>1. Init => RInv
    BY Zenon, InitInv
  <1>2. RInv /\ [Next]_vars => RInv'
    BY Zenon, NextSound DEF Sound
  <1> QED
    BY <1>1, <1>2, PTL DEF Spec

(* A RocksDB table under serial modify calls is an instance of the abstract  *)
(* table: a find answers with rows there were during the call, update and    *)
(* update_accumulate change the keys that have a row and no others, and a    *)
(* call returns once it has taken effect on each of its keys, however calls, *)
(* batches and lookups interleave.                                           *)
THEOREM RocksDBImplementsTable ==
  ASSUME FamilyOK
  PROVE  Spec => ImplementsTable
PROOF
  <1>1. Init => RInv /\ T!Init
    BY Zenon, InitInv, InitSound
  <1>2. RInv /\ [Next]_vars => RInv' /\ [T!Next]_(T!vars)
    BY Zenon, NextSound DEF Sound
  <1> QED
    BY <1>1, <1>2, PTL DEF Spec, ImplementsTable, T!Spec
===============================================================================
