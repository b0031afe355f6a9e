--------------------------- MODULE StlSlotsProofs ---------------------------
(***************************************************************************)
(* The slots and the tasks of STLContainerTable: proofs about StlTable.    *)
(* The free slots of a partition enumerate those slots of its buffers that *)
(* no key uses, each slot of a key holds that key's row, and a partition   *)
(* that is full gets one more buffer only while some key has no slot.      *)
(* The lemmas after the theorem are about the tasks of a call: a modify    *)
(* task visits the positions of its partition's keys in order, each word   *)
(* of a find is searched once per partition, tasks that run on a partition *)
(* hold its lock, and what a find has loaded stays current under it.       *)
(***************************************************************************)
EXTENDS StlTable, FiniteSetTheorems, TLAPS

----------------------------------------------------------------------------
(* Sequences that enumerate a set *)

(* s lists the elements of S, each once. *)
Enumerates(s, S) ==
  /\ s \in Seq(S)
  /\ \A i, j \in DOMAIN s : s[i] = s[j] => i = j
  /\ \A x \in S : \E i \in DOMAIN s : s[i] = x

LEMMA EnumeratesCount ==
  ASSUME NEW S, NEW s, Enumerates(s, S)
  PROVE  IsFiniteSet(S) /\ Cardinality(S) = Len(s) /\ {s[i] : i \in DOMAIN s} = S
PROOF
  <1>1. Len(s) \in Nat /\ DOMAIN s = 1 .. Len(s) /\ s \in [1 .. Len(s) -> S]
    BY DEF Enumerates
  <1>2. s \in Bijection(1 .. Len(s), S)
    BY <1>1, Zenon DEF Enumerates, Bijection, Injection, Surjection, IsInjective
  <1>3. ExistsBijection(1 .. Len(s), S)
    BY <1>2, Zenon DEF ExistsBijection
  <1>4. IsFiniteSet(S)
    BY <1>1, <1>3, FS_NatBijection, Zenon
  <1>5. Cardinality(S) = Len(s)
    BY <1>1, <1>3, FS_CountingElements, Zenon
  <1>6. {s[i] : i \in DOMAIN s} = S
    BY <1>1 DEF Enumerates
  <1> QED
    BY <1>4, <1>5, <1>6, Zenon

LEMMA EveryKeyEnumerates ==
  ASSUME IsFiniteSet(Keys)
  PROVE  Enumerates(EveryKey, Keys)
PROOF
  <1> DEFINE n == Cardinality(Keys)
             g == EveryKey
  <1>1. n \in Nat /\ ExistsBijection(1 .. n, Keys)
    BY FS_CardinalityType, Zenon
  <1>2. PICK f \in [1 .. n -> Keys] : IsInjective(f)
    BY <1>1, Zenon DEF ExistsBijection, Bijection, Injection
  <1>3. g \in [1 .. n -> Keys] /\ IsInjective(g)
    BY <1>2, Zenon DEF EveryKey
  <1>4. IsFiniteSet(1 .. n) /\ Cardinality(1 .. n) = n
    BY <1>1, FS_Interval
  <1>5. g \in Injection(1 .. n, Keys)
    BY <1>3, Zenon DEF Injection
  <1>6. g \in Surjection(1 .. n, Keys)
    BY <1>4, <1>5, FS_Injection, Zenon
  <1>7. g \in Seq(Keys) /\ DOMAIN g = 1 .. n
    BY <1>1, <1>3
  <1> QED
    BY <1>3, <1>6, <1>7, Zenon DEF Enumerates, Surjection, IsInjective

LEMMA ConcatEnumerates ==
  ASSUME NEW S, NEW U, NEW s, NEW u, Enumerates(s, S), Enumerates(u, U), S \cap U = {}
  PROVE  Enumerates(s \o u, S \union U)
PROOF
  <1> DEFINE w == s \o u
  <1>1. /\ s \in Seq(S) /\ u \in Seq(U) /\ Len(s) \in Nat /\ Len(u) \in Nat
        /\ DOMAIN s = 1 .. Len(s) /\ DOMAIN u = 1 .. Len(u)
        /\ \A i \in DOMAIN s : s[i] \in S
        /\ \A i \in DOMAIN u : u[i] \in U
    BY DEF Enumerates
  <1>2. s \in Seq(S \union U) /\ u \in Seq(S \union U)
    BY <1>1
  <1>3. /\ w \in Seq(S \union U) /\ DOMAIN w = 1 .. Len(s) + Len(u)
        /\ \A i \in 1 .. Len(s) : w[i] = s[i]
        /\ \A i \in 1 .. Len(u) : w[Len(s) + i] = u[i]
    BY <1>1, <1>2
  <1>4. ASSUME NEW i \in DOMAIN w
        PROVE  \/ i \in 1 .. Len(s) /\ w[i] = s[i]
               \/ i - Len(s) \in 1 .. Len(u) /\ w[i] = u[i - Len(s)]
    BY <1>1, <1>3
  <1> HIDE DEF w
  <1>5. ASSUME NEW i \in DOMAIN w, NEW j \in DOMAIN w, w[i] = w[j]
        PROVE  i = j
    <2>1. i \in Nat /\ j \in Nat
      BY <1>1, <1>3
    <2>2. CASE i \in 1 .. Len(s) /\ w[i] = s[i] /\ j \in 1 .. Len(s) /\ w[j] = s[j]
      BY <1>1, <1>5, <2>2, Zenon DEF Enumerates
    <2>3. CASE /\ i - Len(s) \in 1 .. Len(u) /\ w[i] = u[i - Len(s)]
               /\ j - Len(s) \in 1 .. Len(u) /\ w[j] = u[j - Len(s)]
      <3>1. i - Len(s) = j - Len(s)
        BY <1>1, <1>5, <2>3, Zenon DEF Enumerates
      <3> QED
        BY <1>1, <2>1, <3>1
    <2>4. CASE i \in 1 .. Len(s) /\ w[i] = s[i] /\ j - Len(s) \in 1 .. Len(u) /\ w[j] = u[j - Len(s)]
      BY <1>1, <1>5, <2>4, Zenon
    <2>5. CASE i - Len(s) \in 1 .. Len(u) /\ w[i] = u[i - Len(s)] /\ j \in 1 .. Len(s) /\ w[j] = s[j]
      BY <1>1, <1>5, <2>5, Zenon
    <2> QED
      BY <1>4, <2>2, <2>3, <2>4, <2>5, Zenon
  <1>6. ASSUME NEW x \in S PROVE \E i \in DOMAIN w : w[i] = x
    <2>1. PICK i \in DOMAIN s : s[i] = x
      BY Zenon DEF Enumerates
    <2>2. i \in DOMAIN w /\ w[i] = x
      BY <1>1, <1>3, <2>1
    <2> QED
      BY <2>2, Zenon
  <1>7. ASSUME NEW x \in U PROVE \E i \in DOMAIN w : w[i] = x
    <2>1. PICK i \in DOMAIN u : u[i] = x
      BY Zenon DEF Enumerates
    <2>2. Len(s) + i \in DOMAIN w /\ w[Len(s) + i] = x
      BY <1>1, <1>3, <2>1
    <2> QED
      BY <2>2, Zenon
  <1>8. Enumerates(w, S \union U)
    BY <1>3, <1>5, <1>6, <1>7, Zenon DEF Enumerates
  <1> QED
    BY <1>8, Zenon DEF w

LEMMA LastOfEnumeration ==
  ASSUME NEW S, NEW s, Enumerates(s, S), s # <<>>
  PROVE  s[Len(s)] \in S /\ Enumerates(SubSeq(s, 1, Len(s) - 1), S \ {s[Len(s)]})
PROOF
  <1> DEFINE n == Len(s)
             f == SubSeq(s, 1, Len(s) - 1)
  <1>1. s \in Seq(S) /\ n \in Nat \ {0} /\ DOMAIN s = 1 .. n /\ \A i \in 1 .. n : s[i] \in S
    BY DEF Enumerates
  <1>2. f = [i \in 1 .. n - 1 |-> s[i]]
    BY <1>1
  <1>3. s[n] \in S /\ n \in DOMAIN s
    BY <1>1
  <1>4. ASSUME NEW i \in 1 .. n - 1 PROVE i \in DOMAIN s /\ i # n /\ f[i] = s[i]
    <2>1. i \in 1 .. n /\ i # n
      <3>1. n \in Nat
        BY <1>1, Zenon
      <3> HIDE DEF n
      <3> QED
        BY <3>1
    <2>2. f[i] = s[i]
      BY <1>2, Zenon
    <2> QED
      BY <1>1, <2>1, <2>2, Zenon
  <1>5. ASSUME NEW i \in 1 .. n - 1 PROVE f[i] \in S \ {s[n]}
    BY <1>1, <1>3, <1>4, Zenon DEF Enumerates
  <1>6. f \in Seq(S \ {s[n]}) /\ DOMAIN f = 1 .. n - 1
    <2>1. f \in [1 .. n - 1 -> S \ {s[n]}]
      BY <1>2, <1>5, Zenon
    <2>2. n - 1 \in Nat
      BY <1>1
    <2> HIDE DEF f, n
    <2> QED
      BY <2>1, <2>2
  <1>7. \A i, j \in DOMAIN f : f[i] = f[j] => i = j
    BY <1>4, <1>6, Zenon DEF Enumerates
  <1>8. ASSUME NEW x \in S \ {s[n]} PROVE \E i \in DOMAIN f : f[i] = x
    <2>1. PICK i \in DOMAIN s : s[i] = x
      BY Zenon DEF Enumerates
    <2>2. i # n
      BY <1>3, <2>1, Zenon
    <2>3. i \in 1 .. n - 1
      BY <1>1, <2>1, <2>2
    <2> QED
      BY <1>4, <1>6, <2>1, <2>3, Zenon
  <1> HIDE DEF f, n
  <1>9. Enumerates(f, S \ {s[n]})
    BY <1>6, <1>7, <1>8, Zenon DEF Enumerates
  <1> QED
    BY <1>3, <1>9, Zenon DEF f, n

LEMMA EmptyEnumeration ==
  /\ Enumerates(<<>>, {})
  /\ \A S : Enumerates(<<>>, S) => S = {}
PROOF
  <1>1. <<>> \in Seq({}) /\ DOMAIN <<>> = {}
    OBVIOUS
  <1> QED
    BY <1>1, Zenon DEF Enumerates

----------------------------------------------------------------------------
(* The tasks and the positions of their keys *)

LEMMA NatMinimum ==
  ASSUME NEW S \in SUBSET Nat, S # {}
  PROVE  Min(S) \in S /\ \A x \in S : Min(S) <= x
PROOF
  <1>1. PICK x \in S : \A y \in S : ~ (<<y, x>> \in OpToRel(<, Nat))
    BY NatLessThanWellFounded, WFMin, Zenon
  <1>2. ASSUME NEW y \in S PROVE x <= y
    <2>1. x \in Nat /\ y \in Nat
      BY Zenon
    <2>2. <<y, x>> \notin OpToRel(<, Nat)
      BY <1>1, Zenon
    <2>3. ~ (y < x)
      BY <2>1, <2>2 DEF OpToRel
    <2> QED
      BY <2>1, <2>3
  <1>3. \E z \in S : \A y \in S : z <= y
    BY <1>2, Zenon
  <1> QED
    BY <1>3, Zenon DEF Min

KeyOps == {"insert", "update", "update_accumulate", "erase"}
Calls == [op : Operations \union {"none"}, keys : Seq(Keys), version : Versions, mask : SUBSET Nat]

(* The calls and their tasks; a modify task is at a key of its partition. *)
TasksInv ==
  /\ setup \in Setups
  /\ call \in [Callers -> Calls]
  /\ at \in [Callers -> [Tasks -> Nat]]
  /\ \A c \in Callers : \A t \in Tasks :
       call[c].op \in KeyOps /\ Running(c, t) => PartOf[Key(c, t)] = t[1]

LEMMA PositionOwn ==
  ASSUME NEW c \in Callers, call[c] \in Calls, NEW p, NEW i \in Nat \ {0}
  PROVE  /\ PositionFrom(c, p, i) \in Nat \ {0}
         /\ PositionFrom(c, p, i) \in 1 .. Len(call[c].keys) =>
              PartOf[call[c].keys[PositionFrom(c, p, i)]] = p /\ PositionFrom(c, p, i) >= i
         /\ \A l \in i .. Len(call[c].keys) : l < PositionFrom(c, p, i) => PartOf[call[c].keys[l]] # p
PROOF
  <1> DEFINE n == Len(call[c].keys)
             own == {j \in i .. n : PartOf[call[c].keys[j]] = p}
             j == PositionFrom(c, p, i)
  <1>1. n \in Nat
    BY DEF Calls
  <1>2. j = IF own = {} THEN n + 1 ELSE Min(own)
    BY Zenon DEF PositionFrom
  <1> HIDE DEF n, j
  <1>3. own \in SUBSET Nat
    BY <1>1
  <1>4. CASE own = {}
    <2>1. j = n + 1 /\ j \in Nat \ {0} /\ j \notin 1 .. n
      BY <1>1, <1>2, <1>4
    <2>2. \A l \in i .. n : PartOf[call[c].keys[l]] # p
      BY <1>4, Zenon
    <2> QED
      BY <2>1, <2>2, Zenon DEF n, j
  <1>5. CASE own # {}
    <2>1. j \in own /\ \A x \in own : j <= x
      BY <1>2, <1>3, <1>5, NatMinimum, Zenon
    <2>2. j \in i .. n /\ PartOf[call[c].keys[j]] = p
      BY <2>1, Zenon
    <2>3. j \in Nat \ {0} /\ j >= i
      BY <1>1, <2>2
    <2>4. ASSUME NEW l \in i .. n, l < j PROVE PartOf[call[c].keys[l]] # p
      <3>1. ~ (j <= l)
        BY <1>1, <2>3, <2>4
      <3> QED
        BY <2>1, <3>1, Zenon
    <2> QED
      BY <2>2, <2>3, <2>4, Zenon DEF n, j
  <1> QED
    BY <1>4, <1>5, Zenon

LEMMA TaskMoves ==
  ASSUME TasksInv, UNCHANGED <<setup, call>>, NEW c \in Callers, NEW t \in Tasks, NEW i \in Nat \ {0},
         at' = [at EXCEPT ![c][t] = StepFrom(c, t, i)]
  PROVE  TasksInv'
PROOF
  <1> DEFINE j == StepFrom(c, t, i)
  <1>1. call[c] \in Calls
    BY Zenon DEF TasksInv
  <1>2. j \in Nat
    BY <1>1, PositionOwn, Zenon DEF StepFrom
  <1>3. /\ at' \in [Callers -> [Tasks -> Nat]]
        /\ at'[c][t] = j
        /\ \A d \in Callers : \A u \in Tasks : <<d, u>> # <<c, t>> => at'[d][u] = at[d][u]
    BY <1>2, Zenon DEF TasksInv
  <1>4. ASSUME NEW d \in Callers, NEW u \in Tasks, call'[d].op \in KeyOps, Running(d, u)'
        PROVE  PartOf'[Key(d, u)'] = u[1]
    <2>1. CASE d = c /\ u = t
      <3>1. call[c].op \notin {"find", "clear"} /\ ~IsFind(c)'
        BY <1>4, <2>1 DEF KeyOps, IsFind
      <3>2. j = PositionFrom(c, t[1], i)
        BY <3>1, Zenon DEF StepFrom
      <3>3. j \in 1 .. Len(call[c].keys)
        BY <1>3, <1>4, <2>1, <3>1, Zenon DEF Running, Steps, IsFind
      <3>4. PositionFrom(c, t[1], i) \in 1 .. Len(call[c].keys)
        BY <3>2, <3>3, Zenon
      <3>5. PartOf[call[c].keys[PositionFrom(c, t[1], i)]] = t[1]
        BY <1>1, <3>4, PositionOwn
      <3> QED
        BY <1>3, <2>1, <3>2, <3>5, Zenon DEF PartOf, Key
    <2>2. CASE ~(d = c /\ u = t)
      <3>1. at'[d][u] = at[d][u]
        BY <1>3, <2>2, Zenon
      <3>2. Running(d, u) /\ call[d].op \in KeyOps
        BY <1>4, <3>1, Zenon DEF Running, Steps, IsFind, TaskSize
      <3> QED
        BY <3>1, <3>2, Zenon DEF TasksInv, PartOf, Key
    <2> QED
      BY <2>1, <2>2, Zenon
  <1> QED
    BY <1>3, <1>4, ZenonT(60) DEF TasksInv

LEMMA BeginTasks ==
  ASSUME SetupsOK, ConfigOK, TasksInv, NEW c \in Callers, NEW tab, BeginCall(c, tab)
  PROVE  TasksInv'
PROOF
  <1>1. PICK op \in setup.ops, v \in setup.versions :
        \E ks \in IF op = "clear" THEN {EveryKey} ELSE setup.batches :
        \E mask \in IF op = "find" THEN {m \cap DOMAIN ks : m \in setup.masks} ELSE {{}} :
          call' = [call EXCEPT ![c] = [op |-> op, keys |-> ks, version |-> v, mask |-> mask]]
    BY ZenonT(60) DEF BeginCall
  <1>2. PICK ks \in IF op = "clear" THEN {EveryKey} ELSE setup.batches :
        \E mask \in IF op = "find" THEN {m \cap DOMAIN ks : m \in setup.masks} ELSE {{}} :
          call' = [call EXCEPT ![c] = [op |-> op, keys |-> ks, version |-> v, mask |-> mask]]
    BY <1>1, Zenon
  <1>3. PICK mask \in IF op = "find" THEN {m \cap DOMAIN ks : m \in setup.masks} ELSE {{}} :
          call' = [call EXCEPT ![c] = [op |-> op, keys |-> ks, version |-> v, mask |-> mask]]
    BY <1>2, Zenon
  <1>4. setup \in Setups /\ setup' = setup /\ at' = [at EXCEPT ![c] = [t \in Tasks |-> 0]]
    BY Zenon DEF TasksInv, BeginCall
  <1>5. op \in Operations /\ v \in Versions
    BY <1>4, Zenon DEF SetupsOK
  <1>6. ks \in Seq(Keys)
    BY <1>2, <1>4, EveryKeyEnumerates, Zenon DEF SetupsOK, ConfigOK, Enumerates
  <1>7. mask \in SUBSET Nat
    <2>1. DOMAIN ks \subseteq Nat
      BY <1>6
    <2> QED
      BY <1>3, <2>1, Zenon
  <1>8. [op |-> op, keys |-> ks, version |-> v, mask |-> mask] \in Calls
    BY <1>5, <1>6, <1>7 DEF Calls
  <1>9. call' \in [Callers -> Calls] /\ \A d \in Callers : d # c => call'[d] = call[d]
    BY <1>3, <1>8, Zenon DEF TasksInv
  <1>10. /\ at' \in [Callers -> [Tasks -> Nat]]
         /\ \A t \in Tasks : at'[c][t] = 0
         /\ \A d \in Callers : d # c => at'[d] = at[d]
    <2>1. [t \in Tasks |-> 0] \in [Tasks -> Nat]
      OBVIOUS
    <2> QED
      BY <1>4, <2>1, Zenon DEF TasksInv
  <1>11. ASSUME NEW d \in Callers, NEW u \in Tasks, call'[d].op \in KeyOps, Running(d, u)'
         PROVE  PartOf'[Key(d, u)'] = u[1]
    <2>1. CASE d = c
      <3>1. call'[c].op \notin {"find", "clear"}
        BY <1>11, <2>1 DEF KeyOps
      <3>2. Steps(c, u)' = Len(call'[c].keys)
        BY <3>1, Zenon DEF Steps, IsFind
      <3>3. ~Running(c, u)'
        <4>1. at'[c][u] = 0
          BY <1>10, Zenon
        <4>2. Len(call'[c].keys) \in Nat
          BY <1>9 DEF Calls
        <4> QED
          BY <3>2, <4>1, <4>2 DEF Running
      <3> QED
        BY <1>11, <2>1, <3>3, Zenon
    <2>2. CASE d # c
      <3>1. Running(d, u) /\ call[d].op \in KeyOps
        BY <1>9, <1>10, <1>11, <2>2, Zenon DEF Running, Steps, IsFind, TaskSize
      <3>2. Key(d, u)' = Key(d, u) /\ PartOf' = PartOf
        BY <1>4, <1>9, <1>10, <2>2, Zenon DEF PartOf, Key
      <3> QED
        BY <3>1, <3>2, Zenon DEF TasksInv
    <2> QED
      BY <2>1, <2>2, Zenon
  <1> QED
    BY <1>4, <1>9, <1>10, <1>11, ZenonT(60) DEF TasksInv

LEMMA ReturnTasks ==
  ASSUME ConfigOK, TasksInv, NEW c \in Callers, ReturnCall(c)
  PROVE  TasksInv'
PROOF
  <1>1. /\ setup' = setup /\ at' = at
        /\ call' = [call EXCEPT ![c] = NoCall]
    BY Zenon DEF ReturnCall
  <1>2. NoCall \in Calls
    BY DEF NoCall, Calls, ConfigOK, Versions
  <1>3. /\ call' \in [Callers -> Calls]
        /\ call'[c] = NoCall
        /\ \A d \in Callers : d # c => call'[d] = call[d]
    BY <1>1, <1>2, Zenon DEF TasksInv
  <1>4. ASSUME NEW d \in Callers, NEW u \in Tasks, call'[d].op \in KeyOps, Running(d, u)'
        PROVE  PartOf'[Key(d, u)'] = u[1]
    <2>1. d # c
      BY <1>3, <1>4 DEF NoCall, KeyOps
    <2>2. Running(d, u) /\ call[d].op \in KeyOps
      BY <1>1, <1>3, <1>4, <2>1, Zenon DEF Running, Steps, IsFind, TaskSize
    <2> QED
      BY <1>1, <1>3, <2>1, <2>2, Zenon DEF TasksInv, PartOf, Key
  <1> QED
    BY <1>1, <1>3, <1>4, ZenonT(60) DEF TasksInv

LEMMA TasksStep ==
  ASSUME SetupsOK, ConfigOK, TasksInv, [Next]_vars
  PROVE  TasksInv'
PROOF
  <1>1. CASE UNCHANGED vars
    BY <1>1, Zenon DEF TasksInv, vars, Running, Steps, IsFind, TaskSize, Key, PartOf
  <1>2. ASSUME NEW c \in Callers, Begin(c) PROVE TasksInv'
    BY <1>2, BeginTasks, Zenon DEF Begin
  <1>3. ASSUME NEW c \in Callers, Return(c) PROVE TasksInv'
    BY <1>3, ReturnTasks, Zenon DEF Return
  <1>4. ASSUME NEW c \in Callers, NEW t \in Tasks, TaskStep(c, t) PROVE TasksInv'
    <2>1. at[c][t] \in Nat
      BY Zenon DEF TasksInv
    <2>2. at[c][t] + 1 \in Nat \ {0} /\ 1 \in Nat \ {0}
      BY <2>1
    <2>3. CASE StartTask(c, t)
      BY <2>2, <2>3, TaskMoves, Zenon DEF StartTask, TakeTask
    <2>4. ASSUME NEW ops, ModifyStep(c, t, ops) PROVE TasksInv'
      <3>1. at' = [at EXCEPT ![c][t] = StepFrom(c, t, at[c][t] + 1)] /\ UNCHANGED <<setup, call>>
        BY <2>4, Zenon DEF ModifyStep, StepDone, TasksInv
      <3> QED
        BY <2>2, <3>1, TaskMoves, Zenon
    <2>5. CASE LoadWord(c, t)
      BY <2>5, Zenon DEF LoadWord, TasksInv, Running, Steps, IsFind, TaskSize, Key, PartOf
    <2>6. CASE JoinWord(c, t)
      <3>1. at' = [at EXCEPT ![c][t] = StepFrom(c, t, at[c][t] + 1)] /\ UNCHANGED <<setup, call>>
        BY <2>6, Zenon DEF JoinWord, StepDone, TasksInv
      <3> QED
        BY <2>2, <3>1, TaskMoves, Zenon
    <2> QED
      BY <1>4, <2>3, <2>4, <2>5, <2>6, Zenon
         DEF TaskStep, InsertPresent, InsertNew, update, erase, clear
  <1>5. CASE Done
    BY <1>1, <1>5, Zenon DEF Done
  <1> QED
    BY <1>1, <1>2, <1>3, <1>4, <1>5, Zenon DEF Next

----------------------------------------------------------------------------
(* The slots of a partition *)

(* What the table's configuration must satisfy for the slots to be real. *)
TableOK == ConfigOK /\ SlotsOK /\ BuffersOK /\ NonesOK

LEMMA DivAtLeastOne ==
  ASSUME NEW a \in Nat, NEW b \in Nat \ {0}, a >= b
  PROVE  a \div b \in Nat \ {0}
PROOF
  <1> DEFINE q == a \div b
             r == a % b
  <1>1. q \in Nat /\ r \in 0 .. b - 1 /\ a = b * q + r
    BY SMTT(30)
  <1>2. q # 0
    <2>1. q = 0 => a = r
      BY <1>1
    <2> QED
      BY <1>1, <2>1
  <1> QED
    BY <1>1, <1>2

LEMMA BufferHasSlots ==
  ASSUME TableOK
  PROVE  slots_per_buffer \in Nat \ {0}
PROOF
  <1> DEFINE a == MaxValueSize + MetaSize + ValueAlignment - 1
             q == a \div ValueAlignment
  <1>1. /\ MaxValueSize \in Nat \ {0} /\ ValueAlignment \in Nat \ {0} /\ MetaSize \in Nat
        /\ AllocationRate \in Nat /\ AllocationRate >= slot_stride
    BY DEF TableOK, SlotsOK, BuffersOK
  <1>2. a \in Nat /\ a >= ValueAlignment
    BY <1>1
  <1>3. q \in Nat \ {0}
    BY <1>1, <1>2, DivAtLeastOne
  <1>4. slot_stride = q * ValueAlignment
    BY DEF slot_stride
  <1> HIDE DEF q
  <1>5. slot_stride \in Nat \ {0}
    BY <1>1, <1>3, <1>4
  <1> QED
    BY <1>1, <1>5, DivAtLeastOne, Zenon DEF slots_per_buffer

(* The slots of the first b buffers of partition p. *)
FirstSlots(p, b) == {p} \X (1 .. b * slots_per_buffer)

LEMMA Product ==
  ASSUME NEW b \in Nat, NEW m \in Nat \ {0}
  PROVE  b * m \in Nat /\ b <= b * m /\ (b + 1) * m = b * m + m /\ m * b = b * m
OBVIOUS

LEMMA ProductGrows ==
  ASSUME NEW b \in Nat, NEW n \in Nat, NEW m \in Nat, b <= n
  PROVE  b * m <= n * m
PROOF
  <1>1. n * m = b * m + (n - b) * m
    OBVIOUS
  <1>2. (n - b) * m \in Nat /\ b * m \in Nat
    OBVIOUS
  <1> QED
    BY <1>1, <1>2

LEMMA FirstSlotsReal ==
  ASSUME TableOK, NEW p \in Parts, NEW b \in 0 .. Cardinality(Keys)
  PROVE  /\ FirstSlots(p, b) \subseteq Slots
         /\ None \notin FirstSlots(p, b)
         /\ IsFiniteSet(FirstSlots(p, b)) /\ Cardinality(FirstSlots(p, b)) = b * slots_per_buffer
PROOF
  <1> DEFINE m == slots_per_buffer
             n == Cardinality(Keys)
  <1>1. m \in Nat \ {0}
    BY BufferHasSlots, Zenon
  <1>2. n \in Nat
    BY FS_CardinalityType, Zenon DEF TableOK, ConfigOK
  <1>3. Slots = Parts \X (1 .. m * n)
    BY Zenon DEF Slots
  <1> HIDE DEF m, n
  <1>4. b \in Nat /\ b <= n
    BY <1>2 DEF n
  <1>5. b * m \in Nat /\ n * m = m * n /\ b * m <= m * n
    BY <1>1, <1>2, <1>4, ProductGrows, Product
  <1>6. 1 .. b * m \subseteq 1 .. m * n
    BY <1>1, <1>2, <1>5
  <1>7. FirstSlots(p, b) = {p} \X (1 .. b * m)
    BY Zenon DEF FirstSlots, m
  <1>8. FirstSlots(p, b) \subseteq Slots
    BY <1>3, <1>6, <1>7
  <1>9. IsFiniteSet({p}) /\ Cardinality({p}) = 1
    BY FS_Singleton, Zenon
  <1>10. IsFiniteSet(1 .. b * m) /\ Cardinality(1 .. b * m) = b * m
    BY <1>5, FS_Interval
  <1>11. IsFiniteSet(FirstSlots(p, b)) /\ Cardinality(FirstSlots(p, b)) = 1 * (b * m)
    <2>1. /\ IsFiniteSet({p} \X (1 .. b * m))
          /\ Cardinality({p} \X (1 .. b * m)) = Cardinality({p}) * Cardinality(1 .. b * m)
      BY <1>9, <1>10, FS_Product, Zenon
    <2> QED
      BY <1>7, <1>9, <1>10, <2>1, Zenon
  <1>12. 1 * (b * m) = b * m
    BY <1>5
  <1>13. None \notin Slots
    BY Zenon DEF TableOK, NonesOK
  <1> QED
    BY <1>8, <1>11, <1>12, <1>13, Zenon DEF m

LEMMA NewSlotsEnumerate ==
  ASSUME TableOK, NEW p \in Parts, slot_buffers[p] \in Nat
  PROVE  /\ NewSlots(p) # <<>>
         /\ Enumerates(NewSlots(p), FirstSlots(p, slot_buffers[p] + 1) \ FirstSlots(p, slot_buffers[p]))
PROOF
  <1> DEFINE m == slots_per_buffer
             b == slot_buffers[p]
             s == NewSlots(p)
             S == FirstSlots(p, b + 1) \ FirstSlots(p, b)
  <1>1. m \in Nat \ {0} /\ b \in Nat
    BY BufferHasSlots, Zenon
  <1>2. b * m \in Nat /\ (b + 1) * m = b * m + m
    BY <1>1, Product
  <1>3. s = [i \in 1 .. m |-> <<p, (b + 1) * m + 1 - i>>]
    BY Zenon DEF NewSlots
  <1>4. S = ({p} \X (1 .. (b + 1) * m)) \ ({p} \X (1 .. b * m))
    BY Zenon DEF FirstSlots
  <1> HIDE DEF m, b, s, S
  <1> DEFINE e == b * m
  <1>5. e \in Nat /\ s = [i \in 1 .. m |-> <<p, e + m + 1 - i>>]
    BY <1>2, <1>3
  <1>6. S = ({p} \X (1 .. e + m)) \ ({p} \X (1 .. e))
    BY <1>2, <1>4
  <1> HIDE DEF e
  <1>7. ASSUME NEW i \in 1 .. m PROVE <<p, e + m + 1 - i>> \in S
    <2>1. e + m + 1 - i \in 1 .. e + m /\ e + m + 1 - i \notin 1 .. e
      BY <1>1, <1>5
    <2> QED
      BY <1>6, <2>1
  <1>8. s \in [1 .. m -> S]
    BY <1>5, <1>7, Zenon
  <1>9. s \in Seq(S) /\ DOMAIN s = 1 .. m /\ s # <<>>
    <2>1. s \in Seq(S) /\ DOMAIN s = 1 .. m
      BY <1>1, <1>8
    <2>2. 1 \in 1 .. m
      BY <1>1
    <2>3. DOMAIN <<>> = {}
      OBVIOUS
    <2> QED
      BY <2>1, <2>2, <2>3, Zenon
  <1>10. ASSUME NEW i \in 1 .. m, NEW j \in 1 .. m, s[i] = s[j] PROVE i = j
    <2>1. e + m + 1 - i = e + m + 1 - j
      BY <1>5, <1>10
    <2> QED
      BY <1>1, <1>5, <2>1
  <1>11. ASSUME NEW x \in S PROVE \E i \in 1 .. m : s[i] = x
    <2>1. PICK l \in 1 .. e + m : x = <<p, l>>
      BY <1>6
    <2>2. l \notin 1 .. e
      BY <1>6, <2>1
    <2>3. e + m + 1 - l \in 1 .. m /\ e + m + 1 - (e + m + 1 - l) = l
      BY <1>1, <1>5, <2>2
    <2>4. s[e + m + 1 - l] = <<p, l>>
      BY <1>5, <2>3
    <2> QED
      BY <2>1, <2>3, <2>4, Zenon
  <1>12. Enumerates(s, S)
    BY <1>9, <1>10, <1>11, Zenon DEF Enumerates
  <1> QED
    BY <1>9, <1>12, Zenon DEF s, S, b

----------------------------------------------------------------------------
(* The invariant of the table *)

Used(p) == {slot_map[k] : k \in Mapped(p)}

TableTypes ==
  /\ slot_map \in [Keys -> Slots \union {None}]
  /\ available_slots \in [Parts -> Seq(Slots)]
  /\ slot_buffers \in [Parts -> 0 .. Cardinality(Keys)]
  /\ data \in [Slots -> Rows \union {None}]

(* No two keys share a slot, and the free slots of a partition enumerate     *)
(* those of its buffers that no key uses.                                    *)
SlotsInv ==
  /\ \A k, l \in Present : slot_map[k] = slot_map[l] => k = l
  /\ \A p \in Parts : /\ Used(p) \subseteq FirstSlots(p, slot_buffers[p])
                      /\ Enumerates(available_slots[p], FirstSlots(p, slot_buffers[p]) \ Used(p))

OwnRows == \A k \in Present : data[slot_map[k]] \in Rows /\ data[slot_map[k]][1] = k

TableInv == TableTypes /\ SlotsInv /\ OwnRows

LEMMA PresentFacts ==
  ASSUME TableOK, TableInv, SetupsOK, TasksInv, NEW k \in Keys, slot_map[k] # None
  PROVE  /\ PartOf[k] \in Parts /\ k \in Present /\ k \in Mapped(PartOf[k])
         /\ slot_map[k] \in FirstSlots(PartOf[k], slot_buffers[PartOf[k]])
         /\ slot_map[k] \in Slots
         /\ slot_map[k][1] = PartOf[k]
         /\ Held(k) = data[slot_map[k]] /\ Held(k) \in Rows /\ Held(k)[1] = k
PROOF
  <1> DEFINE p == PartOf[k]
  <1>1. p \in Parts
    BY Zenon DEF SetupsOK, TasksInv, PartOf
  <1>2. k \in Present /\ k \in Mapped(p)
    BY Zenon DEF Present, Mapped
  <1>3. slot_map[k] \in FirstSlots(p, slot_buffers[p])
    BY <1>1, <1>2, Zenon DEF TableInv, SlotsInv, Used
  <1>4. slot_map[k] \in Slots
    BY Zenon DEF TableInv, TableTypes
  <1>5. slot_map[k][1] = p
    BY <1>3 DEF FirstSlots
  <1>6. Held(k) = data[slot_map[k]]
    BY <1>4, Zenon DEF Held, RowAt
  <1>7. Held(k) \in Rows /\ Held(k)[1] = k
    BY <1>2, <1>6, Zenon DEF TableInv, OwnRows
  <1> QED
    BY <1>1, <1>2, <1>3, <1>4, <1>5, <1>6, <1>7, Zenon

LEMMA PartFacts ==
  ASSUME TableOK, TableInv, NEW p \in Parts
  PROVE  /\ slot_buffers[p] \in Nat /\ slot_buffers[p] \in 0 .. Cardinality(Keys)
         /\ Cardinality(Keys) \in Nat
         /\ FirstSlots(p, slot_buffers[p]) \subseteq Slots
         /\ IsFiniteSet(Mapped(p)) /\ Mapped(p) \subseteq Keys /\ Cardinality(Mapped(p)) \in Nat
PROOF
  <1>1. Cardinality(Keys) \in Nat /\ IsFiniteSet(Keys)
    BY FS_CardinalityType, Zenon DEF TableOK, ConfigOK
  <1>2. slot_buffers[p] \in 0 .. Cardinality(Keys)
    BY Zenon DEF TableInv, TableTypes
  <1>3. slot_buffers[p] \in Nat
    BY <1>1, <1>2
  <1>4. Mapped(p) \in SUBSET Keys
    BY Zenon DEF Mapped, Present
  <1>5. IsFiniteSet(Mapped(p))
    BY <1>1, <1>4, FS_Subset, Zenon
  <1>6. Cardinality(Mapped(p)) \in Nat
    BY <1>5, FS_CardinalityType, Zenon
  <1> QED
    BY <1>1, <1>2, <1>3, <1>4, <1>5, <1>6, FirstSlotsReal, Zenon

(* A step on the keys of one partition leaves the others as they are. *)
LEMMA OtherParts ==
  ASSUME NEW p, UNCHANGED setup, \A k \in Keys : PartOf[k] # p => slot_map'[k] = slot_map[k]
  PROVE  \A q : q # p => Mapped(q)' = Mapped(q) /\ Used(q)' = Used(q)
PROOF
  <1> SUFFICES ASSUME NEW q, q # p PROVE Mapped(q)' = Mapped(q) /\ Used(q)' = Used(q)
    BY Zenon
  <1>1. Mapped(q)' = Mapped(q)
    BY DEF Mapped, Present, PartOf
  <1>2. \A k \in Mapped(q) : slot_map'[k] = slot_map[k]
    BY Zenon DEF Mapped, Present, PartOf
  <1> QED
    BY <1>1, <1>2 DEF Used

(* The slots of the keys of a set of mapped keys. *)
SlotsOf(ks) == {slot_map[k] : k \in ks}

LEMMA SlotsOfCount ==
  ASSUME TableOK, TableInv, NEW p \in Parts, NEW ks \in SUBSET Mapped(p)
  PROVE  IsFiniteSet(SlotsOf(ks)) /\ Cardinality(SlotsOf(ks)) = Cardinality(ks)
PROOF
  <1> DEFINE f == [k \in ks |-> slot_map[k]]
  <1>1. IsFiniteSet(ks)
    BY PartFacts, FS_Subset, Zenon
  <1>2. f \in [ks -> SlotsOf(ks)]
    BY Zenon DEF SlotsOf
  <1>3. \A k, l \in ks : f[k] = f[l] => k = l
    BY Zenon DEF TableInv, SlotsInv, Mapped
  <1>4. \A x \in SlotsOf(ks) : \E k \in ks : f[k] = x
    BY Zenon DEF SlotsOf
  <1>5. f \in Bijection(ks, SlotsOf(ks))
    BY <1>2, <1>3, <1>4, Zenon DEF Bijection, Injection, Surjection, IsInjective
  <1>6. ExistsBijection(ks, SlotsOf(ks))
    BY <1>5, Zenon DEF ExistsBijection
  <1> QED
    BY <1>1, <1>6, FS_Bijection, Zenon

LEMMA MarginsAreNaturals ==
  ASSUME SetupsOK, TasksInv
  PROVE  OverflowMargin \in Nat /\ ResolutionMargin \in Nat
PROOF
  <1>1. setup \in Setups
    BY Zenon DEF TasksInv
  <1>2. setup.overflow_margin \in Nat /\ setup.resolution_margin \in 0 .. setup.overflow_margin
    BY <1>1, Zenon DEF SetupsOK
  <1> QED
    BY <1>2 DEF OverflowMargin, ResolutionMargin

LEMMA VictimsFacts ==
  ASSUME TableOK, SetupsOK, TasksInv, TableInv, NEW p \in Parts, NEW ks \in Victims(p)
  PROVE  /\ Range(ks) \in SUBSET Mapped(p) /\ Enumerates(ks, Range(ks))
         /\ Cardinality(Range(ks)) = Excess(p)
PROOF
  <1>1. ks \in [1 .. Excess(p) -> Mapped(p)] /\ IsInjective(ks)
    BY Zenon DEF Victims
  <1>2. Excess(p) \in Nat
    <2>1. Cardinality(Mapped(p)) \in Nat /\ ResolutionMargin \in Nat
      BY PartFacts, MarginsAreNaturals, Zenon
    <2> QED
      BY <2>1 DEF Excess
  <1>3. DOMAIN ks = 1 .. Excess(p) /\ ks \in [1 .. Excess(p) -> Range(ks)]
    BY <1>1, Zenon DEF Range
  <1>4. ks \in Seq(Range(ks)) /\ Len(ks) = Excess(p)
    BY <1>2, <1>3
  <1>5. Range(ks) \in SUBSET Mapped(p)
    BY <1>1, <1>3, Zenon DEF Range
  <1>6. Enumerates(ks, Range(ks))
    BY <1>1, <1>4, Zenon DEF Enumerates, IsInjective, Range
  <1> QED
    BY <1>4, <1>5, <1>6, EnumeratesCount, Zenon

(* The free slots after an eviction are those no remaining key uses. *)
LEMMA FreedSlots ==
  ASSUME TableOK, SetupsOK, TasksInv, TableInv, NEW p \in Parts, NEW vs \in Victims(p)
  PROVE  Enumerates(available_slots[p] \o Reclaimed(vs),
                    FirstSlots(p, slot_buffers[p]) \ SlotsOf(Mapped(p) \ Range(vs)))
PROOF
  <1> DEFINE A == FirstSlots(p, slot_buffers[p])
             ks == Range(vs)
             kept == SlotsOf(Mapped(p) \ ks)
             rs == Reclaimed(vs)
  <1>1. Used(p) \subseteq A /\ Enumerates(available_slots[p], A \ Used(p))
    BY Zenon DEF TableInv, SlotsInv
  <1>2. ks \in SUBSET Mapped(p) /\ Enumerates(vs, ks)
    BY VictimsFacts, Zenon
  <1>3. Enumerates(rs, SlotsOf(ks))
    <2>1. Len(vs) \in Nat /\ DOMAIN vs = 1 .. Len(vs) /\ \A i \in DOMAIN vs : vs[i] \in ks
      BY <1>2 DEF Enumerates
    <2>2. rs \in [1 .. Len(vs) -> SlotsOf(ks)]
      BY <2>1, Zenon DEF Reclaimed, SlotsOf
    <2>3. rs \in Seq(SlotsOf(ks)) /\ DOMAIN rs = DOMAIN vs
      BY <2>1, <2>2
    <2>4. \A i \in DOMAIN vs : rs[i] = slot_map[vs[i]]
      BY <2>1, Zenon DEF Reclaimed
    <2>5. \A k, l \in ks : slot_map[k] = slot_map[l] => k = l
      BY <1>2, Zenon DEF TableInv, SlotsInv, Mapped
    <2> HIDE DEF rs, ks
    <2>6. ASSUME NEW i \in DOMAIN rs, NEW j \in DOMAIN rs, rs[i] = rs[j] PROVE i = j
      <3>1. vs[i] \in ks /\ vs[j] \in ks
        BY <2>1, <2>3, Zenon
      <3>2. slot_map[vs[i]] = slot_map[vs[j]]
        BY <2>3, <2>4, <2>6, Zenon
      <3>3. vs[i] = vs[j]
        BY <2>5, <3>1, <3>2, Zenon
      <3> QED
        BY <1>2, <2>3, <3>3, Zenon DEF Enumerates
    <2>7. ASSUME NEW x \in SlotsOf(ks) PROVE \E i \in DOMAIN rs : rs[i] = x
      <3>1. PICK k \in ks : x = slot_map[k]
        BY <2>7, Zenon DEF SlotsOf
      <3>2. PICK i \in DOMAIN vs : vs[i] = k
        BY <1>2, Zenon DEF Enumerates
      <3> QED
        BY <2>3, <2>4, <3>1, <3>2, Zenon
    <2> QED
      BY <2>3, <2>6, <2>7, Zenon DEF Enumerates
  <1> HIDE DEF ks, rs
  <1>4. SlotsOf(ks) \subseteq Used(p) /\ kept \subseteq Used(p) /\ Used(p) = SlotsOf(ks) \union kept
    BY <1>2 DEF SlotsOf, Used
  <1>5. SlotsOf(ks) \cap kept = {}
    BY <1>2, ZenonT(60) DEF SlotsOf, TableInv, SlotsInv, Mapped
  <1>6. Enumerates(available_slots[p] \o rs, (A \ Used(p)) \union SlotsOf(ks))
    BY <1>1, <1>3, <1>4, ConcatEnumerates, Zenon
  <1>7. (A \ Used(p)) \union SlotsOf(ks) = A \ kept
    BY <1>1, <1>4, <1>5, Zenon
  <1> QED
    BY <1>6, <1>7, Zenon DEF ks, rs

(* When no slot is free, a new buffer is one the partition may have: there   *)
(* is a key that has no slot.                                                *)
LEMMA RoomForBuffer ==
  ASSUME TableOK, TableInv, NEW p \in Parts, NEW ks \in SUBSET Mapped(p), NEW k \in Keys \ Mapped(p),
         FirstSlots(p, slot_buffers[p]) \subseteq SlotsOf(Mapped(p) \ ks)
  PROVE  slot_buffers[p] + 1 \in 0 .. Cardinality(Keys)
PROOF
  <1> DEFINE b == slot_buffers[p]
             m == slots_per_buffer
             n == Cardinality(Keys)
             rest == Mapped(p) \ ks
  <1>1. b \in Nat /\ b \in 0 .. n /\ n \in Nat /\ m \in Nat \ {0}
    BY PartFacts, BufferHasSlots, Zenon
  <1>2. IsFiniteSet(SlotsOf(rest)) /\ Cardinality(SlotsOf(rest)) = Cardinality(rest)
    BY SlotsOfCount, Zenon
  <1>3. Cardinality(FirstSlots(p, b)) <= Cardinality(rest)
    BY <1>2, FS_Subset, Zenon
  <1>4. Cardinality(FirstSlots(p, b)) = b * m
    BY <1>1, FirstSlotsReal, Zenon
  <1>5. IsFiniteSet(Keys \ {k}) /\ Cardinality(Keys \ {k}) = n - 1
    BY FS_RemoveElement, Zenon DEF TableOK, ConfigOK
  <1>6. rest \in SUBSET (Keys \ {k})
    BY PartFacts, Zenon
  <1>7. Cardinality(rest) <= n - 1
    <2> HIDE DEF rest, n
    <2>1. Cardinality(rest) <= Cardinality(Keys \ {k})
      BY <1>5, <1>6, FS_Subset, Zenon
    <2> QED
      BY <1>5, <2>1, Zenon
  <1>8. Cardinality(rest) \in Nat
    <2> HIDE DEF rest
    <2>1. IsFiniteSet(rest)
      BY <1>5, <1>6, FS_Subset, Zenon
    <2> QED
      BY <2>1, FS_CardinalityType, Zenon
  <1> HIDE DEF b, m, n, rest
  <1>9. b * m \in Nat /\ b <= b * m
    BY <1>1, Product
  <1>10. b + 1 \in 0 .. n
    BY <1>1, <1>3, <1>4, <1>7, <1>8, <1>9
  <1> QED
    BY <1>10, Zenon DEF b, n

----------------------------------------------------------------------------
(* The steps keep it *)

LEMMA KeyOfStep ==
  ASSUME SetupsOK, TasksInv, NEW c \in Callers, NEW t \in Tasks, NEW ops \in SUBSET KeyOps,
         ModifyStep(c, t, ops)
  PROVE  /\ Key(c, t) \in Keys /\ PartOf[Key(c, t)] = t[1] /\ t[1] \in Parts
         /\ call[c].version \in Versions /\ UNCHANGED setup
PROOF
  <1>1. call[c].op \in KeyOps /\ Running(c, t) /\ call[c] \in Calls /\ UNCHANGED setup
    BY Zenon DEF ModifyStep, TasksInv
  <1>2. PartOf[Key(c, t)] = t[1]
    BY <1>1, Zenon DEF TasksInv
  <1>3. call[c].op # "find" /\ call[c].op # "clear"
    BY <1>1 DEF KeyOps
  <1>4. at[c][t] \in 1 .. Len(call[c].keys)
    BY <1>1, <1>3, Zenon DEF Running, Steps, IsFind
  <1>5. call[c].version \in Versions /\ call[c].keys \in Seq(Keys)
    BY <1>1 DEF Calls
  <1>6. Key(c, t) \in Keys
    BY SMTT(40), <1>4, <1>5 DEF Key
  <1>7. PartOf \in [Keys -> Parts]
    BY Zenon DEF SetupsOK, TasksInv, PartOf
  <1> QED
    BY <1>1, <1>2, <1>5, <1>6, <1>7, Zenon

LEMMA SlotsKept ==
  ASSUME SlotsInv, UNCHANGED <<setup, slot_map, available_slots, slot_buffers>>
  PROVE  SlotsInv' /\ Present' = Present
PROOF
  <1>1. Present' = Present /\ \A p : Mapped(p)' = Mapped(p)
    BY Zenon DEF Mapped, Present, PartOf
  <1>2. \A p : Used(p)' = Used(p) /\ FirstSlots(p, slot_buffers[p])' = FirstSlots(p, slot_buffers[p])
    BY <1>1, Zenon DEF Used, FirstSlots
  <1> QED
    BY <1>1, <1>2, Zenon DEF SlotsInv

LEMMA TableKept ==
  ASSUME TableInv, UNCHANGED <<setup, table>>
  PROVE  TableInv'
BY SlotsKept, Zenon DEF TableInv, TableTypes, OwnRows, table

LEMMA RowWritten ==
  ASSUME TableOK, SetupsOK, TasksInv, TableInv, NEW k \in Keys, slot_map[k] # None,
         NEW row \in Rows, row[1] = k, Write(slot_map[k], row),
         UNCHANGED <<setup, slot_map, available_slots, slot_buffers>>
  PROVE  TableInv'
PROOF
  <1>1. slot_map[k] \in Slots /\ k \in Present
    BY PresentFacts, Zenon
  <1>2. data' = [data EXCEPT ![slot_map[k]] = row]
    BY <1>1, Zenon DEF Write
  <1>3. TableTypes'
    BY <1>1, <1>2, Zenon DEF TableInv, TableTypes
  <1>4. SlotsInv'
    BY SlotsKept, Zenon DEF TableInv
  <1>5. ASSUME NEW l \in Present PROVE data'[slot_map[l]] \in Rows /\ data'[slot_map[l]][1] = l
    <2>1. slot_map[l] \in Slots
      BY PresentFacts, Zenon DEF Present
    <2>2. CASE l = k
      BY <1>1, <1>2, <2>2, Zenon DEF TableInv, TableTypes
    <2>3. CASE l # k
      <3>1. slot_map[l] # slot_map[k]
        BY <1>1, <2>3, Zenon DEF TableInv, SlotsInv
      <3>2. data'[slot_map[l]] = data[slot_map[l]]
        BY <1>2, <2>1, <3>1, Zenon DEF TableInv, TableTypes
      <3> QED
        BY <3>2, Zenon DEF TableInv, OwnRows
    <2> QED
      BY <2>2, <2>3, Zenon
  <1>6. OwnRows'
    BY <1>5, Zenon DEF OwnRows, Present
  <1> QED
    BY <1>3, <1>4, <1>6, Zenon DEF TableInv

LEMMA InsertPresentKeeps ==
  ASSUME TableOK, SetupsOK, TasksInv, TableInv, NEW c \in Callers, NEW t \in Tasks, InsertPresent(c, t)
  PROVE  TableInv'
PROOF
  <1>1. ModifyStep(c, t, {"insert"}) /\ {"insert"} \in SUBSET KeyOps
    BY DEF InsertPresent, KeyOps
  <1>2. Key(c, t) \in Keys /\ call[c].version \in Versions /\ UNCHANGED setup
    BY <1>1, KeyOfStep, Zenon
  <1>3. <<Key(c, t), call[c].version>> \in Rows /\ <<Key(c, t), call[c].version>>[1] = Key(c, t)
    BY <1>2 DEF Rows
  <1> QED
    BY <1>2, <1>3, RowWritten, Zenon DEF InsertPresent

LEMMA UpdateKeeps ==
  ASSUME TableOK, SetupsOK, TasksInv, TableInv, NEW c \in Callers, NEW t \in Tasks, update(c, t)
  PROVE  TableInv'
PROOF
  <1> DEFINE k == Key(c, t)
             row == IF call[c].op = "update" THEN <<k, call[c].version>>
                    ELSE <<k, (Held(k)[2] + 1) % (MaxVersion + 1)>>
  <1>1. ModifyStep(c, t, {"update", "update_accumulate"}) /\ {"update", "update_accumulate"} \in SUBSET KeyOps
    BY DEF update, KeyOps
  <1>2. k \in Keys /\ call[c].version \in Versions /\ UNCHANGED setup
    BY <1>1, KeyOfStep, Zenon
  <1>3. UNCHANGED <<slot_map, available_slots, slot_buffers>>
    BY Zenon DEF update
  <1>4. CASE slot_map[k] = None
    <2>1. UNCHANGED data
      BY <1>4, Zenon DEF update
    <2> QED
      BY <1>2, <1>3, <2>1, TableKept, Zenon DEF table
  <1>5. CASE slot_map[k] # None
    <2>1. Write(slot_map[k], row)
      BY <1>5, Zenon DEF update
    <2>2. Held(k) \in Rows
      BY <1>2, <1>5, PresentFacts, Zenon
    <2>3. (Held(k)[2] + 1) % (MaxVersion + 1) \in Versions
      <3>1. Held(k)[2] \in Nat /\ MaxVersion \in Nat
        BY <2>2 DEF Rows, Versions, TableOK, ConfigOK
      <3> HIDE DEF k
      <3> QED
        BY <3>1 DEF Versions
    <2>4. row \in Rows /\ row[1] = k
      BY <1>2, <2>3 DEF Rows
    <2> HIDE DEF row, k
    <2> QED
      BY <1>2, <1>3, <1>5, <2>1, <2>4, RowWritten, Zenon
  <1> QED
    BY <1>4, <1>5, Zenon

LEMMA EraseKeeps ==
  ASSUME TableOK, SetupsOK, TasksInv, TableInv, NEW c \in Callers, NEW t \in Tasks, erase(c, t)
  PROVE  TableInv'
PROOF
  <1> DEFINE k == Key(c, t)
             p == t[1]
             A == FirstSlots(p, slot_buffers[p])
  <1>1. ModifyStep(c, t, {"erase"}) /\ {"erase"} \in SUBSET KeyOps
    BY DEF erase, KeyOps
  <1>2. k \in Keys /\ PartOf[k] = p /\ p \in Parts /\ UNCHANGED setup
    BY <1>1, KeyOfStep, Zenon
  <1>3. UNCHANGED <<slot_buffers, data>>
    BY Zenon DEF erase
  <1>4. CASE slot_map[k] = None
    <2>1. UNCHANGED <<slot_map, available_slots>>
      BY <1>4, Zenon DEF erase
    <2> QED
      BY <1>2, <1>3, <2>1, TableKept, Zenon DEF table
  <1>5. CASE slot_map[k] # None
    <2>1. /\ available_slots' = [available_slots EXCEPT ![p] = Append(@, slot_map[k])]
          /\ slot_map' = [slot_map EXCEPT ![k] = None]
      BY <1>5, Zenon DEF erase
    <2>2. slot_map[k] \in A /\ slot_map[k] \in Slots /\ k \in Mapped(p) /\ slot_map[k] \in Used(p)
      BY <1>2, <1>5, PresentFacts, Zenon DEF Used
    <2>3. /\ slot_map' \in [Keys -> Slots \union {None}] /\ slot_map'[k] = None
          /\ \A l \in Keys : l # k => slot_map'[l] = slot_map[l]
      BY <1>2, <2>1, Zenon DEF TableInv, TableTypes
    <2>4. /\ available_slots'[p] = Append(available_slots[p], slot_map[k])
          /\ \A q \in Parts : q # p => available_slots'[q] = available_slots[q]
      BY <1>2, <2>1, Zenon DEF TableInv, TableTypes
    <2>5. available_slots' \in [Parts -> Seq(Slots)]
      <3>1. available_slots[p] \in Seq(Slots)
        BY <1>2, Zenon DEF TableInv, TableTypes
      <3>2. Append(available_slots[p], slot_map[k]) \in Seq(Slots)
        BY <2>2, <3>1
      <3> QED
        BY <2>1, <3>2, Zenon DEF TableInv, TableTypes
    <2>6. Present' = Present \ {k} /\ Mapped(p)' = Mapped(p) \ {k}
      BY <1>2, <2>3 DEF Present, Mapped, PartOf
    <2>7. Used(p)' = Used(p) \ {slot_map[k]}
      <3>1. \A l \in Mapped(p) : slot_map[l] = slot_map[k] => l = k
        BY <2>2, Zenon DEF TableInv, SlotsInv, Mapped
      <3>2. \A l \in Mapped(p) : l # k => slot_map'[l] = slot_map[l]
        BY <2>3, Zenon DEF Mapped, Present
      <3>3. Used(p)' = {slot_map'[l] : l \in Mapped(p) \ {k}}
        BY <2>6, Zenon DEF Used
      <3> QED
        BY <3>1, <3>2, <3>3 DEF Used
    <2>8. \A q \in Parts : q # p => Mapped(q)' = Mapped(q) /\ Used(q)' = Used(q)
      BY <1>2, <2>3, OtherParts, Zenon
    <2>9. Enumerates(available_slots'[p], A \ Used(p)')
      <3>1. Enumerates(available_slots[p], A \ Used(p)) /\ Used(p) \subseteq A
        BY <1>2, Zenon DEF TableInv, SlotsInv
      <3>2. Enumerates(<<slot_map[k]>>, {slot_map[k]})
        BY DEF Enumerates
      <3>3. Enumerates(available_slots[p] \o <<slot_map[k]>>, (A \ Used(p)) \union {slot_map[k]})
        BY <2>2, <3>1, <3>2, ConcatEnumerates, Zenon
      <3>4. available_slots[p] \o <<slot_map[k]>> = Append(available_slots[p], slot_map[k])
        BY <3>1 DEF Enumerates
      <3>5. (A \ Used(p)) \union {slot_map[k]} = A \ (Used(p) \ {slot_map[k]})
        BY <2>2, Zenon
      <3> QED
        BY <2>4, <2>7, <3>3, <3>4, <3>5, Zenon
    <2>10. SlotsInv'
      <3>1. \A l, m \in Present' : slot_map'[l] = slot_map'[m] => l = m
        BY <2>3, <2>6, Zenon DEF TableInv, SlotsInv, Present
      <3>2. ASSUME NEW q \in Parts
            PROVE  /\ Used(q)' \subseteq FirstSlots(q, slot_buffers[q])
                   /\ Enumerates(available_slots'[q], FirstSlots(q, slot_buffers[q]) \ Used(q)')
        <4>1. CASE q = p
          BY <2>7, <2>9, <4>1, Zenon DEF TableInv, SlotsInv
        <4>2. CASE q # p
          BY <2>4, <2>8, <4>2, Zenon DEF TableInv, SlotsInv
        <4> QED
          BY <4>1, <4>2, Zenon
      <3>3. \A q : FirstSlots(q, slot_buffers[q])' = FirstSlots(q, slot_buffers[q])
        BY <1>3, Zenon DEF FirstSlots
      <3> QED
        BY <3>1, <3>2, <3>3, Zenon DEF SlotsInv
    <2>11. OwnRows'
      BY <1>3, <2>3, <2>6, Zenon DEF TableInv, OwnRows, Present
    <2> QED
      BY <1>3, <2>3, <2>5, <2>10, <2>11, Zenon DEF TableInv, TableTypes
  <1> QED
    BY <1>4, <1>5, Zenon

LEMMA ClearKeeps ==
  ASSUME TableOK, SetupsOK, TasksInv, TableInv, NEW c \in Callers, NEW t \in Tasks, clear(c, t)
  PROVE  TableInv'
PROOF
  <1> DEFINE p == t[1]
  <1>1. p \in Parts
    BY DEF Tasks
  <1>2. /\ UNCHANGED setup /\ UNCHANGED data
        /\ slot_map' = [k \in Keys |-> IF k \in Mapped(p) THEN None ELSE slot_map[k]]
        /\ available_slots' = [available_slots EXCEPT ![p] = <<>>]
        /\ slot_buffers' = [slot_buffers EXCEPT ![p] = 0]
    BY Zenon DEF clear, Unmapped, Cleared, ModifyStep
  <1>3. /\ slot_map' \in [Keys -> Slots \union {None}]
        /\ \A k \in Mapped(p) : slot_map'[k] = None
        /\ \A k \in Keys \ Mapped(p) : slot_map'[k] = slot_map[k]
    BY <1>2, PartFacts, <1>1, Zenon DEF TableInv, TableTypes
  <1>4. available_slots' \in [Parts -> Seq(Slots)] /\ available_slots'[p] = <<>>
    <2>1. <<>> \in Seq(Slots)
      OBVIOUS
    <2> QED
      BY <1>1, <1>2, <2>1, Zenon DEF TableInv, TableTypes
  <1>5. slot_buffers' \in [Parts -> 0 .. Cardinality(Keys)] /\ slot_buffers'[p] = 0
    <2>1. 0 \in 0 .. Cardinality(Keys)
      BY <1>1, PartFacts
    <2> QED
      BY <1>1, <1>2, <2>1, Zenon DEF TableInv, TableTypes
  <1>6. \A q \in Parts : q # p => /\ available_slots'[q] = available_slots[q]
                                  /\ slot_buffers'[q] = slot_buffers[q]
    BY <1>2, Zenon DEF TableInv, TableTypes
  <1>7. \A k \in Keys : PartOf[k] # p => slot_map'[k] = slot_map[k]
    BY <1>3, Zenon DEF Mapped
  <1>8. \A q \in Parts : q # p => Mapped(q)' = Mapped(q) /\ Used(q)' = Used(q)
    BY <1>2, <1>7, OtherParts, Zenon
  <1>9. \A k \in Present' : k \in Present /\ slot_map'[k] = slot_map[k]
    BY <1>3, Zenon DEF Present
  <1>10. Mapped(p)' = {} /\ Used(p)' = {}
    <2>1. Mapped(p)' = {}
      BY <1>2, <1>3 DEF Mapped, Present, PartOf
    <2> QED
      BY <2>1 DEF Used
  <1>11. FirstSlots(p, 0) = {}
    <2>1. 0 * slots_per_buffer = 0
      BY BufferHasSlots
    <2>2. 1 .. 0 = {}
      OBVIOUS
    <2> QED
      BY <2>1, <2>2 DEF FirstSlots
  <1>12. ASSUME NEW q \in Parts
         PROVE  /\ Used(q)' \subseteq FirstSlots(q, slot_buffers'[q])
                /\ Enumerates(available_slots'[q], FirstSlots(q, slot_buffers'[q]) \ Used(q)')
    <2>1. CASE q = p
      <3>1. FirstSlots(q, slot_buffers'[q]) \ Used(q)' = {}
        BY <1>5, <1>11, <2>1, Zenon
      <3> QED
        BY <1>4, <1>10, <2>1, <3>1, EmptyEnumeration, Zenon
    <2>2. CASE q # p
      BY <1>6, <1>8, <2>2, Zenon DEF TableInv, SlotsInv
    <2> QED
      BY <2>1, <2>2, Zenon
  <1>13. \A q : FirstSlots(q, slot_buffers[q])' = FirstSlots(q, slot_buffers'[q])
    BY Zenon DEF FirstSlots
  <1>14. SlotsInv'
    BY <1>9, <1>12, <1>13, Zenon DEF TableInv, SlotsInv
  <1>15. OwnRows'
    BY <1>2, <1>9, Zenon DEF TableInv, OwnRows
  <1> QED
    BY <1>2, <1>3, <1>4, <1>5, <1>14, <1>15, Zenon DEF TableInv, TableTypes

(* What insert does for a key that is not there: it evicts the keys ks, and  *)
(* gives the key a slot that no key has, from a new buffer if none is free.  *)
GivesSlot(c, t, ks, slot, bufs, free) ==
  LET p == t[1] IN
  /\ ks \subseteq Mapped(p)
  /\ bufs \in 0 .. Cardinality(Keys)
  /\ SlotsOf(Mapped(p) \ ks) \subseteq FirstSlots(p, bufs)
  /\ slot \in FirstSlots(p, bufs) \ SlotsOf(Mapped(p) \ ks)
  /\ Enumerates(free, (FirstSlots(p, bufs) \ SlotsOf(Mapped(p) \ ks)) \ {slot})
  /\ slot_buffers' = [slot_buffers EXCEPT ![p] = bufs]
  /\ available_slots' = [available_slots EXCEPT ![p] = free]
  /\ Write(slot, <<Key(c, t), call[c].version>>)
  /\ slot_map' = [Unmapped(ks) EXCEPT ![Key(c, t)] = slot]

LEMMA InsertNewGives ==
  ASSUME TableOK, SetupsOK, TasksInv, TableInv, NEW c \in Callers, NEW t \in Tasks, InsertNew(c, t)
  PROVE  \E vs \in Victims(t[1]) : \E slot, bufs, free : GivesSlot(c, t, Range(vs), slot, bufs, free)
PROOF
  <1> DEFINE k == Key(c, t)
             p == t[1]
             b == slot_buffers[p]
  <1>1. ModifyStep(c, t, {"insert"}) /\ {"insert"} \in SUBSET KeyOps
    BY Zenon DEF InsertNew, KeyOps
  <1>2. k \in Keys /\ PartOf[k] = p /\ p \in Parts
    BY <1>1, KeyOfStep, Zenon
  <1>3. k \in Keys \ Mapped(p)
    BY <1>2, Zenon DEF InsertNew, Mapped, Present
  <1>4. b \in Nat /\ b \in 0 .. Cardinality(Keys)
    BY <1>2, PartFacts, Zenon
  <1>5. PICK vs \in Victims(p) :
           LET free == available_slots[p] \o Reclaimed(vs)
               slots == IF free = <<>> THEN NewSlots(p) ELSE free
               slot == IF slots = <<>> THEN Wild ELSE slots[Len(slots)]
           IN  /\ slot_buffers' = [slot_buffers EXCEPT ![p] = IF free = <<>> THEN @ + 1 ELSE @]
               /\ available_slots' = [available_slots EXCEPT ![p] = SubSeq(slots, 1, Len(slots) - 1)]
               /\ Write(slot, <<k, call[c].version>>)
               /\ slot_map' = [Unmapped(Range(vs)) EXCEPT ![k] = slot]
    BY Zenon DEF InsertNew
  <1> DEFINE ks == Range(vs)
  <1>6. ks \in SUBSET Mapped(p)
    BY <1>2, VictimsFacts, Zenon
  <1> DEFINE kept == SlotsOf(Mapped(p) \ ks)
             old == available_slots[p] \o Reclaimed(vs)
             slots == IF old = <<>> THEN NewSlots(p) ELSE old
             bufs == IF old = <<>> THEN b + 1 ELSE b
  <1>7. Enumerates(old, FirstSlots(p, b) \ kept)
    BY <1>2, <1>6, FreedSlots, Zenon
  <1>8. kept \subseteq FirstSlots(p, b)
    BY <1>2, Zenon DEF TableInv, SlotsInv, Used, SlotsOf
  <1>9. /\ bufs \in 0 .. Cardinality(Keys)
        /\ kept \subseteq FirstSlots(p, bufs)
        /\ slots # <<>>
        /\ Enumerates(slots, FirstSlots(p, bufs) \ kept)
    <2>1. CASE old # <<>>
      BY <1>4, <1>7, <1>8, <2>1, Zenon
    <2>2. CASE old = <<>>
      <3>1. FirstSlots(p, b) \ kept = {}
        BY <1>7, <2>2, EmptyEnumeration, Zenon
      <3>2. kept = FirstSlots(p, b)
        BY <1>8, <3>1, Zenon
      <3>3. b + 1 \in 0 .. Cardinality(Keys)
        BY <1>2, <1>3, <1>6, <3>2, RoomForBuffer, Zenon
      <3>4. NewSlots(p) # <<>> /\ Enumerates(NewSlots(p), FirstSlots(p, b + 1) \ kept)
        BY <1>2, <1>4, <3>2, NewSlotsEnumerate, Zenon
      <3>5. FirstSlots(p, b) \subseteq FirstSlots(p, b + 1)
        <4> DEFINE m == slots_per_buffer
        <4>1. m \in Nat \ {0}
          BY BufferHasSlots, Zenon
        <4> HIDE DEF m, b
        <4>2. b * m \in Nat /\ (b + 1) * m = b * m + m
          BY <1>4, <4>1, Product
        <4>3. 1 .. b * m \subseteq 1 .. (b + 1) * m
          BY <4>1, <4>2
        <4> QED
          BY <4>3 DEF FirstSlots, m
      <3> QED
        BY <2>2, <3>2, <3>3, <3>4, <3>5, Zenon
    <2> QED
      BY <2>1, <2>2, Zenon
  <1>10. /\ slots[Len(slots)] \in FirstSlots(p, bufs) \ kept
         /\ Enumerates(SubSeq(slots, 1, Len(slots) - 1), (FirstSlots(p, bufs) \ kept) \ {slots[Len(slots)]})
    BY <1>9, LastOfEnumeration, Zenon
  <1>11. slot_buffers' = [slot_buffers EXCEPT ![p] = bufs]
    BY <1>2, <1>5, Zenon DEF TableInv, TableTypes
  <1>12. /\ available_slots' = [available_slots EXCEPT ![p] = SubSeq(slots, 1, Len(slots) - 1)]
         /\ Write(slots[Len(slots)], <<k, call[c].version>>)
         /\ slot_map' = [Unmapped(ks) EXCEPT ![k] = slots[Len(slots)]]
    BY <1>5, <1>9, Zenon
  <1> HIDE DEF slots, bufs
  <1>13. GivesSlot(c, t, ks, slots[Len(slots)], bufs, SubSeq(slots, 1, Len(slots) - 1))
    BY <1>6, <1>9, <1>10, <1>11, <1>12, Zenon DEF GivesSlot
  <1> QED
    BY <1>5, <1>13, Zenon

LEMMA InsertNewKeeps ==
  ASSUME TableOK, SetupsOK, TasksInv, TableInv, NEW c \in Callers, NEW t \in Tasks, InsertNew(c, t)
  PROVE  TableInv'
PROOF
  <1> DEFINE k == Key(c, t)
             p == t[1]
  <1>1. ModifyStep(c, t, {"insert"}) /\ {"insert"} \in SUBSET KeyOps /\ slot_map[k] = None
    BY Zenon DEF InsertNew, KeyOps
  <1>2. k \in Keys /\ PartOf[k] = p /\ p \in Parts /\ call[c].version \in Versions /\ UNCHANGED setup
    BY <1>1, KeyOfStep, Zenon
  <1>3. PICK vs \in Victims(p) : \E slot, bufs, free : GivesSlot(c, t, Range(vs), slot, bufs, free)
    BY InsertNewGives, Zenon
  <1> DEFINE ks == Range(vs)
  <1>4. PICK slot, bufs, free : GivesSlot(c, t, ks, slot, bufs, free)
    BY <1>3, Zenon
  <1> HIDE DEF ks
  <1> DEFINE kept == SlotsOf(Mapped(p) \ ks)
             A == FirstSlots(p, bufs)
  <1>5. /\ ks \subseteq Mapped(p) /\ kept \subseteq A /\ slot \in A /\ slot \notin kept
        /\ bufs \in 0 .. Cardinality(Keys)
        /\ Enumerates(free, (A \ kept) \ {slot})
    BY <1>4, Zenon DEF GivesSlot
  <1>6. A \subseteq Slots /\ slot \in Slots /\ slot[1] = p
    <2>1. A \subseteq Slots
      BY <1>2, <1>5, FirstSlotsReal, Zenon
    <2>2. slot[1] = p
      BY <1>5 DEF FirstSlots
    <2> QED
      BY <1>5, <2>1, <2>2, Zenon
  <1>7. /\ slot_map' \in [Keys -> Slots \union {None}]
        /\ slot_map'[k] = slot
        /\ \A l \in Keys \ {k} : slot_map'[l] = IF l \in ks THEN None ELSE slot_map[l]
    BY <1>2, <1>4, <1>6, Zenon DEF GivesSlot, Unmapped, TableInv, TableTypes
  <1>8. /\ slot_buffers' \in [Parts -> 0 .. Cardinality(Keys)] /\ slot_buffers'[p] = bufs
        /\ \A q \in Parts : q # p => slot_buffers'[q] = slot_buffers[q]
    BY <1>2, <1>4, <1>5, Zenon DEF GivesSlot, TableInv, TableTypes
  <1>9. /\ available_slots' \in [Parts -> Seq(Slots)] /\ available_slots'[p] = free
        /\ \A q \in Parts : q # p => available_slots'[q] = available_slots[q]
    <2>1. free \in Seq((A \ kept) \ {slot})
      BY <1>5, Zenon DEF Enumerates
    <2>2. free \in Seq(Slots)
      BY <1>6, <2>1
    <2> QED
      BY <1>2, <1>4, <2>2, Zenon DEF GivesSlot, TableInv, TableTypes
  <1>10. data' = [data EXCEPT ![slot] = <<k, call[c].version>>]
    BY <1>4, <1>6, Zenon DEF GivesSlot, Write
  <1>11. data' \in [Slots -> Rows \union {None}] /\ data'[slot] = <<k, call[c].version>>
    <2>1. <<k, call[c].version>> \in Rows
      BY <1>2 DEF Rows
    <2> QED
      BY <1>6, <1>10, <2>1, Zenon DEF TableInv, TableTypes
  <1>12. None \notin Slots
    BY Zenon DEF TableOK, NonesOK
  <1>13. Present' = (Present \ ks) \union {k} /\ Mapped(p)' = (Mapped(p) \ ks) \union {k}
    BY <1>2, <1>6, <1>7, <1>12 DEF Present, Mapped, PartOf
  <1>14. k \notin Mapped(p) /\ k \notin ks /\ k \notin Present
    BY <1>1, <1>5, Zenon DEF Mapped, Present
  <1>15. \A l \in Present \ ks : slot_map'[l] = slot_map[l] /\ l # k
    BY <1>7, <1>14, Zenon DEF Present
  <1>16. Used(p)' = kept \union {slot}
    <2>1. Used(p)' = {slot_map'[l] : l \in Mapped(p) \ ks} \union {slot_map'[k]}
      BY <1>13 DEF Used
    <2>2. {slot_map'[l] : l \in Mapped(p) \ ks} = kept
      <3>1. \A l \in Mapped(p) \ ks : slot_map'[l] = slot_map[l]
        BY <1>15, Zenon DEF Mapped
      <3> QED
        BY <3>1 DEF SlotsOf
    <2> QED
      BY <1>7, <2>1, <2>2, Zenon
  <1>17. \A l \in Keys : PartOf[l] # p => slot_map'[l] = slot_map[l]
    BY <1>2, <1>5, <1>7, Zenon DEF Mapped
  <1>18. \A q \in Parts : q # p => Mapped(q)' = Mapped(q) /\ Used(q)' = Used(q)
    BY <1>2, <1>17, OtherParts, Zenon
  <1>19. ASSUME NEW l \in Present \ ks PROVE slot_map[l] # slot
    <2>1. CASE PartOf[l] = p
      BY <1>5, <2>1, Zenon DEF SlotsOf, Mapped
    <2>2. CASE PartOf[l] # p
      <3>1. slot_map[l][1] = PartOf[l]
        BY PresentFacts, Zenon DEF Present
      <3> QED
        BY <1>6, <2>2, <3>1, Zenon
    <2> QED
      BY <2>1, <2>2, Zenon
  <1>20. \A l, m \in Present' : slot_map'[l] = slot_map'[m] => l = m
    <2> SUFFICES ASSUME NEW l \in Present', NEW m \in Present', slot_map'[l] = slot_map'[m]
                 PROVE  l = m
      BY Zenon
    <2>1. CASE l = k
      BY <1>7, <1>13, <1>15, <1>19, <2>1, Zenon
    <2>2. CASE m = k
      BY <1>7, <1>13, <1>15, <1>19, <2>2, Zenon
    <2>3. CASE l # k /\ m # k
      BY <1>13, <1>15, <2>3, Zenon DEF TableInv, SlotsInv
    <2> QED
      BY <2>1, <2>2, <2>3, Zenon
  <1>21. ASSUME NEW q \in Parts
         PROVE  /\ Used(q)' \subseteq FirstSlots(q, slot_buffers'[q])
                /\ Enumerates(available_slots'[q], FirstSlots(q, slot_buffers'[q]) \ Used(q)')
    <2>1. CASE q = p
      <3>1. (A \ kept) \ {slot} = A \ (kept \union {slot})
        BY Zenon
      <3> QED
        BY <1>5, <1>8, <1>9, <1>16, <2>1, <3>1, Zenon
    <2>2. CASE q # p
      BY <1>8, <1>9, <1>18, <2>2, Zenon DEF TableInv, SlotsInv
    <2> QED
      BY <2>1, <2>2, Zenon
  <1>22. \A q : FirstSlots(q, slot_buffers[q])' = FirstSlots(q, slot_buffers'[q])
    BY Zenon DEF FirstSlots
  <1>23. SlotsInv'
    BY <1>20, <1>21, <1>22, Zenon DEF SlotsInv
  <1>24. OwnRows'
    <2> SUFFICES ASSUME NEW l \in Present'
                 PROVE  data'[slot_map'[l]] \in Rows /\ data'[slot_map'[l]][1] = l
      BY Zenon DEF OwnRows
    <2>1. CASE l = k
      <3>1. <<k, call[c].version>> \in Rows /\ <<k, call[c].version>>[1] = k
        BY <1>2 DEF Rows
      <3> QED
        BY <1>7, <1>11, <2>1, <3>1, Zenon
    <2>2. CASE l # k
      <3>1. l \in Present \ ks /\ slot_map'[l] = slot_map[l] /\ slot_map[l] # slot
        BY <1>13, <1>15, <1>19, <2>2, Zenon
      <3>2. slot_map[l] \in Slots
        BY <3>1, PresentFacts, Zenon DEF Present
      <3>3. data'[slot_map[l]] = data[slot_map[l]]
        BY <1>10, <3>1, <3>2, Zenon DEF TableInv, TableTypes
      <3> QED
        BY <3>1, <3>3, Zenon DEF TableInv, OwnRows
    <2> QED
      BY <2>1, <2>2, Zenon
  <1> QED
    BY <1>7, <1>8, <1>9, <1>11, <1>23, <1>24, Zenon DEF TableInv, TableTypes

LEMMA TableStep ==
  ASSUME TableOK, SetupsOK, TasksInv, TableInv, [Next]_vars
  PROVE  TableInv'
PROOF
  <1>1. CASE UNCHANGED <<setup, table>>
    BY <1>1, TableKept, Zenon
  <1>2. ASSUME NEW c \in Callers, Begin(c) \/ Return(c) PROVE TableInv'
    BY <1>1, <1>2, Zenon DEF Begin, Return, BeginCall, ReturnCall
  <1>3. ASSUME NEW c \in Callers, NEW t \in Tasks, TaskStep(c, t) PROVE TableInv'
    <2>1. CASE StartTask(c, t) \/ LoadWord(c, t) \/ JoinWord(c, t)
      BY <1>1, <2>1, Zenon DEF StartTask, TakeTask, LoadWord, JoinWord
    <2> QED
      BY <1>3, <2>1, InsertPresentKeeps, InsertNewKeeps, UpdateKeeps, EraseKeeps, ClearKeeps, Zenon DEF TaskStep
  <1> QED
    BY <1>1, <1>2, <1>3, Zenon DEF Next, Done, vars

----------------------------------------------------------------------------
(* The size of a partition *)

(* A partition that gains no key stays within its bound. *)
LEMMA SizeShrinks ==
  ASSUME TableOK, SetupsOK, TasksInv, TableInv, SizeBounded, UNCHANGED setup,
         NEW p \in Parts, Mapped(p)' \subseteq Mapped(p)
  PROVE  \/ Cardinality(Mapped(p)') <= OverflowMargin
         \/ Cardinality(Mapped(p)') <= ResolutionMargin + 1
PROOF
  <1>1. OverflowMargin \in Nat /\ ResolutionMargin \in Nat
    BY MarginsAreNaturals, Zenon
  <1>2. IsFiniteSet(Mapped(p)) /\ Cardinality(Mapped(p)) \in Nat
    BY PartFacts, Zenon
  <1>3. Cardinality(Mapped(p)') <= Cardinality(Mapped(p)) /\ IsFiniteSet(Mapped(p)')
    BY <1>2, FS_Subset, Zenon
  <1>4. Cardinality(Mapped(p)') \in Nat
    BY <1>3, FS_CardinalityType, Zenon
  <1>5. \/ Cardinality(Mapped(p)) <= OverflowMargin
        \/ Cardinality(Mapped(p)) <= ResolutionMargin + 1
    BY Zenon DEF SizeBounded
  <1> QED
    BY <1>1, <1>2, <1>3, <1>4, <1>5

LEMMA SizeAfterInsert ==
  ASSUME TableOK, SetupsOK, TasksInv, TableInv, NEW p \in Parts, NEW vs \in Victims(p), NEW k
  PROVE  LET S == (Mapped(p) \ Range(vs)) \union {k}
         IN  Cardinality(S) <= OverflowMargin \/ Cardinality(S) <= ResolutionMargin + 1
PROOF
  <1> DEFINE M == Mapped(p)
             ks == Range(vs)
             n == Cardinality(M)
             r == Cardinality(M \ ks)
             s == Cardinality((M \ ks) \union {k})
             v == Cardinality(ks)
  <1>1. OverflowMargin \in Nat /\ ResolutionMargin \in Nat
    BY MarginsAreNaturals, Zenon
  <1>2. IsFiniteSet(M) /\ n \in Nat
    BY PartFacts, Zenon
  <1>3. ks \in SUBSET M /\ v = Excess(p)
    BY VictimsFacts, Zenon
  <1>4. IsFiniteSet(M \ ks) /\ r = n - v
    <2>1. M \cap ks = ks
      BY <1>3, Zenon
    <2> QED
      BY <1>2, <2>1, FS_Difference, ZenonT(60)
  <1>5. r \in Nat /\ v \in Nat
    BY <1>2, <1>3, <1>4, FS_CardinalityType, FS_Subset, Zenon
  <1>6. s = r \/ s = r + 1
    BY <1>4, FS_AddElement, Zenon
  <1>7. CASE Overflow(p)
    <2>1. v = IF n > ResolutionMargin THEN n - ResolutionMargin ELSE 0
      BY <1>3, <1>7, Zenon DEF Excess
    <2> HIDE DEF n, r, s, v
    <2>2. s <= ResolutionMargin + 1
      BY <1>1, <1>2, <1>4, <1>5, <1>6, <2>1
    <2> QED
      BY <2>2, Zenon DEF s
  <1>8. CASE ~Overflow(p)
    <2>1. v = 0 /\ ~(n >= OverflowMargin)
      BY <1>3, <1>8, Zenon DEF Excess, Overflow
    <2> HIDE DEF n, r, s, v
    <2>2. s <= OverflowMargin
      BY <1>1, <1>2, <1>4, <1>5, <1>6, <2>1
    <2> QED
      BY <2>2, Zenon DEF s
  <1> QED
    BY <1>7, <1>8, Zenon

LEMMA InsertNewSize ==
  ASSUME TableOK, SetupsOK, TasksInv, TableInv, SizeBounded,
         NEW c \in Callers, NEW t \in Tasks, InsertNew(c, t)
  PROVE  SizeBounded'
PROOF
  <1> DEFINE k == Key(c, t)
             p == t[1]
  <1>1. ModifyStep(c, t, {"insert"}) /\ {"insert"} \in SUBSET KeyOps
    BY Zenon DEF InsertNew, KeyOps
  <1>2. k \in Keys /\ PartOf[k] = p /\ p \in Parts /\ UNCHANGED setup
    BY <1>1, KeyOfStep, Zenon
  <1>3. PICK vs \in Victims(p) : \E slot, bufs, free : GivesSlot(c, t, Range(vs), slot, bufs, free)
    BY InsertNewGives, Zenon
  <1> DEFINE ks == Range(vs)
  <1>4. PICK slot, bufs, free : GivesSlot(c, t, ks, slot, bufs, free)
    BY <1>3, Zenon
  <1>5. slot # None /\ ks \subseteq Mapped(p)
    BY <1>2, <1>4, FirstSlotsReal, Zenon DEF GivesSlot
  <1>6. /\ slot_map'[k] = slot
        /\ \A l \in Keys \ {k} : slot_map'[l] = IF l \in ks THEN None ELSE slot_map[l]
    BY <1>2, <1>4, Zenon DEF GivesSlot, Unmapped
  <1>7. Mapped(p)' = (Mapped(p) \ ks) \union {k}
    <2>1. k \notin ks
      BY <1>5, Zenon DEF InsertNew, Mapped, Present
    <2> QED
      BY <1>2, <1>5, <1>6, <2>1 DEF Present, Mapped, PartOf
  <1>8. \A l \in Keys : PartOf[l] # p => slot_map'[l] = slot_map[l]
    BY <1>2, <1>5, <1>6, Zenon DEF Mapped
  <1>9. \A q \in Parts : q # p => Mapped(q)' = Mapped(q)
    BY <1>2, <1>8, OtherParts, Zenon
  <1>10. OverflowMargin' = OverflowMargin /\ ResolutionMargin' = ResolutionMargin
    BY <1>2, Zenon DEF OverflowMargin, ResolutionMargin
  <1>11. \/ Cardinality(Mapped(p)') <= OverflowMargin
         \/ Cardinality(Mapped(p)') <= ResolutionMargin + 1
    BY <1>2, <1>7, SizeAfterInsert, Zenon
  <1> QED
    BY <1>9, <1>10, <1>11, Zenon DEF SizeBounded

LEMMA SizeStep ==
  ASSUME TableOK, SetupsOK, TasksInv, TableInv, SizeBounded, [Next]_vars
  PROVE  SizeBounded'
PROOF
  <1>1. ASSUME UNCHANGED setup, \A k \in Keys : slot_map'[k] # None => slot_map[k] # None
        PROVE  SizeBounded'
    <2>1. \A p \in Parts : Mapped(p)' \subseteq Mapped(p)
      BY <1>1, Zenon DEF Mapped, Present, PartOf
    <2>2. OverflowMargin' = OverflowMargin /\ ResolutionMargin' = ResolutionMargin
      BY <1>1, Zenon DEF OverflowMargin, ResolutionMargin
    <2> QED
      BY <1>1, <2>1, <2>2, SizeShrinks, Zenon DEF SizeBounded
  <1>2. ASSUME NEW c \in Callers, Begin(c) \/ Return(c) PROVE SizeBounded'
    BY <1>1, <1>2, Zenon DEF Begin, Return, BeginCall, ReturnCall, table
  <1>3. ASSUME NEW c \in Callers, NEW t \in Tasks, TaskStep(c, t) PROVE SizeBounded'
    <2>1. CASE StartTask(c, t) \/ LoadWord(c, t) \/ JoinWord(c, t)
      BY <1>1, <2>1, Zenon DEF StartTask, TakeTask, LoadWord, JoinWord, table
    <2>2. CASE InsertPresent(c, t) \/ update(c, t)
      BY <1>1, <2>2, Zenon DEF InsertPresent, update, ModifyStep
    <2>3. CASE erase(c, t)
      <3>1. slot_map' = slot_map \/ slot_map' = [slot_map EXCEPT ![Key(c, t)] = None]
        BY <2>3, Zenon DEF erase
      <3>2. \A k \in Keys : slot_map'[k] # None => slot_map[k] # None
        BY <3>1, Zenon DEF TableInv, TableTypes
      <3> QED
        BY <1>1, <2>3, <3>2, Zenon DEF erase, ModifyStep
    <2>4. CASE clear(c, t)
      <3>1. \A k \in Keys : slot_map'[k] # None => slot_map[k] # None
        BY <2>4, Zenon DEF clear, Unmapped
      <3> QED
        BY <1>1, <2>4, <3>1, Zenon DEF clear, ModifyStep
    <2> QED
      BY <1>3, <2>1, <2>2, <2>3, <2>4, InsertNewSize, Zenon DEF TaskStep
  <1>4. CASE UNCHANGED vars
    BY <1>1, <1>4, Zenon DEF vars, table
  <1> QED
    BY <1>2, <1>3, <1>4, Zenon DEF Next, Done

----------------------------------------------------------------------------
(* The theorem *)

LEMMA InitInv ==
  ASSUME TableOK, SetupsOK, Init
  PROVE  TasksInv /\ TableInv /\ SizeBounded
PROOF
  <1>1. TasksInv
    <2>1. NoCall \in Calls /\ NoCall.op \notin KeyOps
      BY DEF NoCall, Calls, TableOK, ConfigOK, Versions, KeyOps
    <2>2. [t \in Tasks |-> 0] \in [Tasks -> Nat]
      OBVIOUS
    <2> QED
      BY <2>1, <2>2, Zenon DEF Init, InitCalls, TasksInv
  <1>2. Present = {} /\ \A p \in Parts : Mapped(p) = {} /\ Used(p) = {} /\ slot_buffers[p] = 0
    BY DEF Init, Present, Mapped, Used
  <1>3. TableTypes
    <2>1. Cardinality(Keys) \in Nat
      BY FS_CardinalityType, Zenon DEF TableOK, ConfigOK
    <2>2. 0 \in 0 .. Cardinality(Keys) /\ <<>> \in Seq(Slots)
      BY <2>1
    <2> QED
      BY <2>2, Zenon DEF Init, TableTypes
  <1>4. \A p \in Parts : FirstSlots(p, 0) = {}
    <2>1. 0 * slots_per_buffer = 0
      BY BufferHasSlots
    <2>2. 1 .. 0 = {}
      OBVIOUS
    <2> QED
      BY <2>1, <2>2 DEF FirstSlots
  <1>5. SlotsInv
    <2>1. \A p \in Parts : FirstSlots(p, slot_buffers[p]) \ Used(p) = {} /\ available_slots[p] = <<>>
      BY <1>2, <1>4, Zenon DEF Init
    <2> QED
      BY <1>2, <1>4, <2>1, EmptyEnumeration, Zenon DEF SlotsInv
  <1>6. OwnRows
    BY <1>2, Zenon DEF OwnRows
  <1>7. SizeBounded
    <2>1. OverflowMargin \in Nat
      BY <1>1, MarginsAreNaturals, Zenon
    <2>2. 0 <= OverflowMargin
      BY <2>1
    <2> QED
      BY <1>2, <2>2, FS_EmptySet, Zenon DEF SizeBounded
  <1> QED
    BY <1>1, <1>3, <1>5, <1>6, <1>7, Zenon DEF TableInv

LEMMA SlotsInvPartitions ==
  ASSUME TableOK, SetupsOK, TasksInv, TableInv
  PROVE  SlotsPartitioned /\ RowIsOwn
PROOF
  <1>1. ASSUME NEW p \in Parts
        PROVE  LET used == {slot_map[k] : k \in Mapped(p)}
                   free == {available_slots[p][i] : i \in DOMAIN available_slots[p]}
               IN  /\ used \union free = Allocated(p)
                   /\ used \cap free = {}
                   /\ Cardinality(used) = Cardinality(Mapped(p))
                   /\ Cardinality(free) = Len(available_slots[p])
    <2> DEFINE used == {slot_map[k] : k \in Mapped(p)}
               free == {available_slots[p][i] : i \in DOMAIN available_slots[p]}
    <2>1. used = Used(p) /\ used = SlotsOf(Mapped(p)) /\ Allocated(p) = FirstSlots(p, slot_buffers[p])
      BY Zenon DEF Used, SlotsOf, Allocated, FirstSlots
    <2>2. used \subseteq Allocated(p) /\ Enumerates(available_slots[p], Allocated(p) \ used)
      BY <2>1, Zenon DEF TableInv, SlotsInv
    <2>3. free = Allocated(p) \ used /\ Cardinality(Allocated(p) \ used) = Len(available_slots[p])
      <3>1. Cardinality(Allocated(p) \ used) = Len(available_slots[p])
        BY <2>2, EnumeratesCount, Zenon
      <3>2. free = Allocated(p) \ used
        BY <2>2, EnumeratesCount
      <3> QED
        BY <3>1, <3>2, Zenon
    <2>4. Cardinality(used) = Cardinality(Mapped(p))
      BY <2>1, SlotsOfCount, Zenon
    <2> HIDE DEF used, free
    <2>5. used \union free = Allocated(p) /\ used \cap free = {}
      BY <2>2, <2>3, Zenon
    <2> QED
      BY <2>3, <2>4, <2>5, Zenon DEF used, free
  <1>2. ASSUME NEW k \in Present PROVE Held(k) # None /\ Held(k)[1] = k
    <2>1. None \notin Rows
      BY Zenon DEF TableOK, NonesOK
    <2> QED
      BY <2>1, PresentFacts, Zenon DEF Present
  <1> QED
    BY <1>1, <1>2, Zenon DEF SlotsPartitioned, RowIsOwn

(* However the tasks of the callers interleave: every slot of a partition's  *)
(* buffers is free, once, or of exactly one key; the slot of a key holds     *)
(* that key's row; and an overflow keeps a partition within its margins.     *)
THEOREM StlSlots ==
  ASSUME TableOK, SetupsOK
  PROVE  Spec => [](SlotsPartitioned /\ RowIsOwn /\ SizeBounded)
PROOF
  <1> DEFINE Inv == TasksInv /\ TableInv /\ SizeBounded
  <1>1. Init => Inv
    BY InitInv, Zenon
  <1>2. Inv /\ [Next]_vars => Inv'
    <2>1. ConfigOK
      BY Zenon DEF TableOK
    <2> QED
      BY <2>1, TasksStep, TableStep, SizeStep, Zenon
  <1>3. Inv => SlotsPartitioned /\ RowIsOwn /\ SizeBounded
    BY SlotsInvPartitions, Zenon
  <1> QED
    BY <1>1, <1>2, <1>3, PTL DEF Spec

----------------------------------------------------------------------------
(* The words of the find tasks *)

LEMMA DivFacts ==
  ASSUME NEW a \in Nat, NEW b \in Nat \ {0}
  PROVE  \E q \in Nat, r \in 0 .. b - 1 : q = a \div b /\ r = a % b /\ a = b * q + r
PROOF
  <1> DEFINE d == a \div b
             m == a % b
  <1>1. d \in Nat /\ m \in 0 .. b - 1 /\ a = b * d + m
    BY SMTT(30)
  <1>2. d = a \div b /\ m = a % b
    OBVIOUS
  <1> HIDE DEF d, m
  <1> QED
    BY <1>1, <1>2, Zenon

LEMMA DivGreatest ==
  ASSUME NEW a \in Nat, NEW b \in Nat \ {0}, NEW z \in Nat, b * z <= a
  PROVE  z <= a \div b
PROOF
  <1>2. PICK q \in Nat, r \in 0 .. b - 1 : q = a \div b /\ r = a % b /\ a = b * q + r
    BY DivFacts, Zenon
  <1>3. SUFFICES ASSUME q + 1 <= z PROVE FALSE
    BY <1>2
  <1>4. (q + 1) * b <= z * b
    BY <1>2, <1>3, ProductGrows
  <1>5. (q + 1) * b = b * q + b /\ z * b = b * z
    BY <1>2
  <1>6. b * q \in Nat /\ b * z \in Nat
    BY <1>2
  <1> QED
    BY <1>2, <1>4, <1>5, <1>6

(* Rounding up: the quotients of the numbers below n, and what they reach. *)
LEMMA CeilDiv ==
  ASSUME NEW n \in Nat, NEW m \in Nat \ {0}
  PROVE  /\ (n + m - 1) \div m \in Nat
         /\ \A x \in 0 .. n - 1 : x \div m \in 0 .. ((n + m - 1) \div m) - 1
         /\ \A z \in 0 .. ((n + m - 1) \div m) - 1 : m * z \in 0 .. n - 1
PROOF
  <1> DEFINE e == n + m - 1
  <1>1. e \in Nat /\ e = n + m - 1
    OBVIOUS
  <1> HIDE DEF e
  <1>2. PICK c \in Nat, d \in 0 .. m - 1 : c = e \div m /\ d = e % m /\ e = m * c + d
    BY <1>1, DivFacts, Zenon
  <1>3. e = m * c + d
    BY <1>2, Zenon
  <1>4. ASSUME NEW x \in 0 .. n - 1 PROVE x \div m \in 0 .. c - 1
    <2>0. x \in Nat
      OBVIOUS
    <2>1. PICK q \in Nat, r \in 0 .. m - 1 : q = x \div m /\ r = x % m /\ x = m * q + r
      BY <2>0, DivFacts, Zenon
    <2> DEFINE mq == m * q
    <2>2. x = m * q + r
      BY <2>1, Zenon
    <2>3. mq \in Nat /\ m * (q + 1) = mq + m /\ x = mq + r
      BY <2>2
    <2> HIDE DEF mq
    <2>4. m * (q + 1) <= e
      BY <1>1, <2>2, <2>3
    <2>5. q + 1 \in Nat
      BY <2>2
    <2>6. q + 1 <= c
      BY <1>1, <1>2, <2>4, <2>5, DivGreatest, Zenon
    <2>7. q \in 0 .. c - 1
      BY <1>3, <2>2, <2>6
    <2> QED
      BY <2>1, <2>7, Zenon
  <1>5. ASSUME NEW z \in 0 .. c - 1 PROVE m * z \in 0 .. n - 1
    <2>1. z \in Nat /\ z + 1 \in Nat /\ z + 1 <= c
      BY <1>3
    <2>2. (z + 1) * m <= c * m
      BY <1>3, <2>1, ProductGrows
    <2> DEFINE mz == m * z
               mc == m * c
    <2>3. (z + 1) * m = mz + m /\ c * m = mc /\ mz \in Nat /\ mc \in Nat /\ e = mc + d
      BY <1>3, <2>1
    <2> HIDE DEF mz, mc
    <2>4. mz \in 0 .. n - 1
      BY <1>1, <1>3, <2>2, <2>3
    <2> QED
      BY <2>4 DEF mz
  <1> QED
    BY <1>1, <1>2, <1>3, <1>4, <1>5, Zenon

LEMMA ModUnique ==
  ASSUME NEW n \in Nat \ {0}, NEW q \in Nat, NEW w \in 0 .. n - 1
  PROVE  (n * q + w) % n = w
PROOF
  <1> DEFINE a == n * q + w
  <1>1. a \in Nat /\ n * q \in Nat
    OBVIOUS
  <1> HIDE DEF a
  <1>2. PICK p \in Nat, r \in 0 .. n - 1 : p = a \div n /\ r = a % n /\ a = n * p + r
    BY <1>1, DivFacts, Zenon
  <1>3. n * q + w = n * p + r
    BY <1>2 DEF a
  <1>4. CASE p = q
    BY <1>2, <1>3, <1>4 DEF a
  <1>5. CASE p < q
    <2>1. (p + 1) * n <= q * n
      BY <1>2, <1>5, ProductGrows
    <2>2. (p + 1) * n = n * p + n /\ q * n = n * q /\ n * p \in Nat
      BY <1>2
    <2> QED
      BY <1>1, <1>2, <1>3, <2>1, <2>2
  <1>6. CASE q < p
    <2>1. (q + 1) * n <= p * n
      BY <1>2, <1>6, ProductGrows
    <2>2. (q + 1) * n = n * q + n /\ p * n = n * p /\ n * p \in Nat
      BY <1>2
    <2> QED
      BY <1>1, <1>2, <1>3, <2>1, <2>2
  <1> QED
    BY <1>2, <1>4, <1>5, <1>6

(* Shifted by s, the numbers below n are each other's distinct residues. *)
LEMMA ModShift ==
  ASSUME NEW n \in Nat \ {0}, NEW s \in Nat
  PROVE  /\ \A x, y \in 0 .. n - 1 : (s + x) % n = (s + y) % n => x = y
         /\ \A w \in 0 .. n - 1 : \E x \in 0 .. n - 1 : (s + x) % n = w
PROOF
  <1>1. PICK q \in Nat, r \in 0 .. n - 1 : q = s \div n /\ r = s % n /\ s = n * q + r
    BY DivFacts, Zenon
  <1> DEFINE Shift(x) == IF r + x < n THEN r + x ELSE r + x - n
  <1>2. ASSUME NEW x \in 0 .. n - 1 PROVE (s + x) % n = Shift(x)
    <2>0. n * q \in Nat /\ n * (q + 1) = n * q + n
      BY <1>1
    <2>1. CASE r + x < n
      <3>1. r + x \in 0 .. n - 1 /\ s + x = n * q + (r + x)
        BY <1>1, <2>0, <2>1
      <3>2. (n * q + (r + x)) % n = r + x
        BY <1>1, <3>1, ModUnique, Zenon
      <3> QED
        BY <2>1, <3>1, <3>2, Zenon
    <2>2. CASE ~(r + x < n)
      <3>1. r + x - n \in 0 .. n - 1 /\ s + x = n * (q + 1) + (r + x - n)
        BY <1>1, <2>0, <2>2
      <3>2. (n * (q + 1) + (r + x - n)) % n = r + x - n
        <4> DEFINE w == r + x - n
        <4>1. q + 1 \in Nat
          BY <1>1
        <4>2. w \in 0 .. n - 1
          BY <3>1
        <4> HIDE DEF w
        <4>3. (n * (q + 1) + w) % n = w
          BY <4>1, <4>2, ModUnique, Zenon
        <4> QED
          BY <4>3 DEF w
      <3> QED
        BY <2>2, <3>1, <3>2, Zenon
    <2> QED
      BY <2>1, <2>2, Zenon
  <1>3. ASSUME NEW x \in 0 .. n - 1, NEW y \in 0 .. n - 1, (s + x) % n = (s + y) % n
        PROVE  x = y
    <2>1. Shift(x) = Shift(y)
      BY <1>2, <1>3, Zenon
    <2> QED
      BY <1>1, <2>1
  <1>4. ASSUME NEW w \in 0 .. n - 1 PROVE \E x \in 0 .. n - 1 : (s + x) % n = w
    <2> DEFINE x == IF w >= r THEN w - r ELSE w - r + n
    <2>1. x \in 0 .. n - 1 /\ Shift(x) = w
      BY <1>1
    <2> QED
      BY <1>2, <2>1, Zenon
  <1> QED
    BY <1>3, <1>4, Zenon

LEMMA SameTask ==
  ASSUME NEW m \in Nat \ {0}, NEW x \in Nat, NEW y \in Nat, NEW a \in 1 .. m, NEW b \in 1 .. m,
         m * x + a = m * y + b
  PROVE  x = y /\ a = b
PROOF
  <1>0. m * x \in Nat /\ m * y \in Nat
    OBVIOUS
  <1>1. CASE x = y
    BY <1>0, <1>1
  <1>2. CASE x < y
    <2>1. (x + 1) * m <= y * m
      BY <1>2, ProductGrows
    <2>2. (x + 1) * m = m * x + m /\ y * m = m * y
      OBVIOUS
    <2> QED
      BY <1>0, <2>1, <2>2
  <1>3. CASE y < x
    <2>1. (y + 1) * m <= x * m
      BY <1>3, ProductGrows
    <2>2. (y + 1) * m = m * y + m /\ x * m = m * x
      OBVIOUS
    <2> QED
      BY <1>0, <2>1, <2>2
  <1> QED
    BY <1>1, <1>2, <1>3

WordAt(c, t, a) ==
  LET n == MaskSize(Len(call[c].keys))
  IN  (MaxFindTaskSize * t[2] + (n * t[1]) \div NumPartitions + a - 1) % n

LEMMA FindTask ==
  ASSUME ConfigOK, NEW c \in Callers, call[c] \in Calls, IsFind(c), NEW t \in TasksOf(c)
  PROVE  /\ MaskSize(Len(call[c].keys)) \in Nat \ {0}
         /\ t \in Parts \X Nat /\ t[1] \in Nat /\ t[2] \in Nat /\ t = <<t[1], t[2]>>
         /\ TaskSize(c, t) \in 1 .. MaxFindTaskSize
         /\ \A a \in 1 .. TaskSize(c, t) :
              /\ a \in 1 .. MaxFindTaskSize
              /\ MaxFindTaskSize * t[2] + a - 1 \in 0 .. MaskSize(Len(call[c].keys)) - 1
         /\ (MaskSize(Len(call[c].keys)) * t[1]) \div NumPartitions \in Nat
PROOF
  <1> DEFINE l == Len(call[c].keys)
             n == MaskSize(l)
             m == MaxFindTaskSize
  <1>1. l \in Nat /\ m \in Nat \ {0} /\ NumBits \in Nat \ {0} /\ NumPartitions \in Nat \ {0}
    BY DEF ConfigOK, Calls
  <1> HIDE DEF l
  <1>2. n \in Nat
    BY <1>1, CeilDiv, Zenon DEF MaskSize
  <1>3. t \in Parts \X (0 .. TasksPerPart(l) - 1)
    BY Zenon DEF TasksOf, l
  <1>4. TasksPerPart(l) = (n + m - 1) \div m
    BY Zenon DEF TasksPerPart
  <1> HIDE DEF n, m
  <1>5. (n + m - 1) \div m \in Nat /\ \A z \in 0 .. ((n + m - 1) \div m) - 1 : m * z \in 0 .. n - 1
    BY <1>1, <1>2, CeilDiv, Zenon
  <1>6. t[1] \in Parts /\ t[2] \in 0 .. ((n + m - 1) \div m) - 1 /\ t = <<t[1], t[2]>>
    BY <1>3, <1>4
  <1>7. m * t[2] \in 0 .. n - 1
    BY <1>5, <1>6, Zenon
  <1>8. n # 0 /\ n \in Nat \ {0}
    BY <1>2, <1>7
  <1>9. t[1] \in Nat /\ t[2] \in Nat
    <2> HIDE DEF n, m
    <2>1. t[2] \in Nat
      <3> DEFINE k == (n + m - 1) \div m
      <3>1. k \in Nat /\ t[2] \in 0 .. k - 1
        BY <1>5, <1>6, Zenon
      <3> HIDE DEF k
      <3> QED
        BY <3>1
    <2> QED
      BY <1>1, <1>6, <2>1 DEF Parts
  <1>10. TaskSize(c, t) = IF n - m * t[2] < m THEN n - m * t[2] ELSE m
    BY Zenon DEF TaskSize, n, m, l
  <1> DEFINE z == m * t[2]
             s == TaskSize(c, t)
  <1>11. z \in 0 .. n - 1 /\ s = IF n - z < m THEN n - z ELSE m
    BY <1>7, <1>10, Zenon
  <1> HIDE DEF z, s
  <1>12. s \in 1 .. m /\ \A a \in 1 .. s : a \in 1 .. m /\ z + a - 1 \in 0 .. n - 1
    BY <1>1, <1>2, <1>11
  <1>13. (n * t[1]) \div NumPartitions \in Nat
    <2> DEFINE x == n * t[1]
    <2>1. x \in Nat
      BY <1>2, <1>9
    <2> HIDE DEF x
    <2>2. x \div NumPartitions \in Nat
      BY <1>1, <2>1, DivFacts, Zenon
    <2> QED
      BY <2>2 DEF x
  <1>14. t \in Parts \X Nat
    BY <1>6, <1>9
  <1> QED
    BY <1>6, <1>8, <1>9, <1>12, <1>13, <1>14, Zenon DEF n, m, l, z, s

(* No word of a partition is searched twice. *)
LEMMA WordsOnce ==
  ASSUME ConfigOK, NEW c \in Callers, call[c] \in Calls, IsFind(c),
         NEW t \in TasksOf(c), NEW u \in TasksOf(c), t[1] = u[1],
         NEW a \in 1 .. TaskSize(c, t), NEW b \in 1 .. TaskSize(c, u),
         WordAt(c, t, a) = WordAt(c, u, b)
  PROVE  t = u /\ a = b
PROOF
  <1> DEFINE n == MaskSize(Len(call[c].keys))
             m == MaxFindTaskSize
             s == (n * t[1]) \div NumPartitions
             x == m * t[2] + a - 1
             y == m * u[2] + b - 1
  <1>0. m \in Nat \ {0}
    BY DEF ConfigOK
  <1>1. /\ n \in Nat \ {0} /\ s \in Nat /\ x \in 0 .. n - 1 /\ y \in 0 .. n - 1
        /\ a \in 1 .. m /\ b \in 1 .. m /\ t[2] \in Nat /\ u[2] \in Nat
        /\ t = <<t[1], t[2]>> /\ u = <<u[1], u[2]>>
    BY FindTask, Zenon
  <1>2. m * t[2] \in Nat /\ m * u[2] \in Nat
    <2>1. \A z \in Nat : m * z \in Nat
      BY <1>0
    <2> QED
      BY <1>1, <2>1, Zenon
  <1>3. WordAt(c, t, a) = (m * t[2] + s + a - 1) % n /\ WordAt(c, u, b) = (m * u[2] + s + b - 1) % n
    BY Zenon DEF WordAt
  <1> HIDE DEF n, m, s
  <1>4. m * t[2] + s + a - 1 = s + x /\ m * u[2] + s + b - 1 = s + y
    <2> DEFINE mt == m * t[2]
               mu == m * u[2]
    <2>1. mt \in Nat /\ mu \in Nat /\ s \in Nat /\ a \in Int /\ b \in Int
      BY <1>0, <1>1, <1>2
    <2> HIDE DEF mt, mu
    <2>2. mt + s + a - 1 = s + (mt + a - 1) /\ mu + s + b - 1 = s + (mu + b - 1)
      BY <2>1
    <2> QED
      BY <2>2, Zenon DEF mt, mu
  <1>5. (s + x) % n = (s + y) % n
    BY <1>3, <1>4, Zenon
  <1>6. x = y
    <2> HIDE DEF x, y
    <2> QED
      BY <1>1, <1>5, ModShift, Zenon
  <1>7. m * t[2] + a = m * u[2] + b
    <2> DEFINE mt == m * t[2]
               mu == m * u[2]
    <2>1. mt \in Nat /\ mu \in Nat /\ a \in Int /\ b \in Int /\ mt + a - 1 = mu + b - 1
      BY <1>0, <1>1, <1>2, <1>6
    <2> HIDE DEF mt, mu
    <2>2. mt + a = mu + b
      BY <2>1
    <2> QED
      BY <2>2, Zenon DEF mt, mu
  <1>8. t[2] = u[2] /\ a = b
    <2>1. \A v, w \in Nat : m * v + a = m * w + b => v = w /\ a = b
      BY <1>0, <1>1, SameTask
    <2> QED
      BY <1>1, <1>7, <2>1, Zenon
  <1> QED
    BY <1>1, <1>8, Zenon

(* Every position's word is searched for every partition. *)
LEMMA WordsCover ==
  ASSUME ConfigOK, NEW c \in Callers, call[c] \in Calls, IsFind(c), NEW p \in Parts,
         NEW i \in 1 .. Len(call[c].keys)
  PROVE  \E t \in TasksOf(c) : /\ t[1] = p
                               /\ \E a \in 1 .. TaskSize(c, t) : WordAt(c, t, a) = (i - 1) \div NumBits
PROOF
  <1> DEFINE l == Len(call[c].keys)
             n == MaskSize(l)
             m == MaxFindTaskSize
             w == (i - 1) \div NumBits
             s == (n * p) \div NumPartitions
  <1>1. /\ l \in Nat /\ m \in Nat \ {0} /\ NumBits \in Nat \ {0} /\ NumPartitions \in Nat \ {0}
        /\ i - 1 \in 0 .. l - 1
    BY DEF ConfigOK, Calls
  <1>2. n \in Nat /\ w \in 0 .. n - 1
    <2> HIDE DEF l
    <2> QED
      BY <1>1, CeilDiv, Zenon DEF MaskSize
  <1> HIDE DEF w, l
  <1>3. n \in Nat \ {0}
    <2> HIDE DEF n
    <2> QED
      BY <1>2
  <1>4. p \in Nat
    BY <1>1 DEF Parts
  <1>5. s \in Nat
    <2> DEFINE x == n * p
    <2>1. x \in Nat
      <3> HIDE DEF n
      <3> QED
        BY <1>2, <1>4
    <2> HIDE DEF x
    <2>2. x \div NumPartitions \in Nat
      BY <1>1, <2>1, DivFacts, Zenon
    <2> QED
      BY <2>2, Zenon DEF x
  <1> HIDE DEF n, s, m
  <1>6. PICK x \in 0 .. n - 1 : (s + x) % n = w
    BY <1>2, <1>3, <1>5, ModShift, Zenon
  <1>7. x \in Nat
    BY <1>3
  <1>8. PICK q \in Nat, r \in 0 .. m - 1 : q = x \div m /\ r = x % m /\ x = m * q + r
    BY <1>1, <1>7, DivFacts, Zenon DEF m
  <1> DEFINE t == <<p, q>>
             a == r + 1
  <1>9. t \in TasksOf(c) /\ t[1] = p /\ t[2] = q
    <2>1. x \div m \in 0 .. ((n + m - 1) \div m) - 1
      BY <1>1, <1>3, CeilDiv, Zenon DEF m
    <2>2. q \in 0 .. TasksPerPart(Len(call[c].keys)) - 1
      BY <1>8, <2>1, Zenon DEF TasksPerPart, n, m, l
    <2> QED
      BY <2>2 DEF TasksOf
  <1>10. a \in 1 .. TaskSize(c, t)
    <2> DEFINE mq == m * q
               size == TaskSize(c, t)
    <2>1. size = IF n - mq < m THEN n - mq ELSE m
      BY <1>9, Zenon DEF TaskSize, n, m, l
    <2>2. x = mq + r /\ mq \in Nat /\ m \in Nat
      BY <1>1, <1>8 DEF m
    <2> HIDE DEF mq, size
    <2>3. a \in 1 .. size
      BY <1>2, <2>1, <2>2
    <2> QED
      BY <2>3 DEF size
  <1>11. WordAt(c, t, a) = w
    <2>1. WordAt(c, t, a) = (m * q + s + (r + 1) - 1) % n
      BY <1>9, Zenon DEF WordAt, n, m, s, l
    <2> DEFINE mq == m * q
    <2>2. x = mq + r /\ mq \in Nat /\ r \in Nat
      BY <1>1, <1>8 DEF m
    <2> HIDE DEF mq
    <2>3. mq + s + (r + 1) - 1 = s + x
      BY <1>5, <2>2
    <2>4. m * q + s + (r + 1) - 1 = s + x
      BY <2>3, Zenon DEF mq
    <2> QED
      BY <1>6, <2>1, <2>4, Zenon
  <1> QED
    BY <1>9, <1>10, <1>11, Zenon DEF w

----------------------------------------------------------------------------
(* How often a call must still take effect *)

LEMMA FirstTask ==
  ASSUME ConfigOK, BatchesOK, NEW p \in Parts
  PROVE  <<p, 0>> \in Tasks
PROOF
  <1> DEFINE n == MaskSize(MaxBatch)
             m == TasksPerPart(MaxBatch)
  <1>1. MaxBatch \in Nat \ {0} /\ NumBits \in Nat \ {0} /\ MaxFindTaskSize \in Nat \ {0}
    BY DEF ConfigOK, BatchesOK
  <1>2. 0 \in 0 .. MaxBatch - 1 /\ MaxBatch \in Nat
    BY <1>1
  <1>3. n \in Nat /\ 0 \div NumBits \in 0 .. n - 1
    BY <1>1, <1>2, CeilDiv, Zenon DEF MaskSize
  <1> HIDE DEF n
  <1>4. 0 \in 0 .. n - 1
    BY <1>3
  <1>5. m \in Nat /\ 0 \div MaxFindTaskSize \in 0 .. m - 1
    BY <1>1, <1>3, <1>4, CeilDiv, Zenon DEF TasksPerPart, n
  <1> HIDE DEF m
  <1>6. 0 \in 0 .. m - 1
    BY <1>5
  <1> QED
    BY <1>6 DEF Tasks, m

(* The positions of key k from i on. *)
Positions(c, k, i) == {x \in i .. Len(call[c].keys) : call[c].keys[x] = k}

(* A modify task skips no key of its partition. *)
LEMMA SkipLeaves ==
  ASSUME NEW c \in Callers, call[c] \in Calls, call[c].op \notin {"find", "clear"}, NEW t,
         NEW i \in Nat \ {0}, i <= Len(call[c].keys) + 1, NEW k, PartOf[k] = t[1]
  PROVE  /\ StepFrom(c, t, i) \in Nat \ {0}
         /\ Positions(c, k, StepFrom(c, t, i)) = Positions(c, k, i)
PROOF
  <1> DEFINE n == Len(call[c].keys)
             j == StepFrom(c, t, i)
             p == t[1]
  <1>0. n \in Nat
    BY DEF Calls
  <1>1. j = PositionFrom(c, p, i)
    BY Zenon DEF StepFrom
  <1>2. /\ j \in Nat \ {0}
        /\ j \in 1 .. n => j >= i
        /\ \A x \in i .. n : x < j => PartOf[call[c].keys[x]] # p
    BY SMTT(40), <1>1, PositionOwn
  <1>3. j \in i .. n \/ (j \notin 1 .. n)
    BY <1>0, <1>2
  <1>4. ASSUME NEW x \in Positions(c, k, i) PROVE x \in Positions(c, k, j)
    <2>1. x \in i .. n /\ call[c].keys[x] = k
      BY Zenon DEF Positions
    <2>2. ~(x < j)
      BY <1>2, <2>1, Zenon
    <2> HIDE DEF n, j
    <2>3. x \in j .. n
      BY <1>0, <1>2, <2>1, <2>2
    <2> QED
      BY <2>1, <2>3, Zenon DEF Positions, n
  <1>5. ASSUME NEW x \in Positions(c, k, j) PROVE x \in Positions(c, k, i)
    <2>1. x \in j .. n /\ call[c].keys[x] = k
      BY Zenon DEF Positions
    <2> HIDE DEF n, j
    <2>2. x \in i .. n
      BY <1>0, <1>2, <2>1
    <2> QED
      BY <2>1, <2>2, Zenon DEF Positions, n
  <1> QED
    BY <1>2, <1>4, <1>5, Zenon

(* Left, when the key's task is at step a. *)
LeftAt(c, k, a) ==
  IF call[c].op \in {"none", "find"} THEN 0
  ELSE IF call[c].op = "clear" THEN (IF a <= 1 THEN 1 ELSE 0)
  ELSE Cardinality(Positions(c, k, IF a = 0 THEN 1 ELSE a))

LEMMA LeftIs ==
  /\ \A c, k : Left(c, k) = LeftAt(c, k, at[c][<<PartOf[k], 0>>])
  /\ call' = call /\ setup' = setup => \A c, k : Left(c, k)' = LeftAt(c, k, at'[c][<<PartOf[k], 0>>])
BY ZenonT(60) DEF Left, LeftAt, Positions, PartOf

LEMMA PartsOfKeys ==
  ASSUME SetupsOK, TasksInv
  PROVE  PartOf \in [Keys -> Parts]
BY Zenon DEF SetupsOK, TasksInv, PartOf

LEMMA TodoStart ==
  ASSUME SetupsOK, ConfigOK, BatchesOK, TasksInv, NEW c \in Callers, NEW t \in Tasks, TakeTask(c, t)
  PROVE  AbsTodo' = AbsTodo
PROOF
  <1>1. /\ setup' = setup /\ call' = call /\ at[c][t] = 0 /\ call[c] \in Calls
        /\ at' = [at EXCEPT ![c][t] = StepFrom(c, t, 1)]
    BY Zenon DEF TakeTask, TasksInv
  <1>2. /\ at'[c][t] = StepFrom(c, t, 1)
        /\ \A d \in Callers : \A u \in Tasks : ~(d = c /\ u = t) => at'[d][u] = at[d][u]
    BY <1>1, Zenon DEF TasksInv
  <1>3. ASSUME NEW k \in Keys, PartOf[k] = t[1] PROVE LeftAt(c, k, StepFrom(c, t, 1)) = LeftAt(c, k, 0)
    <2>1. CASE call[c].op \in {"none", "find"}
      BY <2>1, Zenon DEF LeftAt
    <2>2. CASE call[c].op = "clear"
      <3>1. StepFrom(c, t, 1) = 1
        BY <2>2, Zenon DEF StepFrom
      <3> QED
        BY <2>2, <3>1 DEF LeftAt
    <2>3. CASE call[c].op \notin {"none", "find", "clear"}
      <3>1. 1 \in Nat \ {0} /\ 1 <= Len(call[c].keys) + 1 /\ call[c].op \notin {"find", "clear"}
        BY <1>1, <2>3 DEF Calls
      <3>2. StepFrom(c, t, 1) \in Nat \ {0} /\ Positions(c, k, StepFrom(c, t, 1)) = Positions(c, k, 1)
        BY <1>1, <1>3, <3>1, SkipLeaves
      <3>3. StepFrom(c, t, 1) # 0
        BY <3>2, Zenon
      <3> QED
        BY <2>3, <3>2, <3>3, Zenon DEF LeftAt
    <2> QED
      BY <2>1, <2>2, <2>3, Zenon
  <1>4. ASSUME NEW d \in Callers, NEW k \in Keys PROVE Left(d, k)' = Left(d, k)
    <2> DEFINE u == <<PartOf[k], 0>>
    <2>1. u \in Tasks
      BY FirstTask, PartsOfKeys, Zenon
    <2>2. Left(d, k) = LeftAt(d, k, at[d][u]) /\ Left(d, k)' = LeftAt(d, k, at'[d][u])
      BY <1>1, LeftIs, Zenon
    <2>3. u[1] = PartOf[k]
      OBVIOUS
    <2> HIDE DEF u
    <2>4. CASE d = c /\ u = t
      BY <1>1, <1>2, <1>3, <2>2, <2>3, <2>4, Zenon
    <2>5. CASE ~(d = c /\ u = t)
      BY <1>2, <2>1, <2>2, <2>5, Zenon
    <2> QED
      BY <2>4, <2>5, Zenon
  <1> QED
    BY <1>4, Zenon DEF AbsTodo

(* The call of c has taken effect once on each key of S. *)
Lowered(c, S) ==
  [AbsTodo EXCEPT ![c] = [k \in Keys |-> IF k \in S THEN AbsTodo[c][k] - 1 ELSE AbsTodo[c][k]]]

LEMMA TodoFrame ==
  ASSUME SetupsOK, ConfigOK, BatchesOK, TasksInv, call' = call, setup' = setup,
         NEW c \in Callers, NEW t \in Tasks, NEW b, at' = [at EXCEPT ![c][t] = b],
         t = <<t[1], 0>>, NEW S \in SUBSET Keys, \A k \in S : PartOf[k] = t[1],
         \A k \in Keys : PartOf[k] = t[1] =>
           LeftAt(c, k, b) = IF k \in S THEN LeftAt(c, k, at[c][t]) - 1 ELSE LeftAt(c, k, at[c][t])
  PROVE  AbsTodo' = Lowered(c, S)
PROOF
  <1>1. /\ at'[c][t] = b
        /\ \A d \in Callers : \A u \in Tasks : ~(d = c /\ u = t) => at'[d][u] = at[d][u]
    BY Zenon DEF TasksInv
  <1>2. ASSUME NEW d \in Callers, NEW k \in Keys
        PROVE  Left(d, k)' = IF d = c /\ k \in S THEN Left(d, k) - 1 ELSE Left(d, k)
    <2> DEFINE u == <<PartOf[k], 0>>
    <2>1. u \in Tasks
      BY FirstTask, PartsOfKeys, Zenon
    <2>2. Left(d, k) = LeftAt(d, k, at[d][u]) /\ Left(d, k)' = LeftAt(d, k, at'[d][u])
      BY LeftIs, Zenon
    <2>3. u[1] = PartOf[k] /\ (u = t <=> PartOf[k] = t[1])
      OBVIOUS
    <2> HIDE DEF u
    <2>4. CASE d = c /\ u = t
      BY <1>1, <2>2, <2>3, <2>4, Zenon
    <2>5. CASE ~(d = c /\ u = t)
      BY <1>1, <2>1, <2>2, <2>3, <2>5, Zenon
    <2> QED
      BY <2>4, <2>5, Zenon
  <1>3. /\ AbsTodo = [d \in Callers |-> [k \in Keys |-> Left(d, k)]]
        /\ AbsTodo' = [d \in Callers |-> [k \in Keys |-> Left(d, k)']]
    BY Zenon DEF AbsTodo
  <1>4. AbsTodo'[c] = [k \in Keys |-> IF k \in S THEN AbsTodo[c][k] - 1 ELSE AbsTodo[c][k]]
    BY <1>2, <1>3, Zenon
  <1>5. \A d \in Callers : d # c => AbsTodo'[d] = AbsTodo[d]
    BY <1>2, <1>3, Zenon
  <1> QED
    BY <1>3, <1>4, <1>5, Zenon DEF Lowered

LEMMA NextPositions ==
  ASSUME NEW c \in Callers, call[c] \in Calls, NEW a \in 1 .. Len(call[c].keys), NEW k
  PROVE  /\ IsFiniteSet(Positions(c, k, a)) /\ Cardinality(Positions(c, k, a)) \in Nat
         /\ call[c].keys[a] = k => /\ Cardinality(Positions(c, k, a)) > 0
                                   /\ Cardinality(Positions(c, k, a + 1)) = Cardinality(Positions(c, k, a)) - 1
         /\ call[c].keys[a] # k => Positions(c, k, a + 1) = Positions(c, k, a)
PROOF
  <1> DEFINE n == Len(call[c].keys)
             A == Positions(c, k, a)
             B == Positions(c, k, a + 1)
  <1>1. n \in Nat
    BY DEF Calls
  <1>2. A \subseteq a .. n /\ IsFiniteSet(a .. n)
    BY <1>1, FS_Interval DEF Positions
  <1>3. IsFiniteSet(A) /\ Cardinality(A) \in Nat
    <2>1. IsFiniteSet(A)
      BY <1>2, FS_Subset, Zenon
    <2> QED
      BY <2>1, FS_CardinalityType, Zenon
  <1>4. \A x : x \in (a + 1) .. n <=> x \in a .. n /\ x # a
    BY <1>1
  <1>5. a \in a .. n
    BY <1>1
  <1>6. CASE call[c].keys[a] = k
    <2>1. a \in A
      BY <1>5, <1>6, Zenon DEF Positions
    <2>2. B = A \ {a}
      BY <1>4, <1>6, Zenon DEF Positions
    <2>3. IsFiniteSet(B) /\ Cardinality(B) = Cardinality(A) - 1
      BY <1>3, <2>1, <2>2, FS_RemoveElement
    <2>4. Cardinality(B) \in Nat
      BY <2>3, FS_CardinalityType, Zenon
    <2> HIDE DEF A, B
    <2>5. Cardinality(A) > 0
      BY <1>3, <2>3, <2>4
    <2> QED
      BY <1>3, <1>6, <2>3, <2>5, Zenon DEF A, B
  <1>7. CASE call[c].keys[a] # k
    <2>1. B = A
      BY <1>4, <1>7, Zenon DEF Positions
    <2> QED
      BY <1>3, <1>7, <2>1, Zenon
  <1> QED
    BY <1>6, <1>7, Zenon

LEMMA TodoKey ==
  ASSUME SetupsOK, ConfigOK, BatchesOK, TasksInv, NEW c \in Callers, NEW t \in Tasks, t = <<t[1], 0>>,
         NEW ops \in SUBSET KeyOps, ModifyStep(c, t, ops)
  PROVE  /\ AbsTodo[c][Key(c, t)] > 0
         /\ AbsTodo' = Lowered(c, {Key(c, t)})
PROOF
  <1> DEFINE key == Key(c, t)
             a == at[c][t]
             b == StepFrom(c, t, a + 1)
  <1>1. /\ call' = call /\ setup' = setup /\ call[c].op \in KeyOps /\ Running(c, t)
        /\ call[c] \in Calls /\ at' = [at EXCEPT ![c][t] = b]
    BY Zenon DEF ModifyStep, StepDone, TasksInv
  <1>2. key \in Keys /\ PartOf[key] = t[1]
    BY KeyOfStep, Zenon
  <1>3. call[c].op \notin {"none", "find", "clear"} /\ call[c].op \notin {"find", "clear"}
    BY <1>1 DEF KeyOps
  <1>4. a \in 1 .. Len(call[c].keys) /\ key = call[c].keys[a]
    BY <1>1, <1>3, Zenon DEF Running, Steps, IsFind, Key
  <1>5. a \in Nat /\ a # 0 /\ a + 1 \in Nat \ {0} /\ a + 1 <= Len(call[c].keys) + 1
    BY SMTT(40), <1>1, <1>4 DEF Calls
  <1> HIDE DEF a
  <1>6. ASSUME NEW k \in Keys, PartOf[k] = t[1]
        PROVE  LeftAt(c, k, a) = Cardinality(Positions(c, k, a)) /\ LeftAt(c, k, b) = Cardinality(Positions(c, k, a + 1))
    <2>1. b \in Nat \ {0} /\ Positions(c, k, b) = Positions(c, k, a + 1)
      BY <1>1, <1>3, <1>5, <1>6, SkipLeaves
    <2> QED
      BY <1>3, <1>5, <2>1, Zenon DEF LeftAt
  <1>7. \A k \in Keys : PartOf[k] = t[1] =>
          LeftAt(c, k, b) = IF k \in {key} THEN LeftAt(c, k, a) - 1 ELSE LeftAt(c, k, a)
    BY <1>1, <1>4, <1>6, NextPositions, ZenonT(60)
  <1>8. AbsTodo[c][key] > 0
    <2>1. AbsTodo[c][key] = LeftAt(c, key, at[c][<<PartOf[key], 0>>])
      BY <1>2, LeftIs, Zenon DEF AbsTodo
    <2>2. AbsTodo[c][key] = LeftAt(c, key, a)
      BY <1>2, <2>1, Zenon DEF a
    <2> QED
      BY <1>1, <1>2, <1>4, <1>6, <2>2, NextPositions, Zenon
  <1>9. {key} \in SUBSET Keys /\ \A k \in {key} : PartOf[k] = t[1]
    BY <1>2, Zenon
  <1> HIDE DEF b, key
  <1>10. AbsTodo' = Lowered(c, {key})
    BY <1>1, <1>7, <1>9, TodoFrame, Zenon DEF a
  <1> QED
    BY <1>8, <1>10, Zenon DEF key

LEMMA TodoClear ==
  ASSUME SetupsOK, ConfigOK, BatchesOK, TasksInv, NEW c \in Callers, NEW t \in Tasks, t = <<t[1], 0>>,
         ModifyStep(c, t, {"clear"}), NEW S \in SUBSET Keys,
         \A k \in Keys : k \in S <=> PartOf[k] = t[1]
  PROVE  /\ \A k \in S : AbsTodo[c][k] > 0
         /\ AbsTodo' = Lowered(c, S)
PROOF
  <1>1. /\ call' = call /\ setup' = setup /\ call[c].op = "clear" /\ Running(c, t)
        /\ at' = [at EXCEPT ![c][t] = StepFrom(c, t, at[c][t] + 1)]
    BY Zenon DEF ModifyStep, StepDone, TasksInv
  <1>2. Steps(c, t) = 1
    BY <1>1 DEF Steps, IsFind
  <1>3. at[c][t] = 1
    BY <1>1, <1>2 DEF Running
  <1>4. StepFrom(c, t, at[c][t] + 1) = 2
    <2>1. StepFrom(c, t, at[c][t] + 1) = at[c][t] + 1
      BY <1>1, Zenon DEF StepFrom
    <2> QED
      BY <1>3, <2>1
  <1>5. \A k : LeftAt(c, k, 1) = 1 /\ LeftAt(c, k, 2) = 1 - 1
    BY <1>1 DEF LeftAt
  <1>6. ASSUME NEW k \in S PROVE AbsTodo[c][k] > 0
    <2>1. AbsTodo[c][k] = LeftAt(c, k, at[c][<<PartOf[k], 0>>])
      BY LeftIs, Zenon DEF AbsTodo
    <2>2. AbsTodo[c][k] = 1
      BY <1>3, <1>5, <2>1, Zenon
    <2> QED
      BY <2>2
  <1>7. S \in SUBSET Keys /\ (\A k \in S : PartOf[k] = t[1]) /\ \A k \in Keys : PartOf[k] = t[1] => k \in S
    BY Zenon
  <1>8. at' = [at EXCEPT ![c][t] = 2]
    BY <1>1, <1>4, Zenon
  <1>9. \A k \in Keys : PartOf[k] = t[1] =>
          LeftAt(c, k, 2) = IF k \in S THEN LeftAt(c, k, at[c][t]) - 1 ELSE LeftAt(c, k, at[c][t])
    BY <1>3, <1>5, <1>7, Zenon
  <1>10. AbsTodo' = Lowered(c, S)
    BY <1>1, <1>7, <1>8, <1>9, TodoFrame, ZenonT(60)
  <1> QED
    BY <1>6, <1>10, Zenon

----------------------------------------------------------------------------
(* The calls *)

OutputsInv == DOMAIN rows = Callers /\ DOMAIN hit_mask = Callers /\ DOMAIN hits = Callers /\ DOMAIN seen = Callers

(* What holds of a caller and its call; seen has the table as it is now. *)
CallInv(c) ==
  /\ call[c].op = "none" <=> call[c] = NoCall
  /\ IsFind(c) => Len(call[c].keys) <= MaxBatch
  /\ call[c].mask \subseteq DOMAIN call[c].keys
  /\ call[c] # NoCall => \A t \in Tasks : at[c][t] # 0 => t \in TasksOf(c)
  /\ IF call[c] = NoCall THEN seen[c] = {} ELSE Content(TableRows) \subseteq seen[c]
  /\ ~IsFind(c) /\ call[c] # NoCall => rows[c] = <<>> /\ hit_mask[c] = {} /\ hits[c] = 0

CallsInv == \A c \in Callers : CallInv(c)

(* Tasks that run on one partition share its lock: they are all finds. *)
LockInv ==
  \A c, d \in Callers : \A t, u \in Tasks :
    t[1] = u[1] /\ Running(c, t) /\ Running(d, u) /\ ~(c = d /\ t = u) => IsFind(c) /\ IsFind(d)

LEMMA RunningTask ==
  ASSUME TasksInv, CallsInv, NEW c \in Callers, NEW t \in Tasks, Running(c, t)
  PROVE  /\ call[c] # NoCall /\ at[c][t] # 0 /\ t \in TasksOf(c)
         /\ ~IsFind(c) => t = <<t[1], 0>> /\ t[1] \in Parts
PROOF
  <1>1. call[c] # NoCall
    <2>1. SUFFICES ASSUME call[c] = NoCall PROVE FALSE
      OBVIOUS
    <2>2. Steps(c, t) = Len(<<>>)
      BY <2>1 DEF Steps, IsFind, NoCall
    <2> QED
      BY <2>2 DEF Running
  <1>2. at[c][t] # 0
    BY DEF Running
  <1>3. t \in TasksOf(c)
    BY <1>1, <1>2, Zenon DEF CallsInv, CallInv
  <1>4. ~IsFind(c) => t = <<t[1], 0>> /\ t[1] \in Parts
    BY <1>3 DEF TasksOf
  <1> QED
    BY <1>1, <1>2, <1>3, <1>4, Zenon

LEMMA BeginFacts ==
  ASSUME SetupsOK, ConfigOK, BatchesOK, TasksInv, NEW c \in Callers, NEW tab, BeginCall(c, tab)
  PROVE  \E op \in Operations, v \in Versions, ks \in Seq(Keys), mask \in SUBSET Nat :
           /\ mask \subseteq DOMAIN ks
           /\ op = "clear" => ks = EveryKey
           /\ op = "find" => Len(ks) <= MaxBatch
           /\ op # "find" => mask = {}
           /\ call' = [call EXCEPT ![c] = [op |-> op, keys |-> ks, version |-> v, mask |-> mask]]
           /\ hit_mask' = [hit_mask EXCEPT ![c] = mask]
           /\ rows' = [rows EXCEPT ![c] = IF op = "find" THEN [i \in DOMAIN ks |-> None] ELSE <<>>]
PROOF
  <1> DEFINE B(op, v, ks, mask) ==
               /\ call' = [call EXCEPT ![c] = [op |-> op, keys |-> ks, version |-> v, mask |-> mask]]
               /\ hit_mask' = [hit_mask EXCEPT ![c] = mask]
               /\ rows' = [rows EXCEPT ![c] = IF op = "find" THEN [i \in DOMAIN ks |-> None] ELSE <<>>]
             KS(op) == IF op = "clear" THEN {EveryKey} ELSE setup.batches
             MS(op, ks) == IF op = "find" THEN {m \cap DOMAIN ks : m \in setup.masks} ELSE {{}}
  <1>1. \E op \in setup.ops, v \in setup.versions : \E ks \in KS(op) : \E mask \in MS(op, ks) : B(op, v, ks, mask)
    BY ZenonT(60) DEF BeginCall
  <1> HIDE DEF B
  <1>2. PICK op \in setup.ops, v \in setup.versions : \E ks \in KS(op) : \E mask \in MS(op, ks) : B(op, v, ks, mask)
    BY <1>1, Zenon
  <1>3. PICK ks \in KS(op) : \E mask \in MS(op, ks) : B(op, v, ks, mask)
    BY <1>2, Zenon
  <1>4. PICK mask \in MS(op, ks) : B(op, v, ks, mask)
    BY <1>3, Zenon
  <1>5. op \in Operations /\ v \in Versions /\ setup \in Setups
    BY Zenon DEF SetupsOK, TasksInv
  <1>6. ks \in Seq(Keys) /\ (op = "clear" => ks = EveryKey) /\ (op # "clear" => ks \in setup.batches)
    BY <1>5, EveryKeyEnumerates, Zenon DEF SetupsOK, ConfigOK, Enumerates
  <1>7. op = "find" => Len(ks) <= MaxBatch
    <2>1. op = "find" => ks \in Batches
      BY <1>5, <1>6, Zenon DEF Batches
    <2> QED
      BY <2>1, Zenon DEF BatchesOK
  <1>8. mask \subseteq DOMAIN ks /\ (op # "find" => mask = {})
    BY <1>4, Zenon
  <1>9. mask \in SUBSET Nat
    <2>1. DOMAIN ks \subseteq Nat
      BY <1>6
    <2> QED
      BY <1>8, <2>1, Zenon
  <1> QED
    BY <1>4, <1>5, <1>6, <1>7, <1>8, <1>9, Zenon DEF B

LEMMA OutputsStep ==
  ASSUME OutputsInv, [Next]_vars
  PROVE  OutputsInv'
PROOF
  <1>1. CASE UNCHANGED <<rows, hit_mask, hits, seen>>
    BY <1>1, Zenon DEF OutputsInv
  <1>2. ASSUME NEW c, NEW tab, BeginCall(c, tab) PROVE OutputsInv'
    <2>1. \E ks, op, mask : /\ hit_mask' = [hit_mask EXCEPT ![c] = mask]
                           /\ rows' = [rows EXCEPT ![c] = IF op = "find" THEN [i \in DOMAIN ks |-> None] ELSE <<>>]
      BY <1>2, Zenon DEF BeginCall
    <2> QED
      BY <1>2, <2>1, Zenon DEF BeginCall, OutputsInv
  <1>3. ASSUME NEW c, ReturnCall(c) PROVE OutputsInv'
    BY <1>3, Zenon DEF ReturnCall, OutputsInv, outputs
  <1>4. ASSUME NEW c, NEW t, NEW ops, NEW tab, ModifyStep(c, t, ops), Observe(tab) PROVE OutputsInv'
    BY <1>4, Zenon DEF ModifyStep, Observe, OutputsInv, outputs
  <1>5. ASSUME NEW c, NEW t, JoinWord(c, t) PROVE OutputsInv'
    BY <1>5, Zenon DEF JoinWord, OutputsInv
  <1>6. ASSUME NEW c, NEW t, TaskStep(c, t) PROVE OutputsInv'
    <2>1. CASE StartTask(c, t) \/ LoadWord(c, t)
      BY <1>1, <2>1, Zenon DEF StartTask, TakeTask, LoadWord, outputs
    <2> QED
      BY <1>4, <1>5, <1>6, <2>1, Zenon DEF TaskStep, InsertPresent, InsertNew, update, erase, clear
  <1> QED
    BY <1>1, <1>2, <1>3, <1>6, Zenon DEF Next, Begin, Return, Done, vars, outputs

LEMMA RowsUnchanged ==
  ASSUME UNCHANGED table
  PROVE  TableRows' = TableRows
BY Zenon DEF table, TableRows, Held, RowAt

LEMMA CallKept ==
  ASSUME NEW d \in Callers, CallInv(d), call'[d] = call[d], at'[d] = at[d], seen'[d] = seen[d],
         rows'[d] = rows[d], hit_mask'[d] = hit_mask[d], hits'[d] = hits[d], TableRows' = TableRows
  PROVE  CallInv(d)'
BY Zenon DEF CallInv, IsFind, TasksOf, Content

LEMMA BeginCalls ==
  ASSUME SetupsOK, TableOK, BatchesOK, TasksInv, OutputsInv, CallsInv, NEW c \in Callers, Begin(c)
  PROVE  CallsInv'
PROOF
  <1>1. /\ BeginCall(c, TableRows) /\ TableRows' = TableRows /\ ConfigOK
        /\ at' = [at EXCEPT ![c] = [t \in Tasks |-> 0]]
        /\ hits' = [hits EXCEPT ![c] = 0]
        /\ seen' = [seen EXCEPT ![c] = Content(TableRows)]
    BY RowsUnchanged, Zenon DEF Begin, BeginCall, TableOK
  <1>2. PICK op \in Operations, v \in Versions, ks \in Seq(Keys), mask \in SUBSET Nat :
           /\ mask \subseteq DOMAIN ks
           /\ op = "clear" => ks = EveryKey
           /\ op = "find" => Len(ks) <= MaxBatch
           /\ op # "find" => mask = {}
           /\ call' = [call EXCEPT ![c] = [op |-> op, keys |-> ks, version |-> v, mask |-> mask]]
           /\ hit_mask' = [hit_mask EXCEPT ![c] = mask]
           /\ rows' = [rows EXCEPT ![c] = IF op = "find" THEN [i \in DOMAIN ks |-> None] ELSE <<>>]
    BY <1>1, BeginFacts, Zenon
  <1>3. /\ call'[c] = [op |-> op, keys |-> ks, version |-> v, mask |-> mask]
        /\ hit_mask'[c] = mask /\ hits'[c] = 0 /\ seen'[c] = Content(TableRows)
        /\ rows'[c] = IF op = "find" THEN [i \in DOMAIN ks |-> None] ELSE <<>>
        /\ \A t \in Tasks : at'[c][t] = 0
    BY <1>1, <1>2, Zenon DEF OutputsInv, TasksInv
  <1>4. \A d \in Callers : d # c => /\ call'[d] = call[d] /\ hit_mask'[d] = hit_mask[d] /\ hits'[d] = hits[d]
                                    /\ seen'[d] = seen[d] /\ rows'[d] = rows[d] /\ at'[d] = at[d]
    BY <1>1, <1>2, Zenon DEF OutputsInv, TasksInv
  <1>5. CallInv(c)'
    <2>1. call'[c].op = op /\ call'[c].keys = ks /\ call'[c].mask = mask
      BY SMTT(40), <1>3
    <2>2. op # "none" /\ call'[c] # NoCall
      BY SMTT(40), <2>1 DEF Operations, NoCall
    <2>3. Content(TableRows)' = Content(TableRows)
      BY <1>1, Zenon DEF Content
    <2> QED
      BY <1>2, <1>3, <2>1, <2>2, <2>3, Zenon DEF CallInv, IsFind
  <1>6. \A d \in Callers : d # c => CallInv(d)'
    BY <1>1, <1>4, CallKept, Zenon DEF CallsInv
  <1> QED
    BY <1>5, <1>6, Zenon DEF CallsInv

LEMMA CallsMove ==
  ASSUME TasksInv, CallsInv, call' = call, NEW c \in Callers, NEW t \in Tasks, t \in TasksOf(c), NEW b,
         at' = at \/ at' = [at EXCEPT ![c][t] = b],
         \A d \in Callers : IF call[d] = NoCall THEN seen'[d] = {} ELSE Content(TableRows)' \subseteq seen'[d],
         \A d \in Callers : ~IsFind(d) => rows'[d] = rows[d] /\ hit_mask'[d] = hit_mask[d] /\ hits'[d] = hits[d]
  PROVE  CallsInv'
PROOF
  <1>1. \A d \in Callers : \A u \in Tasks : ~(d = c /\ u = t) => at'[d][u] = at[d][u]
    <2>1. CASE at' = at
      BY <2>1, Zenon
    <2>2. CASE at' = [at EXCEPT ![c][t] = b]
      BY <2>2, Zenon DEF TasksInv
    <2> QED
      BY <2>1, <2>2, Zenon
  <1>2. ASSUME NEW d \in Callers, call[d] # NoCall, NEW u \in Tasks, at'[d][u] # 0 PROVE u \in TasksOf(d)'
    <2>1. u \in TasksOf(d)
      <3>1. CASE d = c /\ u = t
        BY <3>1, Zenon
      <3>2. CASE ~(d = c /\ u = t)
        BY <1>1, <1>2, <3>2, Zenon DEF CallsInv, CallInv
      <3> QED
        BY <3>1, <3>2, Zenon
    <2> QED
      BY <2>1, Zenon DEF TasksOf, IsFind
  <1> QED
    BY <1>2, Zenon DEF CallsInv, CallInv, IsFind

LEMMA SeenKept ==
  ASSUME CallsInv, seen' = seen, UNCHANGED table
  PROVE  \A d \in Callers : IF call[d] = NoCall THEN seen'[d] = {} ELSE Content(TableRows)' \subseteq seen'[d]
PROOF
  <1>1. Content(TableRows)' = Content(TableRows)
    BY RowsUnchanged, Zenon DEF Content
  <1> QED
    BY <1>1, Zenon DEF CallsInv, CallInv

LEMMA ModifyCalls ==
  ASSUME TasksInv, OutputsInv, CallsInv, NEW c \in Callers, NEW t \in Tasks, NEW ops,
         ModifyStep(c, t, ops), Observe(TableRows')
  PROVE  CallsInv'
PROOF
  <1>1. /\ call' = call /\ rows' = rows /\ hit_mask' = hit_mask /\ hits' = hits /\ Running(c, t)
        /\ at' = [at EXCEPT ![c][t] = StepFrom(c, t, at[c][t] + 1)]
    BY Zenon DEF ModifyStep, StepDone, outputs, TasksInv
  <1>2. t \in TasksOf(c)
    BY <1>1, RunningTask, Zenon
  <1>3. \A d \in Callers : IF call[d] = NoCall THEN seen'[d] = {} ELSE Content(TableRows)' \subseteq seen'[d]
    BY Zenon DEF Observe, Content
  <1> QED
    BY <1>1, <1>2, <1>3, CallsMove, Zenon

LEMMA CallsStep ==
  ASSUME SetupsOK, TableOK, BatchesOK, TasksInv, OutputsInv, CallsInv, [Next]_vars
  PROVE  CallsInv'
PROOF
  <1>1. CASE UNCHANGED vars
    <2>1. /\ TableRows' = TableRows
          /\ \A d \in Callers : /\ call'[d] = call[d] /\ hit_mask'[d] = hit_mask[d] /\ hits'[d] = hits[d]
                                /\ seen'[d] = seen[d] /\ rows'[d] = rows[d] /\ at'[d] = at[d]
      BY <1>1, RowsUnchanged, Zenon DEF vars, outputs
    <2> QED
      BY <2>1, CallKept, Zenon DEF CallsInv
  <1>2. ASSUME NEW c \in Callers, Begin(c) PROVE CallsInv'
    BY <1>2, BeginCalls, Zenon
  <1>3. ASSUME NEW c \in Callers, Return(c) PROVE CallsInv'
    <2>1. /\ call' = [call EXCEPT ![c] = NoCall] /\ at' = at /\ seen' = [seen EXCEPT ![c] = {}]
          /\ rows' = rows /\ hit_mask' = hit_mask /\ hits' = hits /\ TableRows' = TableRows
      BY <1>3, RowsUnchanged, Zenon DEF Return, ReturnCall, outputs
    <2>2. call'[c] = NoCall /\ seen'[c] = {} /\ \A d \in Callers : d # c => call'[d] = call[d] /\ seen'[d] = seen[d]
      BY <2>1, Zenon DEF TasksInv, OutputsInv
    <2>3. NoCall.op = "none" /\ NoCall.mask = {}
      BY DEF NoCall
    <2>4. CallInv(c)'
      BY <2>2, <2>3 DEF CallInv, IsFind
    <2>5. \A d \in Callers : d # c => CallInv(d)'
      BY <2>1, <2>2, CallKept, Zenon DEF CallsInv
    <2> QED
      BY <2>4, <2>5, Zenon DEF CallsInv
  <1>4. ASSUME NEW c \in Callers, NEW t \in Tasks, TaskStep(c, t) PROVE CallsInv'
    <2>1. CASE StartTask(c, t)
      <3>1. /\ call' = call /\ t \in TasksOf(c) /\ at' = [at EXCEPT ![c][t] = StepFrom(c, t, 1)]
            /\ rows' = rows /\ hit_mask' = hit_mask /\ hits' = hits /\ seen' = seen /\ UNCHANGED table
        BY <2>1, Zenon DEF StartTask, TakeTask, outputs
      <3> QED
        BY <3>1, SeenKept, CallsMove, Zenon
    <2>2. CASE LoadWord(c, t)
      <3>1. /\ call' = call /\ Running(c, t) /\ at' = at
            /\ rows' = rows /\ hit_mask' = hit_mask /\ hits' = hits /\ seen' = seen /\ UNCHANGED table
        BY <2>2, Zenon DEF LoadWord, outputs
      <3>2. t \in TasksOf(c)
        BY <3>1, RunningTask, Zenon
      <3> QED
        BY <3>1, <3>2, SeenKept, CallsMove, Zenon
    <2>3. CASE JoinWord(c, t)
      <3>1. /\ call' = call /\ Running(c, t) /\ at' = [at EXCEPT ![c][t] = StepFrom(c, t, at[c][t] + 1)]
            /\ seen' = seen /\ UNCHANGED table /\ IsFind(c)
            /\ \A d \in Callers : d # c => rows'[d] = rows[d] /\ hit_mask'[d] = hit_mask[d] /\ hits'[d] = hits[d]
        BY <2>3, Zenon DEF JoinWord, StepDone, TasksInv, OutputsInv
      <3>2. t \in TasksOf(c)
        BY <3>1, RunningTask, Zenon
      <3>3. \A d \in Callers : ~IsFind(d) => rows'[d] = rows[d] /\ hit_mask'[d] = hit_mask[d] /\ hits'[d] = hits[d]
        BY <3>1, Zenon
      <3>4. \A d \in Callers : IF call[d] = NoCall THEN seen'[d] = {} ELSE Content(TableRows)' \subseteq seen'[d]
        BY <3>1, SeenKept, Zenon
      <3> QED
        BY <3>1, <3>2, <3>3, <3>4, CallsMove, Zenon
    <2> QED
      BY <1>4, <2>1, <2>2, <2>3, ModifyCalls, Zenon DEF TaskStep, InsertPresent, InsertNew, update, erase, clear
  <1> QED
    BY <1>1, <1>2, <1>3, <1>4, Zenon DEF Next, Done

----------------------------------------------------------------------------
(* The lock of a partition *)

LEMMA LockKept ==
  ASSUME LockInv,
         \A d \in Callers : \A u \in Tasks : Running(d, u)' => Running(d, u) /\ IsFind(d)' = IsFind(d)
  PROVE  LockInv'
BY ZenonT(60) DEF LockInv

LEMMA RunningKept ==
  ASSUME NEW d \in Callers, NEW u \in Tasks, call'[d] = call[d], at'[d][u] = at[d][u]
  PROVE  Running(d, u)' = Running(d, u) /\ IsFind(d)' = IsFind(d)
BY Zenon DEF Running, Steps, IsFind, TaskSize

LEMMA LockMove ==
  ASSUME TasksInv, LockInv, call' = call, NEW c \in Callers, NEW t \in Tasks, Running(c, t), NEW b,
         at' = [at EXCEPT ![c][t] = b]
  PROVE  LockInv'
PROOF
  <1>1. \A d \in Callers : \A u \in Tasks : ~(d = c /\ u = t) => at'[d][u] = at[d][u]
    BY Zenon DEF TasksInv
  <1>2. \A d \in Callers : IsFind(d)' = IsFind(d)
    BY Zenon DEF IsFind
  <1>3. ASSUME NEW d \in Callers, NEW u \in Tasks, Running(d, u)' PROVE Running(d, u)
    <2>1. CASE d = c /\ u = t
      BY <2>1, Zenon
    <2>2. CASE ~(d = c /\ u = t)
      BY <1>1, <1>3, <2>2, RunningKept, Zenon
    <2> QED
      BY <2>1, <2>2, Zenon
  <1> QED
    BY <1>2, <1>3, LockKept, Zenon

LEMMA LockStep ==
  ASSUME SetupsOK, TableOK, TasksInv, LockInv, [Next]_vars
  PROVE  LockInv'
PROOF
  <1>1. CASE call' = call /\ at' = at
    BY <1>1, RunningKept, LockKept, Zenon
  <1>2. ASSUME NEW c \in Callers, Begin(c) PROVE LockInv'
    <2>1. at' = [at EXCEPT ![c] = [t \in Tasks |-> 0]] /\ \A d \in Callers : d # c => call'[d] = call[d]
      BY <1>2, Zenon DEF Begin, BeginCall, TasksInv
    <2>2. (\A u \in Tasks : at'[c][u] = 0) /\ \A d \in Callers : d # c => at'[d] = at[d]
      BY <2>1, Zenon DEF TasksInv
    <2>3. \A u \in Tasks : ~Running(c, u)'
      BY <2>2 DEF Running
    <2>4. ASSUME NEW d \in Callers, NEW u \in Tasks, Running(d, u)' PROVE Running(d, u) /\ IsFind(d)' = IsFind(d)
      BY <2>1, <2>2, <2>3, <2>4, RunningKept, Zenon
    <2> QED
      BY <2>4, LockKept, Zenon
  <1>3. ASSUME NEW c \in Callers, Return(c) PROVE LockInv'
    <2>1. call' = [call EXCEPT ![c] = NoCall] /\ at' = at
      BY <1>3, Zenon DEF Return, ReturnCall
    <2>2. call'[c] = NoCall /\ \A d \in Callers : d # c => call'[d] = call[d]
      BY <2>1, Zenon DEF TasksInv
    <2>3. ASSUME NEW u \in Tasks PROVE ~Running(c, u)'
      <3>1. Steps(c, u)' = Len(<<>>)
        BY <2>2 DEF Steps, IsFind, NoCall
      <3> QED
        BY <3>1 DEF Running
    <2>4. ASSUME NEW d \in Callers, NEW u \in Tasks, Running(d, u)' PROVE Running(d, u) /\ IsFind(d)' = IsFind(d)
      BY <2>1, <2>2, <2>3, <2>4, RunningKept, Zenon
    <2> QED
      BY <2>4, LockKept, Zenon
  <1>4. ASSUME NEW c \in Callers, NEW t \in Tasks, TaskStep(c, t) PROVE LockInv'
    <2>1. CASE StartTask(c, t)
      <3>1. call' = call /\ ~Excluded(c, t[1]) /\ at' = [at EXCEPT ![c][t] = StepFrom(c, t, 1)]
        BY <2>1, Zenon DEF StartTask, TakeTask
      <3>2. \A d \in Callers : \A u \in Tasks : ~(d = c /\ u = t) => at'[d][u] = at[d][u]
        BY <3>1, Zenon DEF TasksInv
      <3>3. \A d \in Callers : \A u \in Tasks : ~(d = c /\ u = t) => Running(d, u)' = Running(d, u)
        BY <3>1, <3>2, RunningKept, Zenon
      <3>4. \A d \in Callers : \A u \in Tasks : u[1] = t[1] /\ Running(d, u) => IsFind(c) /\ IsFind(d)
        BY <3>1, Zenon DEF Excluded
      <3>5. \A d \in Callers : IsFind(d)' = IsFind(d)
        BY <3>1, Zenon DEF IsFind
      <3>6. ASSUME NEW d \in Callers, NEW e \in Callers, NEW u \in Tasks, NEW w \in Tasks,
                   u[1] = w[1], Running(d, u)', Running(e, w)', ~(d = e /\ u = w)
            PROVE  IsFind(d) /\ IsFind(e)
        <4>1. CASE d = c /\ u = t
          BY <3>3, <3>4, <3>6, <4>1, Zenon
        <4>2. CASE e = c /\ w = t
          BY <3>3, <3>4, <3>6, <4>2, Zenon
        <4>3. CASE ~(d = c /\ u = t) /\ ~(e = c /\ w = t)
          BY <3>3, <3>6, <4>3, Zenon DEF LockInv
        <4> QED
          BY <4>1, <4>2, <4>3, Zenon
      <3> QED
        BY <3>5, <3>6, Zenon DEF LockInv
    <2>2. CASE LoadWord(c, t)
      BY <1>1, <2>2, Zenon DEF LoadWord
    <2>3. CASE JoinWord(c, t)
      <3>1. call' = call /\ Running(c, t) /\ at' = [at EXCEPT ![c][t] = StepFrom(c, t, at[c][t] + 1)]
        BY <2>3, Zenon DEF JoinWord, StepDone, TasksInv
      <3> QED
        BY <3>1, LockMove, Zenon
    <2>4. ASSUME NEW ops, ModifyStep(c, t, ops) PROVE LockInv'
      <3>1. call' = call /\ Running(c, t) /\ at' = [at EXCEPT ![c][t] = StepFrom(c, t, at[c][t] + 1)]
        BY <2>4, Zenon DEF ModifyStep, StepDone, TasksInv
      <3> QED
        BY <3>1, LockMove, Zenon
    <2> QED
      BY <1>4, <2>1, <2>2, <2>3, <2>4, Zenon DEF TaskStep, InsertPresent, InsertNew, update, erase, clear
  <1> QED
    BY <1>1, <1>2, <1>3, <1>4, Zenon DEF Next, Done, vars

----------------------------------------------------------------------------
(* find *)

LEMMA DivMonotone ==
  ASSUME NEW a \in Nat, NEW b \in Nat, NEW m \in Nat \ {0}, a <= b
  PROVE  a \div m <= b \div m
PROOF
  <1>1. PICK q \in Nat, r \in 0 .. m - 1 : q = a \div m /\ r = a % m /\ a = m * q + r
    BY DivFacts, Zenon
  <1> DEFINE mq == m * q
  <1>2. mq \in Nat /\ a = mq + r
    BY <1>1
  <1> HIDE DEF mq
  <1>3. mq <= b
    BY <1>2
  <1>4. q <= b \div m
    BY <1>3, DivGreatest, Zenon DEF mq
  <1> QED
    BY <1>1, <1>4, Zenon

(* The tasks of a find are among those there may be. *)
LEMMA BatchTasks ==
  ASSUME ConfigOK, BatchesOK, NEW ks \in Seq(Keys), Len(ks) <= MaxBatch
  PROVE  Parts \X (0 .. TasksPerPart(Len(ks)) - 1) \subseteq Tasks
PROOF
  <1> DEFINE l == Len(ks)
             n == MaskSize(l)
             k == MaskSize(MaxBatch)
             m == MaxFindTaskSize
             x == TasksPerPart(l)
             y == TasksPerPart(MaxBatch)
  <1>1. l \in Nat /\ MaxBatch \in Nat /\ NumBits \in Nat \ {0} /\ m \in Nat \ {0} /\ l <= MaxBatch
    BY DEF ConfigOK, BatchesOK
  <1> HIDE DEF l, m
  <1>2. n \in Nat /\ k \in Nat
    BY <1>1, CeilDiv, Zenon DEF MaskSize
  <1>3. n <= k
    <2>1. l + NumBits - 1 \in Nat /\ MaxBatch + NumBits - 1 \in Nat /\ l + NumBits - 1 <= MaxBatch + NumBits - 1
      BY <1>1
    <2> QED
      BY <1>1, <2>1, DivMonotone, Zenon DEF MaskSize
  <1>4. x = (n + m - 1) \div m /\ y = (k + m - 1) \div m
    BY Zenon DEF TasksPerPart, m
  <1> HIDE DEF n, k, x, y
  <1>5. x \in Nat /\ y \in Nat
    BY <1>1, <1>2, <1>4, CeilDiv, Zenon
  <1>6. x <= y
    <2>1. n + m - 1 \in Nat /\ k + m - 1 \in Nat /\ n + m - 1 <= k + m - 1
      BY <1>1, <1>2, <1>3
    <2> QED
      BY <1>1, <1>4, <2>1, DivMonotone, Zenon
  <1>7. 0 .. x - 1 \subseteq 0 .. y - 1
    BY <1>5, <1>6
  <1>8. Tasks = Parts \X (0 .. y - 1)
    BY Zenon DEF Tasks, y
  <1>9. Parts \X (0 .. x - 1) \subseteq Tasks
    BY <1>7, <1>8
  <1> QED
    BY <1>9, Zenon DEF x, l

(* The word of position i has been searched for the key there. *)
Searched(c, i) ==
  \E t \in TasksOf(c) :
    t[1] = PartOf[call[c].keys[i]] /\
    \E a \in 1 .. TaskSize(c, t) : a < at[c][t] /\ WordAt(c, t, a) = (i - 1) \div NumBits

(* The outputs of a find: what it answers so far. *)
FindInv(c) ==
  IsFind(c) =>
    /\ DOMAIN rows[c] = DOMAIN call[c].keys
    /\ \A i \in DOMAIN call[c].keys :
         IF i \in call[c].mask \/ ~Searched(c, i) THEN rows[c][i] = None
         ELSE <<call[c].keys[i], rows[c][i]>> \in seen[c]
    /\ hit_mask[c] = call[c].mask \union {i \in DOMAIN rows[c] : rows[c][i] # None}
    /\ hits[c] = Cardinality(hit_mask[c]) - Cardinality(call[c].mask)

(* The positions task t finds a row for in the word it is at. *)
Found(c, t) ==
  {i \in InWord(c, t) \ call[c].mask : PartOf[call[c].keys[i]] = t[1] /\ slot_map[call[c].keys[i]] # None}

(* A loaded word is up to date: the slots of the partition stay what they    *)
(* are while the task has the lock.                                          *)
LoadedInv(c, t) ==
  loaded[c][t] # None =>
    /\ IsFind(c) /\ Running(c, t)
    /\ loaded[c][t].mask \subseteq hit_mask[c]
    /\ loaded[c][t].mask \cap loaded[c][t].new = {}
    /\ loaded[c][t].new = Found(c, t)
    /\ \A i \in Found(c, t) : loaded[c][t].slot[i] = slot_map[call[c].keys[i]]

FindsInv ==
  /\ DOMAIN loaded = Callers /\ \A c \in Callers : DOMAIN loaded[c] = Tasks
  /\ \A c \in Callers : FindInv(c)
  /\ \A c \in Callers : \A t \in Tasks : LoadedInv(c, t)

LEMMA Unsearched ==
  ASSUME ConfigOK, TasksInv, CallsInv, NEW c \in Callers, NEW t \in Tasks, IsFind(c), Running(c, t),
         NEW i \in InWord(c, t), PartOf[call[c].keys[i]] = t[1]
  PROVE  ~Searched(c, i)
PROOF
  <1>1. SUFFICES ASSUME Searched(c, i) PROVE FALSE
    OBVIOUS
  <1>0. PICK u \in TasksOf(c) :
           u[1] = t[1] /\ \E a \in 1 .. TaskSize(c, u) : a < at[c][u] /\ WordAt(c, u, a) = (i - 1) \div NumBits
    BY <1>1, Zenon DEF Searched
  <1>2. PICK a \in 1 .. TaskSize(c, u) : a < at[c][u] /\ WordAt(c, u, a) = (i - 1) \div NumBits
    BY <1>0, Zenon
  <1>3. t \in TasksOf(c) /\ call[c] \in Calls
    BY RunningTask, Zenon DEF TasksInv
  <1> DEFINE b == at[c][t]
  <1>4. b \in 1 .. TaskSize(c, t) /\ WordAt(c, t, b) = WordAt(c, u, a)
    <2>1. Word(c, t) = WordAt(c, t, b)
      BY Zenon DEF WordAt, Word
    <2>2. Word(c, t) = (i - 1) \div NumBits
      BY DEF InWord
    <2>3. Steps(c, t) = TaskSize(c, t)
      BY DEF Steps, IsFind
    <2> QED
      BY <1>2, <2>1, <2>2, <2>3, Zenon DEF Running
  <1> HIDE DEF b
  <1>5. t = u /\ b = a
    BY SMTT(40), <1>0, <1>3, <1>4, WordsOnce
  <1>6. a < a
    BY <1>2, <1>5, Zenon DEF b
  <1> QED
    BY <1>6

LEMMA FindKept ==
  ASSUME NEW d \in Callers, FindInv(d), setup' = setup, call'[d] = call[d], at'[d] = at[d],
         rows'[d] = rows[d], hit_mask'[d] = hit_mask[d], hits'[d] = hits[d], seen[d] \subseteq seen'[d]
  PROVE  FindInv(d)'
PROOF
  <1>1. \A i : Searched(d, i)' = Searched(d, i)
    BY ZenonT(60) DEF Searched, TasksOf, TaskSize, WordAt, IsFind, PartOf
  <1>2. IsFind(d)' = IsFind(d)
    BY Zenon DEF IsFind
  <1> QED
    BY <1>1, <1>2, Zenon DEF FindInv

LEMMA LoadedKept ==
  ASSUME SetupsOK, TasksInv, NEW d \in Callers, NEW u \in Tasks, LoadedInv(d, u), setup' = setup, call'[d] = call[d],
         at'[d][u] = at[d][u], loaded'[d][u] = loaded[d][u], hit_mask[d] \subseteq hit_mask'[d],
         loaded[d][u] # None => \A k \in Keys : PartOf[k] = u[1] => slot_map'[k] = slot_map[k]
  PROVE  LoadedInv(d, u)'
PROOF
  <1>1. SUFFICES ASSUME loaded[d][u] # None PROVE LoadedInv(d, u)'
    BY Zenon DEF LoadedInv
  <1>2. InWord(d, u)' = InWord(d, u) /\ Running(d, u)' = Running(d, u) /\ IsFind(d)' = IsFind(d)
    BY RunningKept, Zenon DEF InWord, Word
  <1>3. \A i \in InWord(d, u) : call[d].keys[i] \in Keys
    <2>1. call[d].keys \in Seq(Keys)
      BY DEF TasksInv, Calls
    <2> QED
      BY SMTT(40), <2>1 DEF InWord
  <1>4. \A i \in InWord(d, u) : PartOf[call[d].keys[i]] = u[1] => slot_map'[call[d].keys[i]] = slot_map[call[d].keys[i]]
    BY <1>1, <1>3, Zenon
  <1>5. Found(d, u)' = Found(d, u)
    <2>1. Found(d, u)' = {i \in InWord(d, u) \ call[d].mask :
                            PartOf[call[d].keys[i]] = u[1] /\ slot_map'[call[d].keys[i]] # None}
      BY <1>2, Zenon DEF Found, PartOf
    <2> QED
      BY <1>4, <2>1, Zenon DEF Found
  <1>6. \A i \in Found(d, u) : slot_map'[call[d].keys[i]] = slot_map[call[d].keys[i]]
    BY <1>4, Zenon DEF Found
  <1>7. /\ IsFind(d) /\ Running(d, u) /\ loaded[d][u].mask \subseteq hit_mask[d]
        /\ loaded[d][u].mask \cap loaded[d][u].new = {} /\ loaded[d][u].new = Found(d, u)
        /\ \A i \in Found(d, u) : loaded[d][u].slot[i] = slot_map[call[d].keys[i]]
    BY <1>1, Zenon DEF LoadedInv
  <1>8. /\ IsFind(d)' /\ Running(d, u)' /\ loaded'[d][u].mask \subseteq hit_mask'[d]
        /\ loaded'[d][u].mask \cap loaded'[d][u].new = {} /\ loaded'[d][u].new = Found(d, u)'
    BY <1>2, <1>5, <1>7, Zenon
  <1>9. \A i \in Found(d, u)' : loaded'[d][u].slot[i] = slot_map'[call'[d].keys[i]]
    <2>1. SUFFICES ASSUME NEW i \in Found(d, u) PROVE loaded'[d][u].slot[i] = slot_map'[call'[d].keys[i]]
      BY <1>5, Zenon
    <2>2. loaded[d][u].slot[i] = slot_map[call[d].keys[i]] /\ slot_map'[call[d].keys[i]] = slot_map[call[d].keys[i]]
      BY <1>6, <1>7, Zenon
    <2> QED
      BY <2>2, Zenon
  <1> QED
    BY <1>8, <1>9, Zenon DEF LoadedInv

LEMMA BeginFinds ==
  ASSUME SetupsOK, TableOK, BatchesOK, TasksInv, OutputsInv, CallsInv, FindsInv, NEW c \in Callers, Begin(c)
  PROVE  FindsInv'
PROOF
  <1>1. /\ BeginCall(c, TableRows) /\ ConfigOK /\ setup' = setup /\ loaded' = loaded /\ slot_map' = slot_map
        /\ at' = [at EXCEPT ![c] = [t \in Tasks |-> 0]] /\ call[c] = NoCall
        /\ hits' = [hits EXCEPT ![c] = 0]
        /\ seen' = [seen EXCEPT ![c] = Content(TableRows)]
    BY Zenon DEF Begin, BeginCall, TableOK, table
  <1>2. PICK op \in Operations, v \in Versions, ks \in Seq(Keys), mask \in SUBSET Nat :
           /\ mask \subseteq DOMAIN ks
           /\ op = "clear" => ks = EveryKey
           /\ op = "find" => Len(ks) <= MaxBatch
           /\ op # "find" => mask = {}
           /\ call' = [call EXCEPT ![c] = [op |-> op, keys |-> ks, version |-> v, mask |-> mask]]
           /\ hit_mask' = [hit_mask EXCEPT ![c] = mask]
           /\ rows' = [rows EXCEPT ![c] = IF op = "find" THEN [i \in DOMAIN ks |-> None] ELSE <<>>]
    BY <1>1, BeginFacts, Zenon
  <1>3. /\ call'[c] = [op |-> op, keys |-> ks, version |-> v, mask |-> mask]
        /\ hit_mask'[c] = mask /\ hits'[c] = 0
        /\ rows'[c] = IF op = "find" THEN [i \in DOMAIN ks |-> None] ELSE <<>>
        /\ \A t \in Tasks : at'[c][t] = 0
    BY <1>1, <1>2, Zenon DEF OutputsInv, TasksInv
  <1>4. \A d \in Callers : d # c => /\ call'[d] = call[d] /\ hit_mask'[d] = hit_mask[d] /\ hits'[d] = hits[d]
                                    /\ seen'[d] = seen[d] /\ rows'[d] = rows[d] /\ at'[d] = at[d]
    BY <1>1, <1>2, Zenon DEF OutputsInv, TasksInv
  <1>5. call'[c].op = op /\ call'[c].keys = ks /\ call'[c].mask = mask
    BY <1>3
  <1>6. ASSUME IsFind(c)' PROVE FindInv(c)'
    <2>1. op = "find" /\ rows'[c] = [i \in DOMAIN ks |-> None]
      BY <1>3, <1>5, <1>6, Zenon DEF IsFind
    <2>2. ASSUME NEW i PROVE ~Searched(c, i)'
      <3>1. TasksOf(c)' \subseteq Tasks
        <4> DEFINE x == TasksOf(c)'
        <4>1. call'[c] \in Calls
          BY <1>1, BeginTasks, Zenon DEF TasksInv
        <4>2. TasksOf(c)' = Parts \X (0 .. TasksPerPart(Len(ks)) - 1)
          BY <1>5, <1>6, Zenon DEF TasksOf
        <4> QED
          BY <1>1, <1>2, <2>1, <4>2, BatchTasks, Zenon
      <3>2. \A t \in TasksOf(c)' : at'[c][t] = 0
        BY <1>3, <3>1, Zenon
      <3>3. \A a \in 1 .. 0 : FALSE
        OBVIOUS
      <3>4. ~\E t \in TasksOf(c)' : \E a \in 1 .. TaskSize(c, t)' : a < at'[c][t]
        BY <3>2
      <3> QED
        BY <3>4, Zenon DEF Searched
    <2>3. DOMAIN rows'[c] = DOMAIN ks /\ \A i \in DOMAIN ks : rows'[c][i] = None
      BY <2>1, Zenon
    <2>4. hits'[c] = Cardinality(mask) - Cardinality(mask)
      <3>1. IsFiniteSet(DOMAIN ks)
        BY FS_Interval
      <3>2. Cardinality(mask) \in Nat
        BY <1>2, <3>1, FS_Subset, FS_CardinalityType, Zenon
      <3> QED
        BY <1>3, <3>2
    <2>5. {i \in DOMAIN rows'[c] : rows'[c][i] # None} = {}
      BY <2>3, Zenon
    <2> QED
      BY <1>3, <1>5, <2>2, <2>3, <2>4, <2>5, Zenon DEF FindInv
  <1>7. \A d \in Callers : d # c => FindInv(d)'
    BY <1>1, <1>4, FindKept, Zenon DEF FindsInv
  <1>8. \A t \in Tasks : loaded[c][t] = None
    <2>1. ~IsFind(c)
      BY SMTT(40), <1>1 DEF IsFind, NoCall
    <2> QED
      BY <2>1, Zenon DEF FindsInv, LoadedInv
  <1>9. \A d \in Callers : \A t \in Tasks : LoadedInv(d, t)'
    <2>1. ASSUME NEW d \in Callers, NEW t \in Tasks, d # c PROVE LoadedInv(d, t)'
      <3>1. LoadedInv(d, t)
        BY Zenon DEF FindsInv
      <3>2. /\ call'[d] = call[d] /\ at'[d][t] = at[d][t] /\ loaded'[d][t] = loaded[d][t]
            /\ hit_mask[d] \subseteq hit_mask'[d]
        BY <1>1, <1>4, <2>1, Zenon
      <3> QED
        BY <1>1, <3>1, <3>2, LoadedKept, Zenon
    <2> QED
      BY <1>1, <1>8, <2>1, ZenonT(60) DEF LoadedInv
  <1>10. FindInv(c)'
    BY <1>6, Zenon DEF FindInv
  <1> QED
    BY <1>1, <1>7, <1>9, <1>10, Zenon DEF FindsInv

(* Steps of modify tasks: a find that has loaded a word is on another part. *)
LEMMA ModifyFinds ==
  ASSUME SetupsOK, TasksInv, OutputsInv, LockInv, FindsInv, NEW c \in Callers, NEW t \in Tasks, NEW ops,
         ModifyStep(c, t, ops), "find" \notin ops, Observe(TableRows'), loaded' = loaded, CallsInv,
         \A k \in Keys : PartOf[k] # t[1] => slot_map'[k] = slot_map[k]
  PROVE  FindsInv'
PROOF
  <1>1. /\ call' = call /\ setup' = setup /\ rows' = rows /\ hit_mask' = hit_mask /\ hits' = hits
        /\ Running(c, t) /\ ~IsFind(c)
        /\ at' = [at EXCEPT ![c][t] = StepFrom(c, t, at[c][t] + 1)]
    BY Zenon DEF ModifyStep, StepDone, outputs, TasksInv, IsFind
  <1>2. \A d \in Callers : IsFind(d) => at'[d] = at[d]
    BY <1>1, Zenon DEF TasksInv
  <1>3. \A d \in Callers : seen[d] \subseteq seen'[d]
    <2>1. ASSUME NEW d \in Callers PROVE seen[d] \subseteq seen'[d]
      <3>1. CASE call[d] = NoCall
        BY <3>1, Zenon DEF CallsInv, CallInv
      <3>2. CASE call[d] # NoCall
        BY <3>2, Zenon DEF Observe
      <3> QED
        BY <3>1, <3>2, Zenon
    <2> QED
      BY <2>1, Zenon
  <1>4. ASSUME NEW d \in Callers PROVE FindInv(d)'
    <2>1. CASE IsFind(d)
      BY <1>1, <1>2, <1>3, <2>1, FindKept, Zenon DEF FindsInv
    <2>2. CASE ~IsFind(d)
      BY <1>1, <2>2, Zenon DEF FindInv, IsFind
    <2> QED
      BY <2>1, <2>2, Zenon
  <1>5. ASSUME NEW d \in Callers, NEW u \in Tasks PROVE LoadedInv(d, u)'
    <2>1. CASE loaded[d][u] = None
      BY <2>1, Zenon DEF LoadedInv
    <2>2. CASE loaded[d][u] # None
      <3>1. LoadedInv(d, u)
        BY Zenon DEF FindsInv
      <3>2. IsFind(d) /\ Running(d, u)
        BY <2>2, <3>1, Zenon DEF LoadedInv
      <3>3. u[1] # t[1]
        BY <1>1, <3>2, Zenon DEF LockInv
      <3>4. at'[d][u] = at[d][u] /\ hit_mask[d] \subseteq hit_mask'[d]
        BY <1>1, <1>2, <3>2, Zenon
      <3>5. \A k \in Keys : PartOf[k] = u[1] => slot_map'[k] = slot_map[k]
        BY <3>3, Zenon
      <3> QED
        BY <1>1, <3>1, <3>4, <3>5, LoadedKept, Zenon
    <2> QED
      BY <2>1, <2>2, Zenon
  <1> QED
    BY <1>4, <1>5, Zenon DEF FindsInv

LEMMA StartFinds ==
  ASSUME SetupsOK, ConfigOK, BatchesOK, TasksInv, CallsInv, FindsInv, NEW c \in Callers, NEW t \in Tasks, StartTask(c, t)
  PROVE  FindsInv'
PROOF
  <1>1. /\ call' = call /\ setup' = setup /\ rows' = rows /\ hit_mask' = hit_mask /\ hits' = hits /\ seen' = seen
        /\ at' = [at EXCEPT ![c][t] = StepFrom(c, t, 1)] /\ at[c][t] = 0 /\ loaded' = loaded /\ slot_map' = slot_map
    BY Zenon DEF StartTask, TakeTask, outputs, table
  <1>2. /\ at'[c][t] = StepFrom(c, t, 1)
        /\ \A d \in Callers : \A u \in Tasks : ~(d = c /\ u = t) => at'[d][u] = at[d][u]
        /\ \A d \in Callers : d # c => at'[d] = at[d]
    BY <1>1, Zenon DEF TasksInv
  <1>3. ASSUME IsFind(c) PROVE FindInv(c)'
    <2>1. at'[c][t] = 1 /\ TasksOf(c) \subseteq Tasks
      <3>1. StepFrom(c, t, 1) = 1
        BY <1>3, Zenon DEF StepFrom, IsFind
      <3>2. call[c].keys \in Seq(Keys) /\ Len(call[c].keys) <= MaxBatch
        BY <1>3 DEF TasksInv, Calls, CallsInv, CallInv
      <3> QED
        BY <1>2, <1>3, <3>1, <3>2, BatchTasks, Zenon DEF TasksOf
    <2>2. \A u \in TasksOf(c) : \A a \in 1 .. TaskSize(c, u) : a < at'[c][u] <=> a < at[c][u]
      <3>1. \A a \in 1 .. TaskSize(c, t) : ~(a < 1) /\ ~(a < 0)
        OBVIOUS
      <3> QED
        BY <1>1, <1>2, <2>1, <3>1, Zenon
    <2>3. \A i : Searched(c, i)' = Searched(c, i)
      <3>1. TasksOf(c)' = TasksOf(c) /\ PartOf' = PartOf
        BY <1>1, Zenon DEF TasksOf, IsFind, PartOf
      <3>2. \A u, a : WordAt(c, u, a)' = WordAt(c, u, a) /\ TaskSize(c, u)' = TaskSize(c, u)
        BY <1>1, Zenon DEF WordAt, TaskSize
      <3>3. ASSUME NEW i
            PROVE  Searched(c, i)' <=> \E u \in TasksOf(c) :
                     u[1] = PartOf[call[c].keys[i]] /\
                     \E a \in 1 .. TaskSize(c, u) : a < at'[c][u] /\ WordAt(c, u, a) = (i - 1) \div NumBits
        BY <1>1, <3>1, <3>2, ZenonT(60) DEF Searched
      <3> QED
        BY <2>2, <3>3, Zenon DEF Searched
    <2>4. FindInv(c)
      BY Zenon DEF FindsInv
    <2> QED
      BY <1>1, <1>3, <2>3, <2>4, Zenon DEF FindInv
  <1>4. ASSUME NEW d \in Callers PROVE FindInv(d)'
    <2>1. CASE IsFind(d) /\ d # c
      BY <1>1, <1>2, <2>1, FindKept, Zenon DEF FindsInv
    <2>2. CASE ~IsFind(d)
      BY <1>1, <2>2, Zenon DEF FindInv, IsFind
    <2> QED
      BY <1>3, <2>1, <2>2, Zenon
  <1>5. ASSUME NEW d \in Callers, NEW u \in Tasks PROVE LoadedInv(d, u)'
    <2>1. CASE loaded[d][u] = None
      BY <1>1, <2>1, Zenon DEF LoadedInv
    <2>2. CASE loaded[d][u] # None
      <3>1. LoadedInv(d, u)
        BY Zenon DEF FindsInv
      <3>2. Running(d, u)
        BY <2>2, <3>1, Zenon DEF LoadedInv
      <3>3. at[d][u] # 0
        BY <3>2, RunningTask, Zenon
      <3>4. at'[d][u] = at[d][u] /\ hit_mask[d] \subseteq hit_mask'[d]
        BY <1>1, <1>2, <3>3, Zenon
      <3> QED
        BY <1>1, <3>1, <3>4, LoadedKept, Zenon
    <2> QED
      BY <2>1, <2>2, Zenon
  <1> QED
    BY <1>1, <1>4, <1>5, Zenon DEF FindsInv

LEMMA LoadFinds ==
  ASSUME SetupsOK, ConfigOK, TasksInv, CallsInv, FindsInv, NEW c \in Callers, NEW t \in Tasks, LoadWord(c, t)
  PROVE  FindsInv'
PROOF
  <1> DEFINE mask == hit_mask[c] \cap InWord(c, t)
             new == {i \in InWord(c, t) \ mask : PartOf[call[c].keys[i]] = t[1] /\ slot_map[call[c].keys[i]] # None}
             word == [mask |-> mask, new |-> new, slot |-> [i \in new |-> slot_map[call[c].keys[i]]]]
  <1>1. /\ call' = call /\ setup' = setup /\ rows' = rows /\ hit_mask' = hit_mask /\ hits' = hits /\ seen' = seen
        /\ at' = at /\ slot_map' = slot_map /\ IsFind(c) /\ Running(c, t)
        /\ loaded' = [loaded EXCEPT ![c][t] = word]
    BY Zenon DEF LoadWord, outputs, table
  <1>2. new = Found(c, t)
    <2>1. ASSUME NEW i \in InWord(c, t), PartOf[call[c].keys[i]] = t[1]
          PROVE  i \in hit_mask[c] <=> i \in call[c].mask
      <3>1. ~Searched(c, i)
        BY <1>1, <2>1, Unsearched, Zenon
      <3>2. i \in DOMAIN call[c].keys
        <4>1. call[c].keys \in Seq(Keys)
          BY DEF TasksInv, Calls
        <4> QED
          BY <4>1 DEF InWord
      <3>3. FindInv(c)
        BY Zenon DEF FindsInv
      <3>4. rows[c][i] = None
        BY <1>1, <3>1, <3>2, <3>3, Zenon DEF FindInv
      <3> QED
        BY <1>1, <3>3, <3>4, Zenon DEF FindInv
    <2>2. \A i \in InWord(c, t) : PartOf[call[c].keys[i]] = t[1] => (i \in mask <=> i \in call[c].mask)
      BY <2>1, Zenon
    <2> HIDE DEF mask
    <2> QED
      BY <2>2, Zenon DEF Found
  <1>3. /\ word.mask = mask /\ word.new = new /\ \A i \in new : word.slot[i] = slot_map[call[c].keys[i]]
        /\ mask \cap new = {} /\ mask \subseteq hit_mask[c]
    OBVIOUS
  <1>4. /\ loaded'[c][t] = word
        /\ \A d \in Callers : \A u \in Tasks : ~(d = c /\ u = t) => loaded'[d][u] = loaded[d][u]
        /\ DOMAIN loaded' = Callers /\ \A d \in Callers : DOMAIN loaded'[d] = Tasks
    <2> HIDE DEF word
    <2> QED
      BY <1>1, Zenon DEF FindsInv
  <1> HIDE DEF word, new, mask
  <1>5. LoadedInv(c, t)'
    <2>1. Found(c, t)' = Found(c, t)
      BY <1>1, Zenon DEF Found, InWord, Word, PartOf
    <2>2. IsFind(c)' /\ Running(c, t)'
      BY <1>1, RunningKept, Zenon
    <2>3. \A i \in Found(c, t) : word.slot[i] = slot_map[call[c].keys[i]]
      BY <1>2, <1>3, Zenon
    <2>4. word.mask \subseteq hit_mask[c] /\ word.mask \cap word.new = {} /\ word.new = Found(c, t)
      BY <1>2, <1>3, Zenon
    <2> QED
      BY <1>1, <1>4, <2>1, <2>2, <2>3, <2>4, ZenonT(60) DEF LoadedInv
  <1>6. ASSUME NEW d \in Callers, NEW u \in Tasks, ~(d = c /\ u = t) PROVE LoadedInv(d, u)'
    <2>1. LoadedInv(d, u) /\ loaded'[d][u] = loaded[d][u]
      BY <1>4, <1>6, Zenon DEF FindsInv
    <2> QED
      BY <1>1, <2>1, LoadedKept, Zenon
  <1>7. ASSUME NEW d \in Callers PROVE FindInv(d)'
    BY <1>1, FindKept, Zenon DEF FindsInv
  <1> QED
    BY <1>4, <1>5, <1>6, <1>7, Zenon DEF FindsInv
============================================================================
