------------------------------- MODULE Table -------------------------------
(***************************************************************************)
(* What a host table promises its callers (include/table.hpp): a map from  *)
(* keys to rows.  A call takes effect key by key, in any order and in any  *)
(* groups, between its begin and its return; calls of different threads    *)
(* interleave.  insert may evict other keys.  find answers, for every key  *)
(* that was no hit before, with the row or the absence of the key at some  *)
(* moment of the call, with the mask of all hits, and with the number of   *)
(* hits it added.                                                          *)
(***************************************************************************)
EXTENDS Integers, Sequences, FiniteSets

CONSTANTS Keys, Callers, MaxVersion, None

VARIABLES row,      \* the row of each key, or None
          call,     \* the call each caller makes
          todo,     \* how often the call must still take effect on each key
          seen,     \* the <<key, row>> pairs there were since the call began
          answer    \* what the last find of each caller handed back

vars == <<row, call, todo, seen, answer>>

Versions == 0 .. MaxVersion
Idle == [op |-> "none", keys |-> <<>>, version |-> 0, mask |-> {}]
NoAnswer == [rows |-> <<>>, mask |-> {}, hits |-> 0]
Modifies == {"insert", "update", "update_accumulate", "erase", "clear"}

Accumulated(r) == IF r \in Versions THEN (r + 1) % (MaxVersion + 1) ELSE r

(* What a modify call makes of the row of one of its keys. *)
Effect(op, r, version) ==
  CASE op = "insert" -> version
    [] op = "update" -> IF r = None THEN None ELSE version
    [] op = "update_accumulate" -> Accumulated(r)
    [] OTHER -> None

Content(rows) == {<<k, rows[k]>> : k \in Keys}

Init ==
  /\ row = [k \in Keys |-> None]
  /\ call = [c \in Callers |-> Idle]
  /\ todo = [c \in Callers |-> [k \in Keys |-> 0]]
  /\ seen = [c \in Callers |-> {}]
  /\ answer = [c \in Callers |-> NoAnswer]

Occurrences(ks, k) == Cardinality({i \in DOMAIN ks : ks[i] = k})

Begin(c) ==
  /\ call[c] = Idle
  /\ call'[c] # Idle /\ call' = [call EXCEPT ![c] = call'[c]]
  /\ todo' = [todo EXCEPT ![c] = [k \in Keys |->
                IF call'[c].op = "find" THEN 0 ELSE Occurrences(call'[c].keys, k)]]
  /\ call'[c].op = "clear" => \A k \in Keys : todo'[c][k] = 1
  /\ seen' = [seen EXCEPT ![c] = Content(row)]
  /\ answer' = [answer EXCEPT ![c] = NoAnswer]
  /\ UNCHANGED row

(* The call takes effect on the keys S; an insert may evict any keys, those  *)
(* it just inserted too.                                                     *)
Apply(c) ==
  /\ call[c].op \in Modifies
  /\ \E S \in SUBSET {k \in Keys : todo[c][k] > 0} :
     \E ev \in IF call[c].op = "insert" THEN SUBSET Keys ELSE {{}} :
       /\ row' = [k \in Keys |-> IF k \in ev THEN None
                                 ELSE IF k \in S THEN Effect(call[c].op, row[k], call[c].version)
                                 ELSE row[k]]
       /\ todo' = [todo EXCEPT ![c] = [k \in Keys |-> IF k \in S THEN @[k] - 1 ELSE @[k]]]
  /\ seen' = [d \in Callers |-> IF call[d] = Idle THEN seen[d] ELSE seen[d] \union Content(row')]
  /\ UNCHANGED <<call, answer>>

Answers(c, a) ==
  /\ DOMAIN a.rows = DOMAIN call[c].keys
  /\ \A i \in DOMAIN a.rows :
       IF i \in call[c].mask THEN a.rows[i] = None ELSE <<call[c].keys[i], a.rows[i]>> \in seen[c]
  /\ a.mask = call[c].mask \union {i \in DOMAIN a.rows : a.rows[i] # None}
  /\ a.hits = Cardinality(a.mask) - Cardinality(call[c].mask)

Return(c) ==
  /\ call[c] # Idle
  /\ \A k \in Keys : todo[c][k] = 0
  /\ answer' = [answer EXCEPT ![c] = answer'[c]]
  /\ IF call[c].op = "find" THEN Answers(c, answer'[c]) ELSE answer'[c] = NoAnswer
  /\ call' = [call EXCEPT ![c] = Idle]
  /\ UNCHANGED <<row, todo>>
  /\ seen' = [seen EXCEPT ![c] = {}]

Next == \E c \in Callers : Begin(c) \/ Apply(c) \/ Return(c)

Spec == Init /\ [][Next]_vars
============================================================================
