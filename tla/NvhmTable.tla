----------------------------- MODULE NvhmTable -----------------------------
(***************************************************************************)
(* NvhmMapTable (plugins/nvhm/src/nvhm_map_table.cpp): a table of nvhm     *)
(* maps, one per partition, which find reads through a ring of prefetched  *)
(* keys, with each row copied when the next one has been prefetched.       *)
(*                                                                         *)
(* A row is a version.  Which keys an overflow evicts is left open, which  *)
(* covers the three handlers.                                              *)
(***************************************************************************)
EXTENDS PartitionedTable

VARIABLES map,     \* the row of each key, or None
          cursor   \* where the find tasks are inside a word

vars == <<setup, map, call, at, cursor, outputs, made, seen>>

QueueLength == setup.key_fetch_queue_length
PrefetchValues == setup.prefetch_values

(* it_head and it_tail: positions still to fetch, and fetched ones; queue:   *)
(* their keys; prev: the position and key whose row is still to be copied.   *)
NoCursor == [loaded |-> FALSE, mask |-> {}, new |-> {}, it_head |-> {}, it_tail |-> {},
             queue |-> <<>>, prev |-> None]

Init ==
  /\ InitCalls
  /\ map = [k \in Keys |-> None]
  /\ cursor = [c \in Callers |-> [t \in Tasks |-> NoCursor]]

Begin(c) == BeginCall(c, map) /\ UNCHANGED <<map, cursor>>
StartTask(c, t) == TakeTask(c, t) /\ UNCHANGED <<map, cursor>>
Return(c) == ReturnCall(c) /\ UNCHANGED <<map, cursor>>

Mapped(p) == {k \in Keys : map[k] # None /\ PartOf[k] = p}

----------------------------------------------------------------------------
(* Modify tasks *)

Erased(m, ks) == [k \in Keys |-> IF k \in ks THEN None ELSE m[k]]

(* The keys evicted after key k was added to m: all but ResolutionMargin. *)
Victims(m, p) ==
  LET there == {k \in Keys : m[k] # None /\ PartOf[k] = p}
      excess == Cardinality(there) - ResolutionMargin
  IN  IF Cardinality(there) < OverflowMargin THEN {{}}
      ELSE {ks \in SUBSET there : Cardinality(ks) = IF excess > 0 THEN excess ELSE 0}

(* upsert; only a key that is new can overflow the partition. *)
insert(c, t) ==
  LET k == Key(c, t)
      m == [map EXCEPT ![k] = call[c].version]
  IN  /\ ModifyStep(c, t, {"insert"})
      /\ IF map[k] # None THEN map' = m
         ELSE \E ks \in Victims(m, t[1]) : map' = Erased(m, ks)
      /\ UNCHANGED cursor
      /\ Observe(map')

update(c, t) ==
  LET k == Key(c, t) IN
  /\ ModifyStep(c, t, {"update", "update_accumulate"})
  /\ map' = IF map[k] = None THEN map
            ELSE [map EXCEPT ![k] = IF call[c].op = "update" THEN call[c].version
                                    ELSE (@ + 1) % (MaxVersion + 1)]
  /\ UNCHANGED cursor
  /\ Observe(map')

erase(c, t) ==
  /\ ModifyStep(c, t, {"erase"})
  /\ map' = Erased(map, {Key(c, t)})
  /\ UNCHANGED cursor
  /\ Observe(map')

clear(c, t) ==
  /\ ModifyStep(c, t, {"clear"})
  /\ map' = Erased(map, Mapped(t[1]))
  /\ UNCHANGED cursor
  /\ Observe(map')

----------------------------------------------------------------------------
(* find_ *)

Finding(c, t) == IsFind(c) /\ Running(c, t)
NotFinding == <<setup, map, call, made, seen>>

LoadWord(c, t) ==
  LET mask == hit_mask[c] \cap InWord(c, t) IN
  /\ Finding(c, t) /\ ~cursor[c][t].loaded
  /\ cursor' = [cursor EXCEPT ![c][t].loaded = TRUE, ![c][t].mask = mask,
                  ![c][t].it_head = {i \in InWord(c, t) \ mask : PartOf[call[c].keys[i]] = t[1]}]
  /\ UNCHANGED <<NotFinding, at, outputs>>

(* Before the queue is full: the next key is prefetched. *)
Fill(c, t) ==
  LET cur == cursor[c][t]
      j == Min(cur.it_head)
  IN  /\ Finding(c, t) /\ cur.loaded /\ cur.it_head # {} /\ Len(cur.queue) < QueueLength
      /\ cursor' = [cursor EXCEPT ![c][t].it_head = @ \ {j}, ![c][t].it_tail = @ \union {j},
                      ![c][t].queue = Append(@, call[c].keys[j])]
      /\ UNCHANGED <<NotFinding, at, outputs>>

(* process_tail: the row of position j, found under key k, is copied now, or *)
(* prefetched while the previous one is copied.                              *)
Copied(c, t, j, k) ==
  LET prev == cursor[c][t].prev IN
  IF map[k] = None THEN rows[c]
  ELSE IF ~PrefetchValues THEN [rows[c] EXCEPT ![j] = map[k]]
  ELSE IF prev = None THEN rows[c] ELSE [rows[c] EXCEPT ![prev[1]] = map[prev[2]]]

NextPrev(c, t, j, k) ==
  IF map[k] = None \/ ~PrefetchValues THEN cursor[c][t].prev ELSE <<j, k>>

NewHit(j, k) == IF map[k] = None THEN {} ELSE {j}

(* Pop the oldest key for the first position of it_tail; while keys are left *)
(* the next one takes its place in the queue.                                *)
Pop(c, t) ==
  LET cur == cursor[c][t]
      more == cur.it_head # {}
      tail == IF more THEN cur.it_tail \union {Min(cur.it_head)} ELSE cur.it_tail
      j == Min(tail)
      k == Head(cur.queue)
      queue == IF more THEN Append(Tail(cur.queue), call[c].keys[Min(cur.it_head)]) ELSE Tail(cur.queue)
  IN  /\ Finding(c, t) /\ cur.loaded /\ QueueLength > 0 /\ cur.it_tail # {}
      /\ more => Len(cur.queue) = QueueLength
      /\ rows' = [rows EXCEPT ![c] = Copied(c, t, j, k)]
      /\ cursor' = [cursor EXCEPT ![c][t] = [cur EXCEPT
                      !.it_head = IF more THEN @ \ {Min(@)} ELSE @,
                      !.it_tail = tail \ {j}, !.queue = queue,
                      !.new = @ \union NewHit(j, k), !.prev = NextPrev(c, t, j, k)]]
      /\ UNCHANGED <<NotFinding, at, hit_mask, hits>>

(* Without a queue: one lookup at a time. *)
LookupDirect(c, t) ==
  LET cur == cursor[c][t]
      j == Min(cur.it_head)
      k == call[c].keys[j]
  IN  /\ Finding(c, t) /\ cur.loaded /\ QueueLength = 0 /\ cur.it_head # {}
      /\ rows' = [rows EXCEPT ![c] = Copied(c, t, j, k)]
      /\ cursor' = [cursor EXCEPT ![c][t] = [cur EXCEPT
                      !.it_head = @ \ {j}, !.new = @ \union NewHit(j, k), !.prev = NextPrev(c, t, j, k)]]
      /\ UNCHANGED <<NotFinding, at, hit_mask, hits>>

(* The row that is still to be copied when the last word of a task is done;  *)
(* the lock is released after that.                                          *)
LastCopy(c, t) ==
  LET prev == cursor[c][t].prev IN
  IF prev = None \/ at[c][t] < Steps(c, t) THEN rows[c] ELSE [rows[c] EXCEPT ![prev[1]] = map[prev[2]]]

JoinWord(c, t) ==
  LET cur == cursor[c][t] IN
  /\ Finding(c, t) /\ cur.loaded /\ cur.it_head = {} /\ cur.it_tail = {}
  /\ hits' = [hits EXCEPT ![c] = @ + Cardinality(cur.mask \union cur.new) - Cardinality(cur.mask)]
  /\ hit_mask' = [hit_mask EXCEPT ![c] = @ \union cur.mask \union cur.new]
  /\ rows' = [rows EXCEPT ![c] = LastCopy(c, t)]
  /\ cursor' = [cursor EXCEPT ![c][t] = [NoCursor EXCEPT
                  !.prev = IF at[c][t] < Steps(c, t) THEN cur.prev ELSE None]]
  /\ StepDone(c, t)
  /\ UNCHANGED NotFinding

Done == Rest /\ UNCHANGED vars

TaskStep(c, t) ==
  \/ StartTask(c, t) \/ insert(c, t) \/ update(c, t) \/ erase(c, t) \/ clear(c, t)
  \/ LoadWord(c, t) \/ Fill(c, t) \/ Pop(c, t) \/ LookupDirect(c, t) \/ JoinWord(c, t)

Next ==
  \/ \E c \in Callers : Begin(c) \/ Return(c) \/ \E t \in Tasks : TaskStep(c, t)
  \/ Done

Spec == Init /\ [][Next]_vars

----------------------------------------------------------------------------
(* Properties *)

(* The variables hold values of their types, and the queue of a find task    *)
(* holds one key for every position between the tail and the head.           *)
TypeOK ==
  /\ CallsOK
  /\ map \in [Keys -> Versions \union {None}]
  /\ \A c \in Callers : \A t \in Tasks :
       /\ Len(cursor[c][t].queue) = Cardinality(cursor[c][t].it_tail)
       /\ Len(cursor[c][t].queue) <= QueueLength

(* A new key that brings a partition to overflow_margin makes room at once:  *)
(* a partition never stays that large, unless that is what an overflow       *)
(* leaves.                                                                   *)
SizeBounded ==
  \A p \in Parts : \/ Cardinality(Mapped(p)) < OverflowMargin
                   \/ Cardinality(Mapped(p)) <= ResolutionMargin
============================================================================
