--------------------------- MODULE ComponentProofs ---------------------------
(***************************************************************************)
(* Proofs about four components that stand alone: the tag and the set of a *)
(* key, for every width of the keys and every number of sets; the          *)
(* statistical insert heuristic, for every number of tables and every      *)
(* window, round length and tolerance; the GPU layer, for any number of    *)
(* contexts, lookups and modify operations; and the distributed buffer,    *)
(* for any number of ranks, hosts and devices.                             *)
(***************************************************************************)
EXTENDS InsertHeuristic, EcHash, GpuEmbeddingLayer, DistributedBuffer, FiniteSetTheorems, TLAPS

----------------------------------------------------------------------------
(* EcHash *)

(* Division with remainder, and that the remainder is the only one. *)
LEMMA Division ==
  ASSUME NEW a \in Nat, NEW n \in Nat, n > 0
  PROVE  a \div n \in Nat /\ a % n \in 0 .. n - 1 /\ a = (n * (a \div n)) + (a % n)
PROOF
  BY SMTT(30)

LEMMA Remainder ==
  ASSUME NEW q \in Nat, NEW r \in Nat, NEW n \in Nat, r < n
  PROVE  ((n * q) + r) % n = r
PROOF
  BY SMTT(30)

----------------------------------------------------------------------------
(* The tag and the set of a key *)

(* The casts are inverse to each other. *)
LEMMA Casts ==
  ASSUME WidthsOK
  PROVE  /\ \A x \in Keys : ToUnsigned(x) \in 0 .. KeyRange - 1 /\ ToSigned(ToUnsigned(x)) = x
         /\ \A u \in 0 .. KeyRange - 1 : ToSigned(u) \in Keys /\ ToUnsigned(ToSigned(u)) = u /\ u % KeyRange = u
PROOF
  BY SMTT(30) DEF WidthsOK, KeyRange, Keys, ToUnsigned, ToSigned

(* The key that a tag and a set stand for, before it is cut to the key type. *)
LEMMA Rebuilt ==
  ASSUME WidthsOK, NEW key \in Keys
  PROVE  /\ embed_cache_hash_set_idx(key) \in 0 .. num_sets - 1
         /\ ToUnsigned(embed_cache_construct_tag(key)) * num_sets + embed_cache_hash_set_idx(key) = ToUnsigned(key)
PROOF
  <1> DEFINE u == ToUnsigned(key)
             q == u \div num_sets
             r == u % num_sets
  <1>1. u \in Nat /\ u <= KeyRange - 1 /\ num_sets \in Nat /\ num_sets > 0
    BY Casts DEF WidthsOK, KeyRange
  <1> HIDE DEF u
  <1>2. q \in 0 .. u /\ r \in 0 .. num_sets - 1 /\ (q * num_sets) + r = u
    BY <1>1, Division
  <1> HIDE DEF q, r
  <1>3. q \in 0 .. KeyRange - 1
    BY <1>1, <1>2 DEF WidthsOK, KeyRange
  <1>4. ToUnsigned(ToSigned(q)) = q
    BY Zenon, <1>3, Casts
  <1>5. embed_cache_construct_tag(key) = ToSigned(q) /\ embed_cache_hash_set_idx(key) = r
    BY Zenon DEF embed_cache_construct_tag, embed_cache_hash_set_idx, u, q, r
  <1> QED
    BY Zenon, <1>2, <1>4, <1>5 DEF u

(***************************************************************************)
(* The tag and the set of a key give the key back (ec_hash.h).             *)
(***************************************************************************)
THEOREM HashRoundTrips ==
  ASSUME WidthsOK
  PROVE  KeyRoundTrips
PROOF
  <1> SUFFICES ASSUME NEW key \in Keys
               PROVE  embed_cache_construct_key(embed_cache_construct_tag(key), embed_cache_hash_set_idx(key)) = key
    BY Zenon DEF KeyRoundTrips
  <1> QED
    BY Zenon, Rebuilt, Casts DEF embed_cache_construct_key

(***************************************************************************)
(* The key comparison of the lookup kernels hits the tag of the key it     *)
(* looks for and no other one of the set.                                  *)
(***************************************************************************)
THEOREM HashTellsKeysApart ==
  ASSUME WidthsOK
  PROVE  TagsTellKeysApart
PROOF
  BY Zenon, HashRoundTrips DEF KeyRoundTrips, TagsTellKeysApart

(***************************************************************************)
(* The sentinel of a free slot stands for a negative key in every set.     *)
(***************************************************************************)
THEOREM HashFreeSlotsMiss ==
  ASSUME WidthsOK
  PROVE  FreeSlotsMiss
PROOF
  <1> SUFFICES ASSUME NEW key \in 0 .. Half - 1
               PROVE  embed_cache_construct_key(SentinelTag, embed_cache_hash_set_idx(key)) # key
    BY Zenon DEF FreeSlotsMiss
  <1> DEFINE s == embed_cache_hash_set_idx(key)
             x == ToUnsigned(SentinelTag) * num_sets + s
  <1>1. key \in Keys /\ SentinelTag \in Keys /\ ToUnsigned(SentinelTag) = KeyRange - 1
    BY DEF WidthsOK, Keys, KeyRange, SentinelTag, ToUnsigned
  <1>2. s \in 0 .. num_sets - 1
    BY Zenon, <1>1, Rebuilt
  <1> HIDE DEF s
  <1>3. x = (KeyRange * (num_sets - 1)) + (KeyRange - num_sets + s)
    BY <1>1, <1>2, SMTT(30) DEF WidthsOK, KeyRange
  <1>4. x % KeyRange = KeyRange - num_sets + s
    BY <1>2, <1>3, SMTT(30) DEF WidthsOK, KeyRange
  <1>5. ToSigned(x % KeyRange) < 0
    BY <1>2, <1>4 DEF WidthsOK, KeyRange, ToSigned
  <1> QED
    BY <1>5 DEF embed_cache_construct_key, s, WidthsOK

----------------------------------------------------------------------------
(* The counters and the window of the heuristic *)

(* One more is one more after the division, or a multiple again. *)
LEMMA NextRemainder ==
  ASSUME NEW a \in Nat, NEW n \in Nat, n > 0
  PROVE  (a + 1) % n = IF (a % n) + 1 = n THEN 0 ELSE (a % n) + 1
PROOF
  <1> DEFINE q == a \div n
             r == a % n
  <1>1. q \in Nat /\ r \in 0 .. n - 1 /\ a = (n * q) + r
    BY Zenon, Division
  <1>2. a % n = r
    BY Zenon DEF r
  <1> HIDE DEF q, r
  <1>3. CASE r + 1 = n
    <2>1. a + 1 = (n * (q + 1)) + 0
      BY <1>1, <1>3
    <2>2. ((n * (q + 1)) + 0) % n = 0
      <3>1. q + 1 \in Nat
        BY <1>1
      <3> QED
        BY Zenon, <3>1, Remainder
    <2> QED
      BY <1>2, <1>3, <2>1, <2>2, Zenon
  <1>4. CASE r + 1 # n
    <2>1. a + 1 = (n * q) + (r + 1) /\ r + 1 \in Nat /\ r + 1 < n
      BY <1>1, <1>4
    <2>2. ((n * q) + (r + 1)) % n = r + 1
      BY Zenon, <1>1, <2>1, Remainder
    <2> QED
      BY <1>2, <1>4, <2>1, <2>2, Zenon
  <1> QED
    BY Zenon, <1>3, <1>4

(* A counter that wraps counts the remainders of n, and starts again at 0. *)
LEMMA WrappedCount ==
  ASSUME ParametersOK, RangeOK, NEW a \in 0 .. CounterRange - 1
  PROVE  /\ (a + 1) % CounterRange \in 0 .. CounterRange - 1
         /\ ((a + 1) % CounterRange) % num_inserts_needed
              = IF a + 1 = CounterRange \/ (a % num_inserts_needed) + 1 = num_inserts_needed THEN 0
                ELSE (a % num_inserts_needed) + 1
         /\ (a + 1) % CounterRange = 0 <=> a + 1 = CounterRange
PROOF
  <1> DEFINE n == num_inserts_needed
  <1>1. n \in Nat /\ n > 0 /\ CounterRange \in Nat /\ CounterRange > 0 /\ a \in Nat /\ a < CounterRange
    BY DEF ParametersOK, RangeOK
  <1>2. (a + 1) % n = IF (a % n) + 1 = n THEN 0 ELSE (a % n) + 1
    BY Zenon, <1>1, NextRemainder
  <1>3. CASE a + 1 < CounterRange
    <2>1. (a + 1) % CounterRange = a + 1 /\ a + 1 \in 0 .. CounterRange - 1 /\ a + 1 # CounterRange /\ a + 1 # 0
      BY <1>1, <1>3
    <2> QED
      BY Zenon, <1>2, <2>1
  <1>4. CASE a + 1 = CounterRange
    <2>1. (a + 1) % CounterRange = 0 /\ 0 % n = 0 /\ 0 \in 0 .. CounterRange - 1
      BY <1>1, <1>4
    <2> QED
      BY Zenon, <1>4, <2>1
  <1> QED
    BY <1>1, <1>3, <1>4
----------------------------------------------------------------------------
(* What a new sample makes of the window *)

LEMMA MovedWindow ==
  ASSUME ParametersOK, NEW w \in Seq(Hitrates), Len(w) = window_size, NEW h \in Hitrates
  PROVE  /\ Append(Tail(w), h) \in Seq(Hitrates)
         /\ Len(Append(Tail(w), h)) = window_size
         /\ \A i \in 1 .. window_size - 1 : Append(Tail(w), h)[i] = w[i + 1]
         /\ Append(Tail(w), h)[window_size] = h
PROOF
  <1>1. window_size \in Nat /\ window_size > 1 /\ w # <<>>
    BY DEF ParametersOK
  <1>2. Tail(w) \in Seq(Hitrates) /\ Len(Tail(w)) = window_size - 1 /\ \A i \in 1 .. window_size - 1 : Tail(w)[i] = w[i + 1]
    BY <1>1
  <1> QED
    BY <1>1, <1>2

LEMMA Appended ==
  ASSUME NEW s \in Seq(Hitrates), NEW h \in Hitrates
  PROVE  /\ Append(s, h) \in Seq(Hitrates)
         /\ Len(Append(s, h)) = Len(s) + 1
         /\ \A i \in 1 .. Len(s) : Append(s, h)[i] = s[i]
         /\ Append(s, h)[Len(s) + 1] = h
PROOF
  OBVIOUS

LEMMA SameSequence ==
  ASSUME NEW v \in Seq(Hitrates), NEW w \in Seq(Hitrates), Len(v) = Len(w), \A i \in 1 .. Len(v) : v[i] = w[i]
  PROVE  v = w
PROOF
  OBVIOUS

(* A sample joins the collection and the window alike. *)
LEMMA CollectedWindow ==
  ASSUME ParametersOK, NEW w \in Seq(Hitrates), Len(w) = window_size, NEW h \in Hitrates,
         NEW s \in Seq(Hitrates), Len(s) < window_size,
         \A i \in 1 .. Len(s) : w[window_size - Len(s) + i] = s[i]
  PROVE  \A i \in 1 .. Len(s) + 1 : Append(Tail(w), h)[window_size - (Len(s) + 1) + i] = Append(s, h)[i]
PROOF
  <1> SUFFICES ASSUME NEW i \in 1 .. Len(s) + 1
               PROVE  Append(Tail(w), h)[window_size - (Len(s) + 1) + i] = Append(s, h)[i]
    BY Zenon
  <1>1. Len(s) \in Nat /\ window_size \in Nat
    BY DEF ParametersOK
  <1>2. CASE i = Len(s) + 1
    <2>1. window_size - (Len(s) + 1) + i = window_size
      BY <1>1, <1>2
    <2>2. Append(Tail(w), h)[window_size] = h /\ Append(s, h)[Len(s) + 1] = h
      BY ZenonT(60), MovedWindow, Appended
    <2> QED
      BY Zenon, <1>2, <2>1, <2>2
  <1>3. CASE i \in 1 .. Len(s)
    <2> DEFINE j == window_size - (Len(s) + 1) + i
    <2>1. j \in 1 .. window_size - 1 /\ j + 1 = window_size - Len(s) + i
      BY <1>1, <1>3
    <2>2. Append(Tail(w), h)[j] = w[j + 1]
      BY Zenon, <2>1, MovedWindow
    <2> QED
      BY Zenon, <1>3, <2>1, <2>2, Appended
  <1>4. i = Len(s) + 1 \/ i \in 1 .. Len(s)
    BY <1>1
  <1> QED
    BY <1>2, <1>3, <1>4, Zenon
----------------------------------------------------------------------------
(* The invariant *)

LEMMA InitInv ==
  ASSUME ParametersOK, RangeOK, UnitOK, HeuristicInit
  PROVE  HInv
PROOF
  <1>1. window_size \in Nat /\ window_size > 1 /\ max_unsteady_samples \in Nat /\ max_unsteady_samples > 0
        /\ num_inserts_needed \in Nat /\ num_inserts_needed > 0 /\ CounterRange \in Nat /\ CounterRange > 0
        /\ 0 \in Hitrates
    BY DEF ParametersOK, RangeOK, UnitOK, Hitrates
  <1>2. [i \in 1 .. window_size |-> 0] \in Seq(Hitrates) /\ Len([i \in 1 .. window_size |-> 0]) = window_size
    BY <1>1
  <1>3. TableFunctions
    BY <1>2 DEF HeuristicInit, TableFunctions, States
  <1>4. ASSUME NEW t \in Tables
        PROVE  RoundCounted(t) /\ RunCounted(t) /\ WindowFilled(t)
    <2>1. 0 % num_inserts_needed = 0
      BY <1>1
    <2>2. RoundCounted(t)
      BY <1>1, <2>1 DEF HeuristicInit, RoundCounted
    <2>3. RunCounted(t)
      BY <1>1 DEF HeuristicInit, RunCounted
    <2>4. WindowFilled(t)
      BY <1>1, <1>2 DEF HeuristicInit, WindowFilled
    <2> QED
      BY Zenon, <2>2, <2>3, <2>4
  <1> QED
    BY Zenon, <1>3, <1>4 DEF HInv

(* A call for one table leaves the others alone. *)
Same(u) ==
  /\ state'[u] = state[u] /\ hitrate_window'[u] = hitrate_window[u] /\ samples'[u] = samples[u]
  /\ window_samples_collected'[u] = window_samples_collected[u]
  /\ insertions_performed'[u] = insertions_performed[u]
  /\ consecutive_unsteady_samples'[u] = consecutive_unsteady_samples[u] /\ inserts'[u] = inserts[u]

LEMMA SameInv ==
  ASSUME NEW u \in Tables, Same(u), RoundCounted(u), RunCounted(u), WindowFilled(u)
  PROVE  (RoundCounted(u) /\ RunCounted(u) /\ WindowFilled(u))'
PROOF
  BY Zenon DEF Same, RoundCounted, RunCounted, WindowFilled

(* What updateDistributionParams does to the windows. *)
LEMMA UpdatedWindow ==
  ASSUME ParametersOK, HInv, NEW t \in Tables, NEW h \in Hitrates, updateDistributionParams(t, h)
  PROVE  /\ hitrate_window' = [hitrate_window EXCEPT ![t] = Append(Tail(hitrate_window[t]), h)]
         /\ hitrate_window' \in [Tables -> Seq(Hitrates)]
         /\ hitrate_window'[t] = Append(Tail(hitrate_window[t]), h)
         /\ Len(hitrate_window'[t]) = window_size
         /\ hitrate_window'[t][window_size] = h
         /\ \A u \in Tables : u # t => hitrate_window'[u] = hitrate_window[u]
PROOF
  <1> DEFINE w == hitrate_window[t]
  <1>1. hitrate_window' = [hitrate_window EXCEPT ![t] = Append(Tail(w), h)]
    BY Zenon DEF updateDistributionParams
  <1>2. hitrate_window \in [Tables -> Seq(Hitrates)] /\ w \in Seq(Hitrates) /\ Len(w) = window_size
    BY Zenon DEF HInv, TableFunctions, WindowFilled
  <1>3. Append(Tail(w), h) \in Seq(Hitrates) /\ Len(Append(Tail(w), h)) = window_size
        /\ Append(Tail(w), h)[window_size] = h
    BY Zenon, <1>2, MovedWindow
  <1> QED
    BY Zenon, <1>1, <1>2, <1>3
(* The constants as the action lemmas use them. *)
LEMMA Constants ==
  ASSUME ParametersOK, RangeOK
  PROVE  /\ window_size \in Nat /\ window_size > 1
         /\ num_inserts_needed \in Nat /\ num_inserts_needed > 0
         /\ max_unsteady_samples \in Nat /\ max_unsteady_samples > 0
         /\ CounterRange \in Nat /\ CounterRange > 0
PROOF
  BY DEF ParametersOK, RangeOK

(* What holds after a step for table t: the invariant, and the properties    *)
(* of the step.                                                              *)
Steps ==
  HInv' /\ WindowIsFresh /\ RoundsAreComplete /\ SteadyNeedsARun

LEMMA OneTable ==
  ASSUME HInv, NEW t \in Tables, TableFunctions', \A u \in Tables \ {t} : Same(u),
         (RoundCounted(t) /\ RunCounted(t) /\ WindowFilled(t))',
         state[t] = "Start" /\ state'[t] = "Insert" => hitrate_window'[t] = samples'[t],
         state[t] = "Insert" /\ state'[t] # "Insert" =>
           inserts'[t] = IF insertions_performed'[t] = 0 THEN LastRound ELSE num_inserts_needed,
         state[t] = "Steady" /\ state'[t] = "Insert" => Len(samples'[t]) = max_unsteady_samples
  PROVE  Steps
PROOF
  <1>1. \A u \in Tables \ {t} : (RoundCounted(u) /\ RunCounted(u) /\ WindowFilled(u))'
    BY Zenon, SameInv DEF HInv
  <1>2. HInv'
    BY Zenon, <1>1 DEF HInv
  <1>3. \A u \in Tables \ {t} : state'[u] = state[u]
    BY Zenon DEF Same
  <1> QED
    BY Zenon, <1>2, <1>3 DEF Steps, WindowIsFresh, RoundsAreComplete, SteadyNeedsARun

LEMMA CollectInv ==
  ASSUME ParametersOK, RangeOK, HInv, NEW t \in Tables, NEW h \in Hitrates, Collect(t, h)
  PROVE  Steps
PROOF
  <1> DEFINE s == samples[t]
             w == hitrate_window[t]
             moved == Append(Tail(w), h)
  <1>1. updateDistributionParams(t, h) /\ state[t] = "Start"
    BY Zenon DEF Collect
  <1>2. s \in Seq(Hitrates) /\ Len(s) \in Nat /\ Len(s) < window_size
        /\ window_samples_collected[t] = Len(s) /\ w \in Seq(Hitrates) /\ Len(w) = window_size
        /\ \A i \in 1 .. Len(s) : w[window_size - Len(s) + i] = s[i]
    BY <1>1 DEF HInv, TableFunctions, WindowFilled
  <1>3. Collecting(s, h) = Append(s, h)
    BY <1>2, Constants DEF Collecting
  <1>4. Append(s, h) \in Seq(Hitrates) /\ Len(Append(s, h)) = Len(s) + 1
    BY Zenon, <1>2, Appended
  <1>5. /\ samples' = [samples EXCEPT ![t] = Append(s, h)]
        /\ window_samples_collected' = [window_samples_collected EXCEPT ![t] = Len(s) + 1]
        /\ state' = [state EXCEPT ![t] = IF Len(s) + 1 = window_size THEN "Insert" ELSE "Start"]
        /\ inserts' = [inserts EXCEPT ![t] = 0]
        /\ UNCHANGED <<insertions_performed, consecutive_unsteady_samples>>
    BY Zenon, <1>2, <1>3 DEF Collect, Collected, Goto, HInv, TableFunctions
  <1>6. TableFunctions'
    BY <1>1, <1>2, <1>4, <1>5, UpdatedWindow DEF HInv, TableFunctions, States
  <1>7. \A u \in Tables \ {t} : Same(u)
    <2>1. \A u \in Tables \ {t} : hitrate_window'[u] = hitrate_window[u]
      BY Zenon, <1>1, UpdatedWindow
    <2> QED
      BY Zenon, <1>5, <2>1 DEF HInv, TableFunctions, Same
  <1>8. /\ samples'[t] = Append(s, h) /\ inserts'[t] = 0
        /\ window_samples_collected'[t] = Len(s) + 1
        /\ state'[t] = IF Len(s) + 1 = window_size THEN "Insert" ELSE "Start"
    BY Zenon, <1>5 DEF HInv, TableFunctions
  <1>9. RoundCounted(t)'
    <2>1. insertions_performed[t] \in 0 .. CounterRange - 1 /\ insertions_performed[t] % num_inserts_needed = 0
      BY Zenon, <1>1 DEF HInv, RoundCounted
    <2> QED
      BY Zenon, <1>5, <1>8, <2>1 DEF RoundCounted
  <1>10. RunCounted(t)'
    BY <1>1, <1>5, <1>8 DEF HInv, RunCounted
  <1>11. hitrate_window'[t] = moved /\ moved \in Seq(Hitrates) /\ Len(moved) = window_size
    BY Zenon, <1>1, <1>2, UpdatedWindow, MovedWindow
  <1> HIDE DEF s, w
  <1>12. \A i \in 1 .. Len(s) + 1 : moved[window_size - (Len(s) + 1) + i] = Append(s, h)[i]
    BY Zenon, <1>2, CollectedWindow
  <1> HIDE DEF moved
  <1>13. WindowFilled(t)'
    <2> DEFINE c == Append(s, h)
    <2>1. Len(c) = Len(s) + 1 /\ \A i \in 1 .. Len(c) : moved[window_size - Len(c) + i] = c[i]
      BY Zenon, <1>4, <1>12
    <2> HIDE DEF c
    <2>2. samples'[t] = c
      BY Zenon, <1>8 DEF c
    <2>3. state'[t] = "Start" => Len(c) < window_size
      BY <1>2, <1>8, <2>1, Constants
    <2> QED
      BY Zenon, <1>8, <1>11, <2>1, <2>2, <2>3 DEF WindowFilled
  <1>14. ASSUME state'[t] = "Insert"
         PROVE  hitrate_window'[t] = samples'[t]
    <2>1. Len(s) + 1 = window_size
      BY Zenon, <1>8, <1>14
    <2>2. \A i \in 1 .. window_size : moved[i] = Append(s, h)[i]
      <3> SUFFICES ASSUME NEW i \in 1 .. window_size
                   PROVE  moved[i] = Append(s, h)[i]
        BY Zenon
      <3>1. i \in 1 .. Len(s) + 1 /\ window_size - (Len(s) + 1) + i = i
        BY <2>1, Constants
      <3> QED
        BY Zenon, <1>12, <3>1
    <2>3. moved = Append(s, h)
      BY Zenon, <1>4, <1>11, <2>1, <2>2, SameSequence
    <2> QED
      BY Zenon, <1>8, <1>11, <2>3
  <1> QED
    BY Zenon, <1>1, <1>6, <1>7, <1>9, <1>10, <1>13, <1>14, OneTable

LEMMA InsertInv ==
  ASSUME ParametersOK, RangeOK, HInv, NEW t \in Tables, NEW h \in Hitrates, Insert(t, h)
  PROVE  Steps
PROOF
  <1> DEFINE n == (insertions_performed[t] + 1) % CounterRange
  <1>1. state[t] = "Insert" /\ insertions_performed[t] \in 0 .. CounterRange - 1
        /\ inserts[t] = insertions_performed[t] % num_inserts_needed /\ inserts[t] \in Nat
    BY Zenon DEF Insert, HInv, TableFunctions, RoundCounted
  <1>2. /\ n \in 0 .. CounterRange - 1
        /\ n % num_inserts_needed = IF insertions_performed[t] + 1 = CounterRange \/ inserts[t] + 1 = num_inserts_needed
                                    THEN 0 ELSE inserts[t] + 1
        /\ n = 0 <=> insertions_performed[t] + 1 = CounterRange
    BY Zenon, <1>1, WrappedCount
  <1> HIDE DEF n
  <1>3. /\ insertions_performed' = [insertions_performed EXCEPT ![t] = n]
        /\ state' = [state EXCEPT ![t] = IF n % num_inserts_needed = 0 THEN "Unstable" ELSE "Insert"]
        /\ samples' = [samples EXCEPT ![t] = <<>>]
        /\ inserts' = [inserts EXCEPT ![t] = inserts[t] + 1]
        /\ UNCHANGED <<hitrate_window, window_samples_collected, consecutive_unsteady_samples>>
    BY Zenon DEF Insert, Goto, PhaseEnds, HInv, TableFunctions, n, distribution
  <1>4. TableFunctions'
    <2>1. <<>> \in Seq(Hitrates) /\ n \in Nat
      BY <1>2, Constants
    <2> QED
      BY <1>1, <1>3, <2>1 DEF HInv, TableFunctions, States
  <1>5. \A u \in Tables \ {t} : Same(u)
    BY Zenon, <1>3 DEF HInv, TableFunctions, Same
  <1>6. /\ insertions_performed'[t] = n /\ inserts'[t] = inserts[t] + 1 /\ samples'[t] = <<>>
        /\ state'[t] = IF n % num_inserts_needed = 0 THEN "Unstable" ELSE "Insert"
    BY Zenon, <1>3 DEF HInv, TableFunctions
  <1>7. n % num_inserts_needed # 0 => inserts'[t] = n % num_inserts_needed
    BY Zenon, <1>2, <1>6
  <1>11. n % num_inserts_needed = 0 => inserts'[t] = IF n = 0 THEN LastRound ELSE num_inserts_needed
    <2>1. CASE n = 0
      <3>1. insertions_performed[t] = CounterRange - 1
        BY <1>1, <1>2, <2>1, Constants
      <3>2. inserts[t] + 1 = LastRound
        BY Zenon, <1>1, <3>1 DEF LastRound
      <3> QED
        BY Zenon, <1>6, <2>1, <3>2
    <2>2. CASE n # 0
      <3>1. inserts[t] + 1 # 0
        BY <1>1
      <3> QED
        BY Zenon, <1>2, <1>6, <2>2, <3>1
    <2> QED
      BY Zenon, <2>1, <2>2
  <1>8. RoundCounted(t)'
    BY Zenon, <1>2, <1>6, <1>7 DEF RoundCounted
  <1>9. RunCounted(t)'
    BY Zenon, <1>1, <1>3, <1>6 DEF HInv, RunCounted
  <1>10. WindowFilled(t)'
    BY SMTT(40), <1>3, <1>6 DEF HInv, WindowFilled
  <1> QED
    BY Zenon, <1>1, <1>4, <1>5, <1>6, <1>8, <1>9, <1>10, <1>11, OneTable

LEMMA WatchInv ==
  ASSUME ParametersOK, RangeOK, HInv, NEW t \in Tables, NEW h \in Hitrates, Watch(t, h)
  PROVE  Steps
PROOF
  <1> DEFINE bad == consecutive_unsteady_samples[t] + 1
             s == samples[t]
  <1>1. /\ state[t] = "Steady" /\ s \in Seq(Hitrates) /\ Len(s) \in Nat
        /\ consecutive_unsteady_samples[t] = Len(s) /\ Len(s) < max_unsteady_samples
        /\ insertions_performed[t] \in 0 .. CounterRange - 1 /\ insertions_performed[t] % num_inserts_needed = 0
        /\ hitrate_window[t] \in Seq(Hitrates) /\ Len(hitrate_window[t]) = window_size
    <2>1. state[t] = "Steady" /\ RoundCounted(t) /\ RunCounted(t) /\ WindowFilled(t)
      BY Zenon DEF Watch, HInv
    <2>2. s \in Seq(Hitrates) /\ hitrate_window[t] \in Seq(Hitrates)
      BY Zenon DEF HInv, TableFunctions
    <2>3. consecutive_unsteady_samples[t] \in 0 .. max_unsteady_samples - 1 /\ consecutive_unsteady_samples[t] = Len(s)
      BY Zenon, <2>1 DEF RunCounted
    <2>4. insertions_performed[t] \in 0 .. CounterRange - 1 /\ insertions_performed[t] % num_inserts_needed = 0
      BY <2>1 DEF RoundCounted
    <2>5. Len(hitrate_window[t]) = window_size
      BY Zenon, <2>1 DEF WindowFilled
    <2> HIDE DEF s
    <2>6. Len(s) \in Nat /\ Len(s) < max_unsteady_samples
      BY <2>3, Constants
    <2> QED
      BY Zenon, <2>1, <2>2, <2>3, <2>4, <2>5, <2>6
  <1>2. /\ inserts' = [inserts EXCEPT ![t] = 0]
        /\ UNCHANGED <<window_samples_collected, insertions_performed>>
    BY Zenon DEF Watch
  <1>3. <<>> \in Seq(Hitrates) /\ Len(<<>>) = 0 /\ Append(s, h) \in Seq(Hitrates) /\ Len(Append(s, h)) = Len(s) + 1
    BY <1>1, Appended
  <1>4. CASE Deviates(t, h)
    <2> DEFINE full == bad = max_unsteady_samples
    <2>1. /\ consecutive_unsteady_samples' = [consecutive_unsteady_samples EXCEPT ![t] = IF full THEN 0 ELSE bad]
          /\ state' = [state EXCEPT ![t] = IF full THEN "Insert" ELSE "Steady"]
          /\ samples' = [samples EXCEPT ![t] = Append(s, h)]
          /\ UNCHANGED hitrate_window
      BY Zenon, <1>4 DEF Watch, Goto, HInv, TableFunctions, distribution
    <2>2. TableFunctions'
      BY SMTT(40), <1>1, <1>2, <1>3, <2>1 DEF HInv, TableFunctions, States
    <2>3. \A u \in Tables \ {t} : Same(u)
      BY Zenon, <1>2, <2>1 DEF HInv, TableFunctions, Same
    <2>4. /\ consecutive_unsteady_samples'[t] = IF full THEN 0 ELSE bad
          /\ state'[t] = IF full THEN "Insert" ELSE "Steady"
          /\ samples'[t] = Append(s, h) /\ inserts'[t] = 0
      BY Zenon, <1>2, <2>1 DEF HInv, TableFunctions
    <2>5. RoundCounted(t)'
      BY Zenon, <1>1, <1>2, <2>4 DEF RoundCounted
    <2>6. RunCounted(t)'
      BY SMTT(40), <1>1, <1>3, <2>4, Constants DEF RunCounted
    <2>7. WindowFilled(t)'
      BY SMTT(40), <1>1, <2>1, <2>4 DEF WindowFilled
    <2>8. state'[t] = "Insert" => Len(samples'[t]) = max_unsteady_samples
      BY Zenon, <1>1, <1>3, <2>4
    <2> QED
      BY Zenon, <1>1, <2>2, <2>3, <2>5, <2>6, <2>7, <2>8, OneTable
  <1>5. CASE ~Deviates(t, h)
    <2>1. /\ consecutive_unsteady_samples' = [consecutive_unsteady_samples EXCEPT ![t] = 0]
          /\ updateDistributionParams(t, h)
          /\ UNCHANGED state
          /\ samples' = [samples EXCEPT ![t] = <<>>]
      BY Zenon, <1>5 DEF Watch, AfterGood
    <2>2. /\ hitrate_window' \in [Tables -> Seq(Hitrates)] /\ Len(hitrate_window'[t]) = window_size
          /\ \A u \in Tables \ {t} : hitrate_window'[u] = hitrate_window[u]
      BY Zenon, <2>1, UpdatedWindow
    <2>3. TableFunctions'
      <3>1. samples' \in [Tables -> Seq(Hitrates)] /\ state' \in [Tables -> States]
        BY Zenon, <1>3, <2>1 DEF HInv, TableFunctions
      <3>2. {window_samples_collected', insertions_performed', consecutive_unsteady_samples', inserts'}
              \subseteq [Tables -> Nat]
        BY <1>2, <2>1 DEF HInv, TableFunctions
      <3> QED
        BY Zenon, <2>2, <3>1, <3>2 DEF TableFunctions
    <2>4. \A u \in Tables \ {t} : Same(u)
      BY Zenon, <1>2, <2>1, <2>2 DEF HInv, TableFunctions, Same
    <2>5. consecutive_unsteady_samples'[t] = 0 /\ state'[t] = "Steady" /\ samples'[t] = <<>>
      BY Zenon, <1>1, <2>1 DEF HInv, TableFunctions
    <2>6. RoundCounted(t)'
      BY Zenon, <1>1, <1>2, <2>5 DEF RoundCounted
    <2>7. RunCounted(t)'
      BY <1>3, <2>5, Constants DEF RunCounted
    <2>8. WindowFilled(t)'
      BY Zenon, <2>2, <2>5 DEF WindowFilled
    <2> QED
      BY Zenon, <1>1, <2>3, <2>4, <2>5, <2>6, <2>7, <2>8, OneTable
  <1> QED
    BY Zenon, <1>4, <1>5

LEMMA SettleInv ==
  ASSUME ParametersOK, RangeOK, HInv, NEW t \in Tables, NEW h \in Hitrates, Settle(t, h)
  PROVE  Steps
PROOF
  <1>1. /\ state[t] = "Unstable" /\ consecutive_unsteady_samples[t] = 0
        /\ insertions_performed[t] \in 0 .. CounterRange - 1 /\ insertions_performed[t] % num_inserts_needed = 0
    BY Zenon DEF Settle, HInv, RunCounted, RoundCounted
  <1>2. /\ updateDistributionParams(t, h)
        /\ inserts' = [inserts EXCEPT ![t] = 0]
        /\ UNCHANGED <<insertions_performed, consecutive_unsteady_samples>>
    BY Zenon DEF Settle
  <1>3. /\ hitrate_window' \in [Tables -> Seq(Hitrates)] /\ Len(hitrate_window'[t]) = window_size
        /\ \A u \in Tables \ {t} : hitrate_window'[u] = hitrate_window[u]
        /\ hitrate_window'[t][window_size] = h
    BY Zenon, <1>2, UpdatedWindow
  <1>4. CASE /\ state' = [state EXCEPT ![t] = "Start"]
             /\ window_samples_collected' = [window_samples_collected EXCEPT ![t] = 1]
             /\ samples' = [samples EXCEPT ![t] = <<h>>]
    <2>1. <<h>> \in Seq(Hitrates) /\ Len(<<h>>) = 1 /\ <<h>>[1] = h
      OBVIOUS
    <2>2. TableFunctions'
      BY <1>2, <1>3, <1>4, <2>1 DEF HInv, TableFunctions, States
    <2>3. \A u \in Tables \ {t} : Same(u)
      BY Zenon, <1>2, <1>3, <1>4 DEF HInv, TableFunctions, Same
    <2>4. state'[t] = "Start" /\ window_samples_collected'[t] = 1 /\ samples'[t] = <<h>>
      BY Zenon, <1>4 DEF HInv, TableFunctions
    <2>5. RoundCounted(t)'
      BY Zenon, <1>1, <1>2, <2>4 DEF RoundCounted
    <2>6. RunCounted(t)'
      BY <1>1, <1>2, <2>4, Constants DEF RunCounted
    <2>7. \A i \in 1 .. 1 : hitrate_window'[t][window_size - 1 + i] = <<h>>[i]
      BY <1>3, <2>1, Constants
    <2>8. WindowFilled(t)'
      BY ZenonT(60), <1>3, <2>1, <2>4, <2>7, Constants DEF WindowFilled
    <2> QED
      BY Zenon, <1>1, <2>2, <2>3, <2>5, <2>6, <2>8, OneTable
  <1>5. CASE /\ state' = [state EXCEPT ![t] = "Steady"]
             /\ UNCHANGED window_samples_collected
             /\ samples' = [samples EXCEPT ![t] = <<>>]
    <2>1. <<>> \in Seq(Hitrates) /\ Len(<<>>) = 0
      OBVIOUS
    <2>2. TableFunctions'
      BY <1>2, <1>3, <1>5, <2>1 DEF HInv, TableFunctions, States
    <2>3. \A u \in Tables \ {t} : Same(u)
      BY Zenon, <1>2, <1>3, <1>5 DEF HInv, TableFunctions, Same
    <2>4. state'[t] = "Steady" /\ samples'[t] = <<>>
      BY Zenon, <1>5 DEF HInv, TableFunctions
    <2>5. RoundCounted(t)'
      BY Zenon, <1>1, <1>2, <2>4 DEF RoundCounted
    <2>6. RunCounted(t)'
      BY <1>1, <1>2, <2>1, <2>4, Constants DEF RunCounted
    <2>7. WindowFilled(t)'
      BY Zenon, <1>3, <2>4 DEF WindowFilled
    <2> QED
      BY <1>1, <2>2, <2>3, <2>5, <2>6, <2>7, OneTable
  <1> QED
    BY Zenon, <1>4, <1>5 DEF Settle, Goto, FirstCollected

LEMMA StepInv ==
  ASSUME ParametersOK, RangeOK, HInv, [HeuristicNext]_heuristicVars
  PROVE  HInv' /\ [WindowIsFresh /\ RoundsAreComplete /\ SteadyNeedsARun]_heuristicVars
PROOF
  <1>1. CASE UNCHANGED heuristicVars
    BY Zenon, <1>1 DEF heuristicVars, distribution, HInv, TableFunctions, RoundCounted, RunCounted, WindowFilled
  <1>2. CASE HeuristicNext
    <2>1. PICK t \in Tables, h \in Hitrates : Collect(t, h) \/ Insert(t, h) \/ Watch(t, h) \/ Settle(t, h)
      BY Zenon, <1>2 DEF HeuristicNext, insert_needed
    <2>2. Steps
      BY Zenon, <2>1, CollectInv, InsertInv, WatchInv, SettleInv
    <2> QED
      BY Zenon, <2>2 DEF Steps
  <1> QED
    BY Zenon, <1>1, <1>2

(***************************************************************************)
(* However long the heuristic runs and whatever its counter's range: a     *)
(* round of StatisticalInsertHeuristic::insert_needed asks for exactly     *)
(* num_inserts_needed_ insertions, or for what the range leaves over when  *)
(* the counter wraps in it; the first round rests on a window of fresh     *)
(* samples, a later one on a full run of bad ones.                         *)
(***************************************************************************)
THEOREM HeuristicRounds ==
  ASSUME UnitOK, ParametersOK, RangeOK
  PROVE  HeuristicSpec => [][WindowIsFresh /\ RoundsAreComplete /\ SteadyNeedsARun]_heuristicVars
PROOF
  <1>1. HeuristicInit => HInv
    BY Zenon, InitInv
  <1>2. HInv /\ [HeuristicNext]_heuristicVars => HInv' /\ [WindowIsFresh /\ RoundsAreComplete /\ SteadyNeedsARun]_heuristicVars
    BY Zenon, StepInv
  <1> QED
    BY <1>1, <1>2, PTL DEF HeuristicSpec

----------------------------------------------------------------------------
(* GpuEmbeddingLayer: GInv is inductive *)

\* Len, Head, Tail and Append element by element, in the form the proofs below use.
LEMMA AppendFacts ==
    ASSUME NEW S, NEW s \in Seq(S), NEW e \in S
    PROVE  /\ Append(s, e) \in Seq(S)
           /\ Len(Append(s, e)) = Len(s) + 1
           /\ \A i \in 1 .. Len(s) : Append(s, e)[i] = s[i]
           /\ Append(s, e)[Len(s) + 1] = e
           /\ s # <<>> => Head(Append(s, e)) = Head(s)
           /\ Append(s, e) # <<>>
OBVIOUS

LEMMA TailFacts ==
    ASSUME NEW S, NEW s \in Seq(S), s # <<>>
    PROVE  /\ Tail(s) \in Seq(S)
           /\ Len(s) \in Nat \ {0}
           /\ Len(Tail(s)) = Len(s) - 1
           /\ \A i \in 1 .. Len(s) - 1 : Tail(s)[i] = s[i + 1]
           /\ Head(s) = s[1]
OBVIOUS

LEMMA SeqFacts ==
    ASSUME NEW S, NEW s \in Seq(S)
    PROVE  /\ Len(s) \in Nat
           /\ \A i \in 1 .. Len(s) : s[i] \in S
           /\ s = <<>> => Len(s) = 0
           /\ s # <<>> => Len(s) >= 1 /\ Head(s) = s[1]
OBVIOUS

-----------------------------------------------------------------------------
LEMMA InitGInv == Init => GInv
BY NoneAssumption
   DEF Init, GInv, TypeOK, MutexOwned, EventIsLast, SnapshotCovers, Registered, WaitsQueued,
       Ordered, Running

\* The steps of the host that queue no kernel.
LEMMA HostStep ==
    ASSUME GInv, NEW c \in Contexts,
           \/ create_execution_context(c)
           \/ destroy_execution_context(c)
           \/ lookup(c)
           \/ modify(c)
           \/ LookupThrows(c)
           \/ ModifyThrows(c)
    PROVE  GInv'
<1> USE NoneAssumption DEF GInv
<1>1. UNCHANGED <<stream, private_modify_stream, deviceVars, modify_in_progress>>
  BY Zenon DEF create_execution_context, destroy_execution_context, lookup, modify, LookupThrows,
         ModifyThrows
<1>2. TypeOK'
  <2>1. \A d \in Contexts : Len(stream[d]) \in Nat
    BY Zenon, SeqFacts DEF TypeOK
  <2>2. Len(private_modify_stream) \in Nat
    BY Zenon, SeqFacts DEF TypeOK
  <2>3. CASE create_execution_context(c) \/ destroy_execution_context(c)
    BY Zenon, <1>1, <2>3 DEF TypeOK, deviceVars, create_execution_context, destroy_execution_context
  <2>4. CASE lookup(c) \/ LookupThrows(c)
    BY Zenon, <1>1, <2>4 DEF TypeOK, deviceVars, lookup, LookupThrows, Lock, Unlock
  <2>5. CASE modify(c)
    BY Zenon, <1>1, <2>5 DEF TypeOK, deviceVars, modify, Lock
  <2>6. CASE ModifyThrows(c)
    BY <1>1, <2>1, <2>2, <2>6 DEF TypeOK, deviceVars, ModifyThrows, Unlock
  <2>. QED
    BY Zenon, <2>3, <2>4, <2>5, <2>6
<1>3. MutexOwned'
  <2>1. CASE create_execution_context(c) \/ destroy_execution_context(c)
    BY Zenon, <2>1 DEF MutexOwned, create_execution_context, destroy_execution_context
  <2>2. CASE lookup(c) \/ modify(c)
    BY <2>2 DEF TypeOK, MutexOwned, lookup, modify, Lock
  <2>3. CASE LookupThrows(c) \/ ModifyThrows(c)
    BY ZenonT(60), <2>3 DEF TypeOK, MutexOwned, LookupThrows, ModifyThrows, Unlock
  <2>. QED
    BY Zenon, <2>1, <2>2, <2>3
<1>4. SnapshotCovers'
  <2>1. stream' = stream /\ pc \in [Contexts -> {"idle", "lookup", "modify"}] /\ sync_event \in [Contexts -> SUBSET Contexts]
    BY Zenon, <1>1 DEF TypeOK
  <2>2. CASE modify(c)
    <3>1. \A a \in Contexts : a # c => pc'[a] = pc[a] /\ sync_event'[a] = sync_event[a]
      BY Zenon, <2>1, <2>2 DEF modify, Lock
    <3>2. sync_event'[c] = contexts
      BY Zenon, <2>1, <2>2 DEF modify
    <3>. QED
      BY Zenon, <2>1, <3>1, <3>2 DEF SnapshotCovers, Registered
  <2>3. CASE ~modify(c)
    <3>1. CASE ModifyThrows(c)
      <4>1. \A a \in Contexts : pc'[a] = IF a = c THEN "idle" ELSE pc[a]
        BY Zenon, <2>1, <3>1 DEF ModifyThrows, Unlock
      <4>2. \A a \in Contexts : a # c => sync_event'[a] = sync_event[a]
        BY Zenon, <2>1, <3>1 DEF ModifyThrows
      <4>. QED
        BY Zenon, <2>1, <4>1, <4>2 DEF SnapshotCovers
    <3>2. CASE ~ModifyThrows(c)
      <4>1. sync_event' = sync_event
        BY Zenon, <2>3, <3>2 DEF create_execution_context, destroy_execution_context, lookup, LookupThrows
      <4>2. \A a \in Contexts : pc'[a] = "modify" => pc[a] = "modify"
        BY Zenon, <2>1, <2>3, <3>2
           DEF create_execution_context, destroy_execution_context, lookup, LookupThrows, Lock, Unlock
      <4>. QED
        BY Zenon, <2>1, <4>1, <4>2 DEF SnapshotCovers
    <3>. QED
      BY Zenon, <3>1, <3>2
  <2>. QED
    BY Zenon, <2>2, <2>3
<1>5. Registered'
  BY Zenon, <1>1
     DEF TypeOK, Registered, create_execution_context, destroy_execution_context, lookup,
         modify, LookupThrows, ModifyThrows, Lock, Unlock
<1>6. /\ EventIsLast'
      /\ WaitsQueued'
      /\ Ordered'
      /\ Running'
  BY Zenon, <1>1 DEF EventIsLast, WaitsQueued, Ordered, Running, deviceVars
<1>. QED
  BY Zenon, <1>2, <1>3, <1>4, <1>5, <1>6

LEMMA QueueLookupStep ==
    ASSUME GInv, NEW c \in Contexts, QueueLookup(c)
    PROVE  GInv'
<1> USE NoneAssumption DEF GInv
<1>1. /\ UNCHANGED <<contexts, modify_stream, sync_event, modify_in_progress>>
      /\ UNCHANGED <<private_modify_stream, looked, modified, reading, writing>>
      /\ pc[c] = "lookup" /\ pc' = [pc EXCEPT ![c] = "idle"]
      /\ kernel_launch_mutex' = None
      /\ stream' = [stream EXCEPT ![c] = Append(@, modify_in_progress)]
  BY Zenon DEF QueueLookup, deviceVars, Unlock
<1>2. stream[c] \in Seq(Nat) /\ modify_in_progress \in Nat
  BY Zenon DEF TypeOK
<1>3. /\ stream'[c] = Append(stream[c], modify_in_progress)
      /\ \A d \in Contexts \ {c} : stream'[d] = stream[d]
  BY Zenon, <1>1 DEF TypeOK
<1>4. /\ stream'[c] \in Seq(Nat)
      /\ Len(stream'[c]) = Len(stream[c]) + 1
      /\ \A i \in 1 .. Len(stream[c]) : stream'[c][i] = stream[c][i]
      /\ stream'[c][Len(stream[c]) + 1] = modify_in_progress
      /\ stream[c] # <<>> => Head(stream'[c]) = Head(stream[c])
      /\ stream'[c] # <<>>
  <2> DEFINE s == Append(stream[c], modify_in_progress)
  <2>1. /\ s \in Seq(Nat)
        /\ Len(s) = Len(stream[c]) + 1
        /\ \A i \in 1 .. Len(stream[c]) : s[i] = stream[c][i]
        /\ s[Len(stream[c]) + 1] = modify_in_progress
        /\ stream[c] # <<>> => Head(s) = Head(stream[c])
        /\ s # <<>>
    <3>1. PICK t \in Seq(Nat), e \in Nat : t = stream[c] /\ e = modify_in_progress
      BY Zenon, <1>2
    <3>2. /\ Append(t, e) \in Seq(Nat)
          /\ Len(Append(t, e)) = Len(t) + 1
          /\ \A i \in 1 .. Len(t) : Append(t, e)[i] = t[i]
          /\ Append(t, e)[Len(t) + 1] = e
          /\ t # <<>> => Head(Append(t, e)) = Head(t)
          /\ Append(t, e) # <<>>
      BY ONLY AppendFacts
    <3>. QED
      BY Zenon, <3>1, <3>2
  <2> HIDE DEF s
  <2>2. stream'[c] = s
    BY Zenon, <1>3 DEF s
  <2>. QED
    BY Zenon, <2>1, <2>2
<1>5. \A d \in Contexts : Len(stream[d]) \in Nat /\ looked[d] \in Nat
  BY Zenon, SeqFacts DEF TypeOK
<1>6. /\ Len(private_modify_stream) \in Nat /\ modified \in Nat
      /\ \A i \in 1 .. Len(private_modify_stream) : private_modify_stream[i] \in [Contexts -> Nat]
  BY Zenon, SeqFacts DEF TypeOK
<1>7. TypeOK'
  BY Zenon, <1>1, <1>3, <1>4 DEF TypeOK
<1>8. MutexOwned'
  BY Zenon, <1>1 DEF TypeOK, MutexOwned
<1>9. EventIsLast'
  BY Zenon, <1>1 DEF EventIsLast
<1>10. SnapshotCovers' /\ Registered'
  <2>1. \A d \in Contexts : pc'[d] # "modify"
    BY Zenon, <1>1 DEF TypeOK, MutexOwned
  <2>2. c \in contexts
    BY Zenon, <1>1 DEF Registered
  <2>. QED
    BY Zenon, <1>1, <1>3, <2>1, <2>2 DEF TypeOK, SnapshotCovers, Registered
<1>11. WaitsQueued'
  <2>1. SUFFICES ASSUME NEW i \in 1 .. Len(private_modify_stream), NEW d \in Contexts
                 PROVE  private_modify_stream[i][d] <= looked[d] + Len(stream'[d])
    BY Zenon, <1>1 DEF WaitsQueued
  <2>2. private_modify_stream[i][d] <= looked[d] + Len(stream[d])
    BY Zenon DEF WaitsQueued
  <2>3. private_modify_stream[i][d] \in Nat
    BY Zenon, <1>6
  <2>4. Len(stream'[d]) \in {Len(stream[d]), Len(stream[d]) + 1}
    BY Zenon, <1>3, <1>4
  <2>. QED
    <3> DEFINE waits == private_modify_stream[i][d]
               before == Len(stream[d])
               after == Len(stream'[d])
               done == looked[d]
    <3>1. waits \in Nat /\ before \in Nat /\ done \in Nat /\ waits <= done + before /\ (after = before \/ after = before + 1)
      BY Zenon, <1>5, <2>2, <2>3, <2>4
    <3> HIDE DEF waits, before, after, done
    <3>2. waits <= done + after
      BY <3>1
    <3>. QED
      BY Zenon, <3>2 DEF waits, after, done
<1>12. Ordered'
  <2>1. SUFFICES ASSUME NEW d \in Contexts, NEW j \in 1 .. Len(stream'[d])
                 PROVE  /\ stream'[d][j] \in modified .. modified + Len(private_modify_stream)
                        /\ \A i \in 1 .. Len(private_modify_stream) :
                              stream'[d][j] >= modified + i
                                  <=> private_modify_stream[i][d] < looked[d] + j
    BY Zenon, <1>1 DEF Ordered
  <2>2. CASE d # c \/ j # Len(stream[c]) + 1
    <3>1. j \in 1 .. Len(stream[d]) /\ stream'[d][j] = stream[d][j]
      <4>1. CASE d # c
        BY Zenon, <1>3, <4>1
      <4>2. CASE d = c
        <5>1. j \in 1 .. Len(stream[c])
          BY <1>4, <1>5, <2>2, <4>2
        <5>. QED
          BY Zenon, <1>4, <4>2, <5>1
      <4>. QED
        BY Zenon, <4>1, <4>2
    <3>. QED
      BY Zenon, <3>1 DEF Ordered
  <2>3. CASE d = c /\ j = Len(stream[c]) + 1
    <3>1. stream'[d][j] = modified + Len(private_modify_stream)
      BY Zenon, <1>4, <2>3 DEF EventIsLast
    <3>2. ASSUME NEW i \in 1 .. Len(private_modify_stream)
          PROVE  private_modify_stream[i][c] < looked[c] + j
      <4>1. private_modify_stream[i][c] <= looked[c] + Len(stream[c])
        BY Zenon DEF WaitsQueued
      <4>2. private_modify_stream[i][c] \in Nat
        BY Zenon, <1>6
      <4>. QED
        BY <1>5, <2>3, <4>1, <4>2
    <3>. QED
      BY <1>6, <2>3, <3>1, <3>2
  <2>. QED
    BY Zenon, <2>2, <2>3
<1>13. Running'
  BY ZenonT(60), <1>1, <1>3, <1>4 DEF Running, TypeOK
<1>. QED
  BY Zenon, <1>7, <1>8, <1>9, <1>10, <1>11, <1>12, <1>13

LEMMA QueueModifyStep ==
    ASSUME GInv, NEW c \in Contexts, QueueModify(c)
    PROVE  GInv'
<1> USE NoneAssumption DEF GInv
<1> DEFINE P == private_modify_stream
<1>1. /\ UNCHANGED <<contexts, stream, looked, modified, reading, writing>>
      /\ pc[c] = "modify" /\ pc' = [pc EXCEPT ![c] = "idle"]
      /\ kernel_launch_mutex' = None
      /\ sync_event' = [sync_event EXCEPT ![c] = {}]
      /\ modify_in_progress' = modified + Len(P) + 1
      /\ modify_stream' = [modify_stream EXCEPT ![c] = modify_in_progress']
      /\ private_modify_stream' = Append(P, LookupsQueued(c))
  BY Zenon DEF QueueModify, RecordModify, deviceVars, Unlock
<1>2. \A d \in Contexts : Len(stream[d]) \in Nat /\ looked[d] \in Nat
  BY SeqFacts DEF TypeOK
<1>3. /\ LookupsQueued(c) \in [Contexts -> Nat]
      /\ \A d \in Contexts :
            /\ LookupsQueued(c)[d] <= looked[d] + Len(stream[d])
            /\ stream[d] # <<>> => LookupsQueued(c)[d] = looked[d] + Len(stream[d])
  BY <1>1, <1>2 DEF LookupsQueued, SnapshotCovers
<1>4. /\ private_modify_stream' \in Seq([Contexts -> Nat])
      /\ Len(private_modify_stream') = Len(P) + 1
      /\ \A i \in 1 .. Len(P) : private_modify_stream'[i] = P[i]
      /\ private_modify_stream'[Len(P) + 1] = LookupsQueued(c)
      /\ P # <<>> => Head(private_modify_stream') = Head(P)
      /\ private_modify_stream' # <<>>
  <2> DEFINE s == Append(P, LookupsQueued(c))
  <2>1. /\ s \in Seq([Contexts -> Nat])
        /\ Len(s) = Len(P) + 1
        /\ \A i \in 1 .. Len(P) : s[i] = P[i]
        /\ s[Len(P) + 1] = LookupsQueued(c)
        /\ P # <<>> => Head(s) = Head(P)
        /\ s # <<>>
    <3>1. P \in Seq([Contexts -> Nat])
      BY Zenon DEF TypeOK
    <3> HIDE DEF P
    <3>. QED
      BY <1>3, <3>1, AppendFacts
  <2> HIDE DEF s
  <2>2. private_modify_stream' = s
    BY Zenon, <1>1 DEF s
  <2>. QED
    BY Zenon, <2>1, <2>2
<1>5. Len(P) \in Nat /\ modified \in Nat
  BY Zenon, SeqFacts DEF TypeOK
<1>6. TypeOK'
  <2>1. modify_in_progress' \in Nat
    BY <1>1, <1>5
  <2>. QED
    BY Zenon, <1>1, <1>4, <2>1 DEF TypeOK
<1>7. MutexOwned' /\ SnapshotCovers' /\ Registered'
  BY Zenon, <1>1 DEF TypeOK, MutexOwned, SnapshotCovers, Registered
<1>8. EventIsLast'
  BY <1>1, <1>4, <1>5 DEF EventIsLast
<1>9. WaitsQueued'
  BY <1>1, <1>3, <1>4, <1>5 DEF WaitsQueued
<1>10. Ordered'
  <2>1. SUFFICES ASSUME NEW d \in Contexts, NEW j \in 1 .. Len(stream[d])
                 PROVE  /\ stream[d][j] \in modified .. modified + Len(P) + 1
                        /\ \A i \in 1 .. Len(P) + 1 :
                              stream[d][j] >= modified + i
                                  <=> private_modify_stream'[i][d] < looked[d] + j
    <3>1. modified + (Len(P) + 1) = modified + Len(P) + 1
      BY <1>5
    <3>. QED
      BY Zenon, <1>1, <1>4, <3>1 DEF Ordered
  <2>2. stream[d][j] \in modified .. modified + Len(P)
    BY Zenon DEF Ordered
  <2>3. ASSUME NEW i \in 1 .. Len(P)
        PROVE  stream[d][j] >= modified + i <=> private_modify_stream'[i][d] < looked[d] + j
    BY Zenon, <1>4 DEF Ordered
  <2>4. LookupsQueued(c)[d] = looked[d] + Len(stream[d])
    <3>1. stream[d] # <<>>
      BY SeqFacts DEF TypeOK
    <3>. QED
      BY Zenon, <1>3, <3>1
  <2>5. ~(private_modify_stream'[Len(P) + 1][d] < looked[d] + j)
    <3>1. private_modify_stream'[Len(P) + 1][d] = looked[d] + Len(stream[d])
      BY Zenon, <1>4, <2>4
    <3>2. looked[d] \in Nat /\ Len(stream[d]) \in Nat /\ j \in 1 .. Len(stream[d])
      BY Zenon, <1>2
    <3>. QED
      BY ONLY <3>1, <3>2
  <2>6. /\ stream[d][j] \in modified .. modified + Len(P) + 1
        /\ ~(stream[d][j] >= modified + (Len(P) + 1))
    BY <1>5, <2>2
  <2>7. \A i \in 1 .. Len(P) + 1 : i \in 1 .. Len(P) \/ i = Len(P) + 1
    BY <1>5
  <2>. QED
    BY Zenon, <2>3, <2>5, <2>6, <2>7
<1>11. Running'
  BY Zenon, <1>1, <1>4 DEF Running
<1>. QED
  BY Zenon, <1>6, <1>7, <1>8, <1>9, <1>10, <1>11

LEMMA StartStep ==
    ASSUME GInv, (\E c \in Contexts : StartLookup(c)) \/ StartModify
    PROVE  GInv'
BY Zenon DEF GInv, TypeOK, MutexOwned, EventIsLast, SnapshotCovers, Registered, WaitsQueued, Ordered,
       Running, StartLookup, StartModify, hostVars

LEMMA FinishLookupStep ==
    ASSUME GInv, NEW c \in Contexts, FinishLookup(c)
    PROVE  GInv'
<1> USE DEF GInv
<1>1. /\ UNCHANGED <<contexts, kernel_launch_mutex, pc, modify_stream, sync_event>>
      /\ UNCHANGED <<modify_in_progress, private_modify_stream, modified, writing>>
      /\ c \in reading /\ reading' = reading \ {c}
      /\ stream' = [stream EXCEPT ![c] = Tail(@)]
      /\ looked' = [looked EXCEPT ![c] = @ + 1]
  BY Zenon DEF FinishLookup, hostVars
<1>2. /\ stream'[c] = Tail(stream[c])
      /\ looked'[c] = looked[c] + 1
      /\ \A d \in Contexts \ {c} : stream'[d] = stream[d] /\ looked'[d] = looked[d]
  BY Zenon, <1>1 DEF TypeOK
<1>3. /\ Tail(stream[c]) \in Seq(Nat)
      /\ Len(stream[c]) \in Nat \ {0}
      /\ Len(Tail(stream[c])) = Len(stream[c]) - 1
      /\ \A i \in 1 .. Len(stream[c]) - 1 : Tail(stream[c])[i] = stream[c][i + 1]
  <2>1. stream[c] # <<>> /\ stream[c] \in Seq(Nat)
    BY Zenon, <1>1 DEF Running, TypeOK
  <2>. QED
    BY Zenon, <2>1, TailFacts
<1>4. /\ Len(private_modify_stream) \in Nat /\ modified \in Nat
      /\ \A i \in 1 .. Len(private_modify_stream) : private_modify_stream[i] \in [Contexts -> Nat]
      /\ \A d \in Contexts : looked[d] \in Nat
  BY Zenon, SeqFacts DEF TypeOK
<1>5. TypeOK'
  <2>1. looked' \in [Contexts -> Nat]
    BY <1>1 DEF TypeOK
  <2>2. stream' \in [Contexts -> Seq(Nat)]
    BY Zenon, <1>1, <1>3 DEF TypeOK
  <2>. QED
    BY Zenon, <1>1, <2>1, <2>2 DEF TypeOK
<1>6. MutexOwned' /\ EventIsLast'
  BY Zenon, <1>1 DEF MutexOwned, EventIsLast
<1>7. SnapshotCovers' /\ Registered'
  <2>1. \A d \in Contexts : stream'[d] # <<>> => stream[d] # <<>>
    BY Zenon, <1>1, <1>2 DEF Running
  <2>. QED
    BY Zenon, <1>1, <2>1 DEF SnapshotCovers, Registered
<1>8. WaitsQueued'
  <2>1. \A d \in Contexts : looked'[d] + Len(stream'[d]) = looked[d] + Len(stream[d])
    <3>1. looked[c] + 1 + Len(Tail(stream[c])) = looked[c] + Len(stream[c])
      <4>1. looked[c] \in Nat /\ Len(stream[c]) \in Nat
        BY Zenon, <1>3, <1>4
      <4>2. Len(Tail(stream[c])) = Len(stream[c]) - 1
        BY Zenon, <1>3
      <4>. QED
        BY ONLY <4>1, <4>2
    <3>. QED
      BY Zenon, <1>2, <3>1
  <2>. QED
    BY Zenon, <1>1, <2>1 DEF WaitsQueued
<1>9. Ordered'
  <2>1. SUFFICES ASSUME NEW d \in Contexts, NEW j \in 1 .. Len(stream'[d])
                 PROVE  /\ stream'[d][j] \in modified .. modified + Len(private_modify_stream)
                        /\ \A i \in 1 .. Len(private_modify_stream) :
                              stream'[d][j] >= modified + i
                                  <=> private_modify_stream[i][d] < looked'[d] + j
    BY Zenon, <1>1 DEF Ordered
  <2>2. CASE d # c
    BY Zenon, <1>2, <2>2 DEF Ordered
  <2>3. CASE d = c
    <3>1. j + 1 \in 1 .. Len(stream[c]) /\ stream'[c][j] = stream[c][j + 1]
      <4>1. j \in 1 .. Len(Tail(stream[c]))
        BY Zenon, <1>2, <2>3
      <4>2. j \in 1 .. Len(stream[c]) - 1 /\ j + 1 \in 1 .. Len(stream[c])
        BY <1>3, <4>1
      <4>. QED
        BY Zenon, <1>2, <1>3, <4>2
    <3>2. looked'[c] + j = looked[c] + (j + 1)
      <4>1. looked[c] \in Nat /\ j \in Nat
        BY <1>2, <1>3, <1>4, <2>3
      <4>2. looked[c] + 1 + j = looked[c] + (j + 1)
        BY ONLY <4>1
      <4>. QED
        BY Zenon, <1>2, <4>2
    <3>3. /\ stream[c][j + 1] \in modified .. modified + Len(private_modify_stream)
          /\ \A i \in 1 .. Len(private_modify_stream) :
                stream[c][j + 1] >= modified + i
                    <=> private_modify_stream[i][c] < looked[c] + (j + 1)
      BY Zenon, <3>1 DEF Ordered
    <3>. QED
      BY Zenon, <2>3, <3>1, <3>2, <3>3
  <2>. QED
    BY Zenon, <2>2, <2>3
<1>10. Running'
  <2>1. \A d \in reading' : stream'[d] # <<>> /\ Head(stream'[d]) <= modified'
    BY Zenon, <1>1, <1>2 DEF Running, TypeOK
  <2>2. ASSUME writing' = 1
        PROVE  /\ private_modify_stream' # <<>>
               /\ \A d \in Contexts : Head(private_modify_stream')[d] <= looked'[d]
    <3>1. /\ private_modify_stream # <<>>
          /\ \A d \in Contexts : Head(private_modify_stream)[d] <= looked[d]
      BY Zenon, <1>1, <2>2 DEF Running
    <3>2. Head(private_modify_stream) \in [Contexts -> Nat]
      BY <3>1 DEF TypeOK
    <3>3. \A d \in Contexts : looked'[d] \in {looked[d], looked[d] + 1}
      BY Zenon, <1>2
    <3>4. ASSUME NEW d \in Contexts
          PROVE  Head(private_modify_stream)[d] <= looked'[d]
      <4>1. Head(private_modify_stream)[d] \in Nat /\ looked[d] \in Nat
        BY Zenon, <1>4, <3>2
      <4>. QED
        BY <3>1, <3>3, <4>1
    <3>. QED
      BY Zenon, <1>1, <3>1, <3>4
  <2>. QED
    BY Zenon, <2>1, <2>2 DEF Running
<1>. QED
  BY Zenon, <1>5, <1>6, <1>7, <1>8, <1>9, <1>10

LEMMA FinishModifyStep ==
    ASSUME GInv, FinishModify
    PROVE  GInv'
<1> USE DEF GInv
<1> DEFINE P == private_modify_stream
<1>1. /\ UNCHANGED <<contexts, kernel_launch_mutex, pc, modify_stream, sync_event>>
      /\ UNCHANGED <<modify_in_progress, stream, looked, reading>>
      /\ writing = 1 /\ writing' = 0
      /\ private_modify_stream' = Tail(P)
      /\ modified' = modified + 1
  BY Zenon DEF FinishModify, hostVars
<1>2. P # <<>> /\ \A c \in Contexts : Head(P)[c] <= looked[c]
  BY Zenon, <1>1 DEF Running
<1>3. /\ Tail(P) \in Seq([Contexts -> Nat])
      /\ Len(P) \in Nat \ {0}
      /\ Len(Tail(P)) = Len(P) - 1
      /\ \A i \in 1 .. Len(P) - 1 : Tail(P)[i] = P[i + 1]
      /\ Head(P) = P[1]
  BY Zenon, <1>2, TailFacts DEF TypeOK
<1>4. /\ modified \in Nat
      /\ \A i \in 1 .. Len(P) : P[i] \in [Contexts -> Nat]
      /\ \A c \in Contexts : looked[c] \in Nat /\ Len(stream[c]) \in Nat
  BY Zenon, SeqFacts DEF TypeOK
<1>5. TypeOK'
  BY <1>1, <1>3 DEF TypeOK
<1>6. MutexOwned' /\ SnapshotCovers' /\ Registered'
  BY Zenon, <1>1 DEF MutexOwned, SnapshotCovers, Registered
<1>7. EventIsLast'
  <2> DEFINE len == Len(P)
             left == Len(Tail(P))
  <2>1. modify_in_progress = modified + len /\ modify_in_progress' = modify_in_progress
        /\ modified' = modified + 1 /\ Len(private_modify_stream') = left
    BY Zenon, <1>1 DEF EventIsLast
  <2>2. len \in Nat /\ left = len - 1 /\ modified \in Nat
    BY Zenon, <1>3, <1>4
  <2> HIDE DEF len, left
  <2>3. (modified + 1) + left = modified + len
    BY SMT, <2>2
  <2> QED
    BY Zenon, <2>1, <2>3 DEF EventIsLast
<1>8. WaitsQueued'
  BY <1>1, <1>3 DEF WaitsQueued
<1>9. Ordered'
  <2>1. SUFFICES ASSUME NEW c \in Contexts, NEW j \in 1 .. Len(stream[c])
                 PROVE  /\ stream[c][j] \in modified + 1 .. modified + Len(P)
                        /\ \A i \in 1 .. Len(P) - 1 :
                              stream[c][j] >= modified + 1 + i <=> P[i + 1][c] < looked[c] + j
    <3>1. /\ stream' = stream /\ looked' = looked /\ modified' = modified + 1
          /\ private_modify_stream' = Tail(P) /\ Len(Tail(P)) = Len(P) - 1
      BY Zenon, <1>1, <1>3
    <3>2. (modified + 1) + (Len(P) - 1) = modified + Len(P)
      BY <1>3, <1>4
    <3> QED
      BY Zenon, <1>3, <3>1, <3>2 DEF Ordered
  <2>2. /\ stream[c][j] \in modified .. modified + Len(P)
        /\ \A i \in 1 .. Len(P) : stream[c][j] >= modified + i <=> P[i][c] < looked[c] + j
    BY Zenon DEF Ordered
  <2>3. stream[c][j] >= modified + 1
    <3>1. P[1][c] \in Nat /\ P[1][c] <= looked[c] /\ looked[c] \in Nat
      BY <1>2, <1>3, <1>4
    <3>2. P[1][c] < looked[c] + j
      BY <3>1
    <3>. QED
      BY <1>3, <2>2, <3>2
  <2>4. ASSUME NEW i \in 1 .. Len(P) - 1
        PROVE  stream[c][j] >= modified + 1 + i <=> P[i + 1][c] < looked[c] + j
    <3>1. i + 1 \in 1 .. Len(P) /\ modified + (i + 1) = modified + 1 + i
      BY <1>3, <1>4
    <3>2. stream[c][j] >= modified + (i + 1) <=> P[i + 1][c] < looked[c] + j
      BY Zenon, <2>2, <3>1
    <3>. QED
      BY Zenon, <3>1, <3>2
  <2>. QED
    BY <1>3, <1>4, <2>2, <2>3, <2>4
<1>10. Running'
  <2>1. ASSUME NEW c \in reading
        PROVE  stream[c] # <<>> /\ Head(stream[c]) <= modified + 1
    <3>1. stream[c] # <<>> /\ Head(stream[c]) <= modified /\ Head(stream[c]) \in Nat
      BY SMTT(60) DEF Running, TypeOK
    <3>. QED
      BY <1>4, <3>1
  <2>. QED
    BY <1>1, <2>1 DEF Running
<1>. QED
  BY Zenon, <1>5, <1>6, <1>7, <1>8, <1>9, <1>10

LEMMA NextGInv == GInv /\ [Next]_vars => GInv'
<1> SUFFICES ASSUME GInv, [Next]_vars
             PROVE  GInv'
  BY Zenon
<1>1. CASE Next
  BY Zenon, <1>1, HostStep, QueueLookupStep, QueueModifyStep, StartStep, FinishLookupStep,
     FinishModifyStep DEF Next
<1>2. CASE UNCHANGED vars
  BY Zenon, <1>2
     DEF vars, hostVars, deviceVars, GInv, TypeOK, MutexOwned, EventIsLast, SnapshotCovers,
         Registered, WaitsQueued, Ordered, Running
<1>. QED
  BY Zenon, <1>1, <1>2

-----------------------------------------------------------------------------
\* The first queued lookup of a context and the first queued modify operation.
LEMMA FirstKernels ==
    ASSUME GInv, NEW c \in reading
    PROVE  /\ Head(stream[c]) = modified
           /\ writing # 1
<1> USE DEF GInv
<1>1. /\ c \in Contexts /\ stream[c] # <<>> /\ stream[c] \in Seq(Nat)
      /\ Head(stream[c]) <= modified
      /\ modified \in Nat /\ looked[c] \in Nat
  BY Zenon DEF TypeOK, Running
<1>2. Len(stream[c]) >= 1 /\ Len(stream[c]) \in Nat /\ Head(stream[c]) = stream[c][1]
  BY Zenon, <1>1, SeqFacts
<1>3. Len(private_modify_stream) \in Nat
  BY Zenon, SeqFacts DEF TypeOK
<1>4. /\ stream[c][1] \in modified .. modified + Len(private_modify_stream)
      /\ \A i \in 1 .. Len(private_modify_stream) :
            stream[c][1] >= modified + i <=> private_modify_stream[i][c] < looked[c] + 1
  BY <1>1, <1>2 DEF Ordered
<1>5. Head(stream[c]) = modified
  BY <1>1, <1>2, <1>3, <1>4
<1>6. ASSUME writing = 1
      PROVE  FALSE
  <2>1. /\ private_modify_stream # <<>>
        /\ Head(private_modify_stream)[c] <= looked[c]
    BY Zenon, <1>1, <1>6 DEF Running
  <2>2. /\ Len(private_modify_stream) >= 1
        /\ Head(private_modify_stream) = private_modify_stream[1]
        /\ private_modify_stream[1] \in [Contexts -> Nat]
    BY <2>1, SeqFacts DEF TypeOK
  <2>3. private_modify_stream[1][c] \in Nat
    BY Zenon, <1>1, <2>2
  <2>4. private_modify_stream[1][c] < looked[c] + 1
    BY SMTT(40), <1>1, <2>1, <2>2, <2>3
  <2>5. stream[c][1] >= modified + 1
    BY <1>3, <1>4, <2>2, <2>4
  <2>. QED
    BY <1>1, <1>2, <1>5, <2>5
<1>. QED
  BY Zenon, <1>5, <1>6

\* kernel_launch_mutex_, modify_in_progress_ and the events of the registered lookup streams
\* keep the order of lookup and modify kernels, whatever contexts come and go meanwhile.
THEOREM GpuInvariant == Spec => []GInv
<1>. QED
  BY InitGInv, NextGInv, PTL DEF Spec

\* No lookup kernel of the GPU layer runs while update or accumulate writes the table.
THEOREM GpuNoOverlap == Spec => []NoOverlap
<1>1. GInv => NoOverlap
  BY Zenon, FirstKernels DEF NoOverlap
<1>. QED
  BY <1>1, GpuInvariant, PTL

\* A lookup of the GPU layer reads the table after exactly the modify operations launched
\* before it.
THEOREM GpuReadsItsPlace == Spec => []ReadsItsPlace
<1>1. GInv => ReadsItsPlace
  BY Zenon, FirstKernels DEF ReadsItsPlace
<1>. QED
  BY <1>1, GpuInvariant, PTL

----------------------------------------------------------------------------
(* CUDADistributedBuffer *)

(* The ranks are numbered from the root on. *)
RanksOK == \E n \in Nat \ {0} : Ranks = 0 .. n - 1

Single == SingleHost(Root)

(* What rank r has sent to its first n collectives. *)
OpAt(k) ==
  IF k = 1 THEN "all_gather"
  ELSE IF k = 2 THEN IF Single THEN "broadcast" ELSE "all_gather"
  ELSE IF k = 3 /\ Single THEN "broadcast" ELSE "barrier"
Message(r, k) == [op |-> OpAt(k), sent |-> IF k = 1 THEN LocalDevice(r) ELSE Nothing]
History(r, n) == [k \in 1 .. n |-> Message(r, k)]

(* The collectives the constructor enters, and those a rank has entered. *)
InConstructor == IF Single THEN 5 ELSE 3
Entered(where) ==
  IF where = "start" THEN 0
  ELSE IF where = "devices" THEN 1
  ELSE IF where \in {"fds", "fabric"} THEN 2
  ELSE IF where \in {"pid", "import"} THEN 3
  ELSE IF where = "mapped" THEN 4
  ELSE IF where \in {"built", "ready"} THEN InConstructor
  ELSE IF where = "leaving" THEN InConstructor + 1
  ELSE InConstructor + 2

SinglePlaces == {"fds", "pid", "import", "mapped"}
Later == {"built", "ready", "leaving", "released", "gone"}
Places == {"start", "devices", "fabric"} \cup SinglePlaces \cup Later

(* Where each rank is, and what it has sent. *)
PlacesInv ==
  /\ rank_pc \in [Ranks -> Places]
  /\ entered = [r \in Ranks |-> History(r, Entered(rank_pc[r]))]
  /\ \A r \in Ranks : /\ rank_pc[r] \in SinglePlaces => Single
                      /\ rank_pc[r] = "fabric" => ~Single
                      /\ rank_pc[r] = "pid" => r # Root

(* No rank has closed its descriptors before all have imported theirs. *)
CloseInv ==
  \A r \in Ranks : Single /\ rank_pc[r] \in Later => \A s \in Ranks : Entered(rank_pc[s]) >= 4

(* All ranks know the same shards, and map them alike. *)
ShardsInv ==
  /\ DOMAIN shards = Ranks /\ DOMAIN views = Ranks
  /\ \A r \in Ranks : /\ rank_pc[r] \notin {"start", "devices"} => shards[r] = Devices
                      /\ rank_pc[r] \in {"mapped", "built", "ready", "leaving", "released"} => views[r] = ShardIds(Devices)

RefKinds == {"handle", "own", "fd", "map"}

(* The root's descriptors are open as long as a rank may copy them, and      *)
(* a rank has references to the shards only while it is where it drops them. *)
RefsInv ==
  /\ rank_pc[Root] \in {"fds", "import", "mapped"} => \A i \in Devices : <<"fd", Root, i>> \in refs
  /\ refs \subseteq RefKinds \X Ranks \X Ranks
  /\ \A kind, r, i : <<kind, r, i>> \in refs =>
       /\ rank_pc[r] \notin {"start", "devices", "released", "gone"}
       /\ kind = "fd" => rank_pc[r] \in SinglePlaces
       /\ kind = "own" => ~Single /\ LocalDevice(r) >= 0

RanksInv == JobOK /\ PlacesInv /\ CloseInv /\ ShardsInv /\ RefsInv

LEMMA HistoryGrows ==
  ASSUME NEW r, NEW n \in Nat
  PROVE  /\ Len(History(r, n)) = n
         /\ Append(History(r, n), Message(r, n + 1)) = History(r, n + 1)
PROOF
  <1> DEFINE S == {Message(r, k) : k \in Nat}
             h == History(r, n)
  <1>1. h \in [1 .. n -> S]
    BY DEF History
  <1>2. h \in Seq(S) /\ Len(h) = n /\ \A k \in 1 .. n : h[k] = Message(r, k)
    <2>1. \A k \in 1 .. n : h[k] = Message(r, k)
      BY Zenon DEF History
    <2> HIDE DEF h, S
    <2> QED
      BY <1>1, <2>1
  <1>3. Message(r, n + 1) \in S
    OBVIOUS
  <1> HIDE DEF h, S
  <1>4. /\ Append(h, Message(r, n + 1)) \in Seq(S) /\ Len(Append(h, Message(r, n + 1))) = n + 1
        /\ \A k \in 1 .. n : Append(h, Message(r, n + 1))[k] = h[k]
        /\ Append(h, Message(r, n + 1))[n + 1] = Message(r, n + 1)
    BY <1>2, <1>3
  <1>5. Append(h, Message(r, n + 1)) = [k \in 1 .. n + 1 |-> Message(r, k)]
    BY <1>2, <1>4
  <1> QED
    BY <1>2, <1>5, Zenon DEF h, History

LEMMA EnteredFacts ==
  /\ \A where \in Places : Entered(where) \in Nat
  /\ Entered("start") = 0 /\ Entered("devices") = 1 /\ Entered("fds") = 2 /\ Entered("fabric") = 2
  /\ Entered("pid") = 3 /\ Entered("import") = 3 /\ Entered("mapped") = 4
  /\ Entered("built") = InConstructor /\ Entered("ready") = InConstructor
  /\ Entered("leaving") = InConstructor + 1 /\ Entered("released") = InConstructor + 2
  /\ Entered("gone") = InConstructor + 2
BY SMTT(40) DEF Entered, Places, SinglePlaces, Later, InConstructor

LEMMA OneSingle ==
  ASSUME RanksOK, NEW r \in Ranks
  PROVE  Root \in Ranks /\ (SingleHost(r) <=> Single) /\ Single \in BOOLEAN
PROOF
  <1>1. Root \in Ranks
    BY DEF Root, RanksOK
  <1> QED
    BY <1>1, Zenon DEF Single, SingleHost, MpiSingleHost, TorchSingleHost

(* Nothing about the job changes. *)
LEMMA JobKept ==
  ASSUME UNCHANGED setup
  PROVE  /\ JobOK' = JobOK /\ Single' = Single /\ Devices' = Devices /\ InConstructor' = InConstructor
         /\ \A r : SingleHost(r)' = SingleHost(r) /\ LocalDevice(r)' = LocalDevice(r)
         /\ \A where : Entered(where)' = Entered(where)
         /\ \A r, k : Message(r, k)' = Message(r, k)
         /\ \A r, n : History(r, n)' = History(r, n)
PROOF
  <1>1. \A r : SingleHost(r)' = SingleHost(r) /\ LocalDevice(r)' = LocalDevice(r)
    BY Zenon DEF SingleHost, MpiSingleHost, TorchSingleHost, WorldSize, LocalDevice, LocalRank
  <1>2. Single' = Single /\ Devices' = Devices
    BY <1>1, Zenon DEF Single, Devices
  <1>3. JobOK' = JobOK
    BY <1>2, Zenon DEF JobOK
  <1>4. InConstructor' = InConstructor
    BY <1>2, Zenon DEF InConstructor
  <1>5. \A r, k : Message(r, k)' = Message(r, k)
    BY <1>1, <1>2, Zenon DEF Message, OpAt
  <1>6. \A r, n : History(r, n)' = History(r, n)
    BY <1>5, Zenon DEF History
  <1>7. \A where : Entered(where)' = Entered(where)
    BY <1>4, Zenon DEF Entered
  <1> QED
    BY <1>1, <1>2, <1>3, <1>4, <1>5, <1>6, <1>7, Zenon

LEMMA CreateFacts ==
  ASSUME NEW r, NEW kinds, NEW owners
  PROVE  \A kind, q, i : <<kind, q, i>> \in Create(r, kinds, owners) <=>
           <<kind, q, i>> \in refs \/ (q = r /\ kind \in kinds /\ i \in owners)
BY DEF Create

LEMMA Created ==
  ASSUME NEW r \in Ranks, NEW kinds \in SUBSET RefKinds, NEW owners \in SUBSET Ranks,
         refs \subseteq RefKinds \X Ranks \X Ranks, refs' = Create(r, kinds, owners)
  PROVE  /\ refs' \subseteq RefKinds \X Ranks \X Ranks
         /\ \A kind, q, i : <<kind, q, i>> \in refs' <=> <<kind, q, i>> \in refs \/ (q = r /\ kind \in kinds /\ i \in owners)
PROOF
  <1> DEFINE new == {<<kind, r, i>> : kind \in kinds, i \in owners}
             all == RefKinds \X Ranks \X Ranks
  <1>1. new \subseteq all
    BY SMT
  <1>2. refs' = refs \cup new /\ refs \subseteq all
    BY SMT DEF Create
  <1>3. \A kind, q, i : <<kind, q, i>> \in refs' <=> <<kind, q, i>> \in refs \/ (q = r /\ kind \in kinds /\ i \in owners)
    <2>1. \A kind, q, i : <<kind, q, i>> \in Create(r, kinds, owners) <=>
            <<kind, q, i>> \in refs \/ (q = r /\ kind \in kinds /\ i \in owners)
      BY CreateFacts, ZenonT(60)
    <2> QED
      BY <2>1, ZenonT(60)
  <1>4. refs' \subseteq all
    <2> HIDE DEF new, all
    <2> QED
      BY <1>1, <1>2, Zenon
  <1> QED
    BY <1>3, <1>4, Zenon

LEMMA DropFacts ==
  ASSUME NEW r, NEW kinds
  PROVE  /\ Drop(r, kinds) \subseteq refs
         /\ \A kind, q, i : <<kind, q, i>> \in Drop(r, kinds) <=>
              <<kind, q, i>> \in refs /\ ~(q = r /\ kind \in kinds /\ i \in Ranks)
BY DEF Drop

LEMMA Dropped ==
  ASSUME NEW r \in Ranks, NEW kinds, refs \subseteq RefKinds \X Ranks \X Ranks, refs' = Drop(r, kinds)
  PROVE  /\ refs' \subseteq RefKinds \X Ranks \X Ranks
         /\ \A kind, q, i : <<kind, q, i>> \in refs' <=> <<kind, q, i>> \in refs /\ ~(q = r /\ kind \in kinds /\ i \in Ranks)
PROOF
  BY DropFacts, Zenon

LEMMA RefTypes ==
  ASSUME refs \subseteq RefKinds \X Ranks \X Ranks
  PROVE  \A kind, q, i : <<kind, q, i>> \in refs => kind \in RefKinds /\ q \in Ranks /\ i \in Ranks
PROOF
  OBVIOUS

(* The kinds of references a step creates. *)
LEMMA KindsCreated ==
  /\ {"handle", "fd"} \in SUBSET RefKinds /\ {"own"} \in SUBSET RefKinds /\ {"fd"} \in SUBSET RefKinds
  /\ {"map"} \in SUBSET RefKinds /\ {"handle", "map"} \in SUBSET RefKinds /\ Devices \in SUBSET Ranks
PROOF
  BY SMT DEF RefKinds, Devices

(* A rank goes on to b, and enters at most one collective. *)
LEMMA PlacesMove ==
  ASSUME PlacesInv, UNCHANGED setup, NEW r \in Ranks, NEW b \in Places, Proceed(r, b),
         b \in SinglePlaces => Single, b = "fabric" => ~Single, b = "pid" => r # Root,
         \/ Entered(b) = Entered(rank_pc[r]) /\ entered' = entered
         \/ /\ Entered(b) = Entered(rank_pc[r]) + 1
            /\ Enter(r, OpAt(Entered(b)), IF Entered(b) = 1 THEN LocalDevice(r) ELSE Nothing)
  PROVE  PlacesInv'
PROOF
  <1> DEFINE n == Entered(rank_pc[r])
  <1>1. rank_pc' \in [Ranks -> Places] /\ rank_pc'[r] = b /\ \A s \in Ranks : s # r => rank_pc'[s] = rank_pc[s]
    BY Zenon DEF Proceed, PlacesInv
  <1>2. n \in Nat /\ entered = [s \in Ranks |-> History(s, Entered(rank_pc[s]))]
    BY EnteredFacts, Zenon DEF PlacesInv
  <1>3. entered' = [s \in Ranks |-> History(s, Entered(rank_pc'[s]))]
    <2>1. CASE Entered(b) = n /\ entered' = entered
      BY <1>1, <1>2, <2>1, Zenon
    <2>2. CASE Entered(b) = n + 1 /\ Enter(r, OpAt(Entered(b)), IF Entered(b) = 1 THEN LocalDevice(r) ELSE Nothing)
      <3>1. entered' = [entered EXCEPT ![r] = Append(entered[r], Message(r, n + 1))]
        BY <2>2, Zenon DEF Enter, Message
      <3>2. entered[r] = History(r, n)
        BY <1>2, Zenon
      <3>3. entered' = [entered EXCEPT ![r] = History(r, n + 1)]
        BY <1>2, <3>1, <3>2, HistoryGrows, Zenon
      <3> QED
        BY <1>1, <1>2, <2>2, <3>3, Zenon
    <2> QED
      BY <2>1, <2>2, Zenon
  <1>4. \A s \in Ranks : History(s, Entered(rank_pc[s]))' = History(s, Entered(rank_pc'[s]))
    <2>1. \A s, k : Message(s, k)' = Message(s, k)
      BY JobKept, Zenon
    <2> SUFFICES ASSUME NEW s \in Ranks, NEW m, m = Entered(rank_pc'[s])
                 PROVE  History(s, Entered(rank_pc[s]))' = History(s, m)
      BY Zenon
    <2>2. Entered(rank_pc[s])' = m
      BY JobKept, Zenon DEF Entered
    <2>3. History(s, Entered(rank_pc[s]))' = [k \in 1 .. m |-> Message(s, k)']
      BY <2>2, Zenon DEF History
    <2>4. [k \in 1 .. m |-> Message(s, k)'] = History(s, m)
      BY <2>1, Zenon DEF History
    <2> QED
      BY <2>3, <2>4, Zenon
  <1>5. Single' = Single
    BY JobKept, Zenon
  <1> QED
    BY <1>1, <1>3, <1>4, <1>5, Zenon DEF PlacesInv

LEMMA CloseMove ==
  ASSUME RanksOK, PlacesInv, CloseInv, UNCHANGED setup, NEW r \in Ranks, NEW b \in Places, Proceed(r, b),
         Entered(b) >= Entered(rank_pc[r]),
         b \in Later => rank_pc[r] \in Later \/ \A s \in Ranks : Single => Entered(rank_pc[s]) >= 4
  PROVE  CloseInv'
PROOF
  <1>1. rank_pc[r] \in Places /\ rank_pc'[r] = b /\ \A s \in Ranks : s # r => rank_pc'[s] = rank_pc[s]
    BY Zenon DEF Proceed, PlacesInv
  <1>2. \A s \in Ranks : rank_pc[s] \in Places /\ Entered(rank_pc[s]) \in Nat
    BY EnteredFacts, Zenon DEF PlacesInv
  <1>3. Single' = Single
    BY JobKept, Zenon
  <1>4. \A s \in Ranks : Entered(rank_pc[s])' = Entered(rank_pc'[s])
    BY JobKept, Zenon DEF Entered
  <1>5. Entered(b) \in Nat
    BY EnteredFacts, Zenon
  <1>6. ASSUME NEW q \in Ranks, Single, rank_pc'[q] \in Later, NEW s \in Ranks
        PROVE  Entered(rank_pc'[s]) >= 4
    <2>1. Entered(rank_pc[s]) >= 4
      BY <1>1, <1>6, Zenon DEF CloseInv
    <2>2. CASE s = r
      <3>1. Entered(rank_pc'[s]) = Entered(b) /\ Entered(rank_pc[r]) >= 4 /\ Entered(rank_pc[r]) \in Nat
        BY <1>1, <1>2, <2>1, <2>2, Zenon
      <3> QED
        BY <1>5, <3>1
    <2>3. CASE s # r
      BY <1>1, <2>1, <2>3, Zenon
    <2> QED
      BY <2>2, <2>3, Zenon
  <1> QED
    BY <1>3, <1>4, <1>6, Zenon DEF CloseInv

LEMMA ShardsMove ==
  ASSUME PlacesInv, ShardsInv, UNCHANGED setup, NEW r \in Ranks, NEW b, Proceed(r, b),
         shards' = shards \/ shards' = [shards EXCEPT ![r] = Devices],
         views' = views \/ views' = [views EXCEPT ![r] = ShardIds(Devices)]
           \/ (b = "gone" /\ views' = [views EXCEPT ![r] = Nothing]),
         b \notin {"start", "devices"} => shards'[r] = Devices,
         b \in {"mapped", "built", "ready", "leaving", "released"} => views'[r] = ShardIds(Devices)
  PROVE  ShardsInv'
PROOF
  <1>1. rank_pc'[r] = b /\ \A s \in Ranks : s # r => rank_pc'[s] = rank_pc[s]
    BY Zenon DEF Proceed, PlacesInv
  <1>2. /\ DOMAIN shards' = Ranks /\ DOMAIN views' = Ranks
        /\ \A s \in Ranks : s # r => shards'[s] = shards[s] /\ views'[s] = views[s]
    BY Zenon DEF ShardsInv
  <1>3. Devices' = Devices /\ ShardIds(Devices)' = ShardIds(Devices)
    BY JobKept, Zenon DEF ShardIds
  <1>4. ASSUME NEW s \in Ranks
        PROVE  /\ rank_pc'[s] \notin {"start", "devices"} => shards'[s] = Devices
               /\ rank_pc'[s] \in {"mapped", "built", "ready", "leaving", "released"} => views'[s] = ShardIds(Devices)
    <2>1. CASE s = r
      BY <1>1, <2>1, Zenon
    <2>2. CASE s # r
      BY <1>1, <1>2, <2>2, Zenon DEF ShardsInv
    <2> QED
      BY <2>1, <2>2, Zenon
  <1> QED
    BY <1>2, <1>3, <1>4, Zenon DEF ShardsInv

LEMMA RefsMove ==
  ASSUME RanksOK, PlacesInv, RefsInv, UNCHANGED setup, NEW r \in Ranks, NEW b, Proceed(r, b),
         refs' \subseteq RefKinds \X Ranks \X Ranks,
         \A kind, q, i : q # r => (<<kind, q, i>> \in refs' <=> <<kind, q, i>> \in refs),
         \A kind, i : <<kind, r, i>> \in refs' =>
           /\ b \notin {"start", "devices", "released", "gone"}
           /\ kind = "fd" => b \in SinglePlaces
           /\ kind = "own" => ~Single /\ LocalDevice(r) >= 0,
         r = Root /\ b \in {"fds", "import", "mapped"} => \A i \in Devices : <<"fd", Root, i>> \in refs'
  PROVE  RefsInv'
PROOF
  <1>1. rank_pc'[r] = b /\ \A s \in Ranks : s # r => rank_pc'[s] = rank_pc[s]
    BY Zenon DEF Proceed, PlacesInv
  <1>2. Devices' = Devices /\ Single' = Single /\ Root \in Ranks /\ \A s : LocalDevice(s)' = LocalDevice(s)
    BY JobKept, OneSingle, Zenon
  <1>3. rank_pc'[Root] \in {"fds", "import", "mapped"} => \A i \in Devices : <<"fd", Root, i>> \in refs'
    <2>1. CASE r = Root
      BY <1>1, <2>1, Zenon
    <2>2. CASE r # Root
      BY <1>1, <1>2, <2>2, Zenon DEF RefsInv
    <2> QED
      BY <2>1, <2>2, Zenon
  <1>4. ASSUME NEW kind, NEW q, NEW i, <<kind, q, i>> \in refs'
        PROVE  /\ rank_pc'[q] \notin {"start", "devices", "released", "gone"}
               /\ kind = "fd" => rank_pc'[q] \in SinglePlaces
               /\ kind = "own" => ~Single /\ LocalDevice(q) >= 0
    <2>1. CASE q = r
      BY <1>1, <1>4, <2>1, Zenon
    <2>2. CASE q # r
      <3>1. <<kind, q, i>> \in refs /\ q \in Ranks
        <4>1. <<kind, q, i>> \in RefKinds \X Ranks \X Ranks
          BY <1>4, Zenon
        <4>2. q \in Ranks
          BY <4>1
        <4> QED
          BY <1>4, <2>2, <4>2, Zenon
      <3>2. rank_pc'[q] = rank_pc[q]
        BY <1>1, <2>2, <3>1, Zenon
      <3> QED
        BY <3>1, <3>2, Zenon DEF RefsInv
    <2> QED
      BY <2>1, <2>2, Zenon
  <1> QED
    BY <1>2, <1>3, <1>4, Zenon DEF RefsInv

LEMMA OpFacts ==
  /\ OpAt(1) = "all_gather" /\ OpAt(2) = IF Single THEN "broadcast" ELSE "all_gather"
  /\ OpAt(3) = IF Single THEN "broadcast" ELSE "barrier"
  /\ \A k \in Nat : k > 3 => OpAt(k) = "barrier"
  /\ OpAt(4) = "barrier" /\ OpAt(5) = "barrier"
  /\ InConstructor \in {3, 5} /\ (Single => InConstructor = 5) /\ (~Single => InConstructor = 3)
BY DEF OpAt, InConstructor

LEMMA Successors == 2 = 1 + 1 /\ 3 = 2 + 1 /\ 4 = 3 + 1 /\ 5 = 4 + 1 /\ 2 # 1 /\ 3 # 1 /\ 4 # 1 /\ 5 # 1
PROOF
  OBVIOUS

LEMMA WhoEntered ==
  ASSUME RanksOK, PlacesInv, NEW r \in Ranks
  PROVE  /\ AllEntered(r) <=> \A s \in Ranks : Entered(rank_pc[s]) >= Entered(rank_pc[r])
         /\ RootEntered(r) <=> Entered(rank_pc[Root]) >= Entered(rank_pc[r])
         /\ Current(r) = Entered(rank_pc[r])
PROOF
  <1>1. \A s \in Ranks : Len(entered[s]) = Entered(rank_pc[s])
    <2> SUFFICES ASSUME NEW s \in Ranks PROVE Len(entered[s]) = Entered(rank_pc[s])
      BY Zenon
    <2>1. entered[s] = History(s, Entered(rank_pc[s])) /\ Entered(rank_pc[s]) \in Nat
      BY EnteredFacts, Zenon DEF PlacesInv
    <2> QED
      BY <2>1, HistoryGrows, Zenon
  <1>2. Root \in Ranks
    BY OneSingle, Zenon
  <1> QED
    BY <1>1, <1>2, Zenon DEF AllEntered, RootEntered, Current

LEMMA DevicesAreGathered ==
  ASSUME RanksOK, PlacesInv, NEW r \in Ranks, At(r, "devices"), AllEntered(r)
  PROVE  Owners([i \in Ranks |-> Sent(r, i)]) = Devices
PROOF
  <1>1. Current(r) = 1 /\ \A s \in Ranks : Entered(rank_pc[s]) >= 1
    BY WhoEntered, EnteredFacts, Zenon DEF At
  <1>2. ASSUME NEW s \in Ranks PROVE Sent(r, s) = LocalDevice(s)
    <2>1. entered[s] = History(s, Entered(rank_pc[s])) /\ Entered(rank_pc[s]) \in Nat
      BY EnteredFacts, Zenon DEF PlacesInv
    <2>2. 1 \in 1 .. Entered(rank_pc[s])
      BY SMTT(40), <1>1, <2>1
    <2>3. entered[s][1] = Message(s, 1)
      BY <2>1, <2>2, Zenon DEF History
    <2> QED
      BY <1>1, <2>3 DEF Sent, Message
  <1> QED
    BY <1>2, Zenon DEF Owners, Devices

(* A rank that goes on to b, entering one more collective or none. *)
LEMMA RankMoves ==
  ASSUME RanksOK, RanksInv, UNCHANGED setup, NEW r \in Ranks, NEW b \in Places, Proceed(r, b),
         b \in SinglePlaces => Single, b = "fabric" => ~Single, b = "pid" => r # Root,
         \/ Entered(b) = Entered(rank_pc[r]) /\ entered' = entered
         \/ /\ Entered(b) = Entered(rank_pc[r]) + 1
            /\ Enter(r, OpAt(Entered(b)), IF Entered(b) = 1 THEN LocalDevice(r) ELSE Nothing),
         b \in Later => rank_pc[r] \in Later \/ \A s \in Ranks : Single => Entered(rank_pc[s]) >= 4,
         ShardsInv', RefsInv'
  PROVE  RanksInv'
PROOF
  <1>1. PlacesInv'
    BY PlacesMove, Zenon DEF RanksInv
  <1>2. JobOK'
    BY JobKept, Zenon DEF RanksInv
  <1>3. Entered(b) >= Entered(rank_pc[r])
    <2>1. Entered(rank_pc[r]) \in Nat
      BY EnteredFacts, Zenon DEF RanksInv, PlacesInv
    <2>2. Entered(b) = Entered(rank_pc[r]) \/ Entered(b) = Entered(rank_pc[r]) + 1
      BY Zenon
    <2> QED
      BY <2>1, <2>2
  <1>4. CloseInv'
    BY <1>3, CloseMove, Zenon DEF RanksInv
  <1> QED
    BY <1>1, <1>2, <1>4, Zenon DEF RanksInv

(* A rank that goes on to b with the references it has. *)
LEMMA RefsStay ==
  ASSUME RanksOK, PlacesInv, RefsInv, UNCHANGED <<setup, refs>>, NEW r \in Ranks, NEW b, Proceed(r, b),
         \/ rank_pc[r] \in {"start", "devices", "released", "gone"} /\ b \notin {"fds", "import", "mapped"}
         \/ /\ b \notin {"start", "devices", "released", "gone"}
            /\ rank_pc[r] \in SinglePlaces => b \in SinglePlaces
            /\ b \in {"fds", "import", "mapped"} => rank_pc[r] \in {"fds", "import", "mapped"} \/ r # Root
  PROVE  RefsInv'
PROOF
  <1>1. refs' = refs /\ refs \subseteq RefKinds \X Ranks \X Ranks
    BY Zenon DEF RefsInv
  <1>2. \A kind, i : <<kind, r, i>> \in refs =>
           /\ b \notin {"start", "devices", "released", "gone"}
           /\ kind = "fd" => b \in SinglePlaces
           /\ kind = "own" => ~Single /\ LocalDevice(r) >= 0
    BY Zenon DEF RefsInv
  <1>3. r = Root /\ b \in {"fds", "import", "mapped"} => \A i \in Devices : <<"fd", Root, i>> \in refs
    BY Zenon DEF RefsInv
  <1> QED
    BY <1>1, <1>2, <1>3, RefsMove, Zenon

LEMMA JobHosts ==
  ASSUME RanksOK, JobOK, NEW r \in Ranks
  PROVE  /\ ~SingleHost(r) => ~setup.sys /\ check_imex
         /\ Single => setup.host[r] = setup.host[Root]
PROOF
  <1>1. Root \in Ranks /\ (SingleHost(r) <=> Single)
    BY OneSingle, Zenon
  <1>2. {i : i \in Ranks} = Ranks
    OBVIOUS
  <1>3. ~SingleHost(r) => setup.env = "mpi" /\ ~MpiSingleHost(r)
    BY <1>2, Zenon DEF SingleHost, TorchSingleHost, WorldSize
  <1>4. (\A s \in Ranks : setup.host[s] = setup.host[Root]) => MpiSingleHost(r)
    BY <1>1, Zenon DEF MpiSingleHost
  <1>5. setup.env = "mpi" /\ Single => setup.host[r] = setup.host[Root]
    BY <1>1, Zenon DEF Single, SingleHost, MpiSingleHost
  <1> QED
    BY <1>3, <1>4, <1>5, Zenon DEF JobOK, check_imex

(* What holds where a rank is. *)
LEMMA HereFacts ==
  ASSUME RanksOK, RanksInv, NEW r \in Ranks
  PROVE  /\ JobOK /\ PlacesInv /\ CloseInv /\ ShardsInv /\ RefsInv
         /\ rank_pc[r] \in Places /\ DOMAIN shards = Ranks /\ DOMAIN views = Ranks
         /\ Root \in Ranks /\ (SingleHost(r) <=> Single)
         /\ rank_pc[r] \in SinglePlaces => Single
         /\ rank_pc[r] = "fabric" => ~Single
         /\ rank_pc[r] \notin {"start", "devices"} => shards[r] = Devices
         /\ refs \subseteq RefKinds \X Ranks \X Ranks
BY OneSingle, Zenon DEF RanksInv, PlacesInv, ShardsInv, RefsInv

LEMMA GatherDevicesStep ==
  ASSUME RanksOK, RanksInv, NEW r \in Ranks, GatherDevices(r)
  PROVE  RanksInv'
PROOF
  <1>1. /\ At(r, "start") /\ Enter(r, "all_gather", LocalDevice(r)) /\ Proceed(r, "devices")
        /\ UNCHANGED <<setup, shards, refs, views>>
    BY HereFacts, JobHosts, Zenon DEF GatherDevices
  <1>2. "devices" \in Places /\ "devices" \notin SinglePlaces \cup Later \cup {"fabric", "pid"}
    BY Zenon DEF Places, SinglePlaces, Later
  <1>3. Entered("devices") = Entered(rank_pc[r]) + 1 /\ Enter(r, OpAt(Entered("devices")), IF Entered("devices") = 1 THEN LocalDevice(r) ELSE Nothing)
    BY <1>1, EnteredFacts, OpFacts DEF At
  <1>4. ShardsInv'
    BY <1>1, HereFacts, ShardsMove, Zenon
  <1>5. RefsInv'
    BY <1>1, HereFacts, RefsStay, Zenon DEF At
  <1> QED
    BY <1>1, <1>2, <1>3, <1>4, <1>5, RankMoves, Zenon

LEMMA DevicesGatheredStep ==
  ASSUME RanksOK, RanksInv, NEW r \in Ranks, DevicesGathered(r)
  PROVE  RanksInv'
PROOF
  <1> DEFINE b == IF Single THEN "fds" ELSE "fabric"
  <1>1. Owners([i \in Ranks |-> Sent(r, i)]) = Devices /\ Devices # {} /\ rank_pc[r] = "devices"
    BY HereFacts, DevicesAreGathered, Zenon DEF DevicesGathered, JobOK, At
  <1>2. /\ shards' = [shards EXCEPT ![r] = Devices] /\ UNCHANGED <<setup, views>>
        /\ Single => /\ refs' = IF r = Root THEN Create(r, {"handle", "fd"}, Devices) ELSE refs
                     /\ Enter(r, "broadcast", Nothing) /\ Proceed(r, "fds")
        /\ ~Single => /\ refs' = IF LocalDevice(r) >= 0 THEN Create(r, {"own"}, {r}) ELSE refs
                      /\ Enter(r, "all_gather", Nothing) /\ Proceed(r, "fabric")
    BY <1>1, HereFacts, Zenon DEF DevicesGathered
  <1>3. /\ b \in Places \ Later /\ b \notin {"start", "devices", "pid", "mapped", "built", "ready", "leaving", "released", "gone"}
        /\ b \in SinglePlaces => Single
        /\ b = "fabric" => ~Single
        /\ Proceed(r, b)
    BY <1>2, Zenon DEF Places, SinglePlaces, Later
  <1>4. Entered(b) = Entered(rank_pc[r]) + 1 /\ Enter(r, OpAt(Entered(b)), IF Entered(b) = 1 THEN LocalDevice(r) ELSE Nothing)
    <2>1. Entered(rank_pc[r]) = 1 /\ Entered("fds") = 2 /\ Entered("fabric") = 2
      BY <1>1, EnteredFacts, Zenon
    <2>2. CASE Single
      <3>1. OpAt(2) = "broadcast"
        BY <2>2, OpFacts, Zenon
      <3> QED
        BY <1>2, <2>1, <2>2, <3>1, Successors, Zenon
    <2>3. CASE ~Single
      <3>1. OpAt(2) = "all_gather"
        BY <2>3, OpFacts, Zenon
      <3> QED
        BY <1>2, <2>1, <2>3, <3>1, Successors, Zenon
    <2> QED
      BY <2>2, <2>3, Zenon
  <1>5. ShardsInv'
    <2>1. shards'[r] = Devices
      BY <1>2, HereFacts, Zenon
    <2> HIDE DEF b
    <2> QED
      BY <1>2, <1>3, <2>1, HereFacts, ShardsMove, Zenon
  <1>6. RefsInv'
    <2>1. Devices \subseteq Ranks /\ \A kind, i : <<kind, r, i>> \notin refs
      BY <1>1, HereFacts, Zenon DEF Devices, RefsInv
    <2>2. refs' \subseteq RefKinds \X Ranks \X Ranks
      <3>1. refs' = refs \/ refs' = Create(r, {"handle", "fd"}, Devices) \/ refs' = Create(r, {"own"}, {r})
        BY <1>2, Zenon
      <3>2. ASSUME NEW kinds \in SUBSET RefKinds, NEW owners \in SUBSET Ranks, refs' = Create(r, kinds, owners)
            PROVE  refs' \subseteq RefKinds \X Ranks \X Ranks
        BY <3>2, HereFacts, Created, Zenon
      <3>3. CASE refs' = refs
        BY <3>3, HereFacts, Zenon
      <3>4. {r} \in SUBSET Ranks
        BY Zenon
      <3> QED
        BY <3>1, <3>2, <3>3, <3>4, KindsCreated, Zenon
    <2>3. /\ \A kind, q, i : q # r => (<<kind, q, i>> \in refs' <=> <<kind, q, i>> \in refs)
          /\ \A kind, i : <<kind, r, i>> \in refs' =>
               /\ kind = "fd" => Single
               /\ kind = "own" => ~Single /\ LocalDevice(r) >= 0
          /\ Single /\ r = Root => \A i \in Devices : <<"fd", Root, i>> \in refs'
      <3>1. CASE Single /\ r = Root
        <4>1. refs' = Create(r, {"handle", "fd"}, Devices)
          BY <1>2, <3>1, Zenon
        <4> DEFINE kinds == {"handle", "fd"}
        <4>2. refs' = Create(r, kinds, Devices) /\ kinds \in SUBSET RefKinds /\ Devices \in SUBSET Ranks
          BY <4>1, KindsCreated, Zenon
        <4>3. "own" \notin kinds /\ "fd" \in kinds
          BY Zenon
        <4> HIDE DEF kinds
        <4>4. \A kind, q, i : <<kind, q, i>> \in refs' <=> <<kind, q, i>> \in refs \/ (q = r /\ kind \in kinds /\ i \in Devices)
          BY <4>2, HereFacts, Created, Zenon
        <4> QED
          BY <2>1, <3>1, <4>3, <4>4, Zenon
      <3>2. CASE ~Single /\ LocalDevice(r) >= 0
        <4>1. refs' = Create(r, {"own"}, {r})
          BY <1>2, <3>2, Zenon
        <4> DEFINE kinds == {"own"}
                   owners == {r}
        <4>2. refs' = Create(r, kinds, owners) /\ kinds \in SUBSET RefKinds /\ owners \in SUBSET Ranks
          BY <4>1, KindsCreated, Zenon
        <4>3. "fd" \notin kinds
          BY Zenon
        <4> HIDE DEF kinds, owners
        <4>4. \A kind, q, i : <<kind, q, i>> \in refs' <=> <<kind, q, i>> \in refs \/ (q = r /\ kind \in kinds /\ i \in owners)
          BY <4>2, HereFacts, Created, Zenon
        <4> QED
          BY <2>1, <3>2, <4>3, <4>4, Zenon
      <3>3. CASE ~(Single /\ r = Root) /\ ~(~Single /\ LocalDevice(r) >= 0)
        <4>1. refs' = refs
          BY <1>2, <3>3, Zenon
        <4> QED
          BY <2>1, <3>3, <4>1, Zenon
      <3> QED
        BY <3>1, <3>2, <3>3, Zenon
    <2>4. (b \in SinglePlaces <=> Single) /\ (b \in {"fds", "import", "mapped"} => Single)
      BY Zenon DEF SinglePlaces
    <2> HIDE DEF b
    <2> QED
      BY <1>2, <1>3, <2>2, <2>3, <2>4, HereFacts, RefsMove, Zenon
  <1> HIDE DEF b
  <1> QED
    BY <1>2, <1>3, <1>4, <1>5, <1>6, RankMoves, Zenon

LEMMA FdsKnownStep ==
  ASSUME RanksOK, RanksInv, NEW r \in Ranks, FdsKnown(r)
  PROVE  RanksInv'
PROOF
  <1> DEFINE b == IF r = Root THEN "import" ELSE "pid"
  <1>1. /\ rank_pc[r] = "fds" /\ Enter(r, "broadcast", Nothing) /\ Proceed(r, b)
        /\ UNCHANGED <<setup, shards, refs, views>>
    BY Zenon DEF FdsKnown, At
  <1>2. /\ b \in SinglePlaces /\ "fds" \in SinglePlaces /\ b \in Places \ Later
        /\ b \notin {"start", "devices", "fabric", "mapped", "built", "ready", "leaving", "released", "gone"}
        /\ b = "pid" => r # Root
    BY Zenon DEF Places, SinglePlaces, Later
  <1>3. Single
    BY <1>1, <1>2, HereFacts, Zenon
  <1>4. Entered(b) = Entered(rank_pc[r]) + 1 /\ Enter(r, OpAt(Entered(b)), IF Entered(b) = 1 THEN LocalDevice(r) ELSE Nothing)
    BY <1>1, <1>3, EnteredFacts, OpFacts
  <1> HIDE DEF b
  <1>5. ShardsInv'
    BY <1>1, <1>2, HereFacts, ShardsMove, Zenon
  <1>6. RefsInv'
    BY <1>1, <1>2, HereFacts, RefsStay, Zenon
  <1> QED
    BY <1>1, <1>2, <1>3, <1>4, <1>5, <1>6, RankMoves, Zenon

LEMMA CopyFdsStep ==
  ASSUME RanksOK, RanksInv, NEW r \in Ranks, CopyFds(r)
  PROVE  RanksInv'
PROOF
  <1>1. rank_pc[r] = "pid" /\ RootEntered(r) /\ Single /\ shards[r] = Devices
    BY HereFacts, Zenon DEF CopyFds, At, SinglePlaces
  <1>2. \A i \in Devices : <<"fd", Root, i>> \in refs
    <2>1. rank_pc[Root] \in Places /\ rank_pc[Root] # "pid" /\ rank_pc[Root] # "fabric"
      BY <1>1, HereFacts, Zenon DEF RanksInv, PlacesInv
    <2>2. Entered(rank_pc[Root]) >= 3
      BY <1>1, HereFacts, WhoEntered, EnteredFacts, Zenon
    <2>3. rank_pc[Root] \notin {"start", "devices", "fds", "fabric"}
      BY <2>2, EnteredFacts
    <2>4. rank_pc[Root] \notin Later
      <3>1. ~(Entered("pid") >= 4)
        BY EnteredFacts
      <3> QED
        BY <1>1, <3>1, HereFacts, Zenon DEF CloseInv
    <2>5. rank_pc[Root] \in {"import", "mapped"}
      BY <2>1, <2>3, <2>4, Zenon DEF Places, SinglePlaces
    <2> QED
      BY <2>5, HereFacts, Zenon DEF RefsInv
  <1>3. /\ refs' = Create(r, {"fd"}, Devices) /\ Proceed(r, "import")
        /\ UNCHANGED <<setup, entered, shards, views>>
    BY <1>1, <1>2, HereFacts, JobHosts, Zenon DEF CopyFds
  <1>4. "import" \in Places \ Later /\ "import" \in SinglePlaces
    BY Zenon DEF Places, SinglePlaces, Later
  <1>5. Entered("import") = Entered(rank_pc[r])
    BY <1>1, EnteredFacts, Zenon
  <1>6. ShardsInv'
    BY <1>1, <1>3, HereFacts, ShardsMove, Zenon
  <1>7. RefsInv'
    <2> DEFINE kinds == {"fd"}
    <2>0. refs' = Create(r, kinds, Devices) /\ kinds \in SUBSET RefKinds /\ Devices \in SUBSET Ranks
      BY <1>3, KindsCreated, Zenon
    <2>1. refs' \subseteq RefKinds \X Ranks \X Ranks
      <3> HIDE DEF kinds
      <3> QED
        BY <2>0, HereFacts, Created, Zenon
    <2>2. \A kind, q, i : <<kind, q, i>> \in refs' <=> <<kind, q, i>> \in refs \/ (q = r /\ kind \in kinds /\ i \in Devices)
      <3> HIDE DEF kinds
      <3> QED
        BY <2>0, HereFacts, Created, Zenon
    <2>3. \A kind, q, i : q # r => (<<kind, q, i>> \in refs' <=> <<kind, q, i>> \in refs)
      BY <2>2, Zenon
    <2>4. \A kind, i : <<kind, r, i>> \in refs' => (kind = "own" => ~Single /\ LocalDevice(r) >= 0)
      BY <2>2, HereFacts, Zenon DEF RefsInv
    <2>5. \A i \in Devices : <<"fd", Root, i>> \in refs'
      BY <1>2, <2>2, Zenon
    <2> QED
      BY <1>3, <1>4, <2>1, <2>3, <2>4, <2>5, HereFacts, RefsMove, Zenon
  <1> QED
    BY <1>1, <1>3, <1>4, <1>5, <1>6, <1>7, RankMoves, Zenon

LEMMA ImportAndMapStep ==
  ASSUME RanksOK, RanksInv, NEW r \in Ranks, ImportAndMap(r)
  PROVE  RanksInv'
PROOF
  <1>1. rank_pc[r] = "import" /\ Single /\ shards[r] = Devices
    BY HereFacts, Zenon DEF ImportAndMap, At, SinglePlaces
  <1>2. /\ views' = [views EXCEPT ![r] = ShardIds(Devices)] /\ refs' = Create(r, {"map"}, Devices)
        /\ Enter(r, "barrier", Nothing) /\ Proceed(r, "mapped") /\ UNCHANGED <<setup, shards>>
    BY <1>1, Zenon DEF ImportAndMap
  <1>3. "mapped" \in Places \ Later /\ "mapped" \in SinglePlaces
    BY Zenon DEF Places, SinglePlaces, Later
  <1>4. Entered("mapped") = Entered(rank_pc[r]) + 1 /\ Enter(r, OpAt(Entered("mapped")), IF Entered("mapped") = 1 THEN LocalDevice(r) ELSE Nothing)
    <2>1. Entered(rank_pc[r]) = 3 /\ Entered("mapped") = 4 /\ OpAt(4) = "barrier"
      BY <1>1, EnteredFacts, OpFacts, Zenon
    <2> QED
      BY <1>2, <2>1, Successors, Zenon
  <1>5. ShardsInv'
    <2>1. views'[r] = ShardIds(Devices)
      BY <1>2, HereFacts, Zenon
    <2> QED
      BY <1>1, <1>2, <2>1, HereFacts, ShardsMove, Zenon
  <1>6. RefsInv'
    <2> DEFINE kinds == {"map"}
    <2>0. refs' = Create(r, kinds, Devices) /\ kinds \in SUBSET RefKinds /\ Devices \in SUBSET Ranks
      BY <1>2, KindsCreated, Zenon
    <2>1. refs' \subseteq RefKinds \X Ranks \X Ranks
      <3> HIDE DEF kinds
      <3> QED
        BY <2>0, HereFacts, Created, Zenon
    <2>2. \A kind, q, i : <<kind, q, i>> \in refs' <=> <<kind, q, i>> \in refs \/ (q = r /\ kind \in kinds /\ i \in Devices)
      <3> HIDE DEF kinds
      <3> QED
        BY <2>0, HereFacts, Created, Zenon
    <2>3. \A kind, q, i : q # r => (<<kind, q, i>> \in refs' <=> <<kind, q, i>> \in refs)
      BY <2>2, Zenon
    <2>4. \A kind, i : <<kind, r, i>> \in refs' => (kind = "own" => ~Single /\ LocalDevice(r) >= 0)
      BY <2>2, HereFacts, Zenon DEF RefsInv
    <2>5. r = Root => \A i \in Devices : <<"fd", Root, i>> \in refs'
      BY <1>1, <2>2, HereFacts, Zenon DEF RefsInv
    <2> QED
      BY <1>2, <1>3, <2>1, <2>3, <2>4, <2>5, HereFacts, RefsMove, Zenon
  <1> QED
    BY <1>1, <1>2, <1>3, <1>4, <1>5, <1>6, RankMoves, Zenon

LEMMA CloseFdsStep ==
  ASSUME RanksOK, RanksInv, NEW r \in Ranks, CloseFds(r)
  PROVE  RanksInv'
PROOF
  <1>1. rank_pc[r] = "mapped" /\ Single /\ shards[r] = Devices /\ AllEntered(r)
    BY HereFacts, Zenon DEF CloseFds, At, SinglePlaces, BeforeClose
  <1>2. /\ refs' = Drop(r, {"fd"}) /\ Enter(r, "barrier", Nothing)
        /\ Proceed(r, "built") /\ UNCHANGED <<setup, shards, views>>
    BY Zenon DEF CloseFds
  <1>3. "built" \in Places /\ "built" \notin SinglePlaces
    BY Zenon DEF Places, SinglePlaces, Later
  <1>4. Entered("built") = Entered(rank_pc[r]) + 1 /\ Enter(r, OpAt(Entered("built")), IF Entered("built") = 1 THEN LocalDevice(r) ELSE Nothing)
    <2>1. Entered(rank_pc[r]) = 4 /\ Entered("built") = 5 /\ OpAt(5) = "barrier"
      BY <1>1, EnteredFacts, OpFacts, Zenon
    <2> QED
      BY <1>2, <2>1, Successors, Zenon
  <1>5. \A s \in Ranks : Entered(rank_pc[s]) >= 4
    BY <1>1, HereFacts, WhoEntered, EnteredFacts, Zenon
  <1>6. ShardsInv'
    <2>1. views[r] = ShardIds(Devices)
      BY <1>1, HereFacts, Zenon DEF ShardsInv
    <2> QED
      BY <1>1, <1>2, <2>1, HereFacts, ShardsMove, Zenon
  <1>7. RefsInv'
    <2> DEFINE kinds == {"fd"}
    <2>0. refs' = Drop(r, kinds)
      BY <1>2, Zenon
    <2>1. refs' \subseteq RefKinds \X Ranks \X Ranks
      <3> HIDE DEF kinds
      <3> QED
        BY <2>0, HereFacts, Dropped, Zenon
    <2>2. \A kind, q, i : <<kind, q, i>> \in refs' <=> <<kind, q, i>> \in refs /\ ~(q = r /\ kind \in kinds /\ i \in Ranks)
      <3> HIDE DEF kinds
      <3> QED
        BY <2>0, HereFacts, Dropped, Zenon
    <2>3. \A kind, q, i : q # r => (<<kind, q, i>> \in refs' <=> <<kind, q, i>> \in refs)
      BY <2>2, Zenon
    <2>4. \A kind, i : <<kind, r, i>> \in refs => i \in Ranks
      BY HereFacts, RefTypes, Zenon
    <2>5. \A kind, i : <<kind, r, i>> \in refs' => kind # "fd" /\ (kind = "own" => ~Single /\ LocalDevice(r) >= 0)
      BY <2>2, <2>4, HereFacts, Zenon DEF RefsInv
    <2> QED
      BY <1>2, <2>1, <2>3, <2>5, HereFacts, RefsMove, Zenon
  <1> QED
    BY <1>1, <1>2, <1>3, <1>4, <1>5, <1>6, <1>7, RankMoves, Zenon

LEMMA ImportFabricStep ==
  ASSUME RanksOK, RanksInv, NEW r \in Ranks, ImportFabric(r)
  PROVE  RanksInv'
PROOF
  <1>1. rank_pc[r] = "fabric" /\ ~Single /\ shards[r] = Devices
    BY HereFacts, Zenon DEF ImportFabric, At
  <1>2. /\ views' = [views EXCEPT ![r] = ShardIds(Devices)] /\ refs' = Create(r, {"handle", "map"}, Devices)
        /\ Enter(r, "barrier", Nothing) /\ Proceed(r, "built") /\ UNCHANGED <<setup, shards>>
    BY <1>1, Zenon DEF ImportFabric
  <1>3. "built" \in Places /\ "built" \notin SinglePlaces
    BY Zenon DEF Places, SinglePlaces, Later
  <1>4. Entered("built") = Entered(rank_pc[r]) + 1 /\ Enter(r, OpAt(Entered("built")), IF Entered("built") = 1 THEN LocalDevice(r) ELSE Nothing)
    <2>1. Entered(rank_pc[r]) = 2 /\ Entered("built") = 3 /\ OpAt(3) = "barrier"
      BY <1>1, EnteredFacts, OpFacts, Zenon
    <2> QED
      BY <1>2, <2>1, Successors, Zenon
  <1>5. ShardsInv'
    <2>1. views'[r] = ShardIds(Devices)
      BY <1>2, HereFacts, Zenon
    <2> QED
      BY <1>1, <1>2, <2>1, HereFacts, ShardsMove, Zenon
  <1>6. RefsInv'
    <2> DEFINE kinds == {"handle", "map"}
    <2>0. refs' = Create(r, kinds, Devices) /\ kinds \in SUBSET RefKinds /\ Devices \in SUBSET Ranks
      BY <1>2, KindsCreated, Zenon
    <2>1. refs' \subseteq RefKinds \X Ranks \X Ranks
      <3> HIDE DEF kinds
      <3> QED
        BY <2>0, HereFacts, Created, Zenon
    <2>2. \A kind, q, i : <<kind, q, i>> \in refs' <=> <<kind, q, i>> \in refs \/ (q = r /\ kind \in kinds /\ i \in Devices)
      <3> HIDE DEF kinds
      <3> QED
        BY <2>0, HereFacts, Created, Zenon
    <2>3. \A kind, q, i : q # r => (<<kind, q, i>> \in refs' <=> <<kind, q, i>> \in refs)
      <3> HIDE DEF kinds
      <3> QED
        BY <2>2, SMT
    <2>4. "fabric" \notin SinglePlaces
      BY Zenon DEF SinglePlaces
    <2>5. \A kind, i : <<kind, r, i>> \in refs' => kind # "fd" /\ (kind = "own" => ~Single /\ LocalDevice(r) >= 0)
      BY <1>1, <2>2, <2>4, HereFacts, Zenon DEF RefsInv
    <2> QED
      BY <1>2, <2>1, <2>3, <2>5, HereFacts, RefsMove, Zenon
  <1> QED
    BY <1>1, <1>2, <1>3, <1>4, <1>5, <1>6, RankMoves, Zenon

LEMMA BuiltStep ==
  ASSUME RanksOK, RanksInv, NEW r \in Ranks, Built(r)
  PROVE  RanksInv'
PROOF
  <1>1. /\ rank_pc[r] = "built" /\ Proceed(r, "ready") /\ UNCHANGED <<setup, entered, shards, refs, views>>
    BY Zenon DEF Built, At
  <1>2. "ready" \in Places /\ "ready" \notin SinglePlaces /\ "built" \in Later /\ "built" \notin SinglePlaces
    BY Zenon DEF Places, SinglePlaces, Later
  <1>3. Entered("ready") = Entered(rank_pc[r])
    BY <1>1, EnteredFacts, Zenon
  <1>4. shards[r] = Devices /\ views[r] = ShardIds(Devices)
    BY <1>1, HereFacts, Zenon DEF ShardsInv
  <1>5. ShardsInv'
    BY <1>1, <1>4, HereFacts, ShardsMove, Zenon
  <1>6. RefsInv'
    BY <1>1, <1>2, HereFacts, RefsStay, Zenon
  <1> QED
    BY <1>1, <1>2, <1>3, <1>5, <1>6, RankMoves, Zenon

LEMMA BeginDestroyStep ==
  ASSUME RanksOK, RanksInv, NEW r \in Ranks, BeginDestroy(r)
  PROVE  RanksInv'
PROOF
  <1>1. /\ rank_pc[r] = "ready" /\ Enter(r, "barrier", Nothing) /\ Proceed(r, "leaving")
        /\ UNCHANGED <<setup, shards, refs, views>>
    BY Zenon DEF BeginDestroy, At
  <1>2. "leaving" \in Places /\ "leaving" \notin SinglePlaces /\ "ready" \in Later /\ "ready" \notin SinglePlaces
    BY Zenon DEF Places, SinglePlaces, Later
  <1>3. Entered("leaving") = Entered(rank_pc[r]) + 1 /\ Enter(r, OpAt(Entered("leaving")), IF Entered("leaving") = 1 THEN LocalDevice(r) ELSE Nothing)
    BY <1>1, EnteredFacts, OpFacts
  <1>4. shards[r] = Devices /\ views[r] = ShardIds(Devices)
    BY <1>1, HereFacts, Zenon DEF ShardsInv
  <1>5. ShardsInv'
    BY <1>1, <1>4, HereFacts, ShardsMove, Zenon
  <1>6. RefsInv'
    BY <1>1, <1>2, HereFacts, RefsStay, Zenon
  <1> QED
    BY <1>1, <1>2, <1>3, <1>5, <1>6, RankMoves, Zenon

LEMMA ReleaseStep ==
  ASSUME RanksOK, RanksInv, NEW r \in Ranks, Release(r)
  PROVE  RanksInv'
PROOF
  <1>1. /\ rank_pc[r] = "leaving" /\ Enter(r, "barrier", Nothing) /\ Proceed(r, "released")
        /\ refs' = Drop(r, Released(r))
        /\ UNCHANGED <<setup, shards, views>>
    BY Zenon DEF Release, At
  <1>2. "released" \in Places /\ "released" \notin SinglePlaces /\ "leaving" \in Later /\ "leaving" \notin SinglePlaces
    BY Zenon DEF Places, SinglePlaces, Later
  <1>3. Entered("released") = Entered(rank_pc[r]) + 1 /\ Enter(r, OpAt(Entered("released")), IF Entered("released") = 1 THEN LocalDevice(r) ELSE Nothing)
    <2>1. /\ Entered("released") = Entered(rank_pc[r]) + 1 /\ Entered("released") \in Nat /\ Entered("released") > 3
          /\ Entered("released") # 1
      BY <1>1, EnteredFacts, OpFacts
    <2>2. OpAt(Entered("released")) = "barrier"
      BY <2>1, OpFacts, Zenon
    <2> QED
      BY <1>1, <2>1, <2>2, Zenon
  <1>4. shards[r] = Devices /\ views[r] = ShardIds(Devices)
    BY <1>1, HereFacts, Zenon DEF ShardsInv
  <1>5. ShardsInv'
    BY <1>1, <1>4, HereFacts, ShardsMove, Zenon
  <1>6. RefsInv'
    <2>1. refs' \subseteq RefKinds \X Ranks \X Ranks
      BY <1>1, HereFacts, DropFacts, Zenon
    <2>2. \A kind, q, i : <<kind, q, i>> \in refs' <=> <<kind, q, i>> \in refs /\ ~(q = r /\ kind \in Released(r) /\ i \in Ranks)
      <3>1. ASSUME NEW K, refs' = Drop(r, K)
            PROVE  \A kind, q, i : <<kind, q, i>> \in refs' <=> <<kind, q, i>> \in refs /\ ~(q = r /\ kind \in K /\ i \in Ranks)
        BY <3>1, DropFacts, Zenon
      <3> QED
        BY <1>1, <3>1, Zenon
    <2>3. \A kind, q, i : q # r => (<<kind, q, i>> \in refs' <=> <<kind, q, i>> \in refs)
      BY <2>2, Zenon
    <2>4. \A kind, i : <<kind, r, i>> \in refs => i \in Ranks /\ kind \in RefKinds
      BY HereFacts, RefTypes, Zenon
    <2>5. ASSUME NEW kind, NEW i PROVE <<kind, r, i>> \notin refs'
      <3>1. SUFFICES ASSUME <<kind, r, i>> \in refs PROVE kind \in Released(r)
        BY <2>2, <2>4, Zenon
      <3>2. kind # "fd" /\ (kind = "own" => ~SingleHost(r) /\ LocalDevice(r) >= 0)
        BY <1>1, <1>2, <3>1, HereFacts, Zenon DEF RefsInv
      <3>3. kind \in {"handle", "own", "map"}
        BY <2>4, <3>1, <3>2, Zenon DEF RefKinds
      <3> QED
        BY <3>2, <3>3, Zenon DEF Released
    <2> QED
      BY <1>1, <2>1, <2>3, <2>5, HereFacts, RefsMove, Zenon
  <1> QED
    BY <1>1, <1>2, <1>3, <1>5, <1>6, RankMoves, Zenon

LEMMA FreeAddressesStep ==
  ASSUME RanksOK, RanksInv, NEW r \in Ranks, FreeAddresses(r)
  PROVE  RanksInv'
PROOF
  <1>1. /\ rank_pc[r] = "released" /\ Proceed(r, "gone") /\ views' = [views EXCEPT ![r] = Nothing]
        /\ UNCHANGED <<setup, entered, shards, refs>>
    BY Zenon DEF FreeAddresses, At
  <1>2. "gone" \in Places /\ "gone" \notin SinglePlaces /\ "released" \in Later
    BY Zenon DEF Places, SinglePlaces, Later
  <1>3. Entered("gone") = Entered(rank_pc[r])
    BY <1>1, EnteredFacts, Zenon
  <1>4. ShardsInv'
    BY <1>1, HereFacts, ShardsMove, Zenon
  <1>5. RefsInv'
    BY <1>1, HereFacts, RefsStay, Zenon
  <1> QED
    BY <1>1, <1>2, <1>3, <1>4, <1>5, RankMoves, Zenon

LEMMA RanksStart ==
  ASSUME RanksOK, RanksInit, JobOK
  PROVE  RanksInv
PROOF
  <1>1. "start" \in Places /\ "start" \notin SinglePlaces \cup Later
    BY Zenon DEF Places, SinglePlaces, Later
  <1>2. \A r \in Ranks : rank_pc[r] = "start"
    BY Zenon DEF RanksInit
  <1>3. Root \in Ranks
    BY DEF RanksOK, Root
  <1>4. \A r : History(r, 0) = <<>>
    BY DEF History
  <1>5. PlacesInv
    BY <1>1, <1>2, <1>4, EnteredFacts, Zenon DEF PlacesInv, RanksInit
  <1>6. ShardsInv
    BY <1>2, Zenon DEF ShardsInv, RanksInit
  <1>7. RefsInv
    BY <1>2, <1>3, Zenon DEF RefsInv, RanksInit
  <1>8. CloseInv
    BY <1>1, <1>2, Zenon DEF CloseInv
  <1> QED
    BY <1>5, <1>6, <1>7, <1>8, Zenon DEF RanksInv

LEMMA RanksStep ==
  ASSUME RanksOK, RanksInv, [RanksNext]_rankVars
  PROVE  RanksInv'
PROOF
  <1>1. ASSUME NEW r \in Ranks, Rank(r) PROVE RanksInv'
    BY <1>1, GatherDevicesStep, DevicesGatheredStep, FdsKnownStep, CopyFdsStep, ImportAndMapStep, CloseFdsStep,
       ImportFabricStep, BuiltStep, BeginDestroyStep, ReleaseStep, FreeAddressesStep, Zenon DEF Rank
  <1>2. ASSUME UNCHANGED rankVars PROVE RanksInv'
    <2>1. /\ setup' = setup /\ rank_pc' = rank_pc /\ entered' = entered /\ shards' = shards
          /\ refs' = refs /\ views' = views
      BY <1>2, Zenon DEF rankVars
    <2>2. JobOK' /\ Single' = Single /\ Devices' = Devices /\ \A r : LocalDevice(r)' = LocalDevice(r)
      BY <2>1, JobKept, Zenon DEF RanksInv
    <2>3. \A r \in Ranks : Entered(rank_pc[r])' = Entered(rank_pc[r])
      BY <2>1, JobKept, Zenon DEF Entered
    <2>8. \A r \in Ranks : History(r, Entered(rank_pc[r]))' = History(r, Entered(rank_pc[r]))
      <3>1. \A r, k : Message(r, k)' = Message(r, k)
        BY <2>1, JobKept, Zenon
      <3> QED
        BY <2>3, <3>1, Zenon DEF History
    <2>4. PlacesInv'
      BY <2>1, <2>2, <2>8, Zenon DEF RanksInv, PlacesInv
    <2>5. CloseInv'
      BY <2>1, <2>2, <2>3, Zenon DEF RanksInv, CloseInv
    <2>6. ShardsInv'
      BY <2>1, <2>2, Zenon DEF RanksInv, ShardsInv, ShardIds
    <2>7. RefsInv'
      BY <2>1, <2>2, Zenon DEF RanksInv, RefsInv
    <2> QED
      BY <2>2, <2>4, <2>5, <2>6, <2>7, Zenon DEF RanksInv
  <1> QED
    BY <1>1, <1>2, Zenon DEF RanksNext

(* The shard ids of a set of ranks are the first naturals, each of one rank. *)
LEMMA ShardIdsFacts ==
  ASSUME RanksOK, NEW S, S \subseteq Ranks
  PROVE  /\ ShardIds(S) \in [S -> 0 .. Cardinality(S) - 1]
         /\ \A k \in 0 .. Cardinality(S) - 1 : \E i \in S : ShardIds(S)[i] = k
PROOF
  <1> DEFINE Below(i) == {j \in S : j < i}
             n == Cardinality(S)
  <1>1. S \subseteq Nat /\ IsFiniteSet(S) /\ n \in Nat
    <2>1. Ranks \subseteq Nat /\ IsFiniteSet(Ranks)
      <3> PICK m \in Nat \ {0} : Ranks = 0 .. m - 1
        BY Zenon DEF RanksOK
      <3>1. 0 \in Int /\ m - 1 \in Int /\ 0 .. m - 1 \subseteq Nat
        OBVIOUS
      <3> QED
        BY <3>1, FS_Interval, Zenon
    <2>2. IsFiniteSet(S)
      BY <2>1, FS_Subset, Zenon
    <2> QED
      BY <2>1, <2>2, FS_CardinalityType, Zenon
  <1>2. ASSUME NEW i \in S
        PROVE  Below(i) \subseteq S \ {i} /\ IsFiniteSet(Below(i)) /\ Cardinality(Below(i)) \in 0 .. n - 1
    <2>1. ~(i < i)
      BY <1>1
    <2>2. Below(i) \subseteq S \ {i}
      BY <2>1, Zenon
    <2>3. IsFiniteSet(S \ {i}) /\ Cardinality(S \ {i}) = n - 1
      BY <1>1, FS_RemoveElement, Zenon
    <2>4. IsFiniteSet(Below(i)) /\ Cardinality(Below(i)) <= n - 1
      <3>1. Below(i) \in SUBSET (S \ {i})
        BY <2>2, Zenon
      <3> HIDE DEF Below
      <3>2. IsFiniteSet(Below(i)) /\ Cardinality(Below(i)) <= Cardinality(S \ {i})
        BY <2>3, <3>1, FS_Subset, Zenon
      <3> QED
        BY <2>3, <3>2, Zenon
    <2>5. Cardinality(Below(i)) \in Nat
      BY <2>4, FS_CardinalityType, Zenon
    <2> HIDE DEF Below, n
    <2> QED
      BY <1>1, <2>2, <2>4, <2>5
  <1>3. ASSUME NEW i \in S, NEW j \in S, i < j
        PROVE  Cardinality(Below(i)) # Cardinality(Below(j))
    <2>1. Below(i) \subseteq Below(j) /\ i \in Below(j) /\ i \notin Below(i)
      <3>1. \A k \in S : k < i => k < j
        BY <1>1, <1>3
      <3>2. ~(i < i)
        BY <1>1
      <3> QED
        BY <1>3, <3>1, <3>2, Zenon
    <2>2. IsFiniteSet(Below(j))
      BY <1>2, Zenon
    <2>3. Below(i) \in SUBSET Below(j) /\ Below(i) # Below(j)
      BY <2>1, Zenon
    <2> HIDE DEF Below
    <2> QED
      BY <2>2, <2>3, FS_Subset, Zenon
  <1>4. ShardIds(S) = [i \in S |-> Cardinality(Below(i))]
    BY Zenon DEF ShardIds
  <1> HIDE DEF Below
  <1>5. ShardIds(S) \in [S -> 0 .. n - 1]
    BY <1>2, <1>4, Zenon
  <1>6. ASSUME NEW i \in S, NEW j \in S, ShardIds(S)[i] = ShardIds(S)[j] PROVE i = j
    <2>1. ~(i < j) /\ ~(j < i)
      BY <1>3, <1>4, <1>6, Zenon
    <2> QED
      BY <1>1, <2>1
  <1>7. ShardIds(S) \in Injection(S, 0 .. n - 1)
    BY <1>5, <1>6, Zenon DEF Injection, IsInjective
  <1>8. IsFiniteSet(0 .. n - 1) /\ Cardinality(0 .. n - 1) = n
    <2>1. 0 \in Int /\ n - 1 \in Int
      BY <1>1
    <2>2. IsFiniteSet(0 .. n - 1) /\ Cardinality(0 .. n - 1) = IF 0 > n - 1 THEN 0 ELSE (n - 1) - 0 + 1
      BY <2>1, FS_Interval, Zenon
    <2> HIDE DEF n
    <2> QED
      BY <1>1, <2>2
  <1>9. ShardIds(S) \in Surjection(S, 0 .. n - 1)
    BY <1>7, <1>8, FS_Injection, Zenon
  <1> QED
    BY <1>5, <1>9, Zenon DEF Surjection

(* The sizes: rounding up gives the least multiple that is large enough. *)
LEMMA RoundUpFacts ==
  ASSUME NEW n \in Nat, NEW m \in Nat \ {0}
  PROVE  RoundUp(n, m) >= n /\ \E q \in Nat : RoundUp(n, m) = m * q
PROOF
  <1> DEFINE x == n + m - 1
             q == x \div m
             t == x % m
  <1>1. x \in Nat /\ x >= 0 /\ m \in Nat /\ m > 0
    OBVIOUS
  <1> HIDE DEF x
  <1>2. q \in Nat /\ t \in 0 .. m - 1 /\ x = (m * q) + t
    BY <1>1, Division
  <1>3. RoundUp(n, m) = x - t
    BY Zenon DEF RoundUp, x, t
  <1> HIDE DEF q, t
  <1>4. m * q \in Nat
    BY <1>1, <1>2
  <1>5. RoundUp(n, m) = m * q
    BY <1>2, <1>3, <1>4
  <1>6. x = n + m - 1
    BY DEF x
  <1> QED
    BY <1>2, <1>3, <1>5, <1>6

LEMMA ShardSizes ==
  ASSUME JobOK, NEW n \in Nat \ {0}
  PROVE  ShardSize(n) % Granularity = 0 /\ ShardSize(n) * n >= setup.size
PROOF
  <1> SUFFICES ASSUME NEW g \in Nat \ {0}, NEW z \in Nat, NEW total, total = RoundUp(z, n * g)
               PROVE  (total \div n) % g = 0 /\ (total \div n) * n >= z
    BY Zenon DEF JobOK, TotalSize, Granularity, ShardSize
  <1>3. n * g \in Nat \ {0}
    OBVIOUS
  <1>4. PICK q \in Nat : total = (n * g) * q /\ total >= z
    <2>1. ASSUME NEW m \in Nat \ {0}, m = n * g PROVE \E q \in Nat : total = (n * g) * q /\ total >= z
      BY <2>1, RoundUpFacts, Zenon
    <2> QED
      BY <1>3, <2>1, Zenon
  <1>5. (n * g) * q = (n * (g * q)) + 0 /\ g * q \in Nat
    OBVIOUS
  <1>6. ASSUME NEW p \in Nat PROVE ((n * p) + 0) \div n = p
    <2> DEFINE d == ((n * p) + 0) \div n
    <2>1. (n * p) + 0 \in Nat /\ 0 \in Nat /\ 0 < n /\ n \in Nat
      OBVIOUS
    <2>2. d \in Nat /\ (n * p) + 0 = (n * d) + (((n * p) + 0) % n)
      BY <2>1, Division
    <2>3. ((n * p) + 0) % n = 0
      BY <2>1, Remainder, Zenon
    <2> HIDE DEF d
    <2>4. n * p = n * d
      BY <2>1, <2>2, <2>3
    <2>5. p = d
      BY <2>2, <2>4
    <2> QED
      BY <2>5 DEF d
  <1>7. total \div n = g * q
    BY <1>4, <1>5, <1>6, Zenon
  <1>8. (g * q) % g = 0
    <2>1. ((g * q) + 0) % g = 0
      BY Remainder
    <2> QED
      BY <2>1
  <1>9. (g * q) * n = total
    BY <1>4
  <1> QED
    BY <1>4, <1>7, <1>8, <1>9, Zenon

(* What the invariant says of the properties that a run checks. *)
LEMMA RanksAgree ==
  ASSUME RanksOK, RanksInv
  PROVE  CollectivesMatch /\ NoRankThrows /\ SameBuffer /\ AllReleased
PROOF
  <1>1. CollectivesMatch
    <2> SUFFICES ASSUME NEW r \in Ranks, NEW s \in Ranks, NEW k \in 1 .. Len(entered[r]), k <= Len(entered[s])
                 PROVE  entered[r][k].op = entered[s][k].op
      BY Zenon DEF CollectivesMatch
    <2>1. ASSUME NEW q \in Ranks, k <= Len(entered[q]) PROVE entered[q][k].op = OpAt(k)
      <3>1. entered[q] = History(q, Entered(rank_pc[q])) /\ Entered(rank_pc[q]) \in Nat
        BY EnteredFacts, Zenon DEF RanksInv, PlacesInv
      <3>2. Len(entered[q]) = Entered(rank_pc[q])
        BY <3>1, HistoryGrows, Zenon
      <3>3. k \in 1 .. Entered(rank_pc[q])
        <4>1. k \in Int /\ k >= 1
          OBVIOUS
        <4> QED
          BY <2>1, <3>1, <3>2, <4>1
      <3>4. entered[q][k] = Message(q, k)
        BY <3>1, <3>3, Zenon DEF History
      <3> QED
        BY <3>4 DEF Message
    <2>2. Len(entered[r]) \in Nat
      <3>1. entered[r] = History(r, Entered(rank_pc[r])) /\ Entered(rank_pc[r]) \in Nat
        BY EnteredFacts, Zenon DEF RanksInv, PlacesInv
      <3> QED
        BY <3>1, HistoryGrows, Zenon
    <2>3. k <= Len(entered[r])
      BY <2>2
    <2> QED
      BY <2>1, <2>3, Zenon
  <1>2. NoRankThrows
    <2>1. "threw" \notin Places
      BY Zenon DEF Places, SinglePlaces, Later
    <2> QED
      BY <2>1, Zenon DEF NoRankThrows, At, RanksInv, PlacesInv
  <1>3. SameBuffer
    <2> DEFINE n == Cardinality(Devices)
    <2>1. Devices \subseteq Ranks /\ Devices # {}
      BY Zenon DEF Devices, RanksInv, JobOK
    <2>2. n \in Nat \ {0}
      <3>1. IsFiniteSet(Ranks)
        <4> PICK m \in Nat \ {0} : Ranks = 0 .. m - 1
          BY Zenon DEF RanksOK
        <4>1. 0 \in Int /\ m - 1 \in Int
          OBVIOUS
        <4> QED
          BY <4>1, FS_Interval, Zenon
      <3>2. IsFiniteSet(Devices)
        BY <2>1, <3>1, FS_Subset, Zenon
      <3>3. n \in Nat /\ n # 0
        BY <2>1, <3>2, FS_CardinalityType, FS_EmptySet, Zenon
      <3> QED
        BY <3>3, Zenon
    <2>3. /\ ShardIds(Devices) \in [Devices -> 0 .. n - 1]
          /\ \A k \in 0 .. n - 1 : \E i \in Devices : ShardIds(Devices)[i] = k
      BY <2>1, ShardIdsFacts, Zenon
    <2>4. ShardSize(n) % Granularity = 0 /\ ShardSize(n) * n >= setup.size
      BY <2>2, ShardSizes, Zenon DEF RanksInv
    <2>5. \A r \in Ranks : At(r, "ready") => views[r] = ShardIds(Devices)
      BY Zenon DEF At, RanksInv, ShardsInv
    <2> QED
      BY <2>3, <2>4, <2>5, Zenon DEF SameBuffer
  <1>4. AllReleased
    <2> SUFFICES ASSUME \A r \in Ranks : At(r, "gone"), NEW x \in refs PROVE FALSE
      BY Zenon DEF AllReleased
    <2>1. x \in RefKinds \X Ranks \X Ranks
      BY Zenon DEF RanksInv, RefsInv
    <2>2. PICK kind, r, i : x = <<kind, r, i>> /\ r \in Ranks
      BY <2>1
    <2> QED
      BY <2>2, Zenon DEF RanksInv, RefsInv, At
  <1> QED
    BY <1>1, <1>2, <1>3, <1>4, Zenon

(***************************************************************************)
(* CUDADistributedBuffer, for any number of ranks and hosts, any devices   *)
(* and any sizes (distributed.cpp): in a job that can have a buffer the    *)
(* ranks enter the same collectives, none throws because the root closed a *)
(* descriptor too early, all map the same shards at the same offsets       *)
(* without a gap and with room for the size asked for, and the last rank   *)
(* to destroy its buffer leaves no reference to the memory behind.         *)
(***************************************************************************)
THEOREM RanksBuildOneBuffer ==
  ASSUME RanksOK
  PROVE  RanksSpec /\ JobOK => [](CollectivesMatch /\ NoRankThrows /\ SameBuffer /\ AllReleased)
PROOF
  <1>1. RanksInit /\ JobOK => RanksInv
    BY RanksStart, Zenon
  <1>2. RanksInv /\ [RanksNext]_rankVars => RanksInv'
    BY RanksStep, Zenon
  <1>3. RanksInv => CollectivesMatch /\ NoRankThrows /\ SameBuffer /\ AllReleased
    BY RanksAgree, Zenon
  <1> QED
    BY <1>1, <1>2, <1>3, PTL DEF RanksSpec
==============================================================================
