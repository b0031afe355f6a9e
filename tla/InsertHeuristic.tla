-------------------------- MODULE InsertHeuristic --------------------------
(***************************************************************************)
(* StatisticalInsertHeuristic of insert_heuristic.cpp: per table, a state  *)
(* machine that collects a window of hit rates, inserts a number of times, *)
(* and then watches for hit rates far from the window's mean.  A call of   *)
(* insert_needed is atomic: the AutoInsertHandler of the table makes it    *)
(* under its insert_lock_.                                                 *)
(*                                                                         *)
(* A hit rate is a multiple of 1/Unit.  Means, variances and their         *)
(* comparison are kept as integers, scaled, without rounding: floats agree *)
(* with them where window_size_ and Unit are powers of two.  The random    *)
(* draw against the Chebyshev probability may go either way.               *)
(***************************************************************************)
EXTENDS Integers, Sequences, Functions

CONSTANTS Tables,
          Unit,                  \* hit rates are 0/Unit .. Unit/Unit
          NumKeys,               \* what num_keys_ may be
          KFactorSquared,
          window_size, num_inserts_needed, max_unsteady_samples,
          CounterRange           \* 2^64 for the code's size_t

UnitOK == Unit \in Nat \ {0} /\ KFactorSquared \in Nat \ {0} /\ NumKeys \subseteq Nat
ParametersOK ==
  window_size \in Nat /\ window_size > 1 /\ {num_inserts_needed, max_unsteady_samples} \subseteq Nat \ {0}
RangeOK == CounterRange \in Nat \ {0}

Hitrates == 0 .. Unit
States == {"Start", "Insert", "Steady", "Unstable"}

VARIABLES num_keys,                      \* num_keys_; 0: the variance is the sample variance
          state, hitrate_window,
          hitrate_mean,                  \* in units of 1 / (window_size * Unit)
          hitrate_var,                   \* in units of 1 / (VarScale * (window_size * Unit)^2)
          window_samples_collected, insertions_performed, consecutive_unsteady_samples,
          answer,                        \* what the last call for a table returned
          samples, inserts               \* history: hit rates of this collection, inserts of this phase

distribution == <<hitrate_window, hitrate_mean, hitrate_var>>
heuristicVars == <<num_keys, state, distribution, window_samples_collected, insertions_performed,
          consecutive_unsteady_samples, answer, samples, inserts>>

HeuristicInit ==
  /\ num_keys \in NumKeys
  /\ state = [t \in Tables |-> "Start"]
  /\ hitrate_window = [t \in Tables |-> [i \in 1 .. window_size |-> 0]]
  /\ hitrate_mean = [t \in Tables |-> 0]
  /\ hitrate_var = [t \in Tables |-> 0]
  /\ window_samples_collected = [t \in Tables |-> 0]
  /\ insertions_performed = [t \in Tables |-> 0]
  /\ consecutive_unsteady_samples = [t \in Tables |-> 0]
  /\ answer = [t \in Tables |-> FALSE]
  /\ samples = [t \in Tables |-> <<>>]
  /\ inserts = [t \in Tables |-> 0]

Total(s) == FoldFunction(+, 0, s)
VarScale == IF num_keys = 0 THEN window_size - 1 ELSE num_keys

OldHitrate(t) == Head(hitrate_window[t])

(* The window moves on by one sample; the mean is adjusted, not recomputed. *)
updateDistributionParams(t, hitrate) ==
  LET window == Append(Tail(hitrate_window[t]), hitrate)
      mean == hitrate_mean[t] + hitrate - OldHitrate(t)
      squares == [i \in 1 .. window_size |-> (window[i] * window_size - mean) * (window[i] * window_size - mean)]
  IN  /\ hitrate_window' = [hitrate_window EXCEPT ![t] = window]
      /\ hitrate_mean' = [hitrate_mean EXCEPT ![t] = mean]
      /\ hitrate_var' = [hitrate_var EXCEPT ![t] =
                           IF num_keys = 0 THEN Total(squares) ELSE mean * (window_size * Unit - mean)]

Deviation(t, hitrate) ==
  (hitrate * window_size - hitrate_mean[t]) * (hitrate * window_size - hitrate_mean[t]) * VarScale

(* |hitrate - mean| >= k * sqrt(var) *)
Deviates(t, hitrate) == Deviation(t, hitrate) >= KFactorSquared * hitrate_var[t]

Goto(t, s) == state' = [state EXCEPT ![t] = s]
Answers(t, a) == answer' = [answer EXCEPT ![t] = a]

Collected(t, hitrate) == window_samples_collected[t] + 1

\* The history of a collection: one more sample than a window shows that it is too long.
Collecting(s, hitrate) == IF Len(s) > window_size THEN Append(Tail(s), hitrate) ELSE Append(s, hitrate)

(* Start: collect a new window of samples. *)
Collect(t, hitrate) ==
  /\ state[t] = "Start"
  /\ updateDistributionParams(t, hitrate)
  /\ window_samples_collected' = [window_samples_collected EXCEPT ![t] = Collected(t, hitrate)]
  /\ Goto(t, IF window_samples_collected'[t] = window_size THEN "Insert" ELSE "Start")
  /\ Answers(t, FALSE)
  /\ samples' = [samples EXCEPT ![t] = Collecting(@, hitrate)]
  /\ inserts' = [inserts EXCEPT ![t] = 0]
  /\ UNCHANGED <<insertions_performed, consecutive_unsteady_samples>>

PhaseEnds(n) == n % num_inserts_needed = 0

(* Insert: perform num_inserts_needed_ insertions. *)
Insert(t, hitrate) ==
  /\ state[t] = "Insert"
  /\ insertions_performed' = [insertions_performed EXCEPT ![t] = (@ + 1) % CounterRange]
  /\ Goto(t, IF PhaseEnds(insertions_performed'[t]) THEN "Unstable" ELSE "Insert")
  /\ Answers(t, TRUE)
  /\ samples' = [samples EXCEPT ![t] = <<>>]
  /\ inserts' = [inserts EXCEPT ![t] = @ + 1]
  /\ UNCHANGED <<distribution, window_samples_collected, consecutive_unsteady_samples>>

AfterGood(t) == 0

(* Steady: a few bad samples in a row start another round of insertions. *)
Watch(t, hitrate) ==
  /\ state[t] = "Steady"
  /\ IF Deviates(t, hitrate)
     THEN LET bad == consecutive_unsteady_samples[t] + 1
              insert == bad = max_unsteady_samples
          IN  /\ consecutive_unsteady_samples' =
                    [consecutive_unsteady_samples EXCEPT ![t] = IF insert THEN 0 ELSE bad]
              /\ Goto(t, IF insert THEN "Insert" ELSE "Steady")
              /\ UNCHANGED distribution
     ELSE /\ consecutive_unsteady_samples' = [consecutive_unsteady_samples EXCEPT ![t] = AfterGood(t)]
          /\ updateDistributionParams(t, hitrate)
          /\ UNCHANGED state
  /\ Answers(t, FALSE)
  \* history: the bad samples of this run
  /\ samples' = [samples EXCEPT ![t] = IF Deviates(t, hitrate) THEN Append(@, hitrate) ELSE <<>>]
  /\ inserts' = [inserts EXCEPT ![t] = 0]
  /\ UNCHANGED <<window_samples_collected, insertions_performed>>

\* Mutant: the sample that starts the collection is not counted.
FirstCollected_Zero(t) == 0

FirstCollected(t) == 1

(* Unstable: if the insertion made a change, collect a new window. *)
Settle(t, hitrate) ==
  /\ state[t] = "Unstable"
  /\ \/ /\ Deviates(t, hitrate)
        /\ Goto(t, "Start")
        /\ window_samples_collected' = [window_samples_collected EXCEPT ![t] = FirstCollected(t)]
        /\ samples' = [samples EXCEPT ![t] = <<hitrate>>]
     \/ /\ Goto(t, "Steady")
        /\ UNCHANGED window_samples_collected
        /\ samples' = [samples EXCEPT ![t] = <<>>]
  /\ updateDistributionParams(t, hitrate)
  /\ Answers(t, FALSE)
  /\ inserts' = [inserts EXCEPT ![t] = 0]
  /\ UNCHANGED <<insertions_performed, consecutive_unsteady_samples>>

insert_needed(t) ==
  /\ \E hitrate \in Hitrates :
       Collect(t, hitrate) \/ Insert(t, hitrate) \/ Watch(t, hitrate) \/ Settle(t, hitrate)
  /\ UNCHANGED num_keys

HeuristicNext == \E t \in Tables : insert_needed(t)
HeuristicSpec == HeuristicInit /\ [][HeuristicNext]_heuristicVars

----------------------------------------------------------------------------
(* Properties *)

(* The variables hold values of their types, the counters within the bounds *)
(* at which insert_needed resets them.                                      *)
HeuristicTypeOK ==
  /\ num_keys \in NumKeys
  /\ state \in [Tables -> States]
  /\ hitrate_window \in [Tables -> [1 .. window_size -> Hitrates]]
  /\ hitrate_mean \in [Tables -> 0 .. window_size * Unit]
  /\ hitrate_var \in [Tables -> Nat]
  /\ window_samples_collected \in [Tables -> 0 .. window_size]
  /\ insertions_performed \in [Tables -> 0 .. CounterRange - 1]
  /\ consecutive_unsteady_samples \in [Tables -> 0 .. max_unsteady_samples - 1]

(* The mean updateDistributionParams adjusts sample by sample is the mean of *)
(* the window it has at that time.                                           *)
MeanOfWindow == \A t \in Tables : hitrate_mean[t] = Total(hitrate_window[t])

(* The first insertions after a collection rest on a window that holds the  *)
(* samples of this collection only, the one that started it included.       *)
WindowIsFresh ==
  \A t \in Tables : state[t] = "Start" /\ state'[t] = "Insert" => hitrate_window'[t] = samples'[t]

(* Each round asks for exactly num_inserts_needed_ insertions, although the  *)
(* counter behind it is never reset, but the round in which the counter      *)
(* wraps: it ends there, with what the counter's range leaves over (16 of    *)
(* the default 50, at 2^64).                                                 *)
LastRound == ((CounterRange - 1) % num_inserts_needed) + 1

RoundsAreComplete ==
  \A t \in Tables : state[t] = "Insert" /\ state'[t] # "Insert" =>
    inserts'[t] = IF insertions_performed'[t] = 0 THEN LastRound ELSE num_inserts_needed

(* A steady table is inserted to again only after max_unsteady_samples_ bad  *)
(* samples in a row.                                                         *)
SteadyNeedsARun ==
  \A t \in Tables : state[t] = "Steady" /\ state'[t] = "Insert" => Len(samples'[t]) = max_unsteady_samples

(* The inductive invariant.  The counter of insertions is a multiple of      *)
(* num_inserts_needed_ outside a round, and counts its insertions inside;    *)
(* consecutive_unsteady_samples_ counts the run of bad samples of a steady   *)
(* table; while samples are collected they are the end of the window.        *)
RoundCounted(t) ==
  /\ insertions_performed[t] \in 0 .. CounterRange - 1
  /\ IF state[t] = "Insert" THEN inserts[t] = insertions_performed[t] % num_inserts_needed
     ELSE insertions_performed[t] % num_inserts_needed = 0

RunCounted(t) ==
  /\ consecutive_unsteady_samples[t] \in 0 .. max_unsteady_samples - 1
  /\ consecutive_unsteady_samples[t] = IF state[t] = "Steady" THEN Len(samples[t]) ELSE 0

WindowFilled(t) ==
  /\ Len(hitrate_window[t]) = window_size
  /\ state[t] = "Start" =>
       /\ window_samples_collected[t] = Len(samples[t]) /\ Len(samples[t]) < window_size
       /\ \A i \in 1 .. Len(samples[t]) : hitrate_window[t][window_size - Len(samples[t]) + i] = samples[t][i]

TableFunctions ==
  /\ state \in [Tables -> States]
  /\ {hitrate_window, samples} \subseteq [Tables -> Seq(Hitrates)]
  /\ {window_samples_collected, insertions_performed, consecutive_unsteady_samples, inserts} \subseteq [Tables -> Nat]

HInv == TableFunctions /\ \A t \in Tables : RoundCounted(t) /\ RunCounted(t) /\ WindowFilled(t)
=============================================================================
