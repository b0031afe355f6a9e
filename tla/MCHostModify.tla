---------------------------- MODULE MCHostModify ----------------------------
(* Instances of CacheSAHostModify for TLC: the keys share one set. *)
EXTENDS CacheSAHostModify, TLC

CONSTANTS k1, k2, c1, c2

MCSetOf == [k \in Keys |-> "s"]
\* m1 only updates, under the shared lock; m2 takes the lock exclusively.
SplitCalls == [m \in Modifiers |-> IF m = "m1" THEN Ops \ Writers ELSE Writers]
Symmetry == Permutations(Keys)
=============================================================================
