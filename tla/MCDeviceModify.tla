--------------------------- MODULE MCDeviceModify ---------------------------
(* Instances of CacheSADeviceModify for TLC: the keys share one set. *)
EXTENDS CacheSADeviceModify, TLC

CONSTANTS k1, k2, c1, c2

MCSetOf == [k \in Keys |-> "s"]
AllCalls == [m \in Modifiers |-> Ops]
SplitCalls == [m \in Modifiers |-> IF m = "m1" THEN {"insert", "update_accumulate"}
                                              ELSE {"update", "invalidate"}]
Symmetry == Permutations(Keys) \cup Permutations(Contexts)
=============================================================================
