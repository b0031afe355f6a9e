------------------------ MODULE MCHierarchicalLayer ------------------------
(***************************************************************************)
(* HierarchicalLayer with a GPU table above two host tables, for lookups   *)
(* whose output buffer is in device memory and a caller that waits after   *)
(* each of them.                                                           *)
(***************************************************************************)
EXTENDS HierarchicalLayer

CONSTANTS k1, k2, c1

TwoBatches == {<<k1>>, <<k1, k2>>}
=============================================================================
