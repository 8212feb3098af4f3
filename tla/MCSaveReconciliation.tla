------------------------ MODULE MCSaveReconciliation ------------------------
(* Two restores and every other mishap once, in any order, for two items.   *)
EXTENDS SaveReconciliation

TwoRestores == [m \in Mishaps |-> IF m = "restore" THEN 2 ELSE 1]
=============================================================================
