--------------------------- MODULE MCQueueSession ---------------------------
(* Two results of different length, so that an index of one may lie outside  *)
(* the other.                                                                *)
EXTENDS QueueSession

ListSize == [l \in Lists |-> IF l = "short" THEN 2 ELSE 3]
=============================================================================
