---------------------------- MODULE MCTaskQueue ----------------------------
(* Two consumers, so that a signal wakes one and the other finds the list  *)
(* drained; a capacity of 2 below the 5 nodes offered, so that bounded     *)
(* offers are rejected and unbounded ones pass the capacity; a count of 2  *)
(* so that a take leaves nodes behind.                                     *)
EXTENDS TaskQueue

MCCapacity == 2
MCTakeCount == 2
MCMaxItems == 5
=============================================================================
