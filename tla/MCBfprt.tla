------------------------------ MODULE MCBfprt ------------------------------
(* Every array of length 1..7 over three values (the base case, one group  *)
(* of five with a remainder, many duplicates) and every array of length   *)
(* 10 and 11 over two values (two groups, so that BFPRT recurses on the   *)
(* medians from GetPivotIndex).                                            *)
EXTENDS Bfprt

MCInputs ==
    UNION {[0..(n - 1) -> {1, 2, 3}] : n \in 1..7}
    \cup UNION {[0..(n - 1) -> {1, 2}] : n \in {10, 11}}
=============================================================================
