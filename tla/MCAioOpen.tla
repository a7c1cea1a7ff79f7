----------------------------- MODULE MCAioOpen -----------------------------
(* Host threads opening two files at the same time.                        *)
EXTENDS AioOpen, TLC

Symmetry == Permutations(Files)
=============================================================================
