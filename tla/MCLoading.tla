----------------------------- MODULE MCLoading -----------------------------
(* Constants of Loading for TLC; tabs are interchangeable. *)
EXTENDS Loading, TLC

CONSTANTS t1, t2

TabSymmetry == Permutations(Tabs)
=============================================================================
