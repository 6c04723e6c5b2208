----------------------------- MODULE MCPreloads -----------------------------
(* Constants of Preloads for TLC. *)
EXTENDS Preloads

OneWorkerEach == [p \in Pools |-> 1]

AllMixes == [Tasks -> Kinds]
=============================================================================
