----------------------------- MODULE MCTaskWait -----------------------------
(* Constants of TaskWait for TLC. *)
EXTENDS TaskWait

CONSTANTS w1, w2, w3

OneForTheStart == [w \in Waiters |-> IF w = w1 THEN "started" ELSE "finished"]
=============================================================================
