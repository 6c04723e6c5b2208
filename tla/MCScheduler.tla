----------------------------- MODULE MCScheduler -----------------------------
(* Constants of Scheduler for TLC. *)
EXTENDS Scheduler

OneWorkerEach  == [p \in Pools |-> 1]
TwoFileWorkers == [p \in Pools |-> IF p = "file" THEN 2 ELSE 1]

CONSTANTS t1, t2

Mix(k1, k2) == [t \in Tasks |-> IF t = t1 THEN k1 ELSE k2]

(* A task of any kind by itself, and two that wait for the same workers:   *)
(* for the only one of a pool, which a custom task may hold for ever, for  *)
(* the hook worker, or for each other as a preload that supersedes.        *)
AloneOrTwo ==
  {Mix(k, "None") : k \in Kinds} \cup
  {Mix("Custom", "Block"), Mix("Bg", "Block"), Mix("Trash", "Trash"), Mix("Preload", "Preload")}

AllMixes == [Tasks -> Kinds]
=============================================================================
