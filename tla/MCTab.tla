------------------------------- MODULE MCTab --------------------------------
(* A small instance of Tab for TLC: a hidden file, a file and a directory. *)
EXTENDS Tab

Letters == <<".h", "d", "f">>

\* All of them are there, or the tab has begun in the directory, which is alone.
MCInit ==
  /\ Init
  /\ disk = [n \in Names |-> IF n # "d" /\ Len(stack) = 2 THEN Absent ELSE 1]
MCSpec == MCInit /\ [][Next]_vars
=============================================================================
