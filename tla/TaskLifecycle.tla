---------------------------- MODULE TaskLifecycle ----------------------------
(***************************************************************************)
(* What the scheduler promises of a task to those who only hold its handle *)
(* (yazi-scheduler/src/handle.rs) or look at the list of ongoing tasks:    *)
(* no worker, channel, hook or progress is in sight.                       *)
(***************************************************************************)
CONSTANT Tasks

VARIABLES
  life,    \* the handle's status, "New" before there is a task
  listed   \* the tasks shown as ongoing

vars == <<life, listed>>

Init ==
  /\ life = [t \in Tasks |-> "New"]
  /\ listed = {}

Submit(t) ==
  /\ life[t] = "New"
  /\ \E s \in {"Pending", "Started"} : life' = [life EXCEPT ![t] = s]
  /\ listed' = listed \cup {t}

Begin(t) ==
  /\ life[t] = "Pending"
  /\ life' = [life EXCEPT ![t] = "Started"]
  /\ UNCHANGED listed

(* Success is the one way out of the list that needs no cancellation. *)
Complete(t) ==
  /\ life[t] \in {"Pending", "Started"}
  /\ t \in listed
  /\ life' = [life EXCEPT ![t] = "Succeeded"]
  /\ listed' = listed \ {t}

(* A failed task stays in the list until someone cancels it. *)
GiveUp(t) ==
  /\ life[t] \in {"Pending", "Started"}
  /\ life' = [life EXCEPT ![t] = "Failed"]
  /\ UNCHANGED listed

(* Canceling takes the task off the list now, or later once cleaned up. *)
Withdraw(t) ==
  /\ life[t] \in {"Pending", "Started", "Failed"}
  /\ life' = [life EXCEPT ![t] = "Canceled"]
  /\ listed' \in {listed, listed \ {t}}

Leave(t) ==
  /\ life[t] = "Canceled"
  /\ t \in listed
  /\ listed' = listed \ {t}
  /\ UNCHANGED life

(* Submitting a preload may withdraw the one it supersedes in one go. *)
Replace(t, prev) ==
  /\ life[t] = "New"
  /\ life[prev] \in {"Pending", "Started", "Failed"}
  /\ life' = [life EXCEPT ![t] = "Pending", ![prev] = "Canceled"]
  /\ listed' \in {listed \cup {t}, (listed \cup {t}) \ {prev}}

Next ==
  \E t \in Tasks :
    \/ Submit(t) \/ Begin(t) \/ Complete(t) \/ GiveUp(t) \/ Withdraw(t) \/ Leave(t)
    \/ \E prev \in Tasks \ {t} : Replace(t, prev)

Spec == Init /\ [][Next]_vars
=============================================================================
