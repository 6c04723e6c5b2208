------------------------------- MODULE TaskWait -------------------------------
(***************************************************************************)
(* Waiting for a task (yazi-scheduler handle.rs, `TaskHandle::wait`).      *)
(*                                                                         *)
(* The status changes by compare-and-swap and the waiters are notified     *)
(* afterwards, in a second step; tokio's `notify_waiters` keeps no permit: *)
(* it wakes the `Notified` futures that exist by then and nobody else.  A  *)
(* waiter therefore looks, registers, and looks again before it sleeps.    *)
(* CompletionToken (yazi-shared) waits in the same way.                    *)
(*                                                                         *)
(* Two threads change a status: a worker starts the task; whoever holds    *)
(* the lock of the list of tasks settles it.  The atomics are relaxed, but *)
(* every change precedes a release on the Notify, and every second look    *)
(* follows an acquire of it, so the steps here are in one order.           *)
(***************************************************************************)
EXTENDS TaskState

CONSTANTS Waiters, Want    \* Want[w]: what w waits for

ASSUME WantAssumption == Want \in [Waiters -> {"started", "finished"}]

Threads == {"worker", "list"}

VARIABLES
  status,   \* TaskHandle::inner.0
  due,      \* the thread has changed the status and not notified yet
  calls,    \* calls of notify_waiters so far
  at,       \* where a waiter is
  seen      \* calls when the waiter's Notified was created

vars == <<status, due, calls, at, seen>>

Places == {"look", "register", "relook", "sleep", "returned"}

TypeOK ==
  /\ status \in TaskStatus
  /\ due    \in [Threads -> BOOLEAN]
  /\ calls  \in Nat
  /\ at     \in [Waiters -> Places]
  /\ seen   \in [Waiters -> Nat]

Init ==
  /\ status = "Pending"
  /\ due    = [c \in Threads |-> FALSE]
  /\ calls  = 0
  /\ at     = [w \in Waiters |-> "look"]
  /\ seen   = [w \in Waiters |-> 0]

Ready(w) == IF Want[w] = "started" THEN status # "Pending" ELSE IsFinished(status)

-----------------------------------------------------------------------------
Change(c, new) ==
  /\ ~due[c]
  /\ status' = new
  /\ due' = [due EXCEPT ![c] = new # status]
  /\ UNCHANGED <<calls, at, seen>>

WorkerStarts == Change("worker", Start(status))
ListSettles  == \E new \in {Succeed(status), Fail(status), Cancel(status)} : Change("list", new)

(* A slip: a start does not concern those who wait for the end. *)
NotifySettled(c) ==
  /\ due[c]
  /\ due'   = [due EXCEPT ![c] = FALSE]
  /\ calls' = IF IsFinished(status) THEN calls + 1 ELSE calls
  /\ UNCHANGED <<status, at, seen>>

NotifyWaiters(c) ==
  /\ due[c]
  /\ due'   = [due EXCEPT ![c] = FALSE]
  /\ calls' = calls + 1
  /\ UNCHANGED <<status, at, seen>>

Look(w) ==
  /\ at[w] = "look"
  /\ at' = [at EXCEPT ![w] = IF Ready(w) THEN "returned" ELSE "register"]
  /\ UNCHANGED <<status, due, calls, seen>>

Register(w) ==
  /\ at[w] = "register"
  /\ at'   = [at EXCEPT ![w] = "relook"]
  /\ seen' = [seen EXCEPT ![w] = calls]
  /\ UNCHANGED <<status, due, calls>>

(* A slip: one look is enough. *)
RelookNever(w) ==
  /\ at[w] = "relook"
  /\ at' = [at EXCEPT ![w] = "sleep"]
  /\ UNCHANGED <<status, due, calls, seen>>

Relook(w) ==
  /\ at[w] = "relook"
  /\ at' = [at EXCEPT ![w] = IF Ready(w) THEN "returned" ELSE "sleep"]
  /\ UNCHANGED <<status, due, calls, seen>>

Wake(w) ==
  /\ at[w] = "sleep"
  /\ seen[w] # calls
  /\ at' = [at EXCEPT ![w] = "look"]
  /\ UNCHANGED <<status, due, calls, seen>>

(* The future is dropped, as `select!` does with the losing branches, and  *)
(* somebody waits anew.                                                    *)
GiveUp(w) ==
  /\ at[w] # "look"
  /\ at' = [at EXCEPT ![w] = "look"]
  /\ UNCHANGED <<status, due, calls, seen>>

WaiterStep(w) == Look(w) \/ Register(w) \/ Relook(w) \/ Wake(w)

Next ==
  \/ WorkerStarts \/ ListSettles
  \/ \E c \in Threads : NotifyWaiters(c)
  \/ \E w \in Waiters : WaiterStep(w) \/ GiveUp(w)

(* A thread that is about to notify does; a runnable future is polled.     *)
Fairness ==
  /\ \A c \in Threads : WF_vars(NotifyWaiters(c))
  /\ \A w \in Waiters : WF_vars(WaiterStep(w))

Spec     == Init /\ [][Next]_vars
FairSpec == Spec /\ Fairness

-----------------------------------------------------------------------------
(* Nobody sleeps through the change he waits for: if it has happened, a    *)
(* notification that will wake him is still due.                           *)
NoLostWakeup ==
  \A w \in Waiters :
    at[w] = "sleep" /\ seen[w] = calls /\ Ready(w) => \E c \in Threads : due[c]

(* Whoever awaits a handle returns once the task is as he wants it, unless *)
(* he keeps giving up.                                                     *)
EveryWaiterReturns ==
  \A w \in Waiters :
    []<>Ready(w) => []<>(at[w] = "returned") \/ []<><<GiveUp(w)>>_vars
=============================================================================
