---------------------------- MODULE TaskWaitProofs ----------------------------
(* Nobody sleeps through the change he waits for, however many wait.       *)
EXTENDS TaskWait, TLAPS

Registered(w) == at[w] \in {"relook", "sleep"} => seen[w] <= calls

WaitInv == TypeOK /\ NoLostWakeup /\ \A w \in Waiters : Registered(w)

LEMMA StatusSteps ==
  ASSUME NEW s \in TaskStatus
  PROVE  /\ Start(s) \in TaskStatus /\ Succeed(s) \in TaskStatus
         /\ Fail(s) \in TaskStatus /\ Cancel(s) \in TaskStatus
BY DEF TaskStatus, Start, Succeed, Fail, Cancel, IsFinishable, IsCancelable

LEMMA WaitInit == Init => WaitInv
BY DEF Init, WaitInv, TypeOK, NoLostWakeup, Registered, TaskStatus, Threads, Places

LEMMA WaitStep == WaitInv /\ [Next]_vars => WaitInv'
<1> SUFFICES ASSUME WaitInv, [Next]_vars PROVE WaitInv'
  OBVIOUS
<1> USE DEF WaitInv, TypeOK, Places
<1>1. ASSUME NEW c \in Threads, NEW new \in TaskStatus, Change(c, new) PROVE WaitInv'
  <2>1. TypeOK'
    BY <1>1 DEF Change
  <2>2. NoLostWakeup'
    <3>1. CASE new = status
      <4>1. \A d \in Threads : due[d] => d # c
        BY <1>1 DEF Change
      <4>2. \A d \in Threads : due[d] => due'[d]
        BY <1>1, <4>1 DEF Change
      <4> QED
        BY <1>1, <3>1, <4>2 DEF Change, NoLostWakeup, Ready
    <3>2. CASE new # status
      BY <1>1, <3>2 DEF Change, NoLostWakeup
    <3> QED
      BY <3>1, <3>2
  <2>3. \A w \in Waiters : Registered(w)'
    BY <1>1 DEF Change, Registered
  <2> QED
    BY <2>1, <2>2, <2>3
<1>2. CASE WorkerStarts
  BY <1>1, <1>2, StatusSteps DEF WorkerStarts, Threads
<1>3. CASE ListSettles
  BY <1>1, <1>3, StatusSteps DEF ListSettles, Threads
<1>4. ASSUME NEW c \in Threads, NotifyWaiters(c) PROVE WaitInv'
  BY <1>4 DEF NotifyWaiters, NoLostWakeup, Registered
<1>5. ASSUME NEW w \in Waiters, Look(w) PROVE WaitInv'
  BY <1>5 DEF Look, NoLostWakeup, Ready, Registered
<1>6. ASSUME NEW w \in Waiters, Register(w) PROVE WaitInv'
  BY <1>6 DEF Register, NoLostWakeup, Ready, Registered
<1>7. ASSUME NEW w \in Waiters, Relook(w) PROVE WaitInv'
  BY <1>7 DEF Relook, NoLostWakeup, Ready, Registered
<1>8. ASSUME NEW w \in Waiters, Wake(w) \/ GiveUp(w) PROVE WaitInv'
  BY <1>8 DEF Wake, GiveUp, NoLostWakeup, Ready, Registered
<1>9. CASE UNCHANGED vars
  BY <1>9 DEF vars, NoLostWakeup, Ready, Registered
<1> QED
  BY <1>2, <1>3, <1>4, <1>5, <1>6, <1>7, <1>8, <1>9 DEF Next, WaiterStep

(* A waiter that sleeps although the task is as he wants it is about to be *)
(* woken: the second look after registering closes the gap.                *)
THEOREM WakeupsKept == Spec => []NoLostWakeup
BY WaitInit, WaitStep, PTL DEF Spec, WaitInv
=============================================================================
