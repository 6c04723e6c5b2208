--------------------------- MODULE SchedulerProofs ---------------------------
(***************************************************************************)
(* Proofs about Scheduler, for any set of tasks and any bounds, and at the *)
(* end about Preloads, for any files and preloaders.                       *)
(***************************************************************************)
EXTENDS Preloads, FiniteSetTheorems, TLAPS

(* How many elements of sequence s are in X. *)
Places(s, X)      == {i \in 1..Len(s) : s[i] \in X}
Occurrences(s, X) == Cardinality(Places(s, X))

LEMMA OccurrencesType ==
  ASSUME NEW S, NEW s \in Seq(S), NEW X
  PROVE  IsFiniteSet(Places(s, X)) /\ Occurrences(s, X) \in Nat
<1>1. IsFiniteSet(1..Len(s))
  BY FS_Interval
<1>2. Places(s, X) \in SUBSET (1..Len(s))
  BY DEF Places
<1> QED
  BY <1>1, <1>2, FS_Subset, FS_CardinalityType DEF Occurrences

(* No member, no occurrence, and the other way round. *)
LEMMA OccurrencesZero ==
  ASSUME NEW S, NEW s \in Seq(S), NEW X
  PROVE  Occurrences(s, X) = 0 <=> \A i \in 1..Len(s) : s[i] \notin X
<1>1. Occurrences(s, X) = 0 <=> Places(s, X) = {}
  BY OccurrencesType, FS_EmptySet DEF Occurrences
<1> QED
  BY <1>1 DEF Places

(* An element that is queued counts if it is one of X. *)
LEMMA OccurrencesAppend ==
  ASSUME NEW S, NEW s \in Seq(S), NEW e \in S, NEW X
  PROVE  Occurrences(Append(s, e), X) = Occurrences(s, X) + (IF e \in X THEN 1 ELSE 0)
<1> DEFINE n == Len(s) + 1
<1>1. /\ Len(s) \in Nat /\ Len(Append(s, e)) = n /\ Append(s, e)[n] = e
      /\ \A i \in 1..Len(s) : Append(s, e)[i] = s[i]
  OBVIOUS
<1>2. n \notin Places(s, X) /\ IsFiniteSet(Places(s, X)) /\ Occurrences(s, X) \in Nat
  <2>1. n \notin Places(s, X)
    BY <1>1 DEF Places
  <2> QED
    BY <2>1, OccurrencesType
<1>3. CASE e \in X
  <2>1. Places(Append(s, e), X) = Places(s, X) \cup {n}
    BY <1>1, <1>3 DEF Places
  <2> QED
    BY <1>2, <1>3, <2>1, FS_AddElement DEF Occurrences
<1>4. CASE e \notin X
  <2>1. Places(Append(s, e), X) = Places(s, X)
    BY <1>1, <1>4 DEF Places
  <2> QED
    BY <1>2, <1>4, <2>1 DEF Occurrences
<1> QED
  BY <1>3, <1>4

(* The element that is taken no longer counts. *)
LEMMA OccurrencesTail ==
  ASSUME NEW S, NEW s \in Seq(S), s # <<>>, NEW X
  PROVE  Occurrences(s, X) = Occurrences(Tail(s), X) + (IF Head(s) \in X THEN 1 ELSE 0)
<1> DEFINE P == Places(Tail(s), X)
           R == Places(s, X) \ {1}
           f == [i \in P |-> i + 1]
<1>1. /\ Tail(s) \in Seq(S) /\ Len(s) \in Nat \ {0} /\ Len(Tail(s)) = Len(s) - 1
      /\ Head(s) = s[1]
      /\ \A i \in 1..Len(Tail(s)) : Tail(s)[i] = s[i + 1]
  OBVIOUS
<1>2. ExistsBijection(P, R)
  <2>1. f \in [P -> R] /\ \A i, j \in P : f[i] = f[j] => i = j
    BY <1>1 DEF Places
  <2>2. \A j \in R : \E i \in P : f[i] = j
    <3> TAKE j \in R
    <3>1. j - 1 \in P
      BY <1>1 DEF Places
    <3>2. j - 1 \in P /\ f[j - 1] = j
      BY <3>1, <1>1 DEF Places
    <3> QED
      BY <3>2
  <2>3. f \in Bijection(P, R)
    BY <2>1, <2>2 DEF Bijection, Injection, IsInjective, Surjection
  <2> QED
    BY <2>3 DEF ExistsBijection
<1>3. IsFiniteSet(P) /\ IsFiniteSet(Places(s, X)) /\ Occurrences(s, X) \in Nat
  BY <1>1, OccurrencesType
<1>4. Cardinality(R) = Cardinality(P)
  BY <1>2, <1>3, FS_Bijection
<1>5. Cardinality(R) = IF 1 \in Places(s, X) THEN Occurrences(s, X) - 1 ELSE Occurrences(s, X)
  BY <1>3, FS_RemoveElement DEF Occurrences
<1>6. 1 \in Places(s, X) <=> Head(s) \in X
  BY <1>1 DEF Places
<1> QED
  BY <1>3, <1>4, <1>5, <1>6 DEF Occurrences

-----------------------------------------------------------------------------
(* Types. *)

(* The reducers keep a progress record a progress record. *)
LEMMA ReduceType ==
  ASSUME NEW k, NEW p \in Progress, NEW out
  PROVE  Reduce(k, p, out) \in Progress
<1>1. \A v \in {"True", "False"} : Settle(k, p, v) \in Progress
  BY DEF Settle, Progress
<1>2. CASE out \in {"Succ", "Fail"}
  BY <1>1, <1>2 DEF Reduce
<1>3. CASE out \in {"New", "Deform", "ItemSucc", "ItemFail"}
  <2>1. CASE out = "New"
    BY <2>1 DEF Reduce, Progress
  <2>2. CASE out = "Deform"
    <3>1. Reduce(k, p, out) = [[p EXCEPT !.total = @ + 1] EXCEPT !.failed = @ + 1]
      BY <2>2 DEF Reduce, Progress
    <3>2. [p EXCEPT !.total = @ + 1] \in Progress
      BY DEF Progress
    <3>3. \A r \in Progress : [r EXCEPT !.failed = @ + 1] \in Progress
      BY DEF Progress
    <3> QED
      BY <3>1, <3>2, <3>3
  <2>3. CASE out = "ItemSucc"
    BY <2>3 DEF Reduce, Progress
  <2>4. CASE out = "ItemFail"
    BY <2>4 DEF Reduce, Progress
  <2> QED
    BY <1>3, <2>1, <2>2, <2>3, <2>4
<1>4. CASE out \in {"BadDelta", "Clean", "CleanErr"}
  BY <1>4 DEF Reduce, Progress
<1>5. CASE out \notin {"Succ", "Fail", "New", "Deform", "ItemSucc", "ItemFail",
                      "BadDelta", "Clean", "CleanErr"}
  BY <1>5 DEF Reduce
<1> QED
  BY <1>2, <1>3, <1>4, <1>5

(* The compare-and-swaps of the handle stay within TaskStatus. *)
LEMMA StatusType ==
  ASSUME NEW s \in TaskStatus
  PROVE  /\ Start(s) \in TaskStatus
         /\ Succeed(s) \in TaskStatus
         /\ Fail(s) \in TaskStatus
         /\ Cancel(s) \in TaskStatus
BY DEF Start, Succeed, Fail, Cancel, TaskStatus

LEMMA PoolsOfType ==
  ASSUME NEW k, NEW p \in PoolsOf(k), k \in AllKinds
  PROVE  p \in Pools \cup {"none"}
BY DEF PoolsOf, Pools, AllKinds, Cleaning, Collecting, Plain

LEMMA EmitType ==
  ASSUME ops \in [Tasks -> Seq(Outs)], NEW t \in Tasks, NEW out \in Outs, Emit(t, out)
  PROVE  ops' \in [Tasks -> Seq(Outs)]
BY DEF Emit

LEMMA InitType == Init => TypeOK
BY DEF Init, TypeOK, TaskStatus, Progress, DefaultProg, MainPhases

LEMMA ApplicationType ==
  ASSUME TypeOK, NEW t \in Tasks, Application(t)
  PROVE  TypeOK'
<1> USE DEF TypeOK, identity, entry, work, hooks
<1>1. ASSUME NEW k \in Kinds, NEW p \in PoolsOf(k), Add(t, k, p)
      PROVE  TypeOK'
  <2>1. p \in Pools \cup {"none"} /\ Start(status[t]) \in TaskStatus
    BY <1>1, PoolsOfType, StatusType, KindsAssumption
  <2>2. status' \in [Tasks -> TaskStatus] /\ main' \in [Tasks -> MainPhases]
    BY <1>1, <2>1 DEF Add, MainPhases
  <2> QED
    BY <1>1, <2>1, <2>2 DEF Add, Enlist
<1>2. ASSUME NEW k \in Kinds, NEW p \in PoolsOf(k), Reject(t, k, p)
      PROVE  TypeOK'
  BY <1>2, PoolsOfType, KindsAssumption DEF Reject, Enlist, Emit, Outs
<1>3. ASSUME NEW prev \in Tasks, "Preload" \in Kinds, Supersede(t, prev)
      PROVE  TypeOK'
  <2>1. Cancel(status[prev]) \in TaskStatus
    BY <1>3, StatusType
  <2>2. hookq' \in [Tasks -> Nat] /\ listed' \subseteq Tasks
    BY <1>3, SMTT(60) DEF Supersede, Submit, Keep
  <2> QED
    BY <1>3, <2>1, <2>2 DEF Supersede, Enlist, Pools, MainPhases
<1>4. CASE UserCancel(t)
  BY <1>4, StatusType DEF UserCancel, CancelEntry, Submit, Keep
<1>5. CASE ScopeCancel(t)
  BY <1>5 DEF ScopeCancel
<1>6. CASE PluginOutput(t)
  BY <1>6 DEF PluginOutput, Emit, Outs
<1> QED
  BY <1>1, <1>2, <1>3, <1>4, <1>5, <1>6 DEF Application

LEMMA WorkerType ==
  ASSUME TypeOK, NEW t \in Tasks, Worker(t)
  PROVE  TypeOK'
<1> USE DEF TypeOK, identity, entry, work, hooks
<1>1. CASE Receive(t)
  <2>1. Start(status[t]) \in TaskStatus
    BY StatusType
  <2>2. status' \in [Tasks -> TaskStatus] /\ main' \in [Tasks -> MainPhases]
    BY <1>1, <2>1, ZenonT(60) DEF Receive, MainPhases
  <2> QED
    BY <1>1, <2>2 DEF Receive
<1>2. CASE ReceiveItem(t)
  <2>1. Start(status[t]) \in TaskStatus
    BY StatusType
  <2>2. /\ status' \in [Tasks -> TaskStatus]
        /\ doing' \in [Tasks -> Nat] /\ todo' \in [Tasks -> Nat]
    <3>1. todo' \in [Tasks -> Nat]
      BY <1>2 DEF ReceiveItem
    <3>2. CASE t \in listed
      <4>1. doing' = [doing EXCEPT ![t] = @ + 1] /\ status' = [status EXCEPT ![t] = Start(@)]
        BY <1>2, <3>2 DEF ReceiveItem
      <4> QED
        BY <2>1, <3>1, <4>1
    <3>3. CASE t \notin listed
      BY <1>2, <3>1, <3>3 DEF ReceiveItem
    <3> QED
      BY <3>2, <3>3
  <2> QED
    BY <1>2, <2>2 DEF ReceiveItem
<1>3. CASE Walk(t)
  <2>1. ops' \in [Tasks -> Seq(Outs)] /\ main' \in [Tasks -> MainPhases]
    <3>1. CASE kind[t] \in HookedByOp
      BY <1>3, <3>1, EmitType DEF Walk, Outs, MainPhases
    <3>2. CASE kind[t] \notin HookedByOp
      BY <1>3, <3>2 DEF Walk, MainPhases
    <3> QED
      BY <3>1, <3>2
  <2> QED
    BY <1>3, <2>1 DEF Walk
<1>4. CASE Announce(t)
  BY <1>4, SMTT(60) DEF Announce, Emit, Outs
<1>5. CASE Deform(t)
  BY <1>5, SMTT(60) DEF Deform, Emit, Outs
<1>6. CASE Collect(t)
  BY <1>6 DEF Collect, Emit, Outs, MainPhases
<1>7. CASE Abort(t)
  BY <1>7 DEF Abort, Emit, Outs, MainPhases
<1>8. CASE Relay(t)
  <2>1. ops' \in [Tasks -> Seq(Outs)] /\ main' \in [Tasks -> MainPhases]
    <3>1. CASE kind[t] \in HookedByOp
      BY <1>8, <3>1, EmitType DEF Relay, Outs, MainPhases
    <3>2. CASE kind[t] \notin HookedByOp
      BY <1>8, <3>2 DEF Relay, MainPhases
    <3> QED
      BY <3>1, <3>2
  <2>2. todo' \in [Tasks -> Nat]
    BY <1>8 DEF Relay
  <2> QED
    BY <1>8, <2>1, <2>2 DEF Relay
<1>9. CASE Remove(t)
  BY <1>9, SMTT(60) DEF Remove, Emit, Outs
<1>10. CASE Finish(t)
  BY <1>10 DEF Finish, Verdicts, Emit, Outs, MainPhases
<1>11. CASE FinishItem(t)
  BY <1>11 DEF FinishItem, ItemVerdicts, Emit, Outs
<1>12. CASE WorkerCancel(t)
  <2>1. Cancel(status[t]) \in TaskStatus
    BY StatusType
  <2>2. main' \in [Tasks -> MainPhases]
    BY <1>12 DEF WorkerCancel, MainPhases
  <2>3. CASE t \in listed
    <3>1. CancelEntry(t)
      BY <1>12, <2>3 DEF WorkerCancel
    <3>2. hookq' \in [Tasks -> Nat]
      BY <3>1 DEF CancelEntry, Submit
    <3> QED
      BY <1>12, <2>1, <2>2, <3>1, <3>2 DEF WorkerCancel, CancelEntry
  <2>4. CASE t \notin listed
    BY <1>12, <2>2, <2>4 DEF WorkerCancel
  <2> QED
    BY <2>3, <2>4
<1>13. CASE Drop(t)
  BY <1>13 DEF Drop, MainPhases
<1>14. CASE DropItem(t)
  BY <1>14 DEF DropItem
<1> QED
  BY <1>1, <1>2, <1>3, <1>4, <1>5, <1>6, <1>7, <1>8, <1>9, <1>10, <1>11, <1>12, <1>13,
     <1>14
  DEF Worker, WorkStep, WalkStep

LEMMA OpLoopType ==
  ASSUME TypeOK, NEW t \in Tasks, OpLoop(t)
  PROVE  TypeOK'
<1> USE DEF TypeOK, identity, entry, work, hooks
<1>1. Tail(ops[t]) \in Seq(Outs) /\ TakeOp(t) => ops' \in [Tasks -> Seq(Outs)]
  BY DEF TakeOp
<1>2. TakeOp(t) => ops' \in [Tasks -> Seq(Outs)]
  BY <1>1 DEF TakeOp
<1>3. ProgAfter(t) \in Progress
  BY ReduceType DEF ProgAfter
<1>4. StatusAfter(t) \in TaskStatus /\ Succeed(StatusAfter(t)) \in TaskStatus
  BY StatusType DEF StatusAfter
<1>5. ReduceOp(t) => /\ prog' \in [Tasks -> Progress]
                     /\ scope' \in [Tasks -> BOOLEAN]
                     /\ reports' \in [Tasks -> Nat]
                     /\ UNCHANGED <<identity, work, hooking>>
                     /\ ops' \in [Tasks -> Seq(Outs)]
  BY <1>2, <1>3 DEF ReduceOp, Told
<1>6. HookAfter(t) \in BOOLEAN
  BY DEF HookAfter
<1>7. CASE OpSkip(t)
  BY <1>2, <1>7 DEF OpSkip
<1>8. CASE OpWait(t)
  BY <1>4, <1>5, <1>6, <1>8 DEF OpWait
<1>9. CASE OpHook(t)
  BY <1>4, <1>5, <1>9 DEF OpHook
<1>10. CASE OpFulfill(t)
  BY <1>4, <1>5, <1>10 DEF OpFulfill
<1> QED
  BY <1>7, <1>8, <1>9, <1>10 DEF OpLoop

LEMMA HookWorkerType ==
  ASSUME TypeOK, NEW t \in Tasks, HookWorker(t)
  PROVE  TypeOK'
<1> USE DEF TypeOK, identity, entry, work, hooks
<1>1. CASE HookReceive(t)
  BY <1>1 DEF HookReceive
<1>2. CASE HookCheck(t)
  BY <1>2 DEF HookCheck
<1>3. CASE HookFinish(t)
  BY <1>3, SMTT(60) DEF HookFinish, Emit, Outs
<1> QED
  BY <1>1, <1>2, <1>3 DEF HookWorker

LEMMA TypeStep == TypeOK /\ [Next]_vars => TypeOK'
<1> SUFFICES ASSUME TypeOK, [Next]_vars PROVE TypeOK'
  OBVIOUS
<1>1. CASE Next
  BY <1>1, ApplicationType, WorkerType, OpLoopType, HookWorkerType DEF Next
<1>2. CASE UNCHANGED vars
  BY <1>2 DEF TypeOK, vars, identity, entry, work, hooks
<1> QED
  BY <1>1, <1>2

(* Every variable keeps its type, whatever the tasks do. *)
THEOREM TypeCorrect == Spec => []TypeOK
BY InitType, TypeStep, PTL DEF Spec

-----------------------------------------------------------------------------
(* Handles of tasks that left the list. *)

LEMMA CancelSettles ==
  ASSUME NEW s \in TaskStatus
  PROVE  Cancel(s) \in {"Succeeded", "Canceled"}
BY DEF Cancel, IsCancelable, TaskStatus

LEMMA ApplicationHandle ==
  ASSUME TypeOK, NoHandleForgotten, NEW t \in Tasks, Application(t)
  PROVE  NoHandleForgotten'
<1> USE DEF identity, entry, work, hooks
<1>1. ASSUME NEW k \in Kinds, NEW p \in PoolsOf(k), Add(t, k, p)
      PROVE  NoHandleForgotten'
  BY <1>1 DEF Add, Enlist, TypeOK, NoHandleForgotten
<1>2. ASSUME NEW k \in Kinds, NEW p \in PoolsOf(k), Reject(t, k, p)
      PROVE  NoHandleForgotten'
  BY <1>2 DEF Reject, Enlist, TypeOK, NoHandleForgotten
<1>3. ASSUME NEW prev \in Tasks \ {t}, Supersede(t, prev)
      PROVE  NoHandleForgotten'
  BY <1>3, CancelSettles DEF Supersede, Enlist, Keep, TypeOK, NoHandleForgotten
<1>4. CASE UserCancel(t)
  BY <1>4, CancelSettles DEF UserCancel, CancelEntry, Keep, TypeOK, NoHandleForgotten
<1>5. CASE ScopeCancel(t) \/ PluginOutput(t)
  BY <1>5 DEF ScopeCancel, PluginOutput, NoHandleForgotten
<1> QED
  BY <1>1, <1>2, <1>3, <1>4, <1>5 DEF Application

LEMMA WorkerHandle ==
  ASSUME TypeOK, NoHandleForgotten, NEW t \in Tasks, Worker(t)
  PROVE  NoHandleForgotten'
<1> USE DEF identity, entry, work, hooks
<1>1. CASE Receive(t) \/ ReceiveItem(t)
  BY <1>1 DEF Receive, ReceiveItem, TypeOK, NoHandleForgotten
<1>2. CASE WorkerCancel(t)
  <2>1. CASE t \in listed
    <3>1. CancelEntry(t) /\ kind' = kind
      BY <1>2, <2>1 DEF WorkerCancel
    <3> QED
      BY <3>1, CancelSettles DEF CancelEntry, Keep, TypeOK, NoHandleForgotten
  <2>2. CASE t \notin listed
    BY <1>2, <2>2 DEF WorkerCancel, NoHandleForgotten
  <2> QED
    BY <2>1, <2>2
<1>3. CASE UNCHANGED <<kind, listed, status>>
  BY <1>3 DEF NoHandleForgotten
<1> QED
  BY <1>1, <1>2, <1>3
  DEF Worker, WorkStep, WalkStep, Walk, Announce, Deform, Collect, Abort, Relay, Remove,
      Finish, FinishItem, Drop, DropItem

LEMMA OpLoopHandle ==
  ASSUME TypeOK, NoHandleForgotten, NEW t \in Tasks, OpLoop(t)
  PROVE  NoHandleForgotten'
<1> USE DEF identity, entry, work, hooks
<1>1. CASE OpSkip(t)
  BY <1>1 DEF OpSkip, NoHandleForgotten
<1>2. CASE OpWait(t) \/ OpHook(t)
  BY <1>2 DEF OpWait, OpHook, ReduceOp, TypeOK, NoHandleForgotten
<1>3. CASE OpFulfill(t)
  <2>1. StatusAfter(t) \in TaskStatus \ {"Failed"}
    BY <1>3, StatusType DEF OpFulfill, Halted, StatusAfter, TypeOK
  <2>2. Succeed(StatusAfter(t)) \in {"Succeeded", "Canceled"}
    BY <2>1 DEF Succeed, IsFinishable, TaskStatus
  <2> QED
    BY <1>3, <2>2 DEF OpFulfill, ReduceOp, TypeOK, NoHandleForgotten
<1> QED
  BY <1>1, <1>2, <1>3 DEF OpLoop

(* Whoever awaits the handle of a task that has left the list is told.     *)
THEOREM HandlesSettled == Spec => []NoHandleForgotten
<1>1. Init => NoHandleForgotten
  BY DEF Init, NoHandleForgotten
<1>2. TypeOK /\ NoHandleForgotten /\ [Next]_vars => NoHandleForgotten'
  <2> SUFFICES ASSUME TypeOK, NoHandleForgotten, [Next]_vars PROVE NoHandleForgotten'
    OBVIOUS
  <2>1. CASE \E t \in Tasks : HookWorker(t)
    BY <2>1
    DEF HookWorker, HookReceive, HookCheck, HookFinish, identity, entry, NoHandleForgotten
  <2>2. CASE UNCHANGED vars
    BY <2>2 DEF vars, identity, entry, NoHandleForgotten
  <2> QED
    BY <2>1, <2>2, ApplicationHandle, WorkerHandle, OpLoopHandle DEF Next
<1> QED
  BY TypeCorrect, <1>1, <1>2, PTL DEF Spec

-----------------------------------------------------------------------------
(* The cleanup hook of a task is in one place at a time: the inductive     *)
(* invariant behind HookIsSingle and its proof.                            *)


(* No cleanup of t is on its way to the operation loop. *)
NoHookOp(t) == \A i \in 1..Len(ops[t]) : ops[t][i] # "Hook"

AtRest(t) == ~hook[t] /\ hookq[t] = 0 /\ hooking[t] = "none"

(* A copy, move, link or hardlink whose destination is not settled. *)
Unsettled(t) == kind[t] \in HookedByOp /\ main[t] \in {"queued", "fresh"}

(* HookIsSingle says nothing of a hook that is still an operation, nor of  *)
(* one that does not exist yet; a second one must not come from there.     *)
HookInOnePlace(t) ==
  /\ kind[t] = "None" \/ Unsettled(t) => AtRest(t)
  /\ kind[t] \notin HookedByOp \/ Unsettled(t) => NoHookOp(t)
  /\ ~AtRest(t) => NoHookOp(t)
  /\ hook[t] => hookq[t] = 0 /\ hooking[t] = "none"
  /\ hookq[t] <= 1
  /\ hookq[t] = 1 => hooking[t] = "none"
  /\ \A i, j \in 1..Len(ops[t]) : ops[t][i] = "Hook" /\ ops[t][j] = "Hook" => i = j

HookInv == \A t \in Tasks : HookInOnePlace(t)

LEMMA TwoWaysToHook == HookedAtAdd \cap HookedByOp = {}
BY DEF HookedAtAdd, HookedByOp

LEMMA HookInit == Init => HookInv
BY DEF Init, HookInv, HookInOnePlace, NoHookOp, AtRest, Unsettled, HookedByOp

LEMMA HookImplied == TypeOK /\ HookInv => HookIsSingle
BY DEF TypeOK, HookInv, HookInOnePlace, AtRest, HookIsSingle

(* Nothing about t but its status, its items or its progress changes, and  *)
(* nobody reports a hook.                                                  *)
SameHook(t) ==
  /\ kind'[t] = kind[t]
  /\ hook'[t] = hook[t]
  /\ hookq'[t] = hookq[t]
  /\ main'[t] \in {"queued", "fresh"} => main[t] \in {"queued", "fresh"}

LEMMA SameHookKeeps ==
  ASSUME TypeOK, NEW t \in Tasks, HookInOnePlace(t), SameHook(t),
         hooking'[t] = hooking[t], ops'[t] = ops[t]
  PROVE  HookInOnePlace(t)'
BY DEF HookInOnePlace, SameHook, NoHookOp, AtRest, Unsettled

LEMMA ReportKeeps ==
  ASSUME TypeOK, NEW t \in Tasks, HookInOnePlace(t), SameHook(t),
         hooking'[t] = hooking[t],
         NEW out \in Outs \ {"Hook"}, ops'[t] = Append(ops[t], out)
  PROVE  HookInOnePlace(t)'
<1>1. /\ Len(ops'[t]) = Len(ops[t]) + 1
      /\ ops'[t][Len(ops[t]) + 1] = out
      /\ \A i \in 1..Len(ops[t]) : ops'[t][i] = ops[t][i]
      /\ Len(ops[t]) \in Nat
  BY DEF TypeOK
<1>2. NoHookOp(t) => NoHookOp(t)'
  BY <1>1 DEF NoHookOp
<1>3. (\A i, j \in 1..Len(ops[t]) : ops[t][i] = "Hook" /\ ops[t][j] = "Hook" => i = j)'
  BY <1>1 DEF HookInOnePlace
<1> QED
  BY <1>2, <1>3 DEF HookInOnePlace, SameHook, AtRest, Unsettled

(* What is left of the channel once an operation is taken. *)
LEMMA TakeKeeps ==
  ASSUME TypeOK, NEW t \in Tasks, HookInOnePlace(t), TakeOp(t)
  PROVE  /\ NoHookOp(t) => NoHookOp(t)' /\ Op(t) # "Hook"
         /\ Op(t) = "Hook" => NoHookOp(t)'
         /\ (\A i, j \in 1..Len(ops[t]) : ops[t][i] = "Hook" /\ ops[t][j] = "Hook" => i = j)'
<1>1. /\ ops'[t] = Tail(ops[t])
      /\ Len(ops'[t]) = Len(ops[t]) - 1
      /\ Len(ops[t]) \in Nat \ {0}
      /\ \A i \in 1..Len(ops'[t]) : ops'[t][i] = ops[t][i + 1]
      /\ Op(t) = ops[t][1]
  BY DEF TypeOK, TakeOp, Op
<1>2. NoHookOp(t) => NoHookOp(t)' /\ Op(t) # "Hook"
  BY <1>1 DEF NoHookOp
<1>3. Op(t) = "Hook" => NoHookOp(t)'
  <2> SUFFICES ASSUME Op(t) = "Hook", NEW i \in 1..Len(ops'[t]), ops'[t][i] = "Hook"
               PROVE  FALSE
    BY DEF NoHookOp
  <2>1. ops[t][1] = "Hook" /\ ops[t][i + 1] = "Hook"
    BY <1>1
  <2>2. 1 \in 1..Len(ops[t]) /\ i + 1 \in 1..Len(ops[t])
    BY <1>1
  <2>3. 1 = i + 1
    BY <2>1, <2>2 DEF HookInOnePlace
  <2> QED
    BY <2>3
<1>4. (\A i, j \in 1..Len(ops[t]) : ops[t][i] = "Hook" /\ ops[t][j] = "Hook" => i = j)'
  <2> SUFFICES ASSUME NEW i \in 1..Len(ops'[t]), NEW j \in 1..Len(ops'[t]),
                      ops'[t][i] = "Hook", ops'[t][j] = "Hook"
               PROVE  i = j
    OBVIOUS
  <2>1. ops[t][i + 1] = "Hook" /\ ops[t][j + 1] = "Hook"
    BY <1>1
  <2>2. i + 1 \in 1..Len(ops[t]) /\ j + 1 \in 1..Len(ops[t])
    BY <1>1
  <2>3. i + 1 = j + 1
    BY <2>1, <2>2 DEF HookInOnePlace
  <2> QED
    BY <2>3
<1> QED
  BY <1>2, <1>3, <1>4

(* Canceling moves the hook from the entry to the channel. *)
LEMMA CancelMovesHook ==
  ASSUME TypeOK, NEW t \in Tasks, HookInOnePlace(t),
         kind'[t] = kind[t], hooking'[t] = hooking[t], ops'[t] = ops[t],
         main'[t] \in {"queued", "fresh"} => main[t] \in {"queued", "fresh"},
         hook'[t] = FALSE,
         hookq'[t] = hookq[t] + (IF hook[t] THEN 1 ELSE 0)
  PROVE  HookInOnePlace(t)'
<1>1. CASE hook[t]
  BY <1>1 DEF TypeOK, HookInOnePlace, NoHookOp, AtRest, Unsettled
<1>2. CASE ~hook[t]
  <2>1. hookq'[t] = hookq[t]
    BY <1>2 DEF TypeOK
  <2> QED
    BY <1>2, <2>1, SameHookKeeps DEF SameHook, TypeOK
<1> QED
  BY <1>1, <1>2 DEF TypeOK

(* A step about one task leaves the hooks of the others alone. *)
LEMMA OtherTasks ==
  ASSUME TypeOK, HookInv, NEW t \in Tasks, NEW u \in Tasks \ {t},
         SameHook(u), hooking'[u] = hooking[u], ops'[u] = ops[u]
  PROVE  HookInOnePlace(u)'
BY SameHookKeeps DEF HookInv

LEMMA ApplicationHook ==
  ASSUME TypeOK, HookInv, NEW t \in Tasks, Application(t)
  PROVE  HookInv'
<1> USE DEF identity, entry, work, hooks
<1>1. HookInOnePlace(t)
  BY DEF HookInv
<1>2. ASSUME NEW k \in Kinds, NEW p \in PoolsOf(k), Add(t, k, p)
      PROVE  HookInv'
  <2>1. /\ kind'[t] = k /\ hookq'[t] = 0 /\ hooking'[t] = "none"
        /\ hook'[t] = (k \in HookedAtAdd) /\ ops' = ops
    BY <1>1, <1>2 DEF Add, Enlist, TypeOK, HookInOnePlace, AtRest
  <2>2. NoHookOp(t)
    BY <1>1, <1>2 DEF Add, Enlist, HookInOnePlace, HookedByOp
  <2>3. HookInOnePlace(t)'
    <3>1. NoHookOp(t)'
      BY <2>1, <2>2 DEF NoHookOp
    <3>2. Unsettled(t)' => AtRest(t)'
      BY <2>1, TwoWaysToHook DEF Unsettled, AtRest
    <3>3. kind'[t] # "None"
      BY <1>2, <2>1, KindsAssumption DEF AllKinds, Cleaning, Collecting, Plain
    <3> QED
      BY <2>1, <3>1, <3>2, <3>3 DEF HookInOnePlace, NoHookOp, AtRest
  <2>4. \A u \in Tasks \ {t} : SameHook(u) /\ hooking'[u] = hooking[u] /\ ops'[u] = ops[u]
    BY <1>2 DEF Add, Enlist, TypeOK, SameHook
  <2> QED
    BY <2>3, <2>4, OtherTasks DEF HookInv
<1>3. ASSUME NEW k \in Kinds, NEW p \in PoolsOf(k), Reject(t, k, p)
      PROVE  HookInv'
  <2>1. /\ kind'[t] = k /\ hookq'[t] = 0 /\ hooking'[t] = "none"
        /\ hook'[t] = (k \in HookedAtAdd) /\ ops'[t] = Append(ops[t], "Fail")
    BY <1>1, <1>3 DEF Reject, Enlist, Emit, TypeOK, HookInOnePlace, AtRest
  <2>2. NoHookOp(t)
    BY <1>1, <1>3 DEF Reject, Enlist, HookInOnePlace, HookedByOp
  <2>3. NoHookOp(t)'
    BY <2>1, <2>2 DEF NoHookOp, TypeOK
  <2>4. HookInOnePlace(t)'
    <3>1. Unsettled(t)' => AtRest(t)'
      BY <2>1, TwoWaysToHook DEF Unsettled, AtRest
    <3>2. kind'[t] # "None"
      BY <1>3, <2>1, KindsAssumption DEF AllKinds, Cleaning, Collecting, Plain
    <3> QED
      BY <2>1, <2>3, <3>1, <3>2 DEF HookInOnePlace, NoHookOp, AtRest
  <2>5. \A u \in Tasks \ {t} : SameHook(u) /\ hooking'[u] = hooking[u] /\ ops'[u] = ops[u]
    BY <1>3 DEF Reject, Enlist, Emit, TypeOK, SameHook
  <2> QED
    BY <2>4, <2>5, OtherTasks DEF HookInv
<1>4. ASSUME NEW prev \in Tasks \ {t}, Supersede(t, prev)
      PROVE  HookInv'
  <2>1. /\ kind'[t] = "Preload" /\ hookq'[t] = 0 /\ hooking'[t] = "none"
        /\ hook'[t] = TRUE /\ ops' = ops
    BY <1>1, <1>4 DEF Supersede, Enlist, Submit, TypeOK, HookInOnePlace, AtRest
  <2>2. NoHookOp(t)
    BY <1>1, <1>4 DEF Supersede, Enlist, HookInOnePlace, HookedByOp
  <2>3. HookInOnePlace(t)'
    BY <2>1, <2>2 DEF HookInOnePlace, NoHookOp, AtRest, Unsettled, HookedByOp
  <2>4. HookInOnePlace(prev)'
    <3>1. /\ kind'[prev] = kind[prev] /\ hooking'[prev] = hooking[prev]
          /\ ops'[prev] = ops[prev] /\ main'[prev] = main[prev]
          /\ hook'[prev] = FALSE
          /\ hookq'[prev] = hookq[prev] + (IF hook[prev] THEN 1 ELSE 0)
      BY <1>4 DEF Supersede, Enlist, Submit, TypeOK
    <3> QED
      BY <3>1, CancelMovesHook DEF HookInv
  <2>5. \A u \in Tasks \ {t, prev} :
           SameHook(u) /\ hooking'[u] = hooking[u] /\ ops'[u] = ops[u]
    BY <1>4 DEF Supersede, Enlist, Submit, TypeOK, SameHook
  <2> QED
    BY <2>3, <2>4, <2>5, OtherTasks DEF HookInv
<1>5. CASE UserCancel(t)
  <2>1. HookInOnePlace(t)'
    BY <1>1, <1>5, CancelMovesHook DEF UserCancel, CancelEntry, Submit, TypeOK
  <2>2. \A u \in Tasks \ {t} : SameHook(u) /\ hooking'[u] = hooking[u] /\ ops'[u] = ops[u]
    BY <1>5 DEF UserCancel, CancelEntry, Submit, TypeOK, SameHook
  <2> QED
    BY <2>1, <2>2, OtherTasks DEF HookInv
<1>6. CASE ScopeCancel(t)
  BY <1>6, SameHookKeeps DEF ScopeCancel, SameHook, HookInv
<1>7. CASE PluginOutput(t)
  <2>1. PICK out \in Outs \ {"Hook"} : Emit(t, out)
    BY <1>7 DEF PluginOutput, Outs
  <2>2. HookInOnePlace(t)'
    BY <1>1, <1>7, <2>1, ReportKeeps DEF PluginOutput, Emit, TypeOK, SameHook
  <2>3. \A u \in Tasks \ {t} : SameHook(u) /\ hooking'[u] = hooking[u] /\ ops'[u] = ops[u]
    BY <1>7, <2>1 DEF PluginOutput, Emit, TypeOK, SameHook
  <2> QED
    BY <2>2, <2>3, OtherTasks DEF HookInv
<1> QED
  BY <1>2, <1>3, <1>4, <1>5, <1>6, <1>7 DEF Application

(* A worker that reports something else than a hook. *)
LEMMA ReportStep ==
  ASSUME TypeOK, HookInv, NEW t \in Tasks, NEW out \in Outs \ {"Hook"}, Emit(t, out),
         kind' = kind, hook' = hook, hookq' = hookq, hooking' = hooking,
         \A u \in Tasks \ {t} : main'[u] = main[u],
         main'[t] \in {"queued", "fresh"} => main[t] \in {"queued", "fresh"}
  PROVE  HookInv'
<1>1. HookInOnePlace(t)'
  BY ReportKeeps DEF HookInv, SameHook, Emit, TypeOK
<1>2. \A u \in Tasks \ {t} : HookInOnePlace(u)'
  BY OtherTasks DEF SameHook, Emit, TypeOK
<1> QED
  BY <1>1, <1>2 DEF HookInv

(* A worker that settles a destination and sends the hook along. *)
LEMMA HookStep ==
  ASSUME TypeOK, HookInv, NEW t \in Tasks, Emit(t, "Hook"), Unsettled(t),
         kind' = kind, hook' = hook, hookq' = hookq, hooking' = hooking,
         \A u \in Tasks \ {t} : main'[u] = main[u],
         main'[t] \notin {"queued", "fresh"}
  PROVE  HookInv'
<1>1. HookInOnePlace(t)'
  <2>1. AtRest(t) /\ NoHookOp(t) /\ kind[t] \in HookedByOp
    BY DEF HookInv, HookInOnePlace, Unsettled
  <2>2. AtRest(t)' /\ ~Unsettled(t)' /\ kind'[t] \in HookedByOp
    BY <2>1 DEF AtRest, Unsettled
  <2>3. /\ Len(ops'[t]) = Len(ops[t]) + 1 /\ Len(ops[t]) \in Nat
        /\ \A i \in 1..Len(ops[t]) : ops'[t][i] # "Hook"
    BY <2>1 DEF NoHookOp, Emit, TypeOK
  <2>4. (\A i, j \in 1..Len(ops[t]) : ops[t][i] = "Hook" /\ ops[t][j] = "Hook" => i = j)'
    BY <2>3
  <2>5. kind'[t] # "None"
    BY <2>2 DEF HookedByOp
  <2> QED
    BY <2>2, <2>4, <2>5 DEF HookInOnePlace, AtRest
<1>2. \A u \in Tasks \ {t} : HookInOnePlace(u)'
  BY OtherTasks DEF SameHook, Emit, TypeOK
<1> QED
  BY <1>1, <1>2 DEF HookInv

LEMMA WorkerHook ==
  ASSUME TypeOK, HookInv, NEW t \in Tasks, Worker(t)
  PROVE  HookInv'
<1> USE DEF identity, entry, work, hooks
<1>1. CASE Receive(t)
  BY <1>1, SameHookKeeps DEF Receive, TypeOK, SameHook, HookInv
<1>2. CASE ReceiveItem(t)
  BY <1>2, SameHookKeeps DEF ReceiveItem, SameHook, HookInv
<1>3. CASE Walk(t)
  <2>1. CASE kind[t] \in HookedByOp
    BY <1>3, <2>1, HookStep DEF Walk, TypeOK, Unsettled
  <2>2. CASE kind[t] \notin HookedByOp
    BY <1>3, <2>2, SameHookKeeps DEF Walk, TypeOK, SameHook, HookInv
  <2> QED
    BY <2>1, <2>2
<1>4. CASE Relay(t)
  <2>1. CASE kind[t] \in HookedByOp
    BY <1>4, <2>1, HookStep DEF Relay, TypeOK, Unsettled
  <2>2. CASE kind[t] \notin HookedByOp
    BY <1>4, <2>2, SameHookKeeps DEF Relay, TypeOK, SameHook, HookInv
  <2> QED
    BY <2>1, <2>2
<1>5. CASE Announce(t) \/ Deform(t)
  BY <1>5, ReportStep DEF Announce, Deform, Outs
<1>6. CASE Collect(t) \/ Abort(t)
  BY <1>6, ReportStep DEF Collect, Abort, Outs, TypeOK
<1>7. CASE FinishItem(t)
  <2>1. PICK out \in Outs \ {"Hook"} : Emit(t, out)
    BY <1>7 DEF FinishItem, ItemVerdicts, Outs
  <2> QED
    BY <1>7, <2>1, ReportStep DEF FinishItem
<1>8. CASE Remove(t)
  <2>1. PICK out \in Outs \ {"Hook"} : Emit(t, out)
    BY <1>8 DEF Remove, Outs
  <2> QED
    BY <1>8, <2>1, ReportStep DEF Remove
<1>9. CASE Finish(t)
  <2>1. PICK out \in Outs \ {"Hook"} : Emit(t, out)
    BY <1>9 DEF Finish, Verdicts, Outs
  <2> QED
    BY <1>9, <2>1, ReportStep DEF Finish, TypeOK
<1>10. CASE WorkerCancel(t)
  <2>1. HookInOnePlace(t)'
    <3>1. HookInOnePlace(t) /\ main'[t] = "gone"
      BY <1>10 DEF HookInv, WorkerCancel, TypeOK
    <3>2. CASE t \in listed
      BY <1>10, <3>1, <3>2, CancelMovesHook DEF WorkerCancel, CancelEntry, Submit, TypeOK
    <3>3. CASE t \notin listed
      BY <1>10, <3>1, <3>3, SameHookKeeps DEF WorkerCancel, SameHook
    <3> QED
      BY <3>2, <3>3
  <2>2. \A u \in Tasks \ {t} : SameHook(u) /\ hooking'[u] = hooking[u] /\ ops'[u] = ops[u]
    BY <1>10 DEF WorkerCancel, CancelEntry, Submit, TypeOK, SameHook
  <2> QED
    BY <2>1, <2>2, OtherTasks DEF HookInv
<1>11. CASE Drop(t) \/ DropItem(t)
  BY <1>11, SameHookKeeps DEF Drop, DropItem, TypeOK, SameHook, HookInv
<1> QED
  BY <1>1, <1>2, <1>3, <1>4, <1>5, <1>6, <1>7, <1>8, <1>9, <1>10, <1>11
  DEF Worker, WorkStep, WalkStep

LEMMA OpLoopHook ==
  ASSUME TypeOK, HookInv, NEW t \in Tasks, OpLoop(t)
  PROVE  HookInv'
<1> USE DEF identity, entry, work, hooks
<1>1. HookInOnePlace(t) /\ TakeOp(t)
  BY DEF HookInv, OpLoop, OpSkip, OpWait, OpHook, OpFulfill, ReduceOp
<1>2. kind' = kind /\ main' = main /\ hooking' = hooking
  BY DEF OpLoop, OpSkip, OpWait, OpHook, OpFulfill, ReduceOp
<1>3. \A u \in Tasks \ {t} : hook'[u] = hook[u] /\ hookq'[u] = hookq[u] /\ ops'[u] = ops[u]
  BY DEF OpLoop, OpSkip, OpWait, OpHook, OpFulfill, ReduceOp, TakeOp, TypeOK
<1>4. \A u \in Tasks \ {t} : HookInOnePlace(u)'
  BY <1>2, <1>3, OtherTasks DEF SameHook
<1>5. Unsettled(t) <=> Unsettled(t)'
  BY <1>2 DEF Unsettled
<1>6. Op(t) = "Hook" => AtRest(t)
  BY <1>1, TakeKeeps DEF HookInOnePlace
<1>7. Unsettled(t) \/ kind[t] \notin HookedByOp => NoHookOp(t)' /\ Op(t) # "Hook"
  BY <1>1, TakeKeeps DEF HookInOnePlace
<1>8. ~AtRest(t) => NoHookOp(t)' /\ Op(t) # "Hook"
  BY <1>1, TakeKeeps DEF HookInOnePlace
<1>9. (\A i, j \in 1..Len(ops[t]) : ops[t][i] = "Hook" /\ ops[t][j] = "Hook" => i = j)'
  BY <1>1, TakeKeeps
<1>10. kind[t] = "None" => Op(t) # "Hook"
  BY <1>7 DEF HookedByOp
<1>11. Op(t) = "Hook" => NoHookOp(t)'
  BY <1>1, TakeKeeps
<1>12. HookInOnePlace(t)'
  <2>1. CASE OpSkip(t)
    <3>1. AtRest(t)' <=> AtRest(t)
      BY <2>1 DEF OpSkip, AtRest
    <3> QED
      BY <1>1, <1>2, <1>5, <1>7, <1>8, <1>9, <2>1, <3>1 DEF OpSkip, HookInOnePlace
  <2>2. CASE OpWait(t)
    <3>1. hook'[t] = (hook[t] \/ Op(t) = "Hook") /\ hookq' = hookq
      BY <2>2 DEF OpWait, HookAfter, TypeOK
    <3>2. CASE Op(t) = "Hook"
      BY <1>1, <1>2, <1>5, <1>6, <1>7, <1>9, <1>10, <1>11, <3>1, <3>2
      DEF HookInOnePlace, AtRest
    <3>3. CASE Op(t) # "Hook"
      <4>1. AtRest(t)' <=> AtRest(t)
        BY <1>2, <3>1, <3>3 DEF AtRest, TypeOK
      <4> QED
        BY <1>1, <1>2, <1>5, <1>7, <1>8, <1>9, <3>1, <3>3, <4>1 DEF HookInOnePlace
    <3> QED
      BY <3>2, <3>3
  <2>3. CASE OpHook(t)
    <3>1. hook'[t] = FALSE /\ hookq'[t] = hookq[t] + 1 /\ (hook[t] \/ Op(t) = "Hook")
      BY <2>3 DEF OpHook, HookAfter, TypeOK
    <3>2. hookq[t] = 0 /\ hooking[t] = "none"
      BY <1>1, <1>6, <3>1 DEF HookInOnePlace, AtRest
    <3>3. NoHookOp(t)' /\ ~Unsettled(t) /\ kind[t] # "None"
      BY <1>1, <1>7, <1>8, <1>10, <1>11, <3>1 DEF HookInOnePlace, AtRest
    <3> QED
      BY <1>2, <1>5, <1>9, <3>1, <3>2, <3>3 DEF HookInOnePlace
  <2>4. CASE OpFulfill(t)
    <3>1. AtRest(t)' <=> AtRest(t)
      BY <1>2, <2>4 DEF OpFulfill, AtRest
    <3> QED
      BY <1>1, <1>2, <1>5, <1>7, <1>8, <1>9, <2>4, <3>1 DEF OpFulfill, HookInOnePlace
  <2> QED
    BY <2>1, <2>2, <2>3, <2>4 DEF OpLoop
<1> QED
  BY <1>4, <1>12 DEF HookInv

LEMMA HookWorkerHook ==
  ASSUME TypeOK, HookInv, NEW t \in Tasks, HookWorker(t)
  PROVE  HookInv'
<1> USE DEF identity, entry, work, hooks
<1>1. HookInOnePlace(t)
  BY DEF HookInv
<1>2. CASE HookReceive(t)
  <2>1. hookq[t] = 1 /\ hooking[t] = "none" /\ ~hook[t]
    BY <1>1, <1>2 DEF HookReceive, HookInOnePlace, TypeOK
  <2>2. NoHookOp(t)' /\ ~Unsettled(t)' /\ kind'[t] # "None"
    BY <1>1, <1>2, <2>1 DEF HookReceive, HookInOnePlace, AtRest, NoHookOp, Unsettled
  <2>3. hookq'[t] = 0 /\ ~hook'[t]
    BY <1>2, <2>1 DEF HookReceive, TypeOK
  <2>4. HookInOnePlace(t)'
    BY <2>2, <2>3 DEF HookInOnePlace, NoHookOp
  <2>5. \A u \in Tasks \ {t} : SameHook(u) /\ hooking'[u] = hooking[u] /\ ops'[u] = ops[u]
    BY <1>2 DEF HookReceive, TypeOK, SameHook
  <2> QED
    BY <2>4, <2>5, OtherTasks DEF HookInv
<1>3. CASE HookCheck(t)
  <2>1. ~AtRest(t) /\ ~AtRest(t)'
    BY <1>3 DEF HookCheck, AtRest, TypeOK
  <2>2. NoHookOp(t)' /\ ~Unsettled(t)' /\ kind'[t] # "None"
    BY <1>1, <1>3, <2>1 DEF HookCheck, HookInOnePlace, NoHookOp, Unsettled
  <2>3. hookq'[t] = 0 /\ ~hook'[t]
    BY <1>1, <1>3 DEF HookCheck, HookInOnePlace, TypeOK
  <2>4. HookInOnePlace(t)'
    BY <2>2, <2>3 DEF HookInOnePlace, NoHookOp
  <2>5. \A u \in Tasks \ {t} : SameHook(u) /\ hooking'[u] = hooking[u] /\ ops'[u] = ops[u]
    BY <1>3 DEF HookCheck, TypeOK, SameHook
  <2> QED
    BY <2>4, <2>5, OtherTasks DEF HookInv
<1>4. CASE HookFinish(t)
  <2>1. PICK out \in Outs \ {"Hook"} : Emit(t, out)
    BY <1>4 DEF HookFinish, Outs
  <2>2. NoHookOp(t) /\ ~Unsettled(t) /\ kind[t] # "None" /\ ~hook[t] /\ hookq[t] = 0
    BY <1>1, <1>4, SMTT(60) DEF HookFinish, HookInOnePlace, AtRest, TypeOK
  <2>3. NoHookOp(t)'
    <3>1. /\ Len(ops'[t]) = Len(ops[t]) + 1 /\ Len(ops[t]) \in Nat
          /\ \A i \in 1..Len(ops[t]) : ops'[t][i] = ops[t][i]
          /\ ops'[t][Len(ops[t]) + 1] = out
      BY <2>1 DEF Emit, TypeOK
    <3> QED
      BY <2>2, <3>1 DEF NoHookOp
  <2>4. HookInOnePlace(t)'
    BY <1>4, <2>2, <2>3 DEF HookFinish, HookInOnePlace, NoHookOp, Unsettled
  <2>5. \A u \in Tasks \ {t} : SameHook(u) /\ hooking'[u] = hooking[u] /\ ops'[u] = ops[u]
    BY <1>4, <2>1 DEF HookFinish, Emit, TypeOK, SameHook
  <2> QED
    BY <2>4, <2>5, OtherTasks DEF HookInv
<1> QED
  BY <1>2, <1>3, <1>4 DEF HookWorker

LEMMA HookAlways == Spec => []HookInv
<1>1. TypeOK /\ HookInv /\ [Next]_vars => HookInv'
  <2> SUFFICES ASSUME TypeOK, HookInv, [Next]_vars PROVE HookInv'
    OBVIOUS
  <2>1. CASE Next
    BY <2>1, ApplicationHook, WorkerHook, OpLoopHook, HookWorkerHook DEF Next
  <2>2. CASE UNCHANGED vars
    BY <2>2, SameHookKeeps DEF HookInv, SameHook, vars, identity, entry, work, hooks
  <2> QED
    BY <2>1, <2>2
<1> QED
  BY HookInit, TypeCorrect, <1>1, PTL DEF Spec

(* The cleanup of a task is waiting in its entry, queued or being run, and *)
(* never two of these: it is run at most once, however the task ends.      *)
THEOREM HookSingle == Spec => []HookIsSingle
BY TypeCorrect, HookAlways, HookImplied, PTL

-----------------------------------------------------------------------------
(* A failed task has nothing left to do: the inductive invariant behind    *)
(* FailureIsQuiet and its proof.                                           *)


(* The kinds FailureIsQuiet is about. *)
Orderly == AllKinds \ {"Delete", "Custom"}

VerdictOps == {"Succ", "Fail"}
NewsOps    == {"New", "Deform"}
ItemOps    == {"ItemSucc", "ItemFail"}

Active(t)  == main[t] \in {"queued", "fresh", "walk"}
Decided(t) == prog[t].collected # "None" \/ \E i \in 1..Len(ops[t]) : ops[t][i] \in VerdictOps

(* An input of a task without items is the only one, and gone once it has  *)
(* given its verdict.                                                      *)
OneInput(t) ==
  /\ todo[t] + doing[t] + (IF Active(t) THEN 1 ELSE 0) <= 1
  /\ Decided(t) => ~Outstanding(t)
  /\ main[t] # "walk"

(* The walk announces nothing after its verdict.                           *)
InOrder(t) ==
  /\ Decided(t) => ~Active(t)
  /\ prog[t].collected # "None" => \A i \in 1..Len(ops[t]) : ops[t][i] \notin NewsOps
  /\ \A i, j \in 1..Len(ops[t]) : i < j /\ ops[t][i] \in VerdictOps => ops[t][j] \notin NewsOps

(* Every announced item is queued, in a worker, reported or accounted for. *)
Accounted(t) ==
  t \in listed /\ IsFinishable(status[t]) =>
    prog[t].total + Occurrences(ops[t], {"New"}) =
      prog[t].succeeded + prog[t].failed + Occurrences(ops[t], ItemOps) + todo[t] + doing[t]

Untouched(t) ==
  /\ t \notin listed /\ main[t] = "idle" /\ todo[t] = 0 /\ doing[t] = 0
  /\ prog[t] = DefaultProg /\ status[t] = "Pending" /\ ops[t] = <<>>

NoBadDelta(t) == \A i \in 1..Len(ops[t]) : ops[t][i] # "BadDelta"

Orderliness(t) ==
  /\ kind[t] = "None" => Untouched(t)
  /\ kind[t] \in Collecting => InOrder(t) /\ Accounted(t)
  /\ kind[t] \in Orderly \ Collecting => OneInput(t)
  /\ kind[t] # "Delete" => NoBadDelta(t)
  /\ kind[t] \in Orderly /\ status[t] = "Failed" => ~Outstanding(t)

FailureInv == \A t \in Tasks : Orderliness(t)

LEMMA KindSets ==
  /\ "None" \notin AllKinds /\ "None" \notin Collecting /\ "None" \notin Orderly
  /\ Collecting \subseteq Orderly
BY DEF AllKinds, Cleaning, Collecting, Plain, Orderly

LEMMA FailureInit == Init => FailureInv
BY KindSets
DEF Init, FailureInv, Orderliness, Untouched, InOrder, Accounted, OneInput, NoBadDelta

LEMMA FailureImplied == TypeOK /\ FailureInv => FailureIsQuiet
BY KindsAssumption, KindSets
DEF TypeOK, FailureInv, Orderliness, FailureIsQuiet, Orderly, Untouched

-----------------------------------------------------------------------------
(* Steps that give t no new work and report nothing of it. *)

Settles(t) ==
  /\ kind'[t] = kind[t] /\ prog'[t] = prog[t] /\ ops'[t] = ops[t]
  /\ kind[t] = "None" =>
       /\ main'[t] = main[t] /\ todo'[t] = todo[t] /\ doing'[t] = doing[t]
       /\ status'[t] = status[t] /\ t \notin listed'
  /\ Active(t)' => Active(t)
  /\ main'[t] = "walk" => main[t] = "walk" \/ kind[t] \in Collecting
  /\ todo'[t] \in Nat /\ doing'[t] \in Nat /\ todo'[t] + doing'[t] <= todo[t] + doing[t]
  /\ t \in listed' /\ IsFinishable(status'[t]) =>
       t \in listed /\ IsFinishable(status[t]) /\ todo'[t] + doing'[t] = todo[t] + doing[t]
  /\ status'[t] = "Failed" => status[t] = "Failed"

LEMMA SettlesKeeps ==
  ASSUME TypeOK, NEW t \in Tasks, Orderliness(t), Settles(t)
  PROVE  Orderliness(t)'
<1> USE DEF Settles
<1>1. Outstanding(t)' => Outstanding(t)
  BY DEF Outstanding, Active, TypeOK
<1>2. Decided(t)' <=> Decided(t)
  BY DEF Decided
<1>3. kind[t] = "None" => Untouched(t)'
  BY DEF Orderliness, Untouched
<1>4. kind[t] \in Collecting => InOrder(t)' /\ Accounted(t)'
  <2> SUFFICES ASSUME kind[t] \in Collecting PROVE InOrder(t)' /\ Accounted(t)'
    OBVIOUS
  <2>1. InOrder(t)'
    BY <1>2 DEF Orderliness, InOrder
  <2>2. Accounted(t)'
    <3>1. SUFFICES ASSUME t \in listed', IsFinishable(status'[t])
                   PROVE  prog[t].total + Occurrences(ops[t], {"New"}) =
                            prog[t].succeeded + prog[t].failed + Occurrences(ops[t], ItemOps)
                              + todo'[t] + doing'[t]
      BY DEF Accounted
    <3>2. Occurrences(ops[t], ItemOps) \in Nat /\ Occurrences(ops[t], {"New"}) \in Nat
      BY OccurrencesType DEF TypeOK
    <3>3. /\ prog[t].total \in Nat /\ prog[t].succeeded \in Nat /\ prog[t].failed \in Nat
          /\ todo[t] \in Nat /\ doing[t] \in Nat
      BY DEF TypeOK, Progress
    <3>4. prog[t].total + Occurrences(ops[t], {"New"}) =
            prog[t].succeeded + prog[t].failed + Occurrences(ops[t], ItemOps) + todo[t] + doing[t]
      BY <3>1 DEF Orderliness, Accounted
    <3> QED
      BY <3>1, <3>2, <3>3, <3>4
  <2> QED
    BY <2>1, <2>2
<1>5. kind[t] \in Orderly \ Collecting => OneInput(t)'
  <2>1. kind[t] \in Orderly \ Collecting =>
          todo'[t] + doing'[t] + (IF Active(t)' THEN 1 ELSE 0) <= 1
    BY DEF Orderliness, OneInput, TypeOK
  <2> QED
    BY <1>1, <1>2, <2>1 DEF Orderliness, OneInput
<1>6. NoBadDelta(t)' <=> NoBadDelta(t)
  BY DEF NoBadDelta
<1> QED
  BY <1>1, <1>3, <1>4, <1>5, <1>6 DEF Orderliness

(* What does not change settles. *)
Same(t) ==
  /\ kind'[t] = kind[t] /\ prog'[t] = prog[t] /\ ops'[t] = ops[t]
  /\ main'[t] = main[t] /\ todo'[t] = todo[t] /\ doing'[t] = doing[t]
  /\ status'[t] = status[t] /\ (t \in listed' <=> t \in listed)

LEMMA SameKeeps ==
  ASSUME TypeOK, NEW t \in Tasks, Orderliness(t), Same(t)
  PROVE  Orderliness(t)'
<1>1. Settles(t)
  BY DEF Same, Settles, TypeOK, Orderliness, Untouched, Active
<1> QED
  BY <1>1, SettlesKeeps

LEMMA OneTaskSteps ==
  ASSUME TypeOK, FailureInv, NEW t \in Tasks, Orderliness(t)',
         \A u \in Tasks \ {t} : Same(u)
  PROVE  FailureInv'
BY SameKeeps DEF FailureInv

-----------------------------------------------------------------------------
(* Steps that report something. *)

(* What the channel looks like with one more operation. *)
LEMMA Reported ==
  ASSUME TypeOK, NEW t \in Tasks, NEW out \in Outs, ops'[t] = Append(ops[t], out)
  PROVE  /\ Len(ops[t]) \in Nat /\ Len(ops'[t]) = Len(ops[t]) + 1
         /\ ops'[t][Len(ops[t]) + 1] = out
         /\ \A i \in 1..Len(ops[t]) : ops'[t][i] = ops[t][i]
         /\ \A X : /\ Occurrences(ops[t], X) \in Nat
                   /\ Occurrences(ops'[t], X) =
                        Occurrences(ops[t], X) + (IF out \in X THEN 1 ELSE 0)
<1>1. ops[t] \in Seq(Outs)
  BY DEF TypeOK
<1>2. \A X : Occurrences(ops[t], X) \in Nat
  BY <1>1, OccurrencesType
<1>3. \A X : Occurrences(ops'[t], X) = Occurrences(ops[t], X) + (IF out \in X THEN 1 ELSE 0)
  BY <1>1, OccurrencesAppend
<1> QED
  BY <1>1, <1>2, <1>3

(* A step that reports `out` of t, and what Orderliness asks of it. *)
Reports(t, out) ==
  /\ out \in Outs /\ ops'[t] = Append(ops[t], out)
  /\ out = "BadDelta" => kind[t] = "Delete"
  /\ kind'[t] = kind[t] /\ kind[t] # "None" /\ prog'[t] = prog[t] /\ status'[t] = status[t]
  /\ t \in listed' <=> t \in listed
  /\ todo'[t] \in Nat /\ doing'[t] \in Nat
  /\ Outstanding(t)' => Outstanding(t)
  /\ kind[t] \in Collecting =>
       /\ Active(t)' => Active(t) /\ out \notin VerdictOps
       /\ out \in NewsOps => Active(t)
       /\ todo'[t] + doing'[t] + (IF out \in ItemOps THEN 1 ELSE 0) =
            todo[t] + doing[t] + (IF out \in {"New"} THEN 1 ELSE 0)
  /\ kind[t] \in Orderly \ Collecting =>
       /\ main'[t] # "walk"
       /\ todo'[t] + doing'[t] + (IF Active(t)' THEN 1 ELSE 0) <=
            todo[t] + doing[t] + (IF Active(t) THEN 1 ELSE 0)
       /\ out \in VerdictOps => ~Outstanding(t)'

LEMMA ReportOrderly ==
  ASSUME TypeOK, NEW t \in Tasks, Orderliness(t), NEW out, Reports(t, out)
  PROVE  Orderliness(t)'
<1>1. /\ Len(ops[t]) \in Nat /\ Len(ops'[t]) = Len(ops[t]) + 1
      /\ ops'[t][Len(ops[t]) + 1] = out
      /\ \A i \in 1..Len(ops[t]) : ops'[t][i] = ops[t][i]
  BY Reported DEF Reports
<1>2. Decided(t)' <=> Decided(t) \/ out \in VerdictOps
  BY <1>1 DEF Decided, Reports
<1>3. NoBadDelta(t) /\ kind[t] # "Delete" => NoBadDelta(t)'
  BY <1>1 DEF NoBadDelta, Reports
<1>4. ASSUME kind[t] \in Collecting PROVE InOrder(t)' /\ Accounted(t)'
  <2>1. InOrder(t) /\ Accounted(t)
    BY <1>4 DEF Orderliness
  <2>2. out \in NewsOps => ~Decided(t) /\ out \notin VerdictOps
    BY <1>4, <2>1 DEF Reports, InOrder, NewsOps, VerdictOps
  <2>3. Decided(t)' => ~Active(t)'
    BY <1>2, <1>4, <2>1 DEF Reports, InOrder
  <2>4. prog'[t].collected # "None" => \A i \in 1..Len(ops'[t]) : ops'[t][i] \notin NewsOps
    BY <1>1, <2>1, <2>2 DEF InOrder, Reports, Decided
  <2>5. \A i, j \in 1..Len(ops'[t]) :
           i < j /\ ops'[t][i] \in VerdictOps => ops'[t][j] \notin NewsOps
    <3> SUFFICES ASSUME NEW i \in 1..Len(ops'[t]), NEW j \in 1..Len(ops'[t]), i < j,
                        ops'[t][i] \in VerdictOps
                 PROVE  ops'[t][j] \notin NewsOps
      OBVIOUS
    <3>1. i \in 1..Len(ops[t]) /\ ops[t][i] \in VerdictOps
      BY <1>1
    <3>2. CASE j \in 1..Len(ops[t])
      BY <1>1, <2>1, <3>1, <3>2 DEF InOrder
    <3>3. CASE j = Len(ops[t]) + 1
      <4>1. Decided(t)
        BY <3>1 DEF Decided
      <4> QED
        BY <1>1, <2>2, <3>3, <4>1
    <3> QED
      BY <1>1, <3>2, <3>3
  <2>6. Accounted(t)'
    <3>1. \A X : /\ Occurrences(ops[t], X) \in Nat
                 /\ Occurrences(ops'[t], X) = Occurrences(ops[t], X) + (IF out \in X THEN 1 ELSE 0)
      BY Reported DEF Reports
    <3>2. /\ Occurrences(ops[t], {"New"}) \in Nat /\ Occurrences(ops[t], ItemOps) \in Nat
          /\ Occurrences(ops'[t], {"New"}) =
               Occurrences(ops[t], {"New"}) + (IF out \in {"New"} THEN 1 ELSE 0)
          /\ Occurrences(ops'[t], ItemOps) =
               Occurrences(ops[t], ItemOps) + (IF out \in ItemOps THEN 1 ELSE 0)
      BY <3>1
    <3>3. /\ prog[t].total \in Nat /\ prog[t].succeeded \in Nat /\ prog[t].failed \in Nat
          /\ todo[t] \in Nat /\ doing[t] \in Nat /\ todo'[t] \in Nat /\ doing'[t] \in Nat
      BY DEF TypeOK, Progress, Reports
    <3>4. todo'[t] + doing'[t] + (IF out \in ItemOps THEN 1 ELSE 0) =
            todo[t] + doing[t] + (IF out \in {"New"} THEN 1 ELSE 0)
      BY <1>4 DEF Reports
    <3>5. prog'[t] = prog[t] /\ status'[t] = status[t] /\ (t \in listed' <=> t \in listed)
      BY DEF Reports
    <3> QED
      BY <2>1, <3>2, <3>3, <3>4, <3>5 DEF Accounted
  <2> QED
    BY <2>3, <2>4, <2>5, <2>6 DEF InOrder
<1>5. ASSUME kind[t] \in Orderly \ Collecting PROVE OneInput(t)'
  <2>1. OneInput(t)
    BY <1>5 DEF Orderliness
  <2>2. todo'[t] + doing'[t] + (IF Active(t)' THEN 1 ELSE 0) <= 1
    BY <1>5, <2>1 DEF Reports, OneInput, TypeOK
  <2>3. main'[t] # "walk" /\ (Decided(t)' => ~Outstanding(t)')
    BY <1>2, <1>5, <2>1 DEF Reports, OneInput
  <2> QED
    BY <2>2, <2>3 DEF OneInput
<1> QED
  BY <1>3, <1>4, <1>5 DEF Orderliness, Reports

(* Neither news, nor of an item, nor a verdict. *)
Asides == Outs \ (VerdictOps \cup NewsOps \cup ItemOps \cup {"BadDelta"})

LEMMA AsideKeeps ==
  ASSUME TypeOK, NEW t \in Tasks, Orderliness(t), NEW out \in Asides,
         ops'[t] = Append(ops[t], out),
         kind'[t] = kind[t], kind[t] # "None", prog'[t] = prog[t], todo'[t] = todo[t],
         doing'[t] = doing[t], status'[t] = status[t], t \in listed' <=> t \in listed,
         Active(t)' => Active(t),
         main'[t] = "walk" => main[t] = "walk" \/ kind[t] \in Collecting
  PROVE  Orderliness(t)'
<1>1. out \in Outs /\ out \notin VerdictOps /\ out \notin NewsOps /\ out \notin ItemOps /\ out # "BadDelta"
  BY DEF Asides
<1>2. out \notin {"New"}
  BY <1>1 DEF NewsOps
<1>3. Outstanding(t)' => Outstanding(t)
  BY DEF Outstanding, Active
<1>4. todo'[t] \in Nat /\ doing'[t] \in Nat
  BY DEF TypeOK
<1>5. kind[t] \in Orderly \ Collecting => main'[t] # "walk"
  BY DEF Orderliness, OneInput
<1>6. todo'[t] + doing'[t] + (IF Active(t)' THEN 1 ELSE 0) <=
            todo[t] + doing[t] + (IF Active(t) THEN 1 ELSE 0)
  BY <1>4
<1>7. Reports(t, out)
  BY <1>1, <1>2, <1>3, <1>4, <1>5, <1>6 DEF Reports
<1> QED
  BY <1>7, ReportOrderly

LEMMA NothingQueued == \A X : Occurrences(<<>>, X) = 0
<1> TAKE X
<1>1. Places(<<>>, X) = {}
  BY DEF Places
<1> QED
  BY <1>1, FS_EmptySet DEF Occurrences

LEMMA ApplicationFailure ==
  ASSUME TypeOK, FailureInv, NEW t \in Tasks, Application(t)
  PROVE  FailureInv'
<1> USE DEF identity, entry, work, hooks
<1>1. Orderliness(t)
  BY DEF FailureInv
<1>2. ASSUME NEW k \in Kinds, NEW p \in PoolsOf(k), Add(t, k, p)
      PROVE  FailureInv'
  <2>1. Untouched(t) /\ kind'[t] = k /\ k \in AllKinds
    BY <1>1, <1>2, KindsAssumption DEF Add, Enlist, TypeOK, Orderliness
  <2>2. /\ ops'[t] = <<>> /\ prog'[t] = DefaultProg /\ todo'[t] = 0 /\ doing'[t] = 0
        /\ main'[t] \in {"idle", "queued"} /\ status'[t] \in {"Pending", "Started"}
    BY <1>2, <2>1 DEF Add, Enlist, Untouched, TypeOK, Start
  <2>3. ~Decided(t)' /\ NoBadDelta(t)' /\ InOrder(t)'
    BY <2>2 DEF Decided, NoBadDelta, InOrder, DefaultProg
  <2>4. \A X : Occurrences(ops'[t], X) = 0
    BY <2>2, NothingQueued
  <2>5. Accounted(t)' /\ OneInput(t)'
    BY <2>2, <2>3, <2>4 DEF Accounted, OneInput, DefaultProg
  <2>6. Orderliness(t)'
    BY <2>1, <2>2, <2>3, <2>5, KindSets DEF Orderliness
  <2>7. \A u \in Tasks \ {t} : Same(u)
    BY <1>2 DEF Add, Enlist, TypeOK, Same
  <2> QED
    BY <2>6, <2>7, OneTaskSteps
<1>3. ASSUME NEW k \in Kinds, NEW p \in PoolsOf(k), Reject(t, k, p)
      PROVE  FailureInv'
  <2>1. Untouched(t) /\ kind'[t] = k /\ k \in AllKinds /\ k \in Collecting
    BY <1>1, <1>3, KindsAssumption DEF Reject, Enlist, TypeOK, Orderliness, Rejectable
  <2>2. /\ ops'[t] = Append(ops[t], "Fail") /\ prog'[t] = DefaultProg
        /\ todo'[t] = 0 /\ doing'[t] = 0 /\ main'[t] = "idle" /\ status'[t] = "Pending"
    BY <1>3, <2>1 DEF Reject, Enlist, Emit, Untouched, TypeOK
  <2>3. /\ Len(ops'[t]) = 1 /\ ops'[t][1] = "Fail"
        /\ \A X : "Fail" \notin X => Occurrences(ops'[t], X) = 0
    <3>1. ops[t] = <<>> /\ "Fail" \in Outs
      BY <2>1 DEF Untouched, Outs
    <3>2. Len(ops'[t]) = 1 /\ ops'[t][1] = "Fail"
      BY <2>2, <3>1
    <3>3. \A X : Occurrences(ops'[t], X) = Occurrences(ops[t], X) + (IF "Fail" \in X THEN 1 ELSE 0)
      <4> TAKE X
      <4>1. ops[t] \in Seq(Outs)
        BY DEF TypeOK
      <4> DEFINE out == "Fail"
      <4>2. out \in Outs /\ ops'[t] = Append(ops[t], out)
        BY <2>2, <3>1
      <4>3. Occurrences(Append(ops[t], out), X) = Occurrences(ops[t], X) + (IF out \in X THEN 1 ELSE 0)
        <5> HIDE DEF out
        <5> QED
          BY <4>1, <4>2, OccurrencesAppend
      <4> QED
        BY <4>2, <4>3
    <3>4. \A X : Occurrences(ops[t], X) = 0
      BY <3>1, NothingQueued
    <3> QED
      BY <3>2, <3>3, <3>4
  <2>4. NoBadDelta(t)' /\ InOrder(t)'
    BY <2>2, <2>3 DEF NoBadDelta, InOrder, DefaultProg, NewsOps, Active
  <2>5. Accounted(t)'
    BY <2>2, <2>3 DEF Accounted, DefaultProg, ItemOps
  <2>6. Orderliness(t)'
    BY <2>1, <2>2, <2>4, <2>5, KindSets DEF Orderliness
  <2>7. \A u \in Tasks \ {t} : Same(u)
    BY <1>3 DEF Reject, Enlist, Emit, TypeOK, Same
  <2> QED
    BY <2>6, <2>7, OneTaskSteps
<1>4. ASSUME NEW prev \in Tasks \ {t}, Supersede(t, prev)
      PROVE  FailureInv'
  <2>1. Untouched(t) /\ kind'[t] = "Preload"
    BY <1>1, <1>4 DEF Supersede, Enlist, TypeOK, Orderliness
  <2>2. /\ ops'[t] = <<>> /\ prog'[t] = DefaultProg /\ todo'[t] = 0 /\ doing'[t] = 0
        /\ main'[t] = "queued" /\ status'[t] = "Pending"
    BY <1>4, <2>1 DEF Supersede, Untouched, TypeOK
  <2>3. ~Decided(t)' /\ NoBadDelta(t)'
    BY <2>2 DEF Decided, NoBadDelta, DefaultProg
  <2>4. OneInput(t)'
    BY <2>2, <2>3 DEF OneInput
  <2>5. Orderliness(t)'
    BY <2>1, <2>2, <2>3, <2>4 DEF Orderliness, Collecting
  <2>6. Orderliness(prev)'
    <3>1. /\ status'[prev] = Cancel(status[prev])
          /\ kind'[prev] = kind[prev] /\ kind[prev] = "Preload"
          /\ prog' = prog /\ ops' = ops /\ todo' = todo /\ doing' = doing
          /\ main'[prev] = main[prev]
      BY <1>4 DEF Supersede, Enlist, TypeOK
    <3>2. Cancel(status[prev]) \in {"Succeeded", "Canceled"}
      BY CancelSettles DEF TypeOK
    <3>3. Settles(prev)
      BY <3>1, <3>2 DEF Settles, TypeOK, Active, IsFinishable
    <3> QED
      BY <3>3, SettlesKeeps DEF FailureInv
  <2>7. \A u \in Tasks \ {t, prev} : Same(u)
    BY <1>4 DEF Supersede, Enlist, Keep, TypeOK, Same
  <2> QED
    BY <2>5, <2>6, <2>7, SameKeeps DEF FailureInv
<1>5. CASE UserCancel(t)
  <2>1. Cancel(status[t]) \in {"Succeeded", "Canceled"}
    BY CancelSettles DEF TypeOK
  <2>2. kind[t] # "None"
    BY <1>1, <1>5 DEF UserCancel, Orderliness, Untouched
  <2>3. Settles(t)
    BY <1>5, <2>1, <2>2 DEF UserCancel, CancelEntry, Settles, TypeOK, Active, IsFinishable
  <2>4. \A u \in Tasks \ {t} : Same(u)
    BY <1>5 DEF UserCancel, CancelEntry, Keep, TypeOK, Same
  <2> QED
    BY <1>1, <2>3, <2>4, SettlesKeeps, OneTaskSteps
<1>6. CASE ScopeCancel(t)
  BY <1>6, SameKeeps DEF ScopeCancel, Same, FailureInv
<1>7. CASE PluginOutput(t)
  <2>1. kind[t] \in {"Copy", "Move", "Plugin", "Custom"}
    BY <1>7, SteeredAssumption DEF PluginOutput
  <2>2. CASE Emit(t, "Log") \/ Emit(t, "Cancel")
    <3>1. PICK out \in Asides : Emit(t, out)
      BY <2>2 DEF Asides, Outs, VerdictOps, NewsOps, ItemOps
    <3>2. ops'[t] = Append(ops[t], out)
      BY <3>1 DEF Emit, TypeOK
    <3>3. kind[t] # "None" /\ (Active(t)' => Active(t))
      BY <1>7, <2>1 DEF PluginOutput, Active
    <3>4. Orderliness(t)'
      BY <1>1, <1>7, <3>2, <3>3, AsideKeeps DEF PluginOutput
    <3>5. \A u \in Tasks \ {t} : Same(u)
      BY <1>7, <3>1 DEF PluginOutput, Emit, TypeOK, Same
    <3> QED
      BY <3>4, <3>5, OneTaskSteps
  <2>3. CASE kind[t] = "Custom" /\ (Emit(t, "Succ") \/ Emit(t, "Fail"))
    <3>1. PICK out \in VerdictOps : Emit(t, out)
      BY <2>3 DEF VerdictOps
    <3>2. ops'[t] = Append(ops[t], out) /\ out \in Outs /\ out # "BadDelta"
      BY <3>1 DEF Emit, TypeOK, VerdictOps, Outs
    <3>3. NoBadDelta(t) => NoBadDelta(t)'
      BY <3>2, Reported DEF NoBadDelta
    <3>4. Orderliness(t)'
      BY <1>1, <1>7, <2>3, <3>3 DEF PluginOutput, Orderliness, Orderly, Collecting
    <3>5. \A u \in Tasks \ {t} : Same(u)
      BY <1>7, <3>1 DEF PluginOutput, Emit, TypeOK, Same
    <3> QED
      BY <3>4, <3>5, OneTaskSteps
  <2> QED
    BY <1>7, <2>2, <2>3 DEF PluginOutput
<1> QED
  BY <1>2, <1>3, <1>4, <1>5, <1>6, <1>7 DEF Application

-----------------------------------------------------------------------------
(* The workers. *)

LEMMA WorkerFailure ==
  ASSUME TypeOK, FailureInv, NEW t \in Tasks, Worker(t)
  PROVE  FailureInv'
<1> USE DEF identity, entry, work, hooks
<1>1. Orderliness(t)
  BY DEF FailureInv
<1>2. /\ Start(status[t]) = "Failed" => status[t] = "Failed"
      /\ IsFinishable(Start(status[t])) => IsFinishable(status[t])
      /\ Cancel(status[t]) \in {"Succeeded", "Canceled"}
  BY CancelSettles DEF Start, IsFinishable, TypeOK
<1>3. CASE Receive(t)
  <2>1. kind[t] # "None"
    BY <1>1, <1>3 DEF Receive, Orderliness, Untouched
  <2>2. Settles(t)
    BY <1>2, <1>3, <2>1 DEF Receive, Settles, TypeOK, Active
  <2>3. \A u \in Tasks \ {t} : Same(u)
    BY <1>3 DEF Receive, TypeOK, Same
  <2> QED
    BY <1>1, <2>2, <2>3, SettlesKeeps, OneTaskSteps
<1>4. CASE ReceiveItem(t)
  <2>1. kind[t] # "None"
    BY <1>1, <1>4 DEF ReceiveItem, Orderliness, Untouched
  <2>2. todo'[t] \in Nat /\ doing'[t] \in Nat /\ todo'[t] + doing'[t] <= todo[t] + doing[t]
        /\ (t \in listed => todo'[t] + doing'[t] = todo[t] + doing[t])
    BY <1>4 DEF ReceiveItem, TypeOK
  <2>3. Settles(t)
    BY <1>2, <1>4, <2>1, <2>2 DEF ReceiveItem, Settles, TypeOK, Active
  <2>4. \A u \in Tasks \ {t} : Same(u)
    BY <1>4 DEF ReceiveItem, TypeOK, Same
  <2> QED
    BY <1>1, <2>3, <2>4, SettlesKeeps, OneTaskSteps
<1>5. CASE WorkerCancel(t)
  <2>1. kind[t] # "None"
    BY <1>1, <1>5 DEF WorkerCancel, InWorker, Orderliness, Untouched
  <2>2. Settles(t)
    BY <1>2, <1>5, <2>1
    DEF WorkerCancel, CancelEntry, InWorker, Settles, TypeOK, Active, IsFinishable
  <2>3. \A u \in Tasks \ {t} : Same(u)
    BY <1>5 DEF WorkerCancel, CancelEntry, Keep, TypeOK, Same
  <2> QED
    BY <1>1, <2>2, <2>3, SettlesKeeps, OneTaskSteps
<1>6. CASE Drop(t)
  <2>1. kind[t] # "None"
    BY <1>1, <1>6 DEF Drop, InWorker, Orderliness, Untouched
  <2>2. Settles(t)
    BY <1>6, <2>1 DEF Drop, Settles, TypeOK, Active
  <2>3. \A u \in Tasks \ {t} : Same(u)
    BY <1>6 DEF Drop, TypeOK, Same
  <2> QED
    BY <1>1, <2>2, <2>3, SettlesKeeps, OneTaskSteps
<1>7. CASE DropItem(t)
  <2>1. kind[t] # "None"
    BY <1>1, <1>7 DEF DropItem, Orderliness, Untouched
  <2>2. todo'[t] \in Nat /\ doing'[t] \in Nat /\ todo'[t] + doing'[t] <= todo[t] + doing[t]
        /\ ~IsFinishable(status[t])
    BY <1>7 DEF DropItem, TypeOK, IsFinished, IsFinishable
  <2>3. Settles(t)
    BY <1>7, <2>1, <2>2 DEF DropItem, Settles, Active
  <2>4. \A u \in Tasks \ {t} : Same(u)
    BY <1>7 DEF DropItem, TypeOK, Same
  <2> QED
    BY <1>1, <2>3, <2>4, SettlesKeeps, OneTaskSteps
<1>8. CASE Walk(t) /\ kind[t] \notin HookedByOp
  <2>1. Settles(t)
    BY <1>8, KindSets DEF Walk, Settles, TypeOK, Active
  <2>2. \A u \in Tasks \ {t} : Same(u)
    BY <1>8 DEF Walk, TypeOK, Same
  <2> QED
    BY <1>1, <2>1, <2>2, SettlesKeeps, OneTaskSteps
<1>9. ASSUME NEW out \in Outs, Emit(t, out), Reports(t, out),
             \A u \in Tasks \ {t} :
               /\ kind'[u] = kind[u] /\ prog'[u] = prog[u] /\ main'[u] = main[u]
               /\ todo'[u] = todo[u] /\ doing'[u] = doing[u] /\ status'[u] = status[u]
               /\ u \in listed' <=> u \in listed
      PROVE  FailureInv'
  <2>1. \A u \in Tasks \ {t} : Same(u)
    BY <1>9 DEF Emit, TypeOK, Same
  <2> QED
    BY <1>1, <1>9, <2>1, ReportOrderly, OneTaskSteps
<1>10. CASE Walk(t) /\ kind[t] \in HookedByOp
  <2>1. Reports(t, "Hook")
    BY <1>10, KindSets
    DEF Walk, Reports, Emit, TypeOK, Outs, Outstanding, Active, VerdictOps, NewsOps, ItemOps
  <2> QED
    BY <1>9, <1>10, <2>1 DEF Walk, TypeOK, Reports
<1>11. CASE Announce(t)
  <2>1. PICK out \in {"New"} : Emit(t, out)
    BY <1>11 DEF Announce
  <2>2. /\ main[t] = "walk" /\ main'[t] = main[t] /\ doing'[t] = doing[t]
        /\ todo'[t] = todo[t] + 1 /\ todo[t] \in Nat /\ doing[t] \in Nat
        /\ kind[t] \notin Orderly \ Collecting
    BY <1>1, <1>11 DEF Announce, TypeOK, Orderliness, OneInput
  <2>3. Outstanding(t) /\ Active(t)
    BY <2>2 DEF Outstanding, Active
  <2>4. out \in Outs /\ out \notin VerdictOps /\ out \notin ItemOps /\ out # "BadDelta"
    BY <2>1 DEF Outs, VerdictOps, ItemOps
  <2>5. kind[t] # "None"
    BY <1>1, <2>2 DEF Orderliness, Untouched
  <2>6. Reports(t, out)
    BY <1>11, <2>1, <2>2, <2>3, <2>4, <2>5 DEF Announce, Reports, Emit, TypeOK
  <2> QED
    BY <1>9, <1>11, <2>1, <2>6 DEF Announce, TypeOK, Reports
<1>12. CASE Deform(t)
  <2>1. PICK out \in {"Deform"} : Emit(t, out)
    BY <1>12 DEF Deform
  <2>2. Reports(t, out)
    BY <1>1, <1>12, <2>1, KindSets
    DEF Deform, Reports, Emit, TypeOK, Outs, Outstanding, Active, InWorker, VerdictOps,
        NewsOps, ItemOps, Orderliness,
        OneInput, Untouched
  <2> QED
    BY <1>9, <1>12, <2>1, <2>2 DEF Deform, TypeOK, Reports
<1>13. CASE Collect(t)
  <2>1. PICK out \in {"Succ"} : Emit(t, out)
    BY <1>13 DEF Collect
  <2>2. Reports(t, out)
    BY <1>1, <1>13, <2>1, KindSets
    DEF Collect, Reports, Emit, TypeOK, Outs, Outstanding, Active, InWorker, VerdictOps,
        NewsOps, ItemOps, Orderliness,
        OneInput, Untouched
  <2> QED
    BY <1>9, <1>13, <2>1, <2>2 DEF Collect, TypeOK, Reports
<1>14. CASE Abort(t)
  <2>1. PICK out \in {"Fail"} : Emit(t, out)
    BY <1>14 DEF Abort
  <2>2. Reports(t, out)
    BY <1>1, <1>14, <2>1, KindSets
    DEF Abort, Reports, Emit, TypeOK, Outs, Outstanding, Active, InWorker, VerdictOps,
        NewsOps, ItemOps, Orderliness,
        OneInput, Untouched
  <2> QED
    BY <1>9, <1>14, <2>1, <2>2 DEF Abort, TypeOK, Reports
<1>15. CASE Relay(t) /\ kind[t] \notin HookedByOp
  <2>1. /\ kind[t] = "Trash" /\ kind'[t] = kind[t] /\ ops'[t] = ops[t] /\ prog'[t] = prog[t]
        /\ status'[t] = status[t] /\ main[t] = "fresh" /\ main'[t] = "gone"
        /\ todo'[t] = todo[t] + 1 /\ doing'[t] = doing[t] /\ todo[t] \in Nat /\ doing[t] \in Nat
    BY <1>15 DEF Relay, TypeOK, HookedByOp
  <2>2. Active(t) /\ ~Active(t)' /\ Outstanding(t)
    BY <2>1 DEF Active, Outstanding
  <2>3. kind[t] \in Orderly /\ kind[t] \notin Collecting
    BY <2>1 DEF Orderly, AllKinds, Cleaning, Collecting
  <2>4. OneInput(t) /\ NoBadDelta(t) /\ status[t] # "Failed"
    BY <1>1, <2>1, <2>2, <2>3 DEF Orderliness
  <2>5. OneInput(t)' /\ NoBadDelta(t)'
    BY <2>1, <2>2, <2>4 DEF OneInput, Decided, NoBadDelta
  <2>6. Orderliness(t)'
    BY <2>1, <2>3, <2>4, <2>5 DEF Orderliness
  <2>7. \A u \in Tasks \ {t} : Same(u)
    BY <1>15 DEF Relay, TypeOK, Same
  <2> QED
    BY <2>6, <2>7, OneTaskSteps
<1>16. CASE Relay(t) /\ kind[t] \in HookedByOp
  <2>1. PICK out \in {"Hook"} : Emit(t, out)
    BY <1>16 DEF Relay
  <2>2. Reports(t, out)
    BY <1>1, <1>16, <2>1, KindSets
    DEF Relay, Reports, Emit, TypeOK, Outs, Outstanding, Active, VerdictOps, NewsOps, ItemOps,
        Collecting
  <2> QED
    BY <1>9, <1>16, <2>1, <2>2 DEF Relay, TypeOK, Reports
<1>17. CASE FinishItem(t)
  <2>1. PICK out \in ItemVerdicts(kind[t]) : Emit(t, out)
    BY <1>17 DEF FinishItem
  <2>2. Reports(t, out)
    BY <1>1, <1>17, <2>1, KindSets
    DEF FinishItem, Reports, Emit, TypeOK, Outs, Outstanding, Active, InWorker, VerdictOps,
        NewsOps, ItemOps, Orderliness,
        OneInput, Untouched, ItemVerdicts
  <2> QED
    BY <1>9, <1>17, <2>1, <2>2 DEF FinishItem, TypeOK, Reports
<1>18. CASE Remove(t)
  <2>1. PICK out \in {"ItemSucc", "ItemFail", "BadDelta"} : Emit(t, out)
    BY <1>18 DEF Remove
  <2>2. Reports(t, out)
    BY <1>1, <1>18, <2>1, KindSets
    DEF Remove, Reports, Emit, TypeOK, Outs, Outstanding, Active, InWorker, VerdictOps,
        NewsOps, ItemOps, Orderliness,
        OneInput, Untouched, Orderly, Collecting
  <2> QED
    BY <1>9, <1>18, <2>1, <2>2 DEF Remove, TypeOK, Reports
<1>19. CASE Finish(t)
  <2>1. PICK out \in Verdicts(kind[t]) : Emit(t, out)
    BY <1>19 DEF Finish
  <2>2. Reports(t, out)
    BY <1>1, <1>19, <2>1, KindSets
    DEF Finish, Reports, Emit, TypeOK, Outs, Outstanding, Active, InWorker, VerdictOps,
        NewsOps, ItemOps, Orderliness,
        OneInput, Untouched, Verdicts, Collecting
  <2> QED
    BY <1>9, <1>19, <2>1, <2>2 DEF Finish, TypeOK, Reports
<1> QED
  BY <1>3, <1>4, <1>5, <1>6, <1>7, <1>8, <1>10, <1>11, <1>12, <1>13, <1>14, <1>15, <1>16,
     <1>17, <1>18, <1>19
  DEF Worker, WorkStep, WalkStep

-----------------------------------------------------------------------------
(* The operation loop. *)

(* What is left of the channel, and what the reducer does with it. *)
LEMMA Taken ==
  ASSUME TypeOK, NEW t \in Tasks, TakeOp(t)
  PROVE  /\ Len(ops[t]) \in Nat \ {0} /\ Len(ops'[t]) = Len(ops[t]) - 1
         /\ \A i \in 1..Len(ops'[t]) : ops'[t][i] = ops[t][i + 1]
         /\ Op(t) = ops[t][1] /\ Op(t) \in Outs
         /\ \A X : Occurrences(ops'[t], X) \in Nat
         /\ \A X : Occurrences(ops[t], X) = Occurrences(ops'[t], X) + (IF Op(t) \in X THEN 1 ELSE 0)
<1>1. ops[t] \in Seq(Outs) /\ ops[t] # <<>> /\ ops'[t] = Tail(ops[t])
  BY DEF TypeOK, TakeOp
<1>2. Tail(ops[t]) \in Seq(Outs)
  BY <1>1
<1>3. \A X : Occurrences(Tail(ops[t]), X) \in Nat
  BY <1>2, OccurrencesType
<1>4. \A X : Occurrences(ops[t], X) =
               Occurrences(Tail(ops[t]), X) + (IF Head(ops[t]) \in X THEN 1 ELSE 0)
  BY <1>1, OccurrencesTail
<1> QED
  BY <1>1, <1>3, <1>4 DEF Op

LEMMA Verdict ==
  ASSUME NEW k, NEW p \in Progress, NEW out \in Outs \ {"BadDelta"},
         Reduce(k, p, out).collected # "None", p.collected = "None"
  PROVE  out \in VerdictOps
BY DEF Reduce, Outs, VerdictOps, Progress

LEMMA TakenOrder ==
  ASSUME TypeOK, NEW t \in Tasks, Orderliness(t), TakeOp(t), kind[t] # "Delete",
         kind'[t] = kind[t], prog'[t] \in {prog[t], ProgAfter(t)},
         main'[t] = main[t], todo'[t] = todo[t], doing'[t] = doing[t]
  PROVE  /\ Outstanding(t)' <=> Outstanding(t)
         /\ Decided(t)' => Decided(t)
         /\ NoBadDelta(t)'
         /\ kind[t] \in Collecting => InOrder(t)'
         /\ kind[t] \in Orderly \ Collecting => OneInput(t)'
<1>1. /\ Len(ops[t]) \in Nat \ {0} /\ Len(ops'[t]) = Len(ops[t]) - 1
      /\ \A i \in 1..Len(ops'[t]) : ops'[t][i] = ops[t][i + 1]
      /\ Op(t) = ops[t][1] /\ Op(t) \in Outs
  BY Taken
<1>2. NoBadDelta(t) /\ Op(t) # "BadDelta"
  BY <1>1 DEF Orderliness, NoBadDelta
<1>3. NoBadDelta(t)'
  BY <1>1, <1>2 DEF NoBadDelta
<1>4. prog'[t].collected # "None" => prog[t].collected # "None" \/ Op(t) \in VerdictOps
  BY <1>1, <1>2, Verdict DEF ProgAfter, TypeOK
<1>5. Decided(t)' => Decided(t)
  <2>1. 1 \in 1..Len(ops[t]) /\ \A i \in 1..Len(ops'[t]) : i + 1 \in 1..Len(ops[t])
    BY <1>1
  <2> QED
    BY <1>1, <1>4, <2>1 DEF Decided
<1>6. (Outstanding(t)' <=> Outstanding(t)) /\ (Active(t)' <=> Active(t))
  BY DEF Outstanding, Active
<1>7. ASSUME kind[t] \in Collecting PROVE InOrder(t)'
  <2>1. InOrder(t)
    BY <1>7 DEF Orderliness
  <2>2. \A i \in 1..Len(ops'[t]) : i + 1 \in 1..Len(ops[t]) /\ 1 < i + 1 /\ 1 \in 1..Len(ops[t])
    BY <1>1
  <2>3. prog'[t].collected # "None" => \A i \in 1..Len(ops'[t]) : ops'[t][i] \notin NewsOps
    BY <1>1, <1>4, <2>1, <2>2 DEF InOrder
  <2>4. \A i, j \in 1..Len(ops'[t]) :
           i < j /\ ops'[t][i] \in VerdictOps => ops'[t][j] \notin NewsOps
    BY <1>1, <2>1, <2>2 DEF InOrder
  <2>5. Decided(t)' => ~Active(t)'
    BY <1>5, <1>6, <2>1 DEF InOrder
  <2> QED
    BY <2>3, <2>4, <2>5 DEF InOrder
<1>8. ASSUME kind[t] \in Orderly \ Collecting PROVE OneInput(t)'
  BY <1>5, <1>6, <1>8 DEF Orderliness, OneInput
<1> QED
  BY <1>3, <1>5, <1>6, <1>7, <1>8

(* The reducer keeps the account. *)
LEMMA Balance ==
  ASSUME TypeOK, NEW t \in Tasks, TakeOp(t), Op(t) # "BadDelta"
  PROVE  /\ ProgAfter(t).total + Occurrences(ops'[t], {"New"}) + prog[t].succeeded + prog[t].failed
                + Occurrences(ops[t], ItemOps) =
             ProgAfter(t).succeeded + ProgAfter(t).failed + Occurrences(ops'[t], ItemOps)
                + prog[t].total + Occurrences(ops[t], {"New"})
<1>1. /\ Op(t) \in Outs
      /\ Occurrences(ops'[t], ItemOps) \in Nat /\ Occurrences(ops'[t], {"New"}) \in Nat
      /\ Occurrences(ops[t], ItemOps) =
           Occurrences(ops'[t], ItemOps) + (IF Op(t) \in ItemOps THEN 1 ELSE 0)
      /\ Occurrences(ops[t], {"New"}) =
           Occurrences(ops'[t], {"New"}) + (IF Op(t) \in {"New"} THEN 1 ELSE 0)
  BY Taken
<1>2. /\ prog[t] \in Progress
      /\ prog[t].total \in Nat /\ prog[t].succeeded \in Nat /\ prog[t].failed \in Nat
  BY DEF TypeOK, Progress
<1>3. CASE Op(t) = "New"
  <2>1. /\ ProgAfter(t).total = prog[t].total + 1 /\ ProgAfter(t).failed = prog[t].failed
        /\ ProgAfter(t).succeeded = prog[t].succeeded
    BY <1>2, <1>3 DEF ProgAfter, Reduce, Progress
  <2> QED
    BY <1>1, <1>2, <1>3, <2>1 DEF ItemOps
<1>4. CASE Op(t) = "Deform"
  <2>1. /\ ProgAfter(t).total = prog[t].total + 1 /\ ProgAfter(t).failed = prog[t].failed + 1
        /\ ProgAfter(t).succeeded = prog[t].succeeded
    <3>1. ProgAfter(t) = [[prog[t] EXCEPT !.total = @ + 1] EXCEPT !.failed = @ + 1]
      BY <1>4 DEF ProgAfter, Reduce
    <3> QED
      BY <1>2, <3>1 DEF Progress
  <2> QED
    BY <1>1, <1>2, <1>4, <2>1 DEF ItemOps
<1>5. CASE Op(t) = "ItemSucc"
  <2>1. /\ ProgAfter(t).total = prog[t].total /\ ProgAfter(t).failed = prog[t].failed
        /\ ProgAfter(t).succeeded = prog[t].succeeded + 1
    BY <1>2, <1>5 DEF ProgAfter, Reduce, Progress
  <2> QED
    BY <1>1, <1>2, <1>5, <2>1 DEF ItemOps
<1>6. CASE Op(t) = "ItemFail"
  <2>1. /\ ProgAfter(t).total = prog[t].total /\ ProgAfter(t).failed = prog[t].failed + 1
        /\ ProgAfter(t).succeeded = prog[t].succeeded
    BY <1>2, <1>6 DEF ProgAfter, Reduce, Progress
  <2> QED
    BY <1>1, <1>2, <1>6, <2>1 DEF ItemOps
<1>7. CASE Op(t) \notin {"New", "Deform", "ItemSucc", "ItemFail"}
  <2>1. /\ ProgAfter(t).total = prog[t].total /\ ProgAfter(t).failed = prog[t].failed
        /\ ProgAfter(t).succeeded = prog[t].succeeded
    BY <1>1, <1>2, <1>7 DEF ProgAfter, Reduce, Progress, Settle, Outs
  <2> QED
    BY <1>1, <1>2, <1>7, <2>1 DEF ItemOps
<1> QED
  BY <1>3, <1>4, <1>5, <1>6, <1>7

LEMMA NothingLeft ==
  ASSUME NEW a \in Nat, NEW b \in Nat, NEW c \in Nat, NEW d \in Nat, NEW v \in Nat, NEW w \in Nat,
         a + 0 = b + c + d + v + w, b + c = a
  PROVE  v = 0 /\ w = 0
OBVIOUS

(* The account of a collecting task that the loop has not settled holds    *)
(* after the reducer, too.                                                 *)
LEMMA StillAccounted ==
  ASSUME TypeOK, NEW t \in Tasks, Orderliness(t), TakeOp(t),
         kind[t] \in Collecting, t \in listed, IsFinishable(status[t])
  PROVE  ProgAfter(t).total + Occurrences(ops'[t], {"New"}) =
           ProgAfter(t).succeeded + ProgAfter(t).failed + Occurrences(ops'[t], ItemOps)
             + todo[t] + doing[t]
<1>1. Op(t) # "BadDelta"
  BY Taken, KindSets DEF Orderliness, NoBadDelta, Collecting
<1>2. prog[t].total + Occurrences(ops[t], {"New"}) =
        prog[t].succeeded + prog[t].failed + Occurrences(ops[t], ItemOps) + todo[t] + doing[t]
  BY DEF Orderliness, Accounted
<1>3. ProgAfter(t) \in Progress
  BY ReduceType DEF ProgAfter, TypeOK
<1>4. /\ prog[t].total \in Nat /\ prog[t].succeeded \in Nat /\ prog[t].failed \in Nat
      /\ todo[t] \in Nat /\ doing[t] \in Nat
      /\ ProgAfter(t).total \in Nat /\ ProgAfter(t).succeeded \in Nat
      /\ ProgAfter(t).failed \in Nat
  BY <1>3 DEF TypeOK, Progress
<1>5. \A X : Occurrences(ops[t], X) \in Nat /\ Occurrences(ops'[t], X) \in Nat
  BY Taken, OccurrencesType DEF TypeOK
<1>6. /\ Occurrences(ops[t], {"New"}) \in Nat /\ Occurrences(ops'[t], {"New"}) \in Nat
      /\ Occurrences(ops[t], ItemOps) \in Nat /\ Occurrences(ops'[t], ItemOps) \in Nat
  BY <1>5
<1>7. ProgAfter(t).total + Occurrences(ops'[t], {"New"}) + prog[t].succeeded + prog[t].failed
          + Occurrences(ops[t], ItemOps) =
       ProgAfter(t).succeeded + ProgAfter(t).failed + Occurrences(ops'[t], ItemOps)
          + prog[t].total + Occurrences(ops[t], {"New"})
  BY <1>1, Balance
<1> DEFINE before == prog[t].succeeded + prog[t].failed + Occurrences(ops[t], ItemOps)
           news   == prog[t].total + Occurrences(ops[t], {"New"})
           after  == ProgAfter(t).succeeded + ProgAfter(t).failed + Occurrences(ops'[t], ItemOps)
           news1  == ProgAfter(t).total + Occurrences(ops'[t], {"New"})
<1>8. before \in Nat /\ news \in Nat /\ after \in Nat /\ news1 \in Nat
  BY <1>4, <1>6
<1>9. news = before + todo[t] + doing[t]
  BY <1>2
<1>10. news1 + before = after + news
  <2>1. ProgAfter(t).total + Occurrences(ops'[t], {"New"}) + prog[t].succeeded + prog[t].failed
          + Occurrences(ops[t], ItemOps) = news1 + before
    BY <1>4, <1>6
  <2>2. ProgAfter(t).succeeded + ProgAfter(t).failed + Occurrences(ops'[t], ItemOps)
          + prog[t].total + Occurrences(ops[t], {"New"}) = after + news
    BY <1>4, <1>6
  <2> QED
    BY <1>7, <2>1, <2>2
<1>11. news1 = after + todo[t] + doing[t]
  <2> HIDE DEF before, news, after, news1
  <2> QED
    BY <1>4, <1>8, <1>9, <1>10
<1> QED
  BY <1>11

LEMMA OpLoopFailure ==
  ASSUME TypeOK, FailureInv, NEW t \in Tasks, OpLoop(t)
  PROVE  FailureInv'
<1> USE DEF identity, entry, work, hooks
<1>1. Orderliness(t)
  BY DEF FailureInv
<1>2. TakeOp(t)
  BY DEF OpLoop, OpSkip, OpWait, OpHook, OpFulfill, ReduceOp
<1>3. kind[t] # "None"
  BY <1>1, <1>2 DEF Orderliness, Untouched, TakeOp
<1>4. \A u \in Tasks \ {t} : Same(u)
  BY DEF OpLoop, OpSkip, OpWait, OpHook, OpFulfill, ReduceOp, TakeOp, TypeOK, Same
<1>5. /\ kind'[t] = kind[t] /\ prog'[t] \in {prog[t], ProgAfter(t)}
      /\ main'[t] = main[t] /\ todo'[t] = todo[t] /\ doing'[t] = doing[t]
      /\ t \in listed' => t \in listed
  BY DEF OpLoop, OpSkip, OpWait, OpHook, OpFulfill, ReduceOp, TypeOK
<1>6. CASE kind[t] = "Delete"
  BY <1>1, <1>4, <1>5, <1>6, OneTaskSteps DEF Orderliness, Orderly, Collecting
<1>7. CASE kind[t] # "Delete"
  <2>1. /\ Outstanding(t)' <=> Outstanding(t)
        /\ Decided(t)' => Decided(t)
        /\ NoBadDelta(t)'
        /\ kind[t] \in Collecting => InOrder(t)'
        /\ kind[t] \in Orderly \ Collecting => OneInput(t)'
    BY <1>1, <1>2, <1>5, <1>7, TakenOrder
  <2>2. CASE OpSkip(t)
    <3>1. t \notin listed' /\ status'[t] = status[t]
      BY <2>2 DEF OpSkip
    <3>2. Orderliness(t)'
      BY <1>1, <1>3, <1>5, <1>7, <2>1, <3>1 DEF Orderliness, Accounted
    <3> QED
      BY <1>4, <3>2, OneTaskSteps
  <2>3. CASE ReduceOp(t) /\ status'[t] \in {StatusAfter(t), Succeed(StatusAfter(t))}
    <3>1. t \in listed /\ prog'[t] = ProgAfter(t)
      BY <2>3 DEF ReduceOp, TypeOK
    <3>2. IsFinishable(status'[t]) => IsFinishable(status[t])
      BY <2>3, CancelSettles
      DEF StatusAfter, Fail, Succeed, Cancel, IsFinishable, IsCancelable, TypeOK
    <3>3. status'[t] = "Failed" /\ status[t] # "Failed" => FailsNow(t) /\ IsFinishable(status[t])
      BY <2>3, CancelSettles
      DEF StatusAfter, Fail, Succeed, Cancel, IsFinishable, IsCancelable, TypeOK
    <3>4. ASSUME kind[t] \in Collecting, IsFinishable(status[t])
          PROVE  ProgAfter(t).total + Occurrences(ops'[t], {"New"}) =
                   ProgAfter(t).succeeded + ProgAfter(t).failed + Occurrences(ops'[t], ItemOps)
                     + todo[t] + doing[t]
      BY <1>1, <1>2, <3>1, <3>4, StillAccounted
    <3>5. kind[t] \in Collecting => Accounted(t)'
      BY <1>5, <3>1, <3>2, <3>4 DEF Accounted
    <3>6. ASSUME kind[t] \in Orderly, status'[t] = "Failed" PROVE ~Outstanding(t)'
      <4>1. CASE status[t] = "Failed"
        BY <1>1, <2>1, <3>6, <4>1 DEF Orderliness
      <4>2. CASE status[t] # "Failed"
        <5>1. /\ IsFinishable(status[t]) /\ prog'[t].collected # "None"
              /\ kind[t] \in Collecting =>
                   ProgAfter(t).succeeded + ProgAfter(t).failed = ProgAfter(t).total
          BY <3>1, <3>3, <3>6, <4>2 DEF FailsNow, Running, Cooking
        <5>2. Decided(t)'
          BY <5>1 DEF Decided
        <5>3. CASE kind[t] \in Collecting
          <6>1. Occurrences(ops'[t], {"New"}) = 0
            <7>1. \A i \in 1..Len(ops'[t]) : ops'[t][i] \notin {"New"}
              BY <2>1, <5>1, <5>3 DEF InOrder, NewsOps
            <7>2. ops'[t] \in Seq(Outs)
              BY <1>2 DEF TakeOp, TypeOK
            <7> QED
              BY <7>1, <7>2, OccurrencesZero
          <6>2. Occurrences(ops'[t], ItemOps) \in Nat
            BY <1>2, Taken
          <6>3. ProgAfter(t) \in Progress
            BY ReduceType DEF ProgAfter, TypeOK
          <6>4. /\ ProgAfter(t).total \in Nat /\ ProgAfter(t).succeeded \in Nat
                /\ ProgAfter(t).failed \in Nat /\ todo[t] \in Nat /\ doing[t] \in Nat
            BY <6>3 DEF TypeOK, Progress
          <6>5. todo[t] = 0 /\ doing[t] = 0
            <7>1. ProgAfter(t).total + 0 =
                    ProgAfter(t).succeeded + ProgAfter(t).failed + Occurrences(ops'[t], ItemOps)
                      + todo[t] + doing[t]
              BY <3>4, <5>1, <5>3, <6>1
            <7>2. ProgAfter(t).succeeded + ProgAfter(t).failed = ProgAfter(t).total
              BY <5>1, <5>3
            <7> DEFINE total == ProgAfter(t).total      ok == ProgAfter(t).succeeded
                       bad   == ProgAfter(t).failed     told == Occurrences(ops'[t], ItemOps)
            <7>3. /\ total \in Nat /\ ok \in Nat /\ bad \in Nat /\ told \in Nat
                  /\ total + 0 = ok + bad + told + todo[t] + doing[t]
                  /\ ok + bad = total
              BY <6>2, <6>4, <7>1, <7>2
            <7>4. todo[t] \in Nat /\ doing[t] \in Nat
              BY <6>4
            <7> HIDE DEF total, ok, bad, told
            <7> QED
              BY <7>3, <7>4, NothingLeft
          <6>6. ~Active(t)'
            BY <2>1, <5>2, <5>3 DEF InOrder
          <6> QED
            BY <1>5, <6>5, <6>6 DEF Outstanding, Active
        <5>4. CASE kind[t] \notin Collecting
          BY <2>1, <3>6, <5>2, <5>4 DEF OneInput
        <5> QED
          BY <5>3, <5>4
      <4> QED
        BY <4>1, <4>2
    <3>7. Orderliness(t)'
      BY <1>3, <1>5, <2>1, <3>5, <3>6 DEF Orderliness
    <3> QED
      BY <1>4, <3>7, OneTaskSteps
  <2> QED
    BY <2>2, <2>3 DEF OpLoop, OpWait, OpHook, OpFulfill, TypeOK
<1> QED
  BY <1>6, <1>7

-----------------------------------------------------------------------------
LEMMA HookWorkerFailure ==
  ASSUME TypeOK, HookInv, FailureInv, NEW t \in Tasks, HookWorker(t)
  PROVE  FailureInv'
<1> USE DEF identity, entry, work, hooks
<1>1. Orderliness(t) /\ HookInOnePlace(t)
  BY DEF FailureInv, HookInv
<1>2. CASE HookReceive(t) \/ HookCheck(t)
  BY <1>2, SameKeeps DEF HookReceive, HookCheck, FailureInv, Same
<1>3. CASE HookFinish(t)
  <2>1. PICK out \in Asides : Emit(t, out)
    BY <1>3 DEF HookFinish, Asides, Outs, VerdictOps, NewsOps, ItemOps
  <2>2. kind[t] # "None"
    BY <1>1, <1>3 DEF HookFinish, HookInOnePlace, AtRest
  <2>3. Orderliness(t)'
    BY <1>1, <1>3, <2>1, <2>2, AsideKeeps DEF HookFinish, Emit, TypeOK, Active
  <2>4. \A u \in Tasks \ {t} : Same(u)
    BY <1>3, <2>1 DEF HookFinish, Emit, TypeOK, Same
  <2> QED
    BY <2>3, <2>4, OneTaskSteps
<1> QED
  BY <1>2, <1>3 DEF HookWorker

LEMMA FailureAlways == Spec => []FailureInv
<1>1. TypeOK /\ HookInv /\ FailureInv /\ [Next]_vars => FailureInv'
  <2> SUFFICES ASSUME TypeOK, HookInv, FailureInv, [Next]_vars PROVE FailureInv'
    OBVIOUS
  <2>1. CASE Next
    BY <2>1, ApplicationFailure, WorkerFailure, OpLoopFailure, HookWorkerFailure DEF Next
  <2>2. CASE UNCHANGED vars
    BY <2>2, SameKeeps DEF FailureInv, Same, vars, identity, entry, work, hooks
  <2> QED
    BY <2>1, <2>2
<1> QED
  BY FailureInit, TypeCorrect, HookAlways, <1>1, PTL DEF Spec

(* A failed task has nothing left that a worker could do, in whatever order *)
(* the reports of its files and of its walk arrive, unless it is a deletion *)
(* or a custom task.                                                       *)
THEOREM FailureQuiet == Spec => []FailureIsQuiet
BY TypeCorrect, FailureAlways, FailureImplied, PTL

-----------------------------------------------------------------------------
(* The outcome of a task: the inductive invariant behind ReportIsEarned,   *)
(* SuccessIsComplete and NeverStranded, and its proof.                     *)

(* The kinds with one input at a time, except custom tasks. *)
Simple   == AllKinds \ (Collecting \cup {"Custom"})
CleanOps == {"Clean", "CleanErr"}
WorkOps  == VerdictOps \cup NewsOps \cup ItemOps \cup {"BadDelta"}

(* Something of X is queued; after something of X comes nothing of Y.      *)
Said(q, X)     == \E i \in 1..Len(q) : q[i] \in X
After(q, X, Y) == \A i, j \in 1..Len(q) : i < j /\ q[i] \in X => q[j] \notin Y

(* Nothing that is left of the work can change its outcome.                *)
WorkOver(t) ==
  /\ Cooked(kind[t], prog[t]) /\ prog[t].failed = 0
  /\ ~Outstanding(t) /\ ~Said(ops[t], WorkOps)

(* Work gives one verdict; a simple task reports nothing of it after that. *)
LastWord(t) ==
  /\ kind[t] \in Simple =>
       /\ todo[t] + doing[t] + (IF Active(t) THEN 1 ELSE 0) <= 1 /\ main[t] # "walk"
       /\ Said(ops[t], VerdictOps) \/ prog[t].collected = "True" => ~Outstanding(t)
       /\ After(ops[t], VerdictOps, WorkOps)
       /\ prog[t].collected = "True" => ~Said(ops[t], WorkOps)
  /\ kind[t] \in Simple \ {"Delete"} =>
       ~Said(ops[t], ItemOps \cup {"Deform"}) /\ prog[t].failed = 0
  /\ kind[t] \in Collecting =>
       /\ After(ops[t], VerdictOps, VerdictOps)
       /\ prog[t].collected # "None" => ~Said(ops[t], VerdictOps)
  /\ kind[t] \notin Steered \cup {"Plugin"} => ~Said(ops[t], {"Cancel"})

(* The hook has been run.  There is no second one.                         *)
Cleaned(t) ==
  \/ kind[t] # "Custom" /\ reports[t] > 0
  \/ Said(ops[t], CleanOps)
  \/ prog[t].cleaned # "Pending"

HookOnce(t) ==
  /\ kind[t] \notin Cleaning => AtRest(t)
  /\ Cleaned(t) => kind[t] \in Cleaning /\ AtRest(t) /\ NoHookOp(t) /\ ~Unsettled(t)

(* A listed task that nobody has canceled. *)
InForce(t) == t \in listed /\ status[t] # "Canceled"

(* What is told, and what is cleaned, has been earned.                     *)
Earned(t) ==
  /\ reports[t] <= 1
  /\ kind[t] = "Custom" /\ reports[t] = 1 => prog[t].collected = "True"
  /\ kind[t] # "Custom" /\ reports[t] = 1 => WorkOver(t)
  /\ hooking[t] = "intact" => WorkOver(t)
  /\ (hookq[t] > 0 \/ hooking[t] = "taken") /\ InForce(t) => WorkOver(t)
  /\ hooking[t] = "stale" => ~InForce(t)
  /\ kind[t] \notin Silent /\ Said(ops[t], CleanOps) => reports[t] = 1 \/ ~InForce(t)
  /\ kind[t] \notin Silent /\ prog[t].cleaned # "Pending" => reports[t] = 1 \/ status[t] = "Canceled"

Succeeded(t) ==
  status[t] = "Succeeded" =>
    /\ t \notin listed /\ Success(kind[t], prog[t]) /\ AtRest(t)
    /\ kind[t] # "Custom" => WorkOver(t)

(* The hook of a listed task is somewhere, or was run.                     *)
HookSomewhere(t) == ~AtRest(t) \/ Said(ops[t], {"Hook"} \cup CleanOps) \/ prog[t].cleaned # "Pending"

WalkBegan(t) ==
  main[t] = "walk" \/ todo[t] > 0 \/ doing[t] > 0 \/ Said(ops[t], {"Succ"}) \/ prog[t].collected = "True"

HookKept(t) ==
  t \in listed =>
    /\ kind[t] \in HookedAtAdd => HookSomewhere(t)
    /\ kind[t] \in HookedByOp /\ (WalkBegan(t) \/ (status[t] = "Canceled" /\ kind[t] \notin Steered))
         => HookSomewhere(t)

(* A listed task waits for its cleanup only, once its work went well or it *)
(* is canceled; before that its inputs or its verdict are on their way.    *)
InputsGone(t) == ~Active(t) /\ (kind[t] \in Simple => todo[t] = 0 /\ doing[t] = 0)

Waiting(t) ==
  t \in listed =>
    /\ IsFinishable(status[t]) => Running(kind[t], prog[t])
    /\ (Cooked(kind[t], prog[t]) /\ IsFinishable(status[t])) \/ status[t] = "Canceled" =>
         kind[t] \in Cleaning /\ prog[t].cleaned = "Pending" /\ ~hook[t]
    /\ kind[t] # "Custom" /\ IsFinishable(status[t]) /\ InputsGone(t) =>
         Decided(t) \/ Said(ops[t], {"Cancel"})

Outcome(t) == LastWord(t) /\ HookOnce(t) /\ Earned(t) /\ Succeeded(t) /\ HookKept(t) /\ Waiting(t)

OutcomeInv == \A t \in Tasks : Outcome(t)

LEMMA SaidAppend ==
  ASSUME NEW S, NEW q \in Seq(S), NEW o \in S, NEW X
  PROVE  Said(Append(q, o), X) <=> Said(q, X) \/ o \in X
<1>1. /\ Len(q) \in Nat /\ Len(Append(q, o)) = Len(q) + 1
      /\ Append(q, o)[Len(q) + 1] = o
      /\ \A i \in 1..Len(q) : Append(q, o)[i] = q[i]
  OBVIOUS
<1>2. 1..(Len(q) + 1) = 1..Len(q) \cup {Len(q) + 1}
  BY <1>1
<1> QED
  BY <1>1, <1>2 DEF Said

LEMMA Ahead ==
  ASSUME NEW S, NEW q \in Seq(S), q # <<>>
  PROVE  /\ Len(q) \in Nat \ {0} /\ Tail(q) \in Seq(S) /\ Head(q) \in S /\ Head(q) = q[1]
         /\ Len(Tail(q)) = Len(q) - 1
         /\ \A i \in 1..Len(Tail(q)) : Tail(q)[i] = q[i + 1] /\ i + 1 \in 1..Len(q)
         /\ \A i \in 1..Len(q) : i # 1 => i - 1 \in 1..Len(Tail(q)) /\ q[i] = Tail(q)[i - 1]
OBVIOUS

LEMMA SaidTail ==
  ASSUME NEW S, NEW q \in Seq(S), q # <<>>, NEW X
  PROVE  Said(q, X) <=> Head(q) \in X \/ Said(Tail(q), X)
<1>1. Said(q, X) => Head(q) \in X \/ Said(Tail(q), X)
  BY Ahead DEF Said
<1>2. Head(q) \in X => Said(q, X)
  <2>1. 1 \in 1..Len(q)
    BY Ahead
  <2> QED
    BY <2>1, Ahead DEF Said
<1>3. Said(Tail(q), X) => Said(q, X)
  BY Ahead DEF Said
<1> QED
  BY <1>1, <1>2, <1>3

LEMMA AfterAppend ==
  ASSUME NEW S, NEW q \in Seq(S), NEW o \in S, NEW X, NEW Y,
         After(q, X, Y), Said(q, X) => o \notin Y
  PROVE  After(Append(q, o), X, Y)
<1>1. /\ Len(q) \in Nat /\ Len(Append(q, o)) = Len(q) + 1
      /\ Append(q, o)[Len(q) + 1] = o
      /\ \A i \in 1..Len(q) : Append(q, o)[i] = q[i]
  OBVIOUS
<1> SUFFICES ASSUME NEW i \in 1..Len(Append(q, o)), NEW j \in 1..Len(Append(q, o)), i < j,
                    Append(q, o)[i] \in X
             PROVE  Append(q, o)[j] \notin Y
  BY DEF After
<1>2. i \in 1..Len(q) /\ q[i] \in X
  BY <1>1
<1>3. CASE j \in 1..Len(q)
  BY <1>1, <1>2, <1>3 DEF After
<1>4. CASE j = Len(q) + 1
  BY <1>1, <1>2, <1>4 DEF Said
<1> QED
  BY <1>1, <1>3, <1>4

LEMMA AfterTail ==
  ASSUME NEW S, NEW q \in Seq(S), q # <<>>, NEW X, NEW Y, After(q, X, Y)
  PROVE  After(Tail(q), X, Y) /\ (Head(q) \in X => ~Said(Tail(q), Y))
<1>1. ASSUME NEW i \in 1..Len(Tail(q)), NEW j \in 1..Len(Tail(q)), i < j, Tail(q)[i] \in X
      PROVE  Tail(q)[j] \notin Y
  <2>1. i + 1 \in 1..Len(q) /\ j + 1 \in 1..Len(q) /\ i + 1 < j + 1
        /\ q[i + 1] \in X /\ q[j + 1] = Tail(q)[j]
    BY <1>1, Ahead
  <2> DEFINE ii == i + 1  jj == j + 1
  <2> HIDE DEF ii, jj
  <2> QED
    BY <2>1 DEF After, ii, jj
<1>2. ASSUME Head(q) \in X, NEW j \in 1..Len(Tail(q)) PROVE Tail(q)[j] \notin Y
  <2>1. 1 \in 1..Len(q) /\ j + 1 \in 1..Len(q) /\ 1 < j + 1 /\ q[1] \in X /\ q[j + 1] = Tail(q)[j]
    BY <1>2, Ahead
  <2> QED
    BY <2>1 DEF After
<1> QED
  BY <1>1, <1>2 DEF After, Said

LEMMA SaidNothing == \A X : ~Said(<<>>, X)
BY DEF Said

LEMMA SaidMore == \A q, X, Y : Said(q, X) /\ X \subseteq Y => Said(q, Y)
BY DEF Said

(* The earlier invariants in these terms. *)
LEMMA InTheseTerms ==
  ASSUME NEW t
  PROVE  /\ NoHookOp(t) <=> ~Said(ops[t], {"Hook"})
         /\ NoBadDelta(t) <=> ~Said(ops[t], {"BadDelta"})
         /\ Decided(t) <=> prog[t].collected # "None" \/ Said(ops[t], VerdictOps)
         /\ InOrder(t) /\ prog[t].collected # "None" => ~Said(ops[t], NewsOps)
BY DEF NoHookOp, NoBadDelta, Decided, InOrder, Said

LEMMA OutcomeImplied ==
  TypeOK /\ FailureInv /\ OutcomeInv => ReportIsEarned /\ SuccessIsComplete /\ NeverStranded
<1> SUFFICES ASSUME TypeOK, FailureInv, OutcomeInv, NEW t \in Tasks
             PROVE  /\ /\ reports[t] <= 1
                       /\ reports[t] = 1 => Cooked(kind[t], prog[t])
                       /\ reports[t] = 1 /\ kind[t] # "Custom" => ~Outstanding(t) /\ prog[t].failed = 0
                    /\ status[t] = "Succeeded" =>
                         /\ t \notin listed
                         /\ Success(kind[t], prog[t])
                         /\ kind[t] # "Custom" => ~Outstanding(t)
                         /\ kind[t] \in Cleaning \ Silent => reports[t] = 1
                         /\ ~hook[t] /\ hookq[t] = 0 /\ hooking[t] = "none"
                    /\ kind[t] # "Custom" /\ kind[t] \notin Steered \cap HookedByOp => ~Stranded(t)
  BY DEF ReportIsEarned, SuccessIsComplete, NeverStranded
<1>1. Outcome(t) /\ Orderliness(t)
  BY DEF OutcomeInv, FailureInv
<1>2. /\ reports[t] <= 1
      /\ reports[t] = 1 => Cooked(kind[t], prog[t])
      /\ reports[t] = 1 /\ kind[t] # "Custom" => ~Outstanding(t) /\ prog[t].failed = 0
  BY <1>1 DEF Outcome, Earned, WorkOver, Cooked, Collecting
<1>3. ASSUME status[t] = "Succeeded"
      PROVE  /\ t \notin listed
             /\ Success(kind[t], prog[t])
             /\ kind[t] # "Custom" => ~Outstanding(t)
             /\ kind[t] \in Cleaning \ Silent => reports[t] = 1
             /\ ~hook[t] /\ hookq[t] = 0 /\ hooking[t] = "none"
  BY <1>1, <1>3 DEF Outcome, Earned, Succeeded, WorkOver, Success, AtRest
<1>4. ASSUME kind[t] # "Custom", kind[t] \notin Steered \cap HookedByOp, Stranded(t) PROVE FALSE
  <2>1. /\ t \in listed /\ status[t] # "Failed" /\ ~Outstanding(t)
        /\ ops[t] = <<>> /\ hookq[t] = 0 /\ hooking[t] = "none"
    BY <1>4 DEF Stranded, InFlight, TypeOK
  <2>2. \A X : ~Said(ops[t], X)
    BY <2>1, SaidNothing
  <2>3. status[t] \in {"Pending", "Started", "Canceled"}
    BY <1>1, <2>1 DEF TypeOK, TaskStatus, Outcome, Succeeded
  <2>4. (Cooked(kind[t], prog[t]) /\ IsFinishable(status[t])) \/ status[t] = "Canceled"
    <3> SUFFICES ASSUME IsFinishable(status[t]) PROVE Cooked(kind[t], prog[t])
      BY <2>3 DEF IsFinishable
    <3>1. InputsGone(t)
      BY <2>1 DEF Outstanding, InputsGone, Active, TypeOK
    <3>2. prog[t].collected # "None"
      BY <1>1, <1>4, <2>1, <2>2, <3>1, InTheseTerms DEF Outcome, Waiting
    <3>3. Running(kind[t], prog[t])
      BY <1>1, <2>1 DEF Outcome, Waiting
    <3>4. CASE kind[t] \in Collecting
      <4>1. Occurrences(ops[t], {"New"}) = 0 /\ Occurrences(ops[t], ItemOps) = 0
        BY <2>1, NothingQueued
      <4>2. todo[t] = 0 /\ doing[t] = 0
        BY <2>1 DEF Outstanding, TypeOK
      <4>3. prog[t].total = prog[t].succeeded + prog[t].failed
        BY <1>1, <2>1, <3>4, <4>1, <4>2 DEF Orderliness, Accounted, TypeOK, Progress
      <4> QED
        BY <3>2, <3>3, <4>3 DEF Running, Cooking
    <3>5. CASE kind[t] \notin Collecting
      BY <3>2, <3>3, <3>5 DEF Running, Cooking
    <3> QED
      BY <3>4, <3>5
  <2>5. kind[t] \in Cleaning /\ prog[t].cleaned = "Pending" /\ ~hook[t]
    BY <1>1, <2>1, <2>4 DEF Outcome, Waiting
  <2>6. ~HookSomewhere(t)
    BY <2>1, <2>2, <2>5 DEF HookSomewhere, AtRest
  <2>7. kind[t] \in HookedByOp /\ kind[t] \notin Steered
    BY <1>1, <1>4, <2>1, <2>5, <2>6
    DEF Outcome, HookKept, Cleaning, Collecting, HookedAtAdd, HookedByOp
  <2>8. status[t] # "Canceled" => WalkBegan(t)
    BY <2>4 DEF WalkBegan, Cooked
  <2> QED
    BY <1>1, <2>1, <2>6, <2>7, <2>8 DEF Outcome, HookKept
<1> QED
  BY <1>2, <1>3, <1>4

-----------------------------------------------------------------------------
(* What has been decided stays so.                                         *)

SameRecord(t) == kind'[t] = kind[t] /\ prog'[t] = prog[t]
SameHooks(t)  == hook'[t] = hook[t] /\ hookq'[t] = hookq[t] /\ hooking'[t] = hooking[t] /\ reports'[t] = reports[t]

LEMMA StaysOver ==
  ASSUME TypeOK, NEW t \in Tasks, WorkOver(t), kind'[t] = kind[t], Outstanding(t)' => Outstanding(t),
         \/ SameRecord(t) /\ \A X : Said(ops'[t], X) => Said(ops[t], X)
         \/ SameRecord(t) /\ \E out \in Outs \ WorkOps : ops'[t] = Append(ops[t], out)
         \/ TakeOp(t) /\ prog'[t] \in {prog[t], ProgAfter(t)}
  PROVE  WorkOver(t)'
<1>0. ops[t] \in Seq(Outs) /\ prog[t] \in Progress
  BY DEF TypeOK
<1>1. CASE SameRecord(t) /\ \A X : Said(ops'[t], X) => Said(ops[t], X)
  BY <1>1 DEF WorkOver, SameRecord
<1>2. CASE SameRecord(t) /\ \E out \in Outs \ WorkOps : ops'[t] = Append(ops[t], out)
  <2>1. ~Said(ops'[t], WorkOps)
    BY <1>0, <1>2, SaidAppend DEF WorkOver
  <2> QED
    BY <1>2, <2>1 DEF WorkOver, SameRecord
<1>3. CASE TakeOp(t) /\ prog'[t] \in {prog[t], ProgAfter(t)}
  <2>1. ops[t] # <<>> /\ ops'[t] = Tail(ops[t])
    BY <1>3 DEF TakeOp, TypeOK
  <2>2. Op(t) \notin WorkOps /\ ~Said(ops'[t], WorkOps) /\ Op(t) \in Outs
    BY <1>0, <2>1, SaidTail, Ahead DEF WorkOver, Op
  <2>3. /\ prog'[t].collected = prog[t].collected /\ prog'[t].total = prog[t].total
        /\ prog'[t].succeeded = prog[t].succeeded /\ prog'[t].failed = prog[t].failed
    <3>1. ProgAfter(t) \in {prog[t], [prog[t] EXCEPT !.cleaned = "Success"],
                            [prog[t] EXCEPT !.cleaned = "Failed"]}
      BY <2>2 DEF ProgAfter, Reduce, WorkOps, VerdictOps, NewsOps, ItemOps
    <3> QED
      BY <1>0, <1>3, <3>1 DEF Progress
  <2> QED
    BY <2>2, <2>3 DEF WorkOver, Cooked
<1> QED
  BY <1>1, <1>2, <1>3

-----------------------------------------------------------------------------
(* Steps that report nothing and leave the record and the hooks alone.     *)
Moves(t) ==
  /\ SameRecord(t) /\ SameHooks(t) /\ ops'[t] = ops[t] /\ (t \in listed' <=> t \in listed)
  /\ status'[t] = status[t] \/ (status[t] = "Pending" /\ status'[t] = "Started")
  /\ todo'[t] \in Nat /\ doing'[t] \in Nat
  /\ Outstanding(t)' => Outstanding(t)
  /\ kind[t] \in Simple =>
       /\ main'[t] # "walk"
       /\ todo'[t] + doing'[t] + (IF Active(t)' THEN 1 ELSE 0) <=
            todo[t] + doing[t] + (IF Active(t) THEN 1 ELSE 0)
  /\ Unsettled(t)' => Unsettled(t)
  /\ t \in listed /\ kind[t] \in HookedByOp /\ WalkBegan(t)' => WalkBegan(t)
  /\ t \in listed /\ IsFinishable(status[t]) /\ InputsGone(t)' => InputsGone(t)

LEMMA MovesKeep ==
  ASSUME TypeOK, NEW t \in Tasks, Outcome(t), Moves(t)
  PROVE  Outcome(t)'
<1> USE DEF Moves, SameRecord, SameHooks
<1>1. WorkOver(t) => WorkOver(t)'
  BY DEF WorkOver
<1>2. LastWord(t)'
  <2>1. LastWord(t)
    BY DEF Outcome
  <2>2. kind[t] \in Simple =>
          todo'[t] + doing'[t] + (IF Active(t)' THEN 1 ELSE 0) <= 1 /\ main'[t] # "walk"
    BY <2>1 DEF LastWord, TypeOK
  <2> QED
    BY <2>1, <2>2 DEF LastWord
<1>3. HookOnce(t)'
  BY DEF Outcome, HookOnce, Cleaned, AtRest, NoHookOp
<1>4. Earned(t)'
  BY <1>1 DEF Outcome, Earned, InForce
<1>5. Succeeded(t)'
  BY <1>1 DEF Outcome, Succeeded, AtRest
<1>6. HookKept(t)'
  BY DEF Outcome, HookKept, HookSomewhere, AtRest
<1>7. Waiting(t)'
  BY DEF Outcome, Waiting, Decided, IsFinishable
<1> QED
  BY <1>2, <1>3, <1>4, <1>5, <1>6, <1>7 DEF Outcome

(* What does not change at all. *)
Still(t) ==
  /\ SameRecord(t) /\ SameHooks(t) /\ ops'[t] = ops[t] /\ (t \in listed' <=> t \in listed)
  /\ status'[t] = status[t] /\ main'[t] = main[t] /\ todo'[t] = todo[t] /\ doing'[t] = doing[t]

LEMMA StillKeeps ==
  ASSUME TypeOK, NEW t \in Tasks, Outcome(t), Still(t)
  PROVE  Outcome(t)'
<1>1. Moves(t)
  <2>1. LastWord(t)
    BY DEF Outcome
  <2>2. kind[t] \in Simple => main'[t] # "walk"
    BY <2>1 DEF LastWord, Still
  <2>3. Active(t)' <=> Active(t)
    BY DEF Still, Active
  <2>4. todo'[t] + doing'[t] + (IF Active(t)' THEN 1 ELSE 0) <=
          todo[t] + doing[t] + (IF Active(t) THEN 1 ELSE 0)
    BY <2>3 DEF Still, TypeOK
  <2>5. /\ Unsettled(t)' <=> Unsettled(t)
        /\ WalkBegan(t)' <=> WalkBegan(t)
        /\ InputsGone(t)' <=> InputsGone(t)
        /\ Outstanding(t)' <=> Outstanding(t)
    BY <2>3 DEF Still, SameRecord, Unsettled, WalkBegan, InputsGone, Outstanding
  <2> QED
    BY <2>2, <2>4, <2>5 DEF Still, SameRecord, SameHooks, Moves, TypeOK
<1> QED
  BY <1>1, MovesKeep

LEMMA OutcomeOfOne ==
  ASSUME TypeOK, OutcomeInv, NEW t \in Tasks, Outcome(t)', \A u \in Tasks \ {t} : Still(u)
  PROVE  OutcomeInv'
BY StillKeeps DEF OutcomeInv

-----------------------------------------------------------------------------
(* Steps that report `out` of t.                                           *)
Speaks(t, out) ==
  /\ out \in Outs \ CleanOps /\ ops'[t] = Append(ops[t], out)
  /\ SameRecord(t) /\ SameHooks(t) /\ (t \in listed' <=> t \in listed) /\ status'[t] = status[t]
  /\ todo'[t] \in Nat /\ doing'[t] \in Nat
  /\ out \in WorkOps => Outstanding(t) \/ kind[t] = "Custom"
  /\ Outstanding(t)' => Outstanding(t)
  /\ kind[t] \in Simple =>
       /\ main'[t] # "walk"
       /\ todo'[t] + doing'[t] + (IF Active(t)' THEN 1 ELSE 0) <=
            todo[t] + doing[t] + (IF Active(t) THEN 1 ELSE 0)
       /\ out \in VerdictOps => ~Outstanding(t)'
  /\ kind[t] \in Simple \ {"Delete"} => out \notin ItemOps \cup {"Deform"}
  /\ kind[t] \in Collecting /\ out \in VerdictOps => Active(t)
  /\ out = "Hook" => Unsettled(t)
  /\ out = "Cancel" => kind[t] \in Steered \cup {"Plugin"}
  /\ Unsettled(t)' => Unsettled(t) /\ out # "Hook"
  /\ kind[t] \in HookedByOp /\ WalkBegan(t)' => WalkBegan(t) \/ out = "Hook"
  /\ kind[t] # "Custom" /\ InputsGone(t)' => InputsGone(t) \/ out \in VerdictOps \cup {"Cancel"}

LEMMA SpeaksKeep ==
  ASSUME TypeOK, NEW t \in Tasks, Outcome(t), Orderliness(t), HookInOnePlace(t), NEW out, Speaks(t, out)
  PROVE  Outcome(t)'
<1> USE DEF SameRecord, SameHooks
<1>0. ops[t] \in Seq(Outs) /\ out \in Outs /\ out \notin CleanOps /\ ops'[t] = Append(ops[t], out)
  BY DEF TypeOK, Speaks
<1>1. \A X : Said(ops'[t], X) <=> Said(ops[t], X) \/ out \in X
  BY <1>0, SaidAppend
<1>2. kind[t] # "Custom" /\ WorkOver(t) => WorkOver(t)'
  <2> SUFFICES ASSUME kind[t] # "Custom", WorkOver(t) PROVE WorkOver(t)'
    OBVIOUS
  <2>1. out \notin WorkOps
    BY DEF Speaks, WorkOver
  <2> QED
    BY <1>1, <2>1 DEF Speaks, WorkOver
<1>3. LastWord(t)'
  <2>1. LastWord(t)
    BY DEF Outcome
  <2>2. ASSUME kind[t] \in Simple
        PROVE  /\ todo'[t] + doing'[t] + (IF Active(t)' THEN 1 ELSE 0) <= 1 /\ main'[t] # "walk"
               /\ Said(ops'[t], VerdictOps) \/ prog'[t].collected = "True" => ~Outstanding(t)'
               /\ After(ops'[t], VerdictOps, WorkOps)
               /\ prog'[t].collected = "True" => ~Said(ops'[t], WorkOps)
    <3>1. todo'[t] + doing'[t] + (IF Active(t)' THEN 1 ELSE 0) <= 1 /\ main'[t] # "walk"
      BY <2>1, <2>2 DEF LastWord, Speaks, TypeOK
    <3>2. Said(ops'[t], VerdictOps) \/ prog'[t].collected = "True" => ~Outstanding(t)'
      BY <1>1, <2>1, <2>2 DEF LastWord, Speaks
    <3>3. Said(ops[t], VerdictOps) \/ prog[t].collected = "True" => out \notin WorkOps
      BY <2>1, <2>2 DEF LastWord, Speaks, Simple
    <3>4. After(ops'[t], VerdictOps, WorkOps)
      BY <1>0, <2>1, <2>2, <3>3, AfterAppend DEF LastWord
    <3>5. prog'[t].collected = "True" => ~Said(ops'[t], WorkOps)
      BY <1>1, <2>1, <2>2, <3>3 DEF LastWord, Speaks
    <3> QED
      BY <3>1, <3>2, <3>4, <3>5
  <2>3. ASSUME kind[t] \in Simple \ {"Delete"}
        PROVE  ~Said(ops'[t], ItemOps \cup {"Deform"}) /\ prog'[t].failed = 0
    BY <1>1, <2>1, <2>3 DEF LastWord, Speaks
  <2>4. ASSUME kind[t] \in Collecting
        PROVE  /\ After(ops'[t], VerdictOps, VerdictOps)
               /\ prog'[t].collected # "None" => ~Said(ops'[t], VerdictOps)
    <3>1. out \in VerdictOps => ~Decided(t)
      BY <2>4 DEF Speaks, Orderliness, InOrder
    <3>2. out \in VerdictOps => prog[t].collected = "None" /\ ~Said(ops[t], VerdictOps)
      BY <3>1, InTheseTerms
    <3>3. After(ops'[t], VerdictOps, VerdictOps)
      BY <1>0, <2>1, <2>4, <3>2, AfterAppend DEF LastWord
    <3> QED
      BY <1>1, <2>1, <2>4, <3>2, <3>3 DEF LastWord, Speaks
  <2>5. kind[t] \notin Steered \cup {"Plugin"} => ~Said(ops'[t], {"Cancel"})
    BY <1>1, <2>1 DEF LastWord, Speaks
  <2> QED
    BY <2>2, <2>3, <2>4, <2>5 DEF LastWord, Speaks
<1>4. HookOnce(t)'
  <2>1. HookOnce(t)
    BY DEF Outcome
  <2>2. Cleaned(t)' => Cleaned(t)
    BY <1>0, <1>1 DEF Cleaned, Speaks
  <2>3. Cleaned(t)' => out # "Hook" /\ ~Said(ops[t], {"Hook"})
    BY <2>1, <2>2, InTheseTerms DEF HookOnce, Speaks
  <2>4. Cleaned(t)' => \A i \in 1..Len(ops'[t]) : ops'[t][i] # "Hook"
    <3>1. Cleaned(t)' => ~Said(ops'[t], {"Hook"})
      BY <1>1, <2>3
    <3> QED
      BY <3>1 DEF Said
  <2> QED
    BY <2>1, <2>2, <2>4 DEF HookOnce, AtRest, Speaks, NoHookOp
<1>5. Earned(t)'
  <2>1. kind[t] # "Custom" \/ (hookq[t] = 0 /\ hooking[t] = "none")
    BY DEF Outcome, HookOnce, AtRest, Cleaning, Collecting
  <2> QED
    BY <1>0, <1>1, <1>2, <2>1 DEF Outcome, Earned, InForce, Speaks
<1>6. Succeeded(t)'
  BY <1>2 DEF Outcome, Succeeded, AtRest, Speaks
<1>7. HookKept(t)'
  <2>1. HookSomewhere(t) \/ out = "Hook" => HookSomewhere(t)'
    BY <1>1 DEF HookSomewhere, AtRest, Speaks
  <2> QED
    BY <2>1 DEF Outcome, HookKept, Speaks
<1>8. Waiting(t)'
  <2>1. Decided(t) \/ out \in VerdictOps => Decided(t)'
    <3>1. Decided(t) \/ out \in VerdictOps => prog'[t].collected # "None" \/ Said(ops'[t], VerdictOps)
      BY <1>1, InTheseTerms DEF Speaks
    <3> QED
      BY <3>1 DEF Decided, Said
  <2>2. Said(ops[t], {"Cancel"}) \/ out = "Cancel" => Said(ops'[t], {"Cancel"})
    BY <1>1
  <2> QED
    BY <2>1, <2>2 DEF Outcome, Waiting, Speaks
<1> QED
  BY <1>3, <1>4, <1>5, <1>6, <1>7, <1>8 DEF Outcome

-----------------------------------------------------------------------------
(* A cancellation by the user, by a worker, or by a newer preload.         *)
Cancels(t) ==
  /\ SameRecord(t) /\ ops'[t] = ops[t] /\ hooking'[t] = hooking[t] /\ reports'[t] = reports[t]
  /\ t \in listed /\ (t \in listed' <=> hook[t]) /\ status'[t] = Cancel(status[t])
  /\ hook'[t] = FALSE /\ hookq'[t] = hookq[t] + (IF hook[t] THEN 1 ELSE 0)
  /\ main'[t] \in {main[t], "gone"} /\ todo'[t] = todo[t] /\ doing'[t] = doing[t]

LEMMA CancelsKeep ==
  ASSUME TypeOK, NEW t \in Tasks, Outcome(t), HookInOnePlace(t), Cancels(t)
  PROVE  Outcome(t)'
<1> USE DEF SameRecord
<1>0. status'[t] = "Canceled"
  BY DEF Outcome, Succeeded, Cancels, Cancel, IsCancelable, TypeOK, TaskStatus
<1>1. Outstanding(t)' => Outstanding(t)
  BY DEF Cancels, Outstanding
<1>2. LastWord(t)'
  <2>1. LastWord(t)
    BY DEF Outcome
  <2>2. kind[t] \in Simple =>
          todo'[t] + doing'[t] + (IF Active(t)' THEN 1 ELSE 0) <= 1 /\ main'[t] # "walk"
    BY <2>1 DEF LastWord, TypeOK, Cancels, Active
  <2> QED
    BY <1>1, <2>1, <2>2 DEF LastWord, Cancels
<1>3. AtRest(t) => AtRest(t)'
  BY DEF AtRest, Cancels, TypeOK
<1>4. HookOnce(t)'
  <2>1. HookOnce(t)
    BY DEF Outcome
  <2>2. Cleaned(t)' <=> Cleaned(t)
    BY DEF Cleaned, Cancels
  <2>3. NoHookOp(t)' <=> NoHookOp(t)
    BY DEF NoHookOp, Cancels
  <2>4. Unsettled(t)' => Unsettled(t)
    BY DEF Unsettled, Cancels
  <2> QED
    BY <1>3, <2>1, <2>2, <2>3, <2>4 DEF HookOnce, Cancels
<1>5. WorkOver(t) => WorkOver(t)'
  BY <1>1 DEF WorkOver, Cancels
<1>6. Earned(t)'
  BY <1>0, <1>5 DEF Outcome, Earned, InForce, Cancels
<1>7. Succeeded(t)'
  BY <1>0 DEF Succeeded
<1>8. hook[t] => HookSomewhere(t)' /\ kind[t] \in Cleaning /\ prog[t].cleaned = "Pending"
  BY DEF Outcome, HookOnce, Cleaned, AtRest, HookSomewhere, Cancels, TypeOK
<1>9. HookKept(t)'
  BY <1>8 DEF HookKept, Cancels
<1>10. Waiting(t)'
  BY <1>0, <1>8 DEF Waiting, Cancels, IsFinishable
<1> QED
  BY <1>2, <1>4, <1>6, <1>7, <1>9, <1>10 DEF Outcome

(* A task that is submitted, or only gets a failure.                       *)
Begins(t, k) ==
  /\ k \in AllKinds /\ kind[t] = "None" /\ kind'[t] = k /\ prog'[t] = prog[t]
  /\ hookq'[t] = hookq[t] /\ hooking'[t] = hooking[t] /\ reports'[t] = reports[t]
  /\ t \in listed' /\ (hook'[t] <=> k \in HookedAtAdd)
  /\ status'[t] \in {"Pending", "Started"}
  /\ todo'[t] = todo[t] /\ doing'[t] = doing[t]
  /\ \/ main'[t] = "queued" /\ ops'[t] = ops[t]
     \/ main'[t] = main[t] /\ ops'[t] = ops[t] /\ k = "Custom"
     \/ main'[t] = main[t] /\ ops'[t] = Append(ops[t], "Fail") /\ k \in Collecting

LEMMA BeginsKeep ==
  ASSUME TypeOK, NEW t \in Tasks, Outcome(t), Orderliness(t), HookInOnePlace(t), NEW k, Begins(t, k)
  PROVE  Outcome(t)'
<1>1. /\ t \notin listed /\ main[t] = "idle" /\ todo[t] = 0 /\ doing[t] = 0
      /\ prog[t] = DefaultProg /\ status[t] = "Pending" /\ ops[t] = <<>>
      /\ ~hook[t] /\ hookq[t] = 0 /\ hooking[t] = "none"
  BY DEF Orderliness, Untouched, HookInOnePlace, AtRest, Begins
<1>2. prog'[t].collected = "None" /\ prog'[t].failed = 0 /\ prog'[t].cleaned = "Pending"
  BY <1>1 DEF Begins, DefaultProg
<1>3. reports'[t] = 0
  <2>1. ~WorkOver(t)
    BY <1>1 DEF WorkOver, Cooked, DefaultProg
  <2> QED
    BY <2>1 DEF Outcome, Earned, Begins, TypeOK
<1>4. ops'[t] = <<>> \/ (ops'[t] = <<"Fail">> /\ k \in Collecting)
  BY <1>1 DEF Begins
<1>5. \A X : Said(ops'[t], X) => "Fail" \in X /\ k \in Collecting
  BY <1>4 DEF Said
<1>6. \A X, Y : After(ops'[t], X, Y)
  BY <1>4 DEF After
<1>7. main'[t] \in {"queued", "idle"} /\ todo'[t] = 0 /\ doing'[t] = 0
  BY <1>1 DEF Begins
<1>8. LastWord(t)'
  <2>1. todo'[t] + doing'[t] + (IF Active(t)' THEN 1 ELSE 0) <= 1 /\ main'[t] # "walk"
    BY <1>7
  <2>2. k \in Simple => \A X : ~Said(ops'[t], X)
    BY <1>5 DEF Simple
  <2>3. ~Said(ops'[t], {"Cancel"})
    BY <1>5
  <2> QED
    BY <1>2, <1>6, <2>1, <2>2, <2>3 DEF LastWord, Begins
<1>9. ~Cleaned(t)' /\ ~WorkOver(t)' /\ ~Said(ops'[t], CleanOps)
  BY <1>2, <1>3, <1>5 DEF Cleaned, WorkOver, Cooked, CleanOps
<1>10. HookOnce(t)'
  BY <1>1, <1>9 DEF HookOnce, AtRest, Begins, HookedAtAdd, Cleaning, Collecting
<1>11. Earned(t)'
  BY <1>1, <1>2, <1>3, <1>9 DEF Earned, Begins
<1>12. Succeeded(t)'
  BY DEF Succeeded, Begins
<1>13. ~WalkBegan(t)'
  BY <1>2, <1>5, <1>7 DEF WalkBegan
<1>14. HookKept(t)'
  BY <1>13 DEF HookKept, HookSomewhere, AtRest, Begins
<1>15. Waiting(t)'
  <2>1. Running(kind'[t], prog'[t]) /\ ~Cooked(kind'[t], prog'[t])
    BY <1>2 DEF Running, Cooking, Cooked
  <2>2. k # "Custom" /\ ~Active(t)' => Decided(t)'
    <3> SUFFICES ASSUME k # "Custom", ~Active(t)' PROVE Decided(t)'
      OBVIOUS
    <3>1. ops'[t] = <<"Fail">>
      BY <1>1 DEF Begins, Active
    <3> QED
      BY <3>1 DEF Decided, VerdictOps
  <2> QED
    BY <2>1, <2>2 DEF Waiting, InputsGone, Begins
<1> QED
  BY <1>8, <1>10, <1>11, <1>12, <1>14, <1>15 DEF Outcome

LEMMA ApplicationOutcome ==
  ASSUME TypeOK, TypeOK', HookInv, FailureInv, OutcomeInv, NEW t \in Tasks, Application(t)
  PROVE  OutcomeInv'
<1> USE DEF identity, entry, work, hooks
<1>1. \A u \in Tasks : Outcome(u) /\ Orderliness(u) /\ HookInOnePlace(u)
  BY DEF HookInv, FailureInv, OutcomeInv
<1>2. ASSUME NEW k \in Kinds, NEW p \in PoolsOf(k), Add(t, k, p) \/ Reject(t, k, p) PROVE OutcomeInv'
  <2>1. k \in AllKinds /\ (p = "none" => k = "Custom")
    BY KindsAssumption DEF PoolsOf, AllKinds, Cleaning, Plain, Collecting
  <2>2. status[t] = "Pending"
    BY <1>1, <1>2 DEF Add, Reject, Enlist, Orderliness, Untouched
  <2>3. Begins(t, k)
    BY <1>2, <2>1, <2>2 DEF Add, Reject, Enlist, Emit, Begins, Start, TypeOK, Rejectable
  <2>4. \A u \in Tasks \ {t} : Still(u)
    BY <1>2, SMTT(60) DEF Add, Reject, Enlist, Emit, Still, SameRecord, SameHooks, TypeOK
  <2> QED
    BY <1>1, <2>3, <2>4, BeginsKeep, OutcomeOfOne
<1>3. ASSUME NEW prev \in Tasks \ {t}, "Preload" \in Kinds, Supersede(t, prev) PROVE OutcomeInv'
  <2>1. Begins(t, "Preload")
    <3>1. /\ kind[t] = "None" /\ kind'[t] = "Preload" /\ main'[t] = "queued" /\ t \in listed'
          /\ hook'[t] = TRUE /\ status'[t] = status[t] /\ hookq'[t] = hookq[t]
      BY <1>3 DEF Supersede, Enlist, TypeOK, Keep, Submit
    <3>2. status[t] = "Pending"
      BY <1>1, <3>1 DEF Orderliness, Untouched
    <3> QED
      BY <1>3, <3>1, <3>2 DEF Supersede, Begins, AllKinds, Cleaning, HookedAtAdd
  <2>2. Cancels(prev)
    BY <1>3 DEF Supersede, Enlist, TypeOK, Keep, Submit, Cancels, SameRecord
  <2>3. ASSUME NEW u \in Tasks \ {t, prev} PROVE Still(u)
    <3>1. t \in Tasks /\ prev \in Tasks /\ u \in Tasks /\ u # t /\ u # prev
      BY <2>3
    <3>2. kind'[u] = kind[u] /\ main'[u] = main[u] /\ (u \in listed' <=> u \in listed)
      BY <1>3, <3>1 DEF Supersede, Enlist, TypeOK, Keep
    <3>3. status'[u] = status[u] /\ hook'[u] = hook[u] /\ hookq'[u] = hookq[u]
      BY <1>3, <3>1 DEF Supersede, TypeOK, Submit
    <3> QED
      BY <1>3, <3>2, <3>3 DEF Supersede, Still, SameRecord, SameHooks
  <2>4. Outcome(t)' /\ Outcome(prev)'
    BY <1>1, <2>1, <2>2, BeginsKeep, CancelsKeep
  <2>5. \A u \in Tasks \ {t, prev} : Outcome(u)'
    BY <1>1, <2>3, StillKeeps
  <2> QED
    BY <2>4, <2>5 DEF OutcomeInv
<1>4. CASE UserCancel(t)
  <2>1. Cancels(t)
    BY <1>4 DEF UserCancel, CancelEntry, Keep, Submit, Cancels, SameRecord, TypeOK
  <2>2. \A u \in Tasks \ {t} : Still(u)
    BY <1>4 DEF UserCancel, CancelEntry, Keep, Submit, Still, SameRecord, SameHooks, TypeOK
  <2> QED
    BY <1>1, <2>1, <2>2, CancelsKeep, OutcomeOfOne
<1>5. CASE ScopeCancel(t)
  <2>1. \A u \in Tasks : Still(u)
    BY <1>5 DEF ScopeCancel, Still, SameRecord, SameHooks, TypeOK
  <2> QED
    BY <1>1, <2>1, StillKeeps DEF OutcomeInv
<1>6. CASE PluginOutput(t)
  <2>1. PICK out \in {"Log", "Cancel"} \cup (IF kind[t] = "Custom" THEN {"Succ", "Fail"} ELSE {}) :
          Emit(t, out)
    BY <1>6 DEF PluginOutput
  <2>2. /\ Active(t)' <=> Active(t)
        /\ Unsettled(t)' <=> Unsettled(t)
        /\ Outstanding(t)' <=> Outstanding(t)
        /\ main'[t] = main[t] /\ todo'[t] = todo[t] /\ doing'[t] = doing[t]
        /\ kind'[t] = kind[t] /\ prog'[t] = prog[t] /\ ops'[t] = Append(ops[t], out)
    BY <1>6, <2>1 DEF PluginOutput, Emit, Active, Unsettled, Outstanding, TypeOK
  <2>3. InputsGone(t)' <=> InputsGone(t)
    BY <2>2 DEF InputsGone
  <2>4. kind[t] # "Custom" => (WalkBegan(t)' => WalkBegan(t))
    <3>1. ops[t] \in Seq(Outs) /\ out \in Outs
      BY <2>1 DEF TypeOK, Outs
    <3>2. Said(ops'[t], {"Succ"}) <=> Said(ops[t], {"Succ"}) \/ out = "Succ"
      BY <2>2, <3>1, SaidAppend
    <3> QED
      BY <2>1, <2>2, <3>2 DEF WalkBegan
  <2>5. Speaks(t, out)
    <3>1. /\ kind[t] \in Steered
          /\ out \in Outs \ CleanOps /\ out # "Hook"
          /\ out \in WorkOps \cup VerdictOps => kind[t] = "Custom"
          /\ out \notin ItemOps \cup {"Deform"}
      BY <1>6, <2>1 DEF PluginOutput, Outs, CleanOps, WorkOps, VerdictOps, NewsOps, ItemOps
    <3>2. kind[t] \in Simple => main[t] # "walk" /\ kind[t] # "Custom"
      BY <1>1 DEF Outcome, LastWord, Simple
    <3>3. kind[t] \in Collecting \cup HookedByOp => kind[t] # "Custom"
      BY DEF Collecting, HookedByOp
    <3>4. todo'[t] + doing'[t] + (IF Active(t)' THEN 1 ELSE 0) <=
            todo[t] + doing[t] + (IF Active(t) THEN 1 ELSE 0)
      BY <2>2 DEF TypeOK
    <3>5. /\ (t \in listed' <=> t \in listed) /\ status'[t] = status[t] /\ SameHooks(t) /\ SameRecord(t)
          /\ todo'[t] \in Nat /\ doing'[t] \in Nat
      BY <1>6, <2>2 DEF PluginOutput, SameHooks, SameRecord, TypeOK
    <3> QED
      BY <2>2, <2>3, <2>4, <3>1, <3>2, <3>3, <3>4, <3>5 DEF Speaks
  <2>6. \A u \in Tasks \ {t} : Still(u)
    BY <1>6, <2>1 DEF PluginOutput, Emit, Still, SameRecord, SameHooks, TypeOK
  <2> QED
    BY <1>1, <2>5, <2>6, SpeaksKeep, OutcomeOfOne
<1> QED
  BY <1>2, <1>3, <1>4, <1>5, <1>6 DEF Application

-----------------------------------------------------------------------------
(* Inputs of t that are taken, dropped or passed on without a report.      *)
LEMMA WorkerMoves ==
  ASSUME TypeOK, NEW t \in Tasks, Outcome(t), HookInOnePlace(t),
         \/ Receive(t) \/ ReceiveItem(t) \/ Drop(t) \/ DropItem(t)
         \/ (WorkerCancel(t) /\ t \notin listed)
         \/ (Walk(t) /\ kind[t] \notin HookedByOp) \/ (Relay(t) /\ kind[t] \notin HookedByOp)
  PROVE  Moves(t)
<1> USE DEF identity, entry, work, hooks
<1>1. LastWord(t)
  BY DEF Outcome
<1>2. /\ SameRecord(t) /\ SameHooks(t) /\ ops'[t] = ops[t] /\ (t \in listed' <=> t \in listed)
      /\ status'[t] = status[t] \/ (status[t] = "Pending" /\ status'[t] = "Started")
  BY DEF Receive, ReceiveItem, Drop, DropItem, WorkerCancel, Walk, Relay, SameRecord, SameHooks,
         Start, TypeOK
<1>3. main[t] \in MainPhases /\ todo[t] \in Nat /\ doing[t] \in Nat
  BY DEF TypeOK
<1>4. kind[t] \in Simple => main[t] # "walk" /\ kind[t] \notin Collecting
  BY <1>1 DEF LastWord, Simple
<1>5. CASE Receive(t) \/ (WorkerCancel(t) /\ t \notin listed) \/ Drop(t)
  <2>1. /\ todo'[t] = todo[t] /\ doing'[t] = doing[t]
        /\ \/ main[t] = "queued" /\ main'[t] = "fresh"
           \/ main[t] \in {"queued", "fresh", "walk"} /\ main'[t] = "gone"
                /\ (t \notin listed \/ IsFinished(status[t]))
    BY <1>5 DEF Receive, WorkerCancel, Drop, InWorker, TypeOK
  <2>2. /\ Outstanding(t)' => Outstanding(t)
        /\ Unsettled(t)' => Unsettled(t)
        /\ WalkBegan(t)' => WalkBegan(t)
    BY <1>2, <2>1 DEF Outstanding, Unsettled, WalkBegan, SameRecord
  <2>3. /\ t \in listed /\ IsFinishable(status[t]) /\ InputsGone(t)' => InputsGone(t)
        /\ main'[t] # "walk"
    BY <2>1 DEF InputsGone, Active, IsFinishable, IsFinished
  <2>4. todo'[t] + doing'[t] + (IF Active(t)' THEN 1 ELSE 0) <=
          todo[t] + doing[t] + (IF Active(t) THEN 1 ELSE 0)
    BY <1>3, <2>1 DEF Active
  <2> QED
    BY <1>2, <1>3, <2>1, <2>2, <2>3, <2>4 DEF Moves
<1>6. CASE ReceiveItem(t) \/ DropItem(t)
  <2>1. /\ main'[t] = main[t] /\ todo'[t] \in Nat /\ doing'[t] \in Nat
        /\ todo'[t] + doing'[t] <= todo[t] + doing[t]
        /\ t \in listed /\ IsFinishable(status[t]) => todo'[t] + doing'[t] = todo[t] + doing[t]
    <3>1. CASE ReceiveItem(t)
      <4>1. /\ todo[t] > 0 /\ todo'[t] = todo[t] - 1 /\ main'[t] = main[t]
            /\ t \in listed => doing'[t] = doing[t] + 1
            /\ t \notin listed => doing'[t] = doing[t]
        BY <3>1 DEF ReceiveItem, TypeOK
      <4> QED
        BY <1>3, <4>1
    <3>2. CASE DropItem(t)
      <4>1. doing[t] > 0 /\ doing'[t] = doing[t] - 1 /\ todo'[t] = todo[t] /\ main'[t] = main[t]
            /\ ~IsFinishable(status[t])
        BY <3>2 DEF DropItem, TypeOK, IsFinished, IsFinishable
      <4> QED
        BY <1>3, <4>1
    <3> QED
      BY <1>6, <3>1, <3>2
  <2>2. /\ Outstanding(t)' => Outstanding(t)
        /\ Unsettled(t)' => Unsettled(t)
        /\ WalkBegan(t)' => WalkBegan(t)
    BY <1>2, <1>3, <2>1 DEF Outstanding, Unsettled, WalkBegan, SameRecord
  <2>3. t \in listed /\ IsFinishable(status[t]) /\ InputsGone(t)' => InputsGone(t)
    BY <1>2, <1>3, <2>1 DEF InputsGone, Active, SameRecord
  <2>4. todo'[t] + doing'[t] + (IF Active(t)' THEN 1 ELSE 0) <=
          todo[t] + doing[t] + (IF Active(t) THEN 1 ELSE 0)
    BY <1>3, <2>1 DEF Active
  <2> QED
    BY <1>2, <1>4, <2>1, <2>2, <2>3, <2>4 DEF Moves
<1>7. CASE Walk(t) /\ kind[t] \notin HookedByOp
  <2>1. main[t] = "fresh" /\ main'[t] = "walk" /\ todo'[t] = todo[t] /\ doing'[t] = doing[t]
        /\ kind[t] \notin HookedByOp /\ kind[t] \in Collecting
    BY <1>7 DEF Walk, TypeOK
  <2> QED
    BY <1>2, <1>3, <1>4, <2>1 DEF Moves, Outstanding, Unsettled, InputsGone, Active, SameRecord
<1>8. CASE Relay(t) /\ kind[t] \notin HookedByOp
  <2>1. /\ main[t] = "fresh" /\ main'[t] = "gone" /\ todo'[t] = todo[t] + 1 /\ doing'[t] = doing[t]
        /\ kind[t] \notin HookedByOp /\ kind[t] = "Trash" /\ kind[t] \in Simple
    BY <1>8 DEF Relay, TypeOK, HookedByOp, Simple, AllKinds, Cleaning, Collecting
  <2> QED
    BY <1>2, <1>3, <2>1 DEF Moves, Outstanding, Unsettled, InputsGone, Active, SameRecord
<1> QED
  BY <1>5, <1>6, <1>7, <1>8

(* What a worker reports of an input that it has.                          *)
LEMMA WorkerSpeaks ==
  ASSUME TypeOK, NEW t \in Tasks, Outcome(t), Orderliness(t),
         \/ (Walk(t) /\ kind[t] \in HookedByOp) \/ Announce(t) \/ Deform(t) \/ Collect(t) \/ Abort(t)
         \/ (Relay(t) /\ kind[t] \in HookedByOp) \/ Remove(t) \/ Finish(t) \/ FinishItem(t)
  PROVE  \E out : Speaks(t, out)
<1> USE DEF identity, entry, work, hooks
<1>1. LastWord(t)
  BY DEF Outcome
<1>2. /\ SameRecord(t) /\ SameHooks(t) /\ (t \in listed' <=> t \in listed) /\ status'[t] = status[t]
      /\ kind'[t] = kind[t] /\ prog'[t] = prog[t]
  BY
  DEF Walk, Announce, Deform, Collect, Abort, Relay, Remove, Finish, FinishItem, SameRecord,
      SameHooks
<1>3. main[t] \in MainPhases /\ todo[t] \in Nat /\ doing[t] \in Nat /\ ops[t] \in Seq(Outs)
  BY DEF TypeOK
<1>4. kind[t] \in Simple => main[t] # "walk" /\ kind[t] \notin Collecting /\ kind[t] # "Custom"
                              /\ todo[t] + doing[t] + (IF Active(t) THEN 1 ELSE 0) <= 1
  BY <1>1 DEF LastWord, Simple
<1>5. kind[t] \in Simple \cup Collecting \cup {"Custom", "None"} /\ (kind[t] = "None" => ~Outstanding(t))
  BY KindsAssumption DEF TypeOK, Simple, Orderliness, Untouched, Outstanding
<1> DEFINE Fits(out) ==
             /\ out \in Outs \ CleanOps /\ ops'[t] = Append(ops[t], out)
             /\ todo'[t] \in Nat /\ doing'[t] \in Nat
             /\ Outstanding(t)
             /\ kind[t] \in Simple =>
                  /\ main'[t] # "walk"
                  /\ todo'[t] + doing'[t] + (IF Active(t)' THEN 1 ELSE 0) <=
                       todo[t] + doing[t] + (IF Active(t) THEN 1 ELSE 0)
                  /\ out \in VerdictOps => ~Outstanding(t)'
             /\ kind[t] \in Simple \ {"Delete"} => out \notin ItemOps \cup {"Deform"}
             /\ kind[t] \in Collecting /\ out \in VerdictOps => Active(t)
             /\ out = "Hook" => Unsettled(t)
             /\ out = "Cancel" => kind[t] = "Plugin"
             /\ Unsettled(t)' => Unsettled(t) /\ out # "Hook"
             /\ kind[t] \in HookedByOp /\ WalkBegan(t)' => WalkBegan(t) \/ out = "Hook"
             /\ kind[t] # "Custom" /\ InputsGone(t)' => InputsGone(t) \/ out \in VerdictOps \cup {"Cancel"}
<1>6. ASSUME NEW out, Fits(out) PROVE Speaks(t, out)
  BY <1>2, <1>6 DEF Speaks
<1>7. \A out \in Outs : ops'[t] = Append(ops[t], out) =>
         (out # "Succ" /\ kind'[t] = kind[t] /\ prog'[t] = prog[t] => (Said(ops'[t], {"Succ"}) => Said(ops[t], {"Succ"})))
  BY <1>3, SaidAppend
<1> HIDE DEF Fits
<1>10. CASE Walk(t) /\ kind[t] \in HookedByOp
  <2>1. /\ main[t] = "fresh" /\ main'[t] = "walk" /\ todo'[t] = todo[t] /\ doing'[t] = doing[t]
        /\ ops'[t] = Append(ops[t], "Hook") /\ kind[t] \in Collecting
    BY <1>10 DEF Walk, Emit, TypeOK
  <2>2. Fits("Hook")
    BY <1>2, <1>3, <1>4, <1>10, <2>1
    DEF Fits, Outs, CleanOps, Outstanding, Active, Unsettled, InputsGone, VerdictOps, ItemOps
  <2> QED
    BY <1>6, <2>2
<1>11. CASE Announce(t)
  <2>1. /\ main[t] = "walk" /\ main'[t] = "walk" /\ todo'[t] = todo[t] + 1 /\ doing'[t] = doing[t]
        /\ ops'[t] = Append(ops[t], "New")
    BY <1>11 DEF Announce, Emit, TypeOK
  <2>2. Fits("New")
    BY <1>2, <1>3, <1>4, <2>1
    DEF Fits, Outs, CleanOps, Outstanding, Active, Unsettled, InputsGone, VerdictOps, ItemOps,
        WalkBegan
  <2> QED
    BY <1>6, <2>2
<1>12. CASE Deform(t)
  <2>1. /\ main[t] = "walk" /\ main'[t] = "walk" /\ todo'[t] = todo[t] /\ doing'[t] = doing[t]
        /\ ops'[t] = Append(ops[t], "Deform")
    BY <1>12 DEF Deform, Emit, TypeOK
  <2>2. Fits("Deform")
    BY <1>2, <1>3, <1>4, <2>1
    DEF Fits, Outs, CleanOps, Outstanding, Active, Unsettled, InputsGone, VerdictOps, ItemOps,
        WalkBegan
  <2> QED
    BY <1>6, <2>2
<1>13. CASE Collect(t)
  <2>1. /\ main[t] = "walk" /\ main'[t] = "gone" /\ todo'[t] = todo[t] /\ doing'[t] = doing[t]
        /\ ops'[t] = Append(ops[t], "Succ")
    BY <1>13 DEF Collect, Emit, TypeOK
  <2>2. Fits("Succ")
    BY <1>2, <1>3, <1>4, <2>1
    DEF Fits, Outs, CleanOps, Outstanding, Active, Unsettled, InputsGone, VerdictOps, ItemOps,
        WalkBegan
  <2> QED
    BY <1>6, <2>2
<1>14. CASE Abort(t)
  <2>1. /\ main[t] \in {"fresh", "walk"} /\ main'[t] = "gone" /\ todo'[t] = todo[t] /\ doing'[t] = doing[t]
        /\ ops'[t] = Append(ops[t], "Fail")
    BY <1>14 DEF Abort, Emit, TypeOK
  <2>2. ~Said(ops[t], {"Succ"}) => ~Said(ops'[t], {"Succ"})
    BY <1>2, <1>7, <2>1 DEF Outs
  <2>3. kind[t] \in Simple => todo[t] = 0 /\ doing[t] = 0
    BY <1>3, <1>4, <2>1 DEF Active
  <2>4. Fits("Fail")
    BY <1>2, <1>3, <1>4, <2>1, <2>2, <2>3
    DEF Fits, Outs, CleanOps, Outstanding, Active, Unsettled, InputsGone, VerdictOps, ItemOps,
        WalkBegan
  <2> QED
    BY <1>6, <2>4
<1>15. CASE Relay(t) /\ kind[t] \in HookedByOp
  <2>1. /\ main[t] = "fresh" /\ main'[t] = "gone" /\ todo'[t] = todo[t] + 1 /\ doing'[t] = doing[t]
        /\ ops'[t] = Append(ops[t], "Hook") /\ kind[t] \in Simple
    BY <1>15 DEF Relay, Emit, TypeOK, HookedByOp, Simple, AllKinds, Cleaning, Collecting
  <2>2. Fits("Hook")
    BY <1>2, <1>3, <1>4, <1>15, <2>1
    DEF Fits, Outs, CleanOps, Outstanding, Active, Unsettled, InputsGone, VerdictOps, ItemOps
  <2> QED
    BY <1>6, <2>2
<1>16. CASE Remove(t)
  <2>1. PICK out \in {"ItemSucc", "ItemFail", "BadDelta"} : Emit(t, out)
    BY <1>16 DEF Remove
  <2>2. /\ main[t] = "fresh" /\ main'[t] = main[t] /\ todo'[t] = todo[t] /\ doing'[t] = doing[t]
        /\ ops'[t] = Append(ops[t], out) /\ kind[t] = "Delete"
    BY <1>16, <2>1 DEF Remove, Emit, TypeOK
  <2>3. Fits(out)
    BY <1>2, <1>3, <1>4, <2>1, <2>2
    DEF Fits, Outs, CleanOps, Outstanding, Active, Unsettled, InputsGone, VerdictOps, ItemOps,
        HookedByOp,
        Collecting
  <2> QED
    BY <1>6, <2>3
<1>17. CASE Finish(t)
  <2>1. PICK out \in Verdicts(kind[t]) : Emit(t, out)
    BY <1>17 DEF Finish
  <2>2. /\ main[t] = "fresh" /\ main'[t] = "gone" /\ todo'[t] = todo[t] /\ doing'[t] = doing[t]
        /\ ops'[t] = Append(ops[t], out)
    BY <1>17, <2>1 DEF Finish, Emit, TypeOK
  <2>3. /\ out \in VerdictOps \cup {"Cancel"} /\ (out = "Cancel" => kind[t] = "Plugin")
        /\ kind[t] \notin Collecting \cup HookedByOp \cup {"Custom"}
    BY <2>1 DEF Verdicts, VerdictOps, Collecting, HookedByOp
  <2>4. kind[t] \in Simple => todo[t] = 0 /\ doing[t] = 0
    BY <1>3, <1>4, <2>2 DEF Active
  <2>5. Fits(out)
    BY <1>2, <1>3, <1>4, <2>2, <2>3, <2>4
    DEF Fits, Outs, CleanOps, Outstanding, Active, Unsettled, InputsGone, VerdictOps, ItemOps
  <2> QED
    BY <1>6, <2>5
<1>18. CASE FinishItem(t)
  <2>1. PICK out \in ItemVerdicts(kind[t]) : Emit(t, out)
    BY <1>18 DEF FinishItem
  <2>2. /\ doing[t] > 0 /\ main'[t] = main[t] /\ todo'[t] = todo[t] /\ doing'[t] = doing[t] - 1
        /\ ops'[t] = Append(ops[t], out)
    BY <1>18, <2>1 DEF FinishItem, Emit, TypeOK
  <2>3. /\ kind[t] \in Collecting => out \in ItemOps
        /\ kind[t] \notin Collecting => out \in VerdictOps
    BY <2>1 DEF ItemVerdicts, ItemOps, VerdictOps
  <2>4. kind[t] \in Simple => todo[t] = 0 /\ doing[t] = 1 /\ ~Active(t)
    BY <1>3, <1>4, <2>2
  <2>5. WalkBegan(t) /\ Outstanding(t)
    BY <2>2 DEF WalkBegan, Outstanding
  <2>6. kind[t] \in Collecting => (InputsGone(t)' => InputsGone(t))
    BY <1>2, <2>2 DEF InputsGone, Active, Simple
  <2>7. Fits(out)
    BY <1>2, <1>3, <1>4, <2>2, <2>3, <2>4, <2>5, <2>6
    DEF Fits, Outs, CleanOps, Outstanding, Active, Unsettled, VerdictOps, ItemOps
  <2> QED
    BY <1>6, <2>7
<1> QED
  BY <1>10, <1>11, <1>12, <1>13, <1>14, <1>15, <1>16, <1>17, <1>18

LEMMA WorkerOutcome ==
  ASSUME TypeOK, HookInv, FailureInv, OutcomeInv, NEW t \in Tasks, Worker(t)
  PROVE  OutcomeInv'
<1> USE DEF identity, entry, work, hooks
<1>1. Outcome(t) /\ Orderliness(t) /\ HookInOnePlace(t)
  BY DEF HookInv, FailureInv, OutcomeInv
<1>2. \A u \in Tasks \ {t} : Still(u)
  <2>1. CASE Receive(t) \/ ReceiveItem(t) \/ FinishItem(t) \/ Drop(t) \/ DropItem(t)
    BY <2>1, SMTT(60)
    DEF Receive, ReceiveItem, FinishItem, Drop, DropItem, Emit, Still, SameRecord, SameHooks,
        TypeOK
  <2>2. CASE WorkerCancel(t)
    BY <2>2 DEF WorkerCancel, CancelEntry, Keep, Submit, Still, SameRecord, SameHooks, TypeOK
  <2>3. CASE WorkStep(t)
    BY <2>3
    DEF WorkStep, WalkStep, Walk, Announce, Deform, Collect, Abort, Relay, Remove, Finish, Emit,
                Still, SameRecord, SameHooks, TypeOK
  <2> QED
    BY <2>1, <2>2, <2>3 DEF Worker
<1>3. CASE WorkerCancel(t) /\ t \in listed
  <2>1. Cancels(t)
    BY <1>3 DEF WorkerCancel, CancelEntry, Keep, Submit, Cancels, SameRecord, TypeOK
  <2> QED
    BY <1>1, <1>2, <2>1, CancelsKeep, OutcomeOfOne
<1>4. CASE \/ Receive(t) \/ ReceiveItem(t) \/ Drop(t) \/ DropItem(t)
           \/ (WorkerCancel(t) /\ t \notin listed)
           \/ (Walk(t) /\ kind[t] \notin HookedByOp) \/ (Relay(t) /\ kind[t] \notin HookedByOp)
  BY <1>1, <1>2, <1>4, WorkerMoves, MovesKeep, OutcomeOfOne
<1>5. CASE \/ (Walk(t) /\ kind[t] \in HookedByOp) \/ Announce(t) \/ Deform(t) \/ Collect(t) \/ Abort(t)
           \/ (Relay(t) /\ kind[t] \in HookedByOp) \/ Remove(t) \/ Finish(t) \/ FinishItem(t)
  <2>1. PICK out : Speaks(t, out)
    BY <1>1, <1>5, WorkerSpeaks
  <2> QED
    BY <1>1, <1>2, <2>1, SpeaksKeep, OutcomeOfOne
<1> QED
  BY <1>3, <1>4, <1>5 DEF Worker, WorkStep, WalkStep

-----------------------------------------------------------------------------
LEMMA HookWorkerOutcome ==
  ASSUME TypeOK, TypeOK', HookInv, OutcomeInv, NEW t \in Tasks, HookWorker(t)
  PROVE  OutcomeInv'
<1> USE DEF identity, entry, work, hooks
<1>1. Outcome(t) /\ HookInOnePlace(t)
  BY DEF HookInv, OutcomeInv
<1>2. \A u \in Tasks \ {t} : Still(u)
  <2>1. CASE HookReceive(t) \/ HookCheck(t)
    BY <2>1 DEF HookReceive, HookCheck, Still, SameRecord, SameHooks, TypeOK
  <2>2. CASE HookFinish(t)
    BY <2>2 DEF HookFinish, Emit, Still, SameRecord, SameHooks, TypeOK
  <2> QED
    BY <2>1, <2>2 DEF HookWorker
<1>3. /\ kind'[t] = kind[t] /\ prog'[t] = prog[t] /\ hook'[t] = hook[t] /\ main'[t] = main[t]
      /\ todo'[t] = todo[t] /\ doing'[t] = doing[t] /\ status'[t] = status[t]
      /\ (t \in listed' <=> t \in listed)
  BY DEF HookWorker, HookReceive, HookCheck, HookFinish
<1>4. /\ (Outstanding(t)' <=> Outstanding(t)) /\ (Active(t)' <=> Active(t))
      /\ (Unsettled(t)' <=> Unsettled(t)) /\ (InputsGone(t)' <=> InputsGone(t))
  BY <1>3 DEF Outstanding, Active, Unsettled, InputsGone
<1>5. LastWord(t)
  BY <1>1 DEF Outcome
<1>6. ASSUME HookReceive(t) \/ HookCheck(t), Earned(t)' PROVE Outcome(t)'
  <2>1. /\ ops'[t] = ops[t] /\ reports'[t] = reports[t]
        /\ AtRest(t) => AtRest(t)'
        /\ hooking[t] # "none" \/ hookq[t] > 0
        /\ t \in listed => hooking'[t] # "none"
    BY <1>6 DEF HookReceive, HookCheck, AtRest, TypeOK
  <2>2. /\ Cleaned(t)' <=> Cleaned(t)
        /\ NoHookOp(t)' <=> NoHookOp(t)
        /\ Decided(t)' <=> Decided(t)
        /\ WalkBegan(t)' <=> WalkBegan(t)
        /\ t \in listed' => HookSomewhere(t)'
        /\ ~AtRest(t)
    BY <1>3, <2>1 DEF Cleaned, NoHookOp, Decided, WalkBegan, HookSomewhere, AtRest
  <2>3. LastWord(t)'
    BY <1>3, <1>4, <1>5, <2>1 DEF LastWord
  <2>4. HookOnce(t)'
    BY <1>1, <1>3, <1>4, <2>1, <2>2 DEF Outcome, HookOnce
  <2>5. Succeeded(t)'
    BY <1>1, <1>3, <2>2 DEF Outcome, Succeeded
  <2>6. HookKept(t)'
    BY <2>2 DEF HookKept
  <2>7. Waiting(t)'
    BY <1>1, <1>3, <1>4, <2>1, <2>2 DEF Outcome, Waiting
  <2> QED
    BY <1>6, <2>3, <2>4, <2>5, <2>6, <2>7 DEF Outcome
<1>7. CASE HookReceive(t)
  <2>1. /\ hookq[t] > 0 /\ hooking[t] = "none" /\ hookq[t] = 1 /\ hookq'[t] = 0
        /\ hooking'[t] \in {"taken", "none"} /\ ops'[t] = ops[t] /\ reports'[t] = reports[t]
    BY <1>1, <1>7 DEF HookReceive, HookInOnePlace, TypeOK
  <2>2. WorkOver(t) => WorkOver(t)'
    BY <1>3, <1>4, <2>1 DEF WorkOver
  <2>3. Earned(t)'
    BY <1>1, <1>3, <2>1, <2>2 DEF Outcome, Earned, InForce
  <2> QED
    BY <1>2, <1>6, <1>7, <2>3, OutcomeOfOne
<1>8. CASE HookCheck(t)
  <2>1. /\ hooking[t] = "taken" /\ hookq[t] = 0 /\ hookq'[t] = 0 /\ ops'[t] = ops[t] /\ reports'[t] = reports[t]
        /\ hooking'[t] = IF InForce(t) THEN "intact" ELSE "stale"
    BY <1>1, <1>8 DEF HookCheck, HookInOnePlace, TypeOK, InForce
  <2>2. WorkOver(t) => WorkOver(t)'
    BY <1>3, <1>4, <2>1 DEF WorkOver
  <2>3. Earned(t)'
    BY <1>1, <1>3, <2>1, <2>2 DEF Outcome, Earned, InForce
  <2> QED
    BY <1>2, <1>6, <1>8, <2>3, OutcomeOfOne
<1>9. CASE HookFinish(t)
  <2>1. PICK out \in CleanOps : Emit(t, out)
    BY <1>9 DEF HookFinish, CleanOps
  <2>2. /\ hooking[t] \in {"intact", "stale"} /\ hooking'[t] = "none" /\ hookq'[t] = hookq[t]
        /\ reports'[t] = reports[t] + (IF hooking[t] = "intact" /\ kind[t] \notin Silent THEN 1 ELSE 0)
        /\ ops[t] \in Seq(Outs) /\ out \in Outs \ (WorkOps \cup {"Hook", "Cancel"})
        /\ ops'[t] = Append(ops[t], out)
    BY <1>9, <2>1
    DEF HookFinish, Emit, TypeOK, CleanOps, Outs, WorkOps, VerdictOps, NewsOps, ItemOps
  <2>3. \A X : Said(ops'[t], X) <=> Said(ops[t], X) \/ out \in X
    BY <2>2, SaidAppend
  <2>4. /\ ~AtRest(t) /\ ~hook[t] /\ hookq[t] = 0 /\ NoHookOp(t) /\ ~Unsettled(t)
    BY <1>1, <2>2 DEF AtRest, HookInOnePlace, TypeOK
  <2>5. kind[t] \in Cleaning /\ ~Cleaned(t) /\ kind[t] # "Custom"
    BY <1>1, <2>4 DEF Outcome, HookOnce, Cleaning, Collecting
  <2>6. reports[t] = 0 /\ prog[t].cleaned = "Pending"
    BY <2>5 DEF Cleaned, TypeOK
  <2>7. WorkOver(t) => WorkOver(t)'
    BY <1>3, <1>4, <2>2, <2>3 DEF WorkOver
  <2>8. LastWord(t)'
    <3>1. /\ After(ops[t], VerdictOps, WorkOps) => After(ops'[t], VerdictOps, WorkOps)
          /\ After(ops[t], VerdictOps, VerdictOps) => After(ops'[t], VerdictOps, VerdictOps)
      BY <2>2, AfterAppend DEF WorkOps
    <3>2. /\ Said(ops'[t], WorkOps) <=> Said(ops[t], WorkOps)
          /\ Said(ops'[t], VerdictOps) <=> Said(ops[t], VerdictOps)
          /\ Said(ops'[t], ItemOps \cup {"Deform"}) <=> Said(ops[t], ItemOps \cup {"Deform"})
          /\ Said(ops'[t], {"Cancel"}) <=> Said(ops[t], {"Cancel"})
      BY <2>2, <2>3 DEF WorkOps, NewsOps
    <3> QED
      BY <1>3, <1>4, <1>5, <3>1, <3>2 DEF LastWord
  <2>9. NoHookOp(t)' /\ AtRest(t)'
    <3>1. ~Said(ops'[t], {"Hook"})
      BY <2>2, <2>3, <2>4, InTheseTerms
    <3>2. NoHookOp(t)'
      BY <3>1 DEF NoHookOp, Said
    <3> QED
      BY <1>3, <2>2, <2>4, <3>2 DEF AtRest
  <2>10. HookOnce(t)'
    BY <1>3, <1>4, <2>4, <2>5, <2>9 DEF HookOnce
  <2>11. Earned(t)'
    BY <1>1, <1>3, <2>2, <2>4, <2>5, <2>6, <2>7 DEF Outcome, Earned, InForce
  <2>12. Succeeded(t)'
    BY <1>1, <1>3, <2>4 DEF Outcome, Succeeded
  <2>13. HookKept(t)'
    BY <2>1, <2>3 DEF HookKept, HookSomewhere
  <2>14. Waiting(t)'
    <3>1. Decided(t) => Decided(t)'
      <4>1. Decided(t) => prog'[t].collected # "None" \/ Said(ops'[t], VerdictOps)
        BY <1>3, <2>3, InTheseTerms
      <4> QED
        BY <4>1 DEF Decided, Said
    <3> QED
      BY <1>1, <1>3, <1>4, <2>3, <3>1 DEF Outcome, Waiting
  <2> QED
    BY <1>2, <2>8, <2>10, <2>11, <2>12, <2>13, <2>14, OutcomeOfOne DEF Outcome
<1> QED
  BY <1>7, <1>8, <1>9 DEF HookWorker

-----------------------------------------------------------------------------
(* The operation loop. *)

(* What the reducer does to the parts of the record that decide.           *)
LEMMA Reducing ==
  ASSUME NEW k, NEW p \in Progress, NEW out \in Outs
  PROVE  LET q == Reduce(k, p, out) IN
         /\ q.collected # p.collected => out \in VerdictOps \/ (out = "BadDelta" /\ q.collected = "False")
         /\ q.collected = "True" => p.collected = "True" \/ out = "Succ"
         /\ k = "Custom" /\ p.collected # "None" /\ out # "BadDelta" => q.collected = p.collected
         /\ k = "Custom" /\ p.collected = "None" /\ out = "Succ" => q.collected = "True"
         /\ out \in VerdictOps => q.collected # "None"
         /\ p.collected # "None" => q.collected # "None"
         /\ out \notin ItemOps \cup {"Deform"} => q.failed = p.failed
         /\ q.cleaned # p.cleaned => out \in CleanOps
         /\ out \in CleanOps => q.cleaned # "Pending"
BY DEF Reduce, Settle, Progress, Outs, VerdictOps, ItemOps, CleanOps

(* A task whose work is seen to have gone well has nothing left to do.     *)
LEMMA NowOver ==
  ASSUME TypeOK, TypeOK', NEW t \in Tasks, kind[t] # "Custom", kind[t] # "None", Orderliness(t), LastWord(t)',
         TakeOp(t), t \in listed, IsFinishable(status[t]),
         kind'[t] = kind[t], prog'[t] = ProgAfter(t), main'[t] = main[t], todo'[t] = todo[t],
         doing'[t] = doing[t], Cooked(kind[t], ProgAfter(t))
  PROVE  WorkOver(t)'
<1>1. kind[t] \in Simple \cup Collecting
  BY KindsAssumption DEF TypeOK, Simple
<1>2. prog'[t].collected = "True"
  BY DEF Cooked
<1>3. CASE kind[t] \in Simple
  <2>1. prog'[t].failed = 0
    BY <1>3 DEF LastWord, Cooked
  <2> QED
    BY <1>2, <1>3, <2>1 DEF LastWord, WorkOver
<1>4. CASE kind[t] \in Collecting
  <2>1. /\ Decided(t)' => Decided(t)
        /\ NoBadDelta(t)' /\ InOrder(t)'
    BY <1>4, TakenOrder DEF Collecting
  <2>2. ~Active(t)'
    <3>1. Decided(t)'
      BY <1>2 DEF Decided
    <3> QED
      BY <2>1, <3>1 DEF InOrder
  <2>3. ~Said(ops'[t], NewsOps) /\ ~Said(ops'[t], {"BadDelta"}) /\ ~Said(ops'[t], VerdictOps)
    <3>1. ~Said(ops'[t], NewsOps)
      BY <1>2, <2>1 DEF InOrder, Said
    <3>2. ~Said(ops'[t], {"BadDelta"})
      BY <2>1 DEF NoBadDelta, Said
    <3> QED
      BY <1>2, <1>4, <3>1, <3>2 DEF LastWord
  <2>4. ops'[t] \in Seq(Outs) /\ prog'[t] \in Progress
    BY DEF TypeOK
  <2>5. Occurrences(ops'[t], {"New"}) = 0
    BY <2>3, <2>4, OccurrencesZero DEF Said, NewsOps
  <2>6. Occurrences(ops'[t], ItemOps) \in Nat
    BY <2>4, OccurrencesType
  <2>7. prog'[t].failed = 0 /\ todo[t] = 0 /\ doing[t] = 0 /\ Occurrences(ops'[t], ItemOps) = 0
    <3>1. prog'[t].total + Occurrences(ops'[t], {"New"}) =
            prog'[t].succeeded + prog'[t].failed + Occurrences(ops'[t], ItemOps) + todo[t] + doing[t]
      BY <1>4, StillAccounted
    <3>2. prog'[t].succeeded = prog'[t].total
      BY <1>4 DEF Cooked
    <3>3. /\ prog'[t].total \in Nat /\ prog'[t].succeeded \in Nat /\ prog'[t].failed \in Nat
          /\ todo[t] \in Nat /\ doing[t] \in Nat
      BY <2>4 DEF TypeOK, Progress
    <3> DEFINE total == prog'[t].total  ok == prog'[t].succeeded  bad == prog'[t].failed
               said == Occurrences(ops'[t], ItemOps)  news == Occurrences(ops'[t], {"New"})
    <3>4. /\ total + news = ok + bad + said + todo[t] + doing[t] /\ ok = total /\ news = 0
          /\ total \in Nat /\ ok \in Nat /\ bad \in Nat /\ said \in Nat
      BY <2>5, <2>6, <3>1, <3>2, <3>3
    <3>5. todo[t] \in Nat /\ doing[t] \in Nat
      BY <3>3
    <3>6. bad = 0 /\ said = 0 /\ todo[t] = 0 /\ doing[t] = 0
      <4> HIDE DEF total, ok, bad, said, news
      <4> QED
        BY <3>4, <3>5
    <3> QED
      BY <3>6
  <2>8. ~Said(ops'[t], ItemOps)
    BY <2>4, <2>7, OccurrencesZero DEF Said
  <2>9. ~Said(ops'[t], WorkOps)
    BY <2>3, <2>8 DEF Said, WorkOps
  <2>10. ~Outstanding(t)'
    BY <2>2, <2>7 DEF Outstanding, Active
  <2> QED
    BY <2>7, <2>9, <2>10 DEF WorkOver
<1> QED
  BY <1>1, <1>3, <1>4

(* The three ways the loop goes on with a task, after the reducer.         *)
LEMMA OpLoopReduces ==
  ASSUME TypeOK, TypeOK', NEW t \in Tasks, Outcome(t), Orderliness(t), HookInOnePlace(t),
         OpWait(t) \/ OpHook(t) \/ OpFulfill(t)
  PROVE  Outcome(t)'
<1> USE DEF identity, entry, work, hooks
<1>1. /\ TakeOp(t) /\ t \in listed /\ prog'[t] = ProgAfter(t) /\ reports'[t] = reports[t] + Told(t)
      /\ kind'[t] = kind[t] /\ main'[t] = main[t] /\ todo'[t] = todo[t] /\ doing'[t] = doing[t]
      /\ hooking'[t] = hooking[t] /\ (t \in listed' => t \in listed)
  BY DEF OpWait, OpHook, OpFulfill, ReduceOp, TypeOK
<1>2. /\ ops[t] \in Seq(Outs) /\ ops[t] # <<>> /\ ops'[t] = Tail(ops[t]) /\ Op(t) = Head(ops[t])
      /\ Op(t) \in Outs /\ prog[t] \in Progress
  BY <1>1, Taken DEF TypeOK, TakeOp, Op
<1>3. \A X : Said(ops[t], X) <=> Op(t) \in X \/ Said(ops'[t], X)
  BY <1>2, SaidTail
<1>4. kind[t] # "None" /\ kind[t] \in AllKinds
  BY <1>1, KindsAssumption DEF Orderliness, Untouched, TypeOK
<1>5. /\ LastWord(t) /\ HookOnce(t) /\ Earned(t) /\ Succeeded(t) /\ HookKept(t) /\ Waiting(t)
  BY DEF Outcome
<1>6. kind[t] # "Delete" => Op(t) # "BadDelta"
  BY <1>3, InTheseTerms DEF Orderliness
<1>7. /\ prog'[t].collected # prog[t].collected =>
           Op(t) \in VerdictOps \/ (Op(t) = "BadDelta" /\ prog'[t].collected = "False")
      /\ prog'[t].collected = "True" => prog[t].collected = "True" \/ Op(t) = "Succ"
      /\ kind[t] = "Custom" /\ prog[t].collected # "None" => prog'[t].collected = prog[t].collected
      /\ kind[t] = "Custom" /\ prog[t].collected = "None" /\ Op(t) = "Succ" => prog'[t].collected = "True"
      /\ Op(t) \in VerdictOps => prog'[t].collected # "None"
      /\ prog[t].collected # "None" => prog'[t].collected # "None"
      /\ Op(t) \notin ItemOps \cup {"Deform"} => prog'[t].failed = prog[t].failed
      /\ prog'[t].cleaned # prog[t].cleaned => Op(t) \in CleanOps
      /\ Op(t) \in CleanOps => prog'[t].cleaned # "Pending"
  BY <1>1, <1>2, <1>6, Reducing DEF ProgAfter
<1>8. /\ (Outstanding(t)' <=> Outstanding(t)) /\ (Active(t)' <=> Active(t))
      /\ (Unsettled(t)' <=> Unsettled(t)) /\ (InputsGone(t)' <=> InputsGone(t))
  BY <1>1 DEF Outstanding, Active, Unsettled, InputsGone
<1>9. WorkOver(t) => WorkOver(t)'
  BY <1>1, <1>8, StaysOver
<1>10. LastWord(t)'
  <2>1. ASSUME kind[t] \in Simple
        PROVE  /\ Said(ops'[t], VerdictOps) \/ prog'[t].collected = "True" => ~Outstanding(t)'
               /\ After(ops'[t], VerdictOps, WorkOps)
               /\ prog'[t].collected = "True" => ~Said(ops'[t], WorkOps)
    <3>1. After(ops'[t], VerdictOps, WorkOps) /\ (Op(t) \in VerdictOps => ~Said(ops'[t], WorkOps))
      BY <1>2, <1>5, <2>1, AfterTail DEF LastWord
    <3>2. "Succ" \in VerdictOps
      BY DEF VerdictOps
    <3> QED
      BY <1>3, <1>5, <1>7, <1>8, <2>1, <3>1, <3>2 DEF LastWord
  <2>2. ASSUME kind[t] \in Simple \ {"Delete"}
        PROVE  ~Said(ops'[t], ItemOps \cup {"Deform"}) /\ prog'[t].failed = 0
    BY <1>3, <1>5, <1>7, <2>2 DEF LastWord
  <2>3. ASSUME kind[t] \in Collecting
        PROVE  /\ After(ops'[t], VerdictOps, VerdictOps)
               /\ prog'[t].collected # "None" => ~Said(ops'[t], VerdictOps)
    <3>1. After(ops'[t], VerdictOps, VerdictOps) /\ (Op(t) \in VerdictOps => ~Said(ops'[t], VerdictOps))
      BY <1>2, <1>5, <2>3, AfterTail DEF LastWord
    <3>2. Op(t) # "BadDelta"
      BY <1>6, <2>3 DEF Collecting
    <3> QED
      BY <1>3, <1>5, <1>7, <2>3, <3>1, <3>2 DEF LastWord
  <2>4. kind[t] \notin Steered \cup {"Plugin"} => ~Said(ops'[t], {"Cancel"})
    BY <1>3, <1>5 DEF LastWord
  <2>5. kind[t] \in Simple =>
          todo'[t] + doing'[t] + (IF Active(t)' THEN 1 ELSE 0) <= 1 /\ main'[t] # "walk"
    BY <1>1, <1>5, <1>8 DEF LastWord
  <2> QED
    BY <1>1, <2>1, <2>2, <2>3, <2>4, <2>5 DEF LastWord
<1>11. /\ kind[t] # "Custom" => reports'[t] = reports[t]
       /\ Told(t) = 1 => prog[t].collected = "None" /\ prog'[t].collected = "True" /\ kind[t] = "Custom"
       /\ Told(t) \in {0, 1} /\ reports[t] \in Nat
  BY <1>1, <1>7 DEF Told, TypeOK
<1>12. Cleaned(t)' => Cleaned(t)
  BY <1>1, <1>3, <1>7, <1>11 DEF Cleaned
<1>13. HookAfter(t) => kind[t] \in Cleaning /\ ~Cleaned(t) /\ Op(t) \notin CleanOps /\ prog'[t].cleaned = "Pending"
  <2>1. HookAfter(t) => ~AtRest(t) \/ ~NoHookOp(t)
    BY <1>3, InTheseTerms DEF HookAfter, AtRest
  <2>2. kind[t] \notin Cleaning => NoHookOp(t)
    BY DEF HookInOnePlace, HookedByOp, Cleaning, Collecting
  <2> QED
    BY <1>3, <1>5, <1>7, <2>1, <2>2 DEF HookOnce, Cleaned
<1>14. HookOnce(t)'
  <2>1. ~HookAfter(t) /\ AtRest(t) => AtRest(t)'
    BY <1>1 DEF OpWait, OpHook, OpFulfill, HookAfter, AtRest, TypeOK
  <2>2. NoHookOp(t) => NoHookOp(t)'
    <3>1. NoHookOp(t) => ~Said(ops'[t], {"Hook"})
      BY <1>3, InTheseTerms
    <3> QED
      BY <3>1 DEF NoHookOp, Said
  <2> QED
    BY <1>1, <1>5, <1>8, <1>12, <1>13, <2>1, <2>2 DEF HookOnce
<1>15. /\ status[t] # "Succeeded" /\ StatusAfter(t) # "Succeeded"
       /\ IsFinishable(StatusAfter(t)) => IsFinishable(status[t]) /\ Op(t) # "Cancel" /\ ~FailsNow(t)
       /\ status[t] = "Canceled" => StatusAfter(t) = "Canceled"
       /\ StatusAfter(t) = "Canceled" => status[t] = "Canceled" \/ Op(t) = "Cancel"
       /\ StatusAfter(t) \in TaskStatus
  <2>1. status[t] # "Succeeded" /\ status[t] \in TaskStatus
    BY <1>1, <1>5 DEF Succeeded, TypeOK
  <2> QED
    BY <2>1 DEF StatusAfter, Cancel, Fail, IsFinishable, IsCancelable, TaskStatus
<1>16. /\ OpWait(t) \/ OpHook(t) => status'[t] = StatusAfter(t)
       /\ OpFulfill(t) => t \notin listed' /\ status'[t] = Succeed(StatusAfter(t))
  BY DEF OpWait, OpHook, OpFulfill, TypeOK
<1>17. status[t] = "Canceled" => status'[t] = "Canceled"
  BY <1>15, <1>16 DEF Succeed, IsFinishable
<1>18. ASSUME IsFinishable(StatusAfter(t)), Cooked(kind[t], ProgAfter(t)), kind[t] # "Custom" PROVE WorkOver(t)'
  BY <1>1, <1>4, <1>10, <1>15, <1>18, NowOver
<1>19. Earned(t)'
  <2>1. InForce(t)' => InForce(t)
    BY <1>1, <1>17 DEF InForce
  <2>2. reports'[t] <= 1
    BY <1>1, <1>5, <1>11 DEF Earned
  <2>3. kind'[t] = "Custom" /\ reports'[t] = 1 => prog'[t].collected = "True"
    BY <1>1, <1>5, <1>7, <1>11 DEF Earned
  <2>4. kind'[t] # "Custom" /\ reports'[t] = 1 => WorkOver(t)'
    BY <1>1, <1>5, <1>9, <1>11 DEF Earned
  <2>5. hooking'[t] = "intact" => WorkOver(t)'
    BY <1>1, <1>5, <1>9 DEF Earned
  <2>6. (hookq'[t] > 0 \/ hooking'[t] = "taken") /\ InForce(t)' => WorkOver(t)'
    <3> SUFFICES ASSUME hookq'[t] > 0 \/ hooking'[t] = "taken", InForce(t)' PROVE WorkOver(t)'
      OBVIOUS
    <3>1. CASE hookq[t] > 0 \/ hooking[t] = "taken"
      BY <1>5, <1>9, <2>1, <3>1 DEF Earned
    <3>2. CASE ~(hookq[t] > 0 \/ hooking[t] = "taken")
      <4>1. OpHook(t)
        BY <1>1, <3>2 DEF OpWait, OpFulfill
      <4>2. ~Halted(t) /\ HookAfter(t) /\ StatusAfter(t) # "Canceled"
        BY <1>16, <4>1 DEF OpHook, InForce
      <4>3. IsFinishable(StatusAfter(t)) /\ Cooked(kind[t], ProgAfter(t))
        BY <1>15, <4>2 DEF Halted, IsFinishable, IsFinished, TaskStatus
      <4>4. kind[t] # "Custom"
        BY <1>13, <4>2 DEF Cleaning, Collecting
      <4> QED
        BY <1>18, <4>3, <4>4
    <3> QED
      BY <3>1, <3>2
  <2>7. hooking'[t] = "stale" => ~InForce(t)'
    BY <1>1, <1>5, <2>1 DEF Earned
  <2>8. kind'[t] \notin Silent /\ Said(ops'[t], CleanOps) => reports'[t] = 1 \/ ~InForce(t)'
    BY <1>1, <1>3, <1>5, <1>11, <2>1, <2>2 DEF Earned
  <2>9. kind'[t] \notin Silent /\ prog'[t].cleaned # "Pending" => reports'[t] = 1 \/ status'[t] = "Canceled"
    <3> SUFFICES ASSUME kind[t] \notin Silent, prog'[t].cleaned # "Pending"
                 PROVE  reports'[t] = 1 \/ status'[t] = "Canceled"
      BY <1>1
    <3>1. prog[t].cleaned # "Pending" \/ Said(ops[t], CleanOps)
      BY <1>3, <1>7
    <3>2. reports[t] = 1 \/ status[t] = "Canceled"
      BY <1>1, <1>5, <3>1 DEF Earned, InForce
    <3> QED
      BY <1>1, <1>11, <1>17, <2>2, <3>2
  <2> QED
    BY <2>2, <2>3, <2>4, <2>5, <2>6, <2>7, <2>8, <2>9 DEF Earned
<1>20. Succeeded(t)'
  <2> SUFFICES ASSUME status'[t] = "Succeeded"
               PROVE  /\ t \notin listed' /\ Success(kind'[t], prog'[t]) /\ AtRest(t)'
                      /\ kind'[t] # "Custom" => WorkOver(t)'
    BY DEF Succeeded
  <2>1. OpFulfill(t) /\ IsFinishable(StatusAfter(t))
    BY <1>15, <1>16 DEF Succeed
  <2>2. /\ ~Halted(t) /\ ~HookAfter(t) /\ ~CleanupPending(kind[t], ProgAfter(t))
        /\ hook'[t] = hook[t] /\ hookq'[t] = hookq[t]
    BY <2>1 DEF OpFulfill
  <2>3. Cooked(kind[t], ProgAfter(t)) /\ ~FailsNow(t)
    BY <1>15, <2>1, <2>2 DEF Halted, IsFinishable, IsFinished
  <2>4. kind[t] # "Custom" => WorkOver(t)'
    BY <1>18, <2>1, <2>3
  <2>5. Success(kind[t], ProgAfter(t))
    <3>1. kind[t] \in Collecting => ProgAfter(t).failed = 0
      BY <1>1, <2>4 DEF WorkOver, Collecting
    <3>2. ~Cooking(kind[t], ProgAfter(t))
      BY <1>2, <2>3, <3>1, ReduceType DEF Cooking, Cooked, ProgAfter, Progress
    <3> QED
      BY <2>2, <2>3, <3>2 DEF FailsNow, Running
  <2>6. AtRest(t)
    <3>1. kind[t] \in Cleaning => prog'[t].cleaned # "Pending"
      BY <1>1, <2>2 DEF CleanupPending
    <3>2. kind[t] \in Cleaning => Cleaned(t)
      BY <1>3, <1>7, <3>1 DEF Cleaned
    <3> QED
      BY <1>5, <3>2 DEF HookOnce
  <2> QED
    BY <1>1, <1>16, <2>1, <2>2, <2>5, <2>6, <2>4 DEF AtRest
<1>21. HookKept(t)'
  <2> SUFFICES ASSUME t \in listed'
               PROVE  /\ kind[t] \in HookedAtAdd => HookSomewhere(t)'
                      /\ kind[t] \in HookedByOp /\ (WalkBegan(t)' \/ (status'[t] = "Canceled" /\ kind[t] \notin Steered))
                           => HookSomewhere(t)'
    BY <1>1 DEF HookKept
  <2>1. OpWait(t) \/ OpHook(t)
    BY <1>16
  <2>2. HookSomewhere(t) => HookSomewhere(t)'
    <3> SUFFICES ASSUME HookSomewhere(t) PROVE HookSomewhere(t)'
      OBVIOUS
    <3>1. CASE hook[t] \/ Op(t) = "Hook"
      <4>1. hook'[t] = TRUE \/ hookq'[t] = hookq[t] + 1
        BY <2>1, <3>1 DEF OpWait, OpHook, HookAfter, TypeOK
      <4> QED
        BY <4>1 DEF HookSomewhere, AtRest, TypeOK
    <3>2. CASE hookq[t] > 0 \/ hooking[t] # "none"
      <4>1. hookq'[t] \in {hookq[t], hookq[t] + 1}
        BY <2>1 DEF OpWait, OpHook, TypeOK
      <4> QED
        BY <1>1, <3>2, <4>1 DEF HookSomewhere, AtRest, TypeOK
    <3>3. CASE Op(t) \in CleanOps \/ prog[t].cleaned # "Pending"
      BY <1>7, <3>3 DEF HookSomewhere
    <3>4. CASE Said(ops'[t], {"Hook"} \cup CleanOps)
      BY <3>4 DEF HookSomewhere
    <3>5. Said(ops[t], {"Hook"} \cup CleanOps) =>
            Op(t) = "Hook" \/ Op(t) \in CleanOps \/ Said(ops'[t], {"Hook"} \cup CleanOps)
      BY <1>3
    <3> QED
      BY <3>1, <3>2, <3>3, <3>4, <3>5 DEF HookSomewhere, AtRest, TypeOK
  <2>3. WalkBegan(t)' => WalkBegan(t)
    BY <1>1, <1>3, <1>7 DEF WalkBegan
  <2>4. kind[t] \in HookedByOp \ Steered /\ status'[t] = "Canceled" => status[t] = "Canceled"
    <3>1. Op(t) = "Cancel" => Said(ops[t], {"Cancel"})
      BY <1>3
    <3>2. kind[t] \in HookedByOp \ Steered => Op(t) # "Cancel"
      BY <1>5, <3>1 DEF LastWord, HookedByOp
    <3> QED
      BY <1>15, <1>16, <2>1, <3>2
  <2> QED
    BY <1>5, <1>1, <2>2, <2>3, <2>4 DEF HookKept
<1>22. Waiting(t)'
  <2> SUFFICES ASSUME t \in listed'
               PROVE  /\ IsFinishable(status'[t]) => Running(kind'[t], prog'[t])
                      /\ (Cooked(kind'[t], prog'[t]) /\ IsFinishable(status'[t])) \/ status'[t] = "Canceled" =>
                           kind'[t] \in Cleaning /\ prog'[t].cleaned = "Pending" /\ ~hook'[t]
                      /\ kind'[t] # "Custom" /\ IsFinishable(status'[t]) /\ InputsGone(t)' =>
                           Decided(t)' \/ Said(ops'[t], {"Cancel"})
    BY DEF Waiting
  <2>1. (OpWait(t) \/ OpHook(t)) /\ status'[t] = StatusAfter(t)
    BY <1>16
  <2>2. ASSUME (Cooked(kind[t], ProgAfter(t)) /\ IsFinishable(status'[t])) \/ status'[t] = "Canceled"
        PROVE  kind[t] \in Cleaning /\ prog'[t].cleaned = "Pending" /\ ~hook'[t]
    <3>1. ~Halted(t)
      BY <2>1, <2>2 DEF Halted, IsFinishable, IsFinished
    <3>2. CASE OpHook(t)
      BY <1>13, <3>2 DEF OpHook, TypeOK
    <3>3. CASE OpWait(t)
      BY <1>1, <3>1, <3>3 DEF OpWait, CleanupPending, TypeOK
    <3> QED
      BY <2>1, <3>2, <3>3
  <2>3. ASSUME IsFinishable(status'[t]) PROVE Running(kind[t], ProgAfter(t))
    <3>1. Running(kind[t], ProgAfter(t)) \/ Success(kind[t], ProgAfter(t))
      BY <1>15, <2>1, <2>3 DEF FailsNow
    <3>2. Cooked(kind[t], ProgAfter(t)) => kind[t] \in Cleaning /\ ProgAfter(t).cleaned = "Pending"
      BY <1>1, <2>2, <2>3
    <3> QED
      BY <3>1, <3>2 DEF Success
  <2>4. ASSUME kind[t] # "Custom", IsFinishable(status'[t]), InputsGone(t)
        PROVE  Decided(t)' \/ Said(ops'[t], {"Cancel"})
    <3>1. IsFinishable(status[t]) /\ Op(t) # "Cancel"
      BY <1>15, <2>1, <2>4
    <3>2. prog[t].collected # "None" \/ Said(ops[t], VerdictOps) \/ Said(ops[t], {"Cancel"})
      BY <1>1, <1>5, <2>4, <3>1, InTheseTerms DEF Waiting
    <3>3. prog'[t].collected # "None" \/ Said(ops'[t], VerdictOps) \/ Said(ops'[t], {"Cancel"})
      BY <1>3, <1>7, <3>1, <3>2
    <3> QED
      BY <3>3 DEF Decided, Said
  <2> QED
    BY <1>1, <1>8, <2>2, <2>3, <2>4
<1> QED
  BY <1>10, <1>14, <1>19, <1>20, <1>21, <1>22 DEF Outcome

LEMMA OpSkipKeeps ==
  ASSUME TypeOK, NEW t \in Tasks, Outcome(t), Orderliness(t), OpSkip(t)
  PROVE  Outcome(t)'
<1> USE DEF identity, entry, work, hooks
<1>1. /\ TakeOp(t) /\ t \notin listed /\ t \notin listed' /\ SameRecord(t) /\ SameHooks(t)
      /\ status'[t] = status[t] /\ main'[t] = main[t] /\ todo'[t] = todo[t] /\ doing'[t] = doing[t]
  BY DEF OpSkip, SameRecord, SameHooks
<1>2. ops[t] \in Seq(Outs) /\ ops[t] # <<>> /\ ops'[t] = Tail(ops[t])
  BY <1>1 DEF TypeOK, TakeOp
<1>3. \A X : Said(ops'[t], X) => Said(ops[t], X)
  BY <1>2, SaidTail
<1>4. \A X, Y : After(ops[t], X, Y) => After(ops'[t], X, Y)
  BY <1>2, AfterTail
<1>5. (Outstanding(t)' <=> Outstanding(t)) /\ (Active(t)' <=> Active(t)) /\ (Unsettled(t)' <=> Unsettled(t))
  BY <1>1 DEF Outstanding, Active, Unsettled, SameRecord
<1>6. WorkOver(t) => WorkOver(t)'
  BY <1>1, <1>3, <1>5 DEF WorkOver, SameRecord
<1>7. LastWord(t)'
  BY <1>1, <1>3, <1>4, <1>5 DEF Outcome, LastWord, SameRecord
<1>8. HookOnce(t)'
  <2>1. Cleaned(t)' => Cleaned(t)
    BY <1>1, <1>3 DEF Cleaned, SameRecord, SameHooks
  <2>2. NoHookOp(t) => NoHookOp(t)'
    <3>1. NoHookOp(t) => ~Said(ops'[t], {"Hook"})
      BY <1>3, InTheseTerms
    <3> QED
      BY <3>1 DEF NoHookOp, Said
  <2> QED
    BY <1>1, <1>5, <2>1, <2>2 DEF Outcome, HookOnce, AtRest, SameRecord, SameHooks
<1>9. Earned(t)'
  BY <1>1, <1>3, <1>6 DEF Outcome, Earned, InForce, SameRecord, SameHooks
<1>10. Succeeded(t)'
  BY <1>1, <1>6 DEF Outcome, Succeeded, AtRest, SameRecord, SameHooks
<1> QED
  BY <1>1, <1>7, <1>8, <1>9, <1>10 DEF Outcome, HookKept, Waiting

LEMMA OpLoopOutcome ==
  ASSUME TypeOK, TypeOK', HookInv, FailureInv, OutcomeInv, NEW t \in Tasks, OpLoop(t)
  PROVE  OutcomeInv'
<1>1. Outcome(t) /\ Orderliness(t) /\ HookInOnePlace(t)
  BY DEF HookInv, FailureInv, OutcomeInv
<1>2. \A u \in Tasks \ {t} : Still(u)
  <2> USE DEF identity, entry, work, hooks
  <2>1. CASE OpSkip(t)
    BY <2>1 DEF OpSkip, TakeOp, Still, SameRecord, SameHooks, TypeOK
  <2>2. CASE OpWait(t)
    BY <2>2 DEF OpWait, ReduceOp, TakeOp, Still, SameRecord, SameHooks, TypeOK
  <2>3. CASE OpHook(t)
    BY <2>3 DEF OpHook, ReduceOp, TakeOp, Still, SameRecord, SameHooks, TypeOK
  <2>4. CASE OpFulfill(t)
    BY <2>4 DEF OpFulfill, ReduceOp, TakeOp, Still, SameRecord, SameHooks, TypeOK
  <2> QED
    BY <2>1, <2>2, <2>3, <2>4 DEF OpLoop
<1>3. Outcome(t)'
  BY <1>1, OpSkipKeeps, OpLoopReduces DEF OpLoop
<1> QED
  BY <1>2, <1>3, OutcomeOfOne

-----------------------------------------------------------------------------
LEMMA OutcomeInit == Init => OutcomeInv
<1> SUFFICES ASSUME Init, NEW t \in Tasks PROVE Outcome(t)
  BY DEF OutcomeInv
<1>1. /\ kind[t] = "None" /\ t \notin listed /\ status[t] = "Pending" /\ prog[t] = DefaultProg
      /\ hook[t] = FALSE /\ ops[t] = <<>> /\ hookq[t] = 0 /\ hooking[t] = "none" /\ reports[t] = 0
  BY DEF Init
<1>2. "None" \notin Simple \cup Collecting \cup Cleaning
  BY DEF Simple, AllKinds, Cleaning, Collecting, Plain
<1>3. LastWord(t) /\ ~Cleaned(t)
  BY <1>1, <1>2, SaidNothing DEF LastWord, Cleaned, DefaultProg
<1>4. HookOnce(t) /\ Succeeded(t)
  BY <1>1, <1>3 DEF HookOnce, AtRest, Succeeded
<1>5. Earned(t)
  BY <1>1, SaidNothing DEF Earned, DefaultProg
<1> QED
  BY <1>1, <1>3, <1>4, <1>5 DEF Outcome, HookKept, Waiting

LEMMA OutcomeAlways == Spec => []OutcomeInv
<1>1. TypeOK /\ TypeOK' /\ HookInv /\ FailureInv /\ OutcomeInv /\ [Next]_vars => OutcomeInv'
  <2> SUFFICES ASSUME TypeOK, TypeOK', HookInv, FailureInv, OutcomeInv, [Next]_vars PROVE OutcomeInv'
    OBVIOUS
  <2>1. CASE Next
    BY <2>1, ApplicationOutcome, WorkerOutcome, OpLoopOutcome, HookWorkerOutcome DEF Next
  <2>2. CASE UNCHANGED vars
    BY <2>2, StillKeeps
    DEF OutcomeInv, Still, SameRecord, SameHooks, vars, identity, entry, work, hooks
  <2> QED
    BY <2>1, <2>2
<1> QED
  BY OutcomeInit, TypeCorrect, HookAlways, FailureAlways, <1>1, PTL DEF Spec

(* Completion is told at most once, and only when all the work is done and *)
(* went well, whatever is canceled, lost or late (hook.rs tells panes and  *)
(* other instances).                                                       *)
THEOREM ReportsEarned == Spec => []ReportIsEarned
BY TypeCorrect, FailureAlways, OutcomeAlways, OutcomeImplied, PTL

(* Whoever awaits a handle and sees it succeed finds the work done, the    *)
(* cleanup done and told, if the kind of the task tells, and no input and  *)
(* no hook of it left; a custom task may have an input left.               *)
THEOREM SuccessComplete == Spec => []SuccessIsComplete
BY TypeCorrect, FailureAlways, OutcomeAlways, OutcomeImplied, PTL

(* A listed task that has not failed has an input, an operation or a hook  *)
(* under way: the loop never parks a task that nothing will wake           *)
(* (worker.rs: the three ways to go on).  Custom tasks are excepted, and   *)
(* copies and moves whose handle a plugin holds.                           *)
THEOREM NobodyStranded == Spec => []NeverStranded
BY TypeCorrect, FailureAlways, OutcomeAlways, OutcomeImplied, PTL

-----------------------------------------------------------------------------
(* The refinement of TaskLifecycle: what `life` is there. *)

Life == [u \in Tasks |-> IF kind[u] = "None" THEN "New" ELSE status[u]]

(* A task that does not exist yet is not listed, and one that succeeded is *)
(* not listed any more.                                                    *)
LifecycleInv ==
  \A t \in Tasks :
    /\ kind[t] = "None" => t \notin listed /\ status[t] = "Pending"
    /\ t \in listed => status[t] # "Succeeded"

(* An invariant step that is also a step of the life cycle, or none of it. *)
KeepsLife == LifecycleInv' /\ [Lifecycle!Next]_(Lifecycle!vars)

LEMMA LifeUnchanged ==
  ASSUME LifecycleInv, UNCHANGED <<kind, status, listed>>
  PROVE  KeepsLife
BY DEF LifecycleInv, KeepsLife, Lifecycle!vars

(* What the new status of one task makes of Life. *)
LEMMA LifeOfOne ==
  ASSUME TypeOK, NEW t \in Tasks, NEW s,
         status' = [status EXCEPT ![t] = s],
         \/ kind[t] # "None" /\ UNCHANGED kind
         \/ \E k \in Kinds : kind' = [kind EXCEPT ![t] = k]
  PROVE  Life' = [Life EXCEPT ![t] = s]
BY KindsAssumption
DEF TypeOK, Life, AllKinds, Cleaning, Collecting, Plain

(* A task is added with one of the two statuses. *)
LEMMA LifeSubmitted ==
  ASSUME TypeOK, LifecycleInv, NEW t \in Tasks, NEW s \in {"Pending", "Started"},
         NEW k \in Kinds,
         kind[t] = "None", kind' = [kind EXCEPT ![t] = k],
         status' = [status EXCEPT ![t] = s], listed' = listed \cup {t}
  PROVE  KeepsLife
<1>1. Life' = [Life EXCEPT ![t] = s] /\ Life[t] = "New"
  BY LifeOfOne DEF Life
<1>2. Lifecycle!Submit(t)
  BY <1>1 DEF Lifecycle!Submit, Life
<1>3. LifecycleInv'
  BY KindsAssumption DEF LifecycleInv, TypeOK, AllKinds, Cleaning, Collecting, Plain
<1> QED
  BY <1>2, <1>3 DEF KeepsLife, Lifecycle!Next

(* A listed task is canceled, and stays in the list or leaves it; if it is *)
(* canceled already it can only leave.                                     *)
LEMMA LifeCanceled ==
  ASSUME TypeOK, LifecycleInv, NEW t \in listed,
         UNCHANGED kind, status' = [status EXCEPT ![t] = Cancel(@)],
         listed' \in {listed, listed \ {t}}
  PROVE  KeepsLife
<1> t \in Tasks /\ kind[t] # "None" /\ Life[t] = status[t]
  BY DEF TypeOK, LifecycleInv, Life
<1>1. Life' = [Life EXCEPT ![t] = Cancel(status[t])]
  BY LifeOfOne DEF TypeOK
<1>2. LifecycleInv'
  BY DEF LifecycleInv, TypeOK, Cancel, IsCancelable, TaskStatus
<1>3. CASE status[t] \in {"Pending", "Started", "Failed"}
  <2>1. Lifecycle!Withdraw(t)
    BY <1>1, <1>3 DEF Lifecycle!Withdraw, Life, Cancel, IsCancelable
  <2> QED
    BY <2>1, <1>2 DEF KeepsLife, Lifecycle!Next
<1>4. CASE status[t] = "Canceled"
  <2>1. Life' = Life
    BY <1>1, <1>4 DEF Life, Cancel, IsCancelable
  <2>2. Lifecycle!Leave(t) \/ UNCHANGED Lifecycle!vars
    BY <1>4, <2>1 DEF Lifecycle!Leave, Lifecycle!vars, Life
  <2> QED
    BY <2>2, <1>2 DEF KeepsLife, Lifecycle!Next
<1> QED
  BY <1>3, <1>4 DEF TypeOK, TaskStatus, LifecycleInv

(* A listed task is started, as soon as a worker takes an input of it. *)
LEMMA LifeStarted ==
  ASSUME TypeOK, LifecycleInv, NEW t \in listed,
         UNCHANGED <<kind, listed>>, status' = [status EXCEPT ![t] = Start(@)]
  PROVE  KeepsLife
<1> t \in Tasks /\ kind[t] # "None" /\ Life[t] = status[t]
  BY DEF TypeOK, LifecycleInv, Life
<1>1. Life' = [Life EXCEPT ![t] = Start(status[t])]
  BY LifeOfOne DEF TypeOK
<1>2. LifecycleInv'
  BY DEF LifecycleInv, TypeOK, Start, TaskStatus
<1>3. Lifecycle!Begin(t) \/ UNCHANGED Lifecycle!vars
  BY <1>1 DEF Lifecycle!Begin, Lifecycle!vars, Life, Start
<1> QED
  BY <1>2, <1>3 DEF KeepsLife, Lifecycle!Next

LEMMA ApplicationLife ==
  ASSUME TypeOK, LifecycleInv, NEW t \in Tasks, Application(t)
  PROVE  KeepsLife
<1> USE DEF identity, entry, work, hooks
<1>1. ASSUME NEW k \in Kinds, NEW p \in PoolsOf(k), Add(t, k, p)
      PROVE  KeepsLife
  <2>1. status[t] = "Pending" /\ kind[t] = "None" /\ kind' = [kind EXCEPT ![t] = k]
    BY <1>1 DEF Add, Enlist, LifecycleInv
  <2>2. PICK s \in {"Pending", "Started"} : status' = [status EXCEPT ![t] = s]
    BY <1>1, <2>1 DEF Add, Start, TypeOK
  <2> QED
    BY <1>1, <2>1, <2>2, LifeSubmitted DEF Add
<1>2. ASSUME NEW k \in Kinds, NEW p \in PoolsOf(k), Reject(t, k, p)
      PROVE  KeepsLife
  <2>1. /\ status[t] = "Pending" /\ kind[t] = "None" /\ kind' = [kind EXCEPT ![t] = k]
        /\ listed' = listed \cup {t}
    BY <1>2 DEF Reject, Enlist, LifecycleInv
  <2>2. status' = [status EXCEPT ![t] = "Pending"]
    BY <1>2, <2>1 DEF Reject, TypeOK
  <2> QED
    BY <2>1, <2>2, LifeSubmitted
<1>3. ASSUME NEW prev \in Tasks \ {t}, "Preload" \in Kinds, Supersede(t, prev)
      PROVE  KeepsLife
  <2>1. /\ kind[t] = "None" /\ status[t] = "Pending" /\ t \notin listed
        /\ kind[prev] = "Preload" /\ prev \in listed
        /\ status[prev] \in {"Pending", "Started", "Failed"}
        /\ kind' = [kind EXCEPT ![t] = "Preload"]
        /\ status' = [status EXCEPT ![prev] = "Canceled"]
    BY <1>3 DEF Supersede, Enlist, TypeOK, LifecycleInv, TaskStatus, Cancel, IsCancelable
  <2>2. Life' = [Life EXCEPT ![t] = "Pending", ![prev] = "Canceled"]
    BY <2>1 DEF TypeOK, Life
  <2>3. listed' \in {listed \cup {t}, (listed \cup {t}) \ {prev}}
    BY <1>3 DEF Supersede, Keep
  <2>4. Lifecycle!Replace(t, prev)
    BY <2>1, <2>2, <2>3 DEF Lifecycle!Replace, Life
  <2>5. LifecycleInv'
    BY <2>1, <2>3, SMTT(60) DEF LifecycleInv, TypeOK
  <2> QED
    BY <2>4, <2>5 DEF KeepsLife, Lifecycle!Next
<1>4. CASE UserCancel(t)
  BY <1>4, LifeCanceled DEF UserCancel, CancelEntry, Keep, TypeOK
<1>5. CASE ScopeCancel(t)
  BY <1>5, LifeUnchanged DEF ScopeCancel
<1>6. CASE PluginOutput(t)
  BY <1>6, LifeUnchanged DEF PluginOutput
<1> QED
  BY <1>1, <1>2, <1>3, <1>4, <1>5, <1>6 DEF Application

LEMMA WorkerLife ==
  ASSUME TypeOK, LifecycleInv, NEW t \in Tasks, Worker(t)
  PROVE  KeepsLife
<1> USE DEF identity, entry, work, hooks
<1>1. CASE Receive(t) \/ ReceiveItem(t)
  <2>1. CASE t \in listed
    BY <1>1, <2>1, LifeStarted DEF Receive, ReceiveItem
  <2>2. CASE t \notin listed
    BY <1>1, <2>2, LifeUnchanged DEF Receive, ReceiveItem
  <2> QED
    BY <2>1, <2>2
<1>2. CASE WorkStep(t) \/ FinishItem(t) \/ Drop(t) \/ DropItem(t)
  <2>1. UNCHANGED entry /\ UNCHANGED identity
    BY <1>2 DEF WorkStep, WalkStep, Walk, Announce, Deform, Collect, Abort, Relay,
                Remove, Finish, FinishItem, Drop, DropItem
  <2> QED
    BY <2>1, LifeUnchanged
<1>3. CASE WorkerCancel(t)
  <2>1. CASE t \in listed
    <3>1. listed' \in {listed, listed \ {t}} /\ status' = [status EXCEPT ![t] = Cancel(@)]
      BY <1>3, <2>1 DEF WorkerCancel, CancelEntry, Keep
    <3> QED
      BY <1>3, <2>1, <3>1, LifeCanceled DEF WorkerCancel
  <2>2. CASE t \notin listed
    BY <1>3, <2>2, LifeUnchanged DEF WorkerCancel
  <2> QED
    BY <2>1, <2>2
<1> QED
  BY <1>1, <1>2, <1>3 DEF Worker

(* The loop cancels, fails or fulfills a listed task, or leaves its status *)
(* alone; a task that it cancels it does not fail as well.                 *)
LEMMA OpLoopLife ==
  ASSUME TypeOK, LifecycleInv, NEW t \in Tasks, OpLoop(t)
  PROVE  KeepsLife
<1> USE DEF identity, entry, work, hooks
<1>1. CASE OpSkip(t)
  BY <1>1, LifeUnchanged DEF OpSkip
<1>2. CASE OpWait(t) \/ OpHook(t) \/ OpFulfill(t)
  <2>1. /\ t \in listed /\ kind[t] # "None" /\ Life[t] = status[t] /\ UNCHANGED kind
        /\ status[t] \in {"Pending", "Started", "Failed", "Canceled"}
    BY <1>2 DEF OpWait, OpHook, OpFulfill, ReduceOp, TypeOK, TaskStatus, LifecycleInv, Life
  <2>2. StatusAfter(t) \in {status[t], Cancel(status[t]), Fail(status[t])}
    BY <2>1 DEF StatusAfter, Cancel, Fail, IsCancelable, IsFinishable
  <2>3. CASE UNCHANGED listed /\ status' = [status EXCEPT ![t] = StatusAfter(t)]
    <3>1. CASE StatusAfter(t) = status[t]
      BY <2>1, <2>3, <3>1, LifeUnchanged DEF TypeOK
    <3>2. CASE StatusAfter(t) = Cancel(status[t])
      BY <2>1, <2>3, <3>2, LifeCanceled
    <3>3. CASE StatusAfter(t) = Fail(status[t]) /\ status[t] \in {"Pending", "Started"}
      <4>1. StatusAfter(t) = "Failed"
        BY <3>3 DEF Fail, IsFinishable
      <4>2. Life' = [Life EXCEPT ![t] = "Failed"]
        BY <2>1, <2>3, <4>1, LifeOfOne
      <4>3. Lifecycle!GiveUp(t)
        BY <2>1, <2>3, <3>3, <4>2 DEF Lifecycle!GiveUp, Life
      <4>4. LifecycleInv'
        BY <2>1, <2>3, <4>1 DEF LifecycleInv, TypeOK
      <4> QED
        BY <4>3, <4>4 DEF KeepsLife, Lifecycle!Next
    <3> QED
      BY <2>2, <3>1, <3>2, <3>3 DEF Fail, IsFinishable
  <2>4. CASE /\ StatusAfter(t) # "Failed" /\ listed' = listed \ {t}
             /\ status' = [status EXCEPT ![t] = Succeed(StatusAfter(t))]
    <3>1. CASE StatusAfter(t) = Cancel(status[t])
      <4>1. Cancel(status[t]) = "Canceled" /\ Succeed("Canceled") = "Canceled"
        BY <2>1 DEF Cancel, IsCancelable, Succeed, IsFinishable
      <4>2. status' = [status EXCEPT ![t] = Cancel(@)]
        BY <2>4, <3>1, <4>1 DEF TypeOK
      <4> QED
        BY <2>1, <2>4, <4>2, LifeCanceled
    <3>2. CASE StatusAfter(t) = status[t] /\ status[t] \in {"Pending", "Started"}
      <4>1. Life' = [Life EXCEPT ![t] = "Succeeded"]
        BY <2>1, <2>4, <3>2, LifeOfOne DEF Succeed, IsFinishable
      <4>2. Lifecycle!Complete(t)
        BY <2>1, <2>4, <3>2, <4>1 DEF Lifecycle!Complete, Life
      <4>3. LifecycleInv'
        BY <2>1, <2>4 DEF LifecycleInv, TypeOK
      <4> QED
        BY <4>2, <4>3 DEF KeepsLife, Lifecycle!Next
    <3> QED
      BY <2>1, <2>2, <2>4, <3>1, <3>2 DEF Fail, IsFinishable, Cancel, IsCancelable
  <2> QED
    BY <1>2, <2>3, <2>4 DEF OpWait, OpHook, OpFulfill, Halted
<1> QED
  BY <1>1, <1>2 DEF OpLoop

LEMMA HookWorkerLife ==
  ASSUME LifecycleInv, NEW t \in Tasks, HookWorker(t)
  PROVE  KeepsLife
BY LifeUnchanged
DEF HookWorker, HookReceive, HookCheck, HookFinish, entry, identity

(* The scheduler implements the life cycle, for any tasks and workers. *)
THEOREM LifecycleKept == Spec => KeepsLifecycle
<1>1. Init => LifecycleInv /\ Lifecycle!Init
  BY DEF Init, LifecycleInv, Lifecycle!Init
<1>2. TypeOK /\ LifecycleInv /\ [Next]_vars => LifecycleInv' /\ [Lifecycle!Next]_(Lifecycle!vars)
  <2> SUFFICES ASSUME TypeOK, LifecycleInv, [Next]_vars PROVE KeepsLife
    BY DEF KeepsLife
  <2>1. CASE Next
    BY <2>1, ApplicationLife, WorkerLife, OpLoopLife, HookWorkerLife DEF Next
  <2>2. CASE UNCHANGED vars
    BY <2>2, LifeUnchanged DEF vars, identity, entry
  <2> QED
    BY <2>1, <2>2
<1> QED
  BY <1>1, <1>2, TypeCorrect, PTL DEF Spec, KeepsLifecycle, Lifecycle!Spec

-----------------------------------------------------------------------------
(* Preloading is scheduling and nothing else (KeepsScheduling), so what is *)
(* proved of Scheduler holds in Preloads.  No two preloads of a file are   *)
(* intact because its last preload is the only one that can be:            *)
(* LatestInv.  A mark is answered for by a task that still owes its        *)
(* preload: OwedInv.                                                       *)

(* Every behaviour of the preloads is one of the scheduler (prework.rs     *)
(* only calls Scheduler::preload_paged).                                   *)
THEOREM KeepsScheduling == PreloadsSpec => Spec
<1>1. PreloadsInit => Init
  BY DEF PreloadsInit
<1>2. TypeOK /\ [PreloadsNext]_allvars => [Next]_vars
  <2> SUFFICES ASSUME TypeOK, [PreloadsNext]_allvars PROVE [Next]_vars
    OBVIOUS
  <2>1. ASSUME NEW t \in Tasks, NEW f \in Files, NEW p \in Preloaders, PreloadPaged(t, f, p)
        PROVE  Next
    <3>1. "Preload" \in Kinds /\ "preload" \in PoolsOf("Preload")
      BY PreloadKinds DEF PoolsOf, Collecting
    <3>2. InPlay(t, "Preload")
      <4>1. [u \in Tasks |-> "Preload"] \in Mixes
        BY PreloadKinds
      <4>2. \A u \in Tasks : kind[u] \in {"None", "Preload"}
        BY PreloadKinds DEF TypeOK
      <4> QED
        BY <4>1, <4>2 DEF InPlay
    <3>3. CASE Add(t, "Preload", "preload")
      BY <3>1, <3>3, <3>2 DEF Application, Next
    <3>4. CASE Supersede(t, loading[f]) /\ loading[f] \in Tasks /\ Intact(loading[f])
      <4>1. loading[f] \in Tasks \ {t}
        BY <3>4 DEF Intact, Supersede, Enlist
      <4> QED
        BY <3>1, <3>4, <3>2, <4>1 DEF Application, Next
    <3> QED
      BY <2>1, <3>3, <3>4 DEF PreloadPaged
  <2>2. ASSUME NEW t \in Tasks, RunPreload(t) \/ HookPreload(t) \/ Background(t)
        PROVE  Next
    BY <2>2 DEF RunPreload, HookPreload, Background, Application, Worker, WorkStep, OpLoop,
                HookWorker, Next
  <2>3. CASE UNCHANGED vars
    BY <2>3
  <2> QED
    BY <2>1, <2>2, <2>3 DEF PreloadsNext, Reindex, ChangeFile, allvars
<1> QED
  BY <1>1, <1>2, InitType, TypeStep, PTL DEF PreloadsSpec, Spec

-----------------------------------------------------------------------------
(* A task that is listed or has succeeded is a task, not both, and an      *)
(* intact one is the last preload of its file.                             *)
Latest(t) ==
  Intact(t) => FileOf(job[t]) \in Files /\ loading[FileOf(job[t])] = t

LatestInv ==
  /\ DOMAIN job = Tasks
  /\ DOMAIN loading = Files
  /\ \A t \in Tasks : t \in listed => kind[t] # "None"
  /\ \A t \in Tasks : status[t] = "Succeeded" => t \notin listed /\ kind[t] # "None"
  /\ \A t \in Tasks : Latest(t)

LEMMA LatestInit == PreloadsInit => LatestInv
BY DEF PreloadsInit, Init, LatestInv, Latest, Intact

LEMMA LatestImplied == LatestInv => OnePreloadPerFile
BY DEF LatestInv, Latest, OnePreloadPerFile

(* What every step but PreloadPaged does to the list: nothing is added,    *)
(* nothing that stays succeeds, and nothing canceled recovers.             *)
Shrinks ==
  /\ kind' = kind
  /\ listed' \subseteq listed
  /\ \A t \in Tasks : status'[t] = "Succeeded" => t \notin listed' /\ kind[t] # "None"
  /\ \A t \in Tasks : status[t] = "Canceled" => status'[t] = "Canceled"

LEMMA CancelShrinks ==
  ASSUME TypeOK, LatestInv, NEW t \in Tasks, t \in listed, CancelEntry(t), UNCHANGED kind
  PROVE  Shrinks
BY DEF TypeOK, LatestInv, CancelEntry, Keep, Cancel, IsCancelable, Shrinks, TaskStatus

LEMMA BackgroundShrinks ==
  ASSUME TypeOK, LatestInv, NEW t \in Tasks, Background(t)
  PROVE  Shrinks
<1> USE DEF identity, entry, work, hooks
<1>1. CASE UNCHANGED <<kind, listed, status>>
  BY <1>1 DEF Shrinks, LatestInv
<1>2. CASE UserCancel(t)
  BY <1>2, CancelShrinks DEF UserCancel
<1>3. CASE WorkerCancel(t)
  BY <1>1, <1>3, CancelShrinks DEF WorkerCancel
<1>4. CASE Receive(t)
  BY <1>4 DEF Receive, Start, Shrinks, LatestInv, TypeOK
<1>5. CASE OpWait(t) \/ OpHook(t)
  <2>1. status[t] # "Succeeded" => StatusAfter(t) # "Succeeded"
    BY DEF StatusAfter, Fail, Cancel
  <2>2. status[t] = "Canceled" => StatusAfter(t) = "Canceled"
    BY DEF StatusAfter, Fail, Cancel, IsFinishable, IsCancelable
  <2>3. /\ t \in listed /\ listed' = listed /\ kind' = kind
        /\ status' = [status EXCEPT ![t] = StatusAfter(t)]
    BY <1>5 DEF OpWait, OpHook, ReduceOp
  <2> QED
    BY <2>1, <2>2, <2>3 DEF Shrinks, LatestInv, TypeOK
<1>6. CASE OpFulfill(t)
  BY <1>6 DEF OpFulfill, ReduceOp, Succeed, StatusAfter, Fail, Cancel, IsFinishable, IsCancelable,
               Shrinks, LatestInv, TypeOK
<1> QED
  BY <1>1, <1>2, <1>3, <1>4, <1>5, <1>6
  DEF Background, ScopeCancel, Drop, OpLoop, OpSkip, HookReceive, HookCheck

LEMMA ShrinksKeeps ==
  ASSUME LatestInv, Shrinks, UNCHANGED <<job, loading>>
  PROVE  LatestInv'
BY DEF LatestInv, Latest, Intact, Shrinks

(* The new preload takes the place of the last one, which is no longer     *)
(* intact.                                                                 *)
LEMMA PagedKeeps ==
  ASSUME TypeOK, LatestInv,
         NEW t \in Tasks, NEW f \in Files, NEW p \in Preloaders, PreloadPaged(t, f, p)
  PROVE  LatestInv'
<1>1. /\ job' = [job EXCEPT ![t] = job'[t]]
      /\ FileOf(job'[t]) = f
      /\ loading' = [loading EXCEPT ![f] = t]
  BY DEF PreloadPaged, LatestInv, FileOf
<1>2. /\ \A u \in Tasks \ {t} : Intact(u)' => Intact(u) /\ loading[f] # u
      /\ \A u \in Tasks : u \in listed' => kind'[u] # "None"
      /\ \A u \in Tasks : status'[u] = "Succeeded" => u \notin listed' /\ kind'[u] # "None"
  <2>1. ASSUME Supersede(t, loading[f]), loading[f] \in Tasks, Intact(loading[f])
        PROVE  /\ \A u \in Tasks \ {t} : Intact(u)' => Intact(u) /\ loading[f] # u
               /\ \A u \in Tasks : u \in listed' => kind'[u] # "None"
               /\ \A u \in Tasks : status'[u] = "Succeeded" => u \notin listed' /\ kind'[u] # "None"
    <3> DEFINE prev == loading[f]
    <3>1. status[prev] # "Succeeded" /\ prev \in Tasks
      BY <2>1 DEF LatestInv, Intact
    <3>2. Cancel(status[prev]) = "Canceled"
      BY <3>1 DEF Cancel, IsCancelable, TypeOK, TaskStatus
    <3>3. /\ status' = [status EXCEPT ![prev] = "Canceled"]
          /\ listed' \subseteq listed \cup {t}
          /\ kind[t] = "None"
          /\ kind' = [kind EXCEPT ![t] = "Preload"]
      BY <2>1, <3>2 DEF Supersede, Enlist
    <3> QED
      BY <3>1, <3>3 DEF TypeOK, Intact, LatestInv
  <2>2. ASSUME Add(t, "Preload", "preload"), ~(loading[f] \in Tasks /\ Intact(loading[f]))
        PROVE  /\ \A u \in Tasks \ {t} : Intact(u)' => Intact(u) /\ loading[f] # u
               /\ \A u \in Tasks : u \in listed' => kind'[u] # "None"
               /\ \A u \in Tasks : status'[u] = "Succeeded" => u \notin listed' /\ kind'[u] # "None"
    <3>1. /\ status' = status /\ listed' = listed \cup {t}
          /\ kind[t] = "None"
          /\ kind' = [kind EXCEPT ![t] = "Preload"]
      BY <2>2 DEF Add, Enlist
    <3> QED
      BY <2>2, <3>1 DEF Intact, LatestInv, TypeOK
  <2> QED
    BY <2>1, <2>2 DEF PreloadPaged
<1>3. \A u \in Tasks \ {t} : Latest(u)'
  BY <1>1, <1>2 DEF Latest, LatestInv, Intact
<1>4. Latest(t)'
  BY <1>1 DEF Latest, LatestInv
<1> QED
  BY <1>1, <1>2, <1>3, <1>4 DEF LatestInv

LEMMA LatestAlways == PreloadsSpec => []LatestInv
<1>1. TypeOK /\ LatestInv /\ [PreloadsNext]_allvars => LatestInv'
  <2> SUFFICES ASSUME TypeOK, LatestInv, [PreloadsNext]_allvars PROVE LatestInv'
    OBVIOUS
  <2>1. ASSUME NEW t \in Tasks, Background(t) /\ UNCHANGED tables PROVE LatestInv'
    BY <2>1, BackgroundShrinks, ShrinksKeeps DEF tables
  <2>2. CASE UNCHANGED <<kind, listed, status, job, loading>>
    BY <2>2 DEF LatestInv, Latest, Intact
  <2> QED
    BY <2>1, <2>2, PagedKeeps
    DEF PreloadsNext, Reindex, ChangeFile, RunPreload, HookPreload, Finish, HookFinish,
        allvars, vars, tables, identity, entry
<1> QED
  BY KeepsScheduling, TypeCorrect, LatestInit, <1>1, PTL DEF PreloadsSpec

(* No two preloads of one file are intact at a time (Scheduler::preload_paged). *)
THEOREM PreloadsSingle == PreloadsSpec => []OnePreloadPerFile
BY LatestAlways, LatestImplied, PTL

-----------------------------------------------------------------------------
(* The marks: MarkIsAnswered and its proof. *)

(* A task that owes its job: it is listed or was forced out, and neither   *)
(* its success nor its cleanup has been reported.                          *)
Owes(t) ==
  /\ t \in listed \/ ForcedOut(t)
  /\ prog[t].collected # "True" /\ prog[t].cleaned = "Pending"
  /\ ~Said(ops[t], {"Succ"} \cup CleanOps)

Given == \A t \in Tasks : kind[t] # "None" => job[t] \in Jobs

(* MarkIsAnswered names any task with the job that is left in the list;    *)
(* the one that answers must not have cleared its mark already.            *)
Owed ==
  \A j \in Jobs :
    Marked(j) /\ j \notin cached => \E t \in Tasks : kind[t] # "None" /\ job[t] = j /\ Owes(t)

OwedInv == PreloadsTypeOK /\ Given /\ Owed

LEMMA OwedInit == PreloadsInit => OwedInv
BY VersionBounds DEF PreloadsInit, OwedInv, PreloadsTypeOK, Given, Owed, Marked, Init, Jobs, Sigs

LEMMA OwedImplied == OwedInv => MarkIsAnswered
BY DEF OwedInv, Owed, Owes, MarkIsAnswered

LEMMA AllPreloads == ASSUME TypeOK, NEW t \in Tasks, kind[t] # "None" PROVE kind[t] = "Preload"
BY PreloadKinds DEF TypeOK

(* What Mark and Clear do to the mark of any job.                          *)
LEMMA MarkMarks ==
  ASSUME PreloadsTypeOK, NEW j \in Jobs, NEW i \in Jobs, Mark(j), Marked(i)'
  PROVE  Marked(i) \/ i = j
<1>1. CASE i.sig = j.sig
  <2>1. /\ loaded'[j.sig] = [rev |-> j.rev,
                             marks |-> {j.by} \cup IF loaded[j.sig].rev = j.rev THEN loaded[j.sig].marks ELSE {}]
    BY DEF Mark, PreloadsTypeOK, Jobs
  <2>2. i.rev = j.rev /\ i.by \in {j.by} \cup IF loaded[j.sig].rev = j.rev THEN loaded[j.sig].marks ELSE {}
    BY <1>1, <2>1 DEF Marked
  <2>3. CASE i.by = j.by
    BY <1>1, <2>2, <2>3 DEF Jobs
  <2>4. CASE i.by # j.by
    BY <1>1, <2>2, <2>4 DEF Marked
  <2> QED
    BY <2>3, <2>4
<1>2. CASE i.sig # j.sig
  BY <1>2 DEF Mark, Marked, PreloadsTypeOK, Jobs
<1> QED
  BY <1>1, <1>2

LEMMA ClearClears ==
  ASSUME PreloadsTypeOK, NEW j \in Jobs, NEW i \in Jobs, Clear(j), Marked(i)'
  PROVE  Marked(i) /\ i # j
<1>1. j.sig \in Sigs /\ i.sig \in Sigs
  BY DEF Jobs
<1>2. /\ loaded'[j.sig].rev = loaded[j.sig].rev
      /\ loaded'[j.sig].marks = IF loaded[j.sig].rev = j.rev THEN loaded[j.sig].marks \ {j.by}
                                ELSE loaded[j.sig].marks
      /\ i.sig # j.sig => loaded'[i.sig] = loaded[i.sig]
  BY <1>1 DEF Clear, PreloadsTypeOK
<1> QED
  BY <1>2 DEF Marked

LEMMA MarkType ==
  ASSUME PreloadsTypeOK, NEW j \in Jobs, Mark(j) \/ Clear(j)
  PROVE  loaded' \in [Sigs -> [rev: 0..MaxRev, marks: SUBSET Preloaders]]
<1>1. j.sig \in Sigs /\ j.rev \in 0..MaxRev /\ j.by \in Preloaders
  BY DEF Jobs
<1>2. loaded[j.sig] \in [rev: 0..MaxRev, marks: SUBSET Preloaders]
  BY <1>1 DEF PreloadsTypeOK
<1>3. CASE Mark(j)
  BY <1>1, <1>2, <1>3 DEF Mark, PreloadsTypeOK
<1>4. CASE Clear(j)
  BY <1>1, <1>2, <1>4 DEF Clear, PreloadsTypeOK
<1> QED
  BY <1>3, <1>4

-----------------------------------------------------------------------------
(* What happens to a task that owes. *)
SameEntry(t) ==
  /\ kind'[t] = kind[t] /\ prog'[t] = prog[t] /\ ops'[t] = ops[t]
  /\ status'[t] = status[t] /\ (t \in listed' <=> t \in listed)

LEMMA SameOwes == ASSUME NEW t \in Tasks, Owes(t), SameEntry(t) PROVE Owes(t)'
BY DEF Owes, SameEntry, ForcedOut

(* A cancellation leaves it in the list or forces it out.                  *)
LEMMA CanceledOwes ==
  ASSUME TypeOK, LatestInv, NEW t \in Tasks, Owes(t), kind[t] # "None", t \in listed,
         status'[t] = Cancel(status[t]), kind'[t] = kind[t], prog'[t] = prog[t], ops'[t] = ops[t]
  PROVE  Owes(t)'
<1>1. status'[t] = "Canceled"
  BY DEF LatestInv, Cancel, IsCancelable, TypeOK, TaskStatus
<1> QED
  BY <1>1 DEF Owes, ForcedOut

LEMMA BackgroundOwes ==
  ASSUME TypeOK, LatestInv, NEW x \in Tasks, Background(x), NEW t \in Tasks, kind[t] # "None", Owes(t)
  PROVE  kind'[t] = kind[t] /\ Owes(t)'
<1> USE DEF identity, entry, work, hooks
<1>1. kind' = kind
  BY DEF Background, UserCancel, ScopeCancel, Receive, WorkerCancel, Drop, OpLoop, OpSkip, OpWait,
         OpHook, OpFulfill, ReduceOp, HookReceive, HookCheck
<1>2. CASE UserCancel(x) \/ (WorkerCancel(x) /\ x \in listed)
  <2>1. /\ CancelEntry(x) /\ x \in listed /\ prog' = prog /\ ops' = ops
    BY <1>2 DEF UserCancel, WorkerCancel
  <2>2. CASE x = t
    BY <1>1, <2>1, <2>2, CanceledOwes DEF CancelEntry, TypeOK
  <2>3. CASE x # t
    <3>1. SameEntry(t)
      BY <1>1, <2>1, <2>3 DEF CancelEntry, Keep, SameEntry, TypeOK
    <3> QED
      BY <1>1, <3>1, SameOwes
  <2> QED
    BY <2>2, <2>3
<1>3. CASE UNCHANGED <<prog, ops, status, listed>>
  BY <1>1, <1>3, SameOwes DEF SameEntry
<1>4. CASE Receive(x)
  <2>1. prog' = prog /\ ops' = ops /\ listed' = listed
        /\ (status'[t] = status[t] \/ t \in listed)
    BY <1>4 DEF Receive, TypeOK
  <2> QED
    BY <1>1, <2>1 DEF Owes, ForcedOut
<1>5. CASE OpLoop(x)
  <2>1. CASE x # t
    <3>1. SameEntry(t)
      BY <1>1, <1>5, <2>1
      DEF OpLoop, OpSkip, OpWait, OpHook, OpFulfill, ReduceOp, TakeOp, SameEntry, TypeOK
    <3> QED
      BY <1>1, <3>1, SameOwes
  <2>2. CASE x = t
    <3>1. TakeOp(t)
      BY <1>5, <2>2 DEF OpLoop, OpSkip, OpWait, OpHook, OpFulfill, ReduceOp
    <3>2. /\ ops[t] \in Seq(Outs) /\ ops[t] # <<>> /\ ops'[t] = Tail(ops[t]) /\ Op(t) = Head(ops[t])
          /\ Op(t) \in Outs /\ prog[t] \in Progress
      BY <3>1, Taken DEF TypeOK, TakeOp, Op
    <3>3. Op(t) \notin {"Succ"} \cup CleanOps /\ ~Said(ops'[t], {"Succ"} \cup CleanOps)
      BY <3>2, SaidTail DEF Owes
    <3>4. /\ ProgAfter(t).collected # "True" /\ ProgAfter(t).cleaned = "Pending"
      BY <3>2, <3>3, Reducing DEF ProgAfter, Owes
    <3>5. CASE OpSkip(t)
      BY <1>1, <3>3, <3>5 DEF OpSkip, Owes, ForcedOut
    <3>6. CASE OpWait(t) \/ OpHook(t)
      <4>1. t \in listed' /\ prog'[t] = ProgAfter(t)
        BY <3>6 DEF OpWait, OpHook, ReduceOp, TypeOK
      <4> QED
        BY <1>1, <3>3, <3>4, <4>1 DEF Owes
    <3>7. CASE OpFulfill(t)
      BY <3>4, <3>7, AllPreloads DEF OpFulfill, CleanupPending, Cleaning
    <3> QED
      BY <1>5, <2>2, <3>5, <3>6, <3>7 DEF OpLoop
  <2> QED
    BY <2>1, <2>2
<1> QED
  BY <1>2, <1>3, <1>4, <1>5 DEF Background, ScopeCancel, WorkerCancel, Drop, HookReceive, HookCheck

(* A task that reports still owes, unless it succeeds or is cleaned up.    *)
LEMMA ReportingOwes ==
  ASSUME TypeOK, NEW x \in Tasks, NEW out \in Outs, Emit(x, out), UNCHANGED <<kind, prog, status, listed>>,
         NEW t \in Tasks, Owes(t), t = x => out \notin {"Succ"} \cup CleanOps
  PROVE  Owes(t)'
<1>1. CASE t = x
  <2>1. ops[t] \in Seq(Outs) /\ ops'[t] = Append(ops[t], out)
    BY <1>1 DEF TypeOK, Emit
  <2>2. ~Said(ops'[t], {"Succ"} \cup CleanOps)
    BY <1>1, <2>1, SaidAppend DEF Owes
  <2> QED
    BY <2>2 DEF Owes, ForcedOut
<1>2. CASE t # x
  BY <1>2, SameOwes DEF SameEntry, Emit, TypeOK
<1> QED
  BY <1>1, <1>2

-----------------------------------------------------------------------------
LEMMA RunOwed ==
  ASSUME TypeOK, FailureInv, OwedInv, NEW x \in Tasks, RunPreload(x)
  PROVE  OwedInv'
<1> USE DEF identity, entry, work, hooks
<1>1. kind[x] # "None" /\ UNCHANGED <<kind, prog, status, listed, version, rev, job, loading>>
  BY DEF RunPreload, Finish, FailureInv, Orderliness, Untouched
<1>2. job[x] \in Jobs
  BY <1>1 DEF OwedInv, Given
<1>3. PreloadsTypeOK' /\ Given'
  BY <1>1, <1>2, MarkType DEF RunPreload, PreloadsTypeOK, OwedInv, Given
<1>4. ASSUME NEW j \in Jobs, Marked(j)', j \notin cached'
      PROVE  \E t \in Tasks : kind'[t] # "None" /\ job'[t] = j /\ Owes(t)'
  <2>1. Marked(j) /\ j \notin cached
    BY <1>2, <1>4, ClearClears DEF RunPreload, OwedInv, Marked
  <2>2. PICK t \in Tasks : kind[t] # "None" /\ job[t] = j /\ Owes(t)
    BY <2>1 DEF OwedInv, Owed
  <2>3. CASE Emit(x, "Succ") /\ cached' = cached \cup {job[x]} /\ UNCHANGED loaded
    <3>1. t # x
      BY <1>4, <2>2, <2>3
    <3>2. Owes(t)'
      BY <1>1, <2>2, <2>3, <3>1, ReportingOwes DEF Outs
    <3> QED
      BY <1>1, <2>2, <3>2
  <2>4. CASE Emit(x, "Succ") /\ Clear(job[x]) /\ UNCHANGED cached
    <3>1. t # x
      BY <1>2, <1>4, <2>2, <2>4, ClearClears DEF OwedInv
    <3>2. Owes(t)'
      BY <1>1, <2>2, <2>4, <3>1, ReportingOwes DEF Outs
    <3> QED
      BY <1>1, <2>2, <3>2
  <2>5. CASE Emit(x, "Fail")
    <3>1. Owes(t)'
      BY <1>1, <2>2, <2>5, ReportingOwes DEF Outs, CleanOps
    <3> QED
      BY <1>1, <2>2, <3>1
  <2> QED
    BY <2>3, <2>4, <2>5 DEF RunPreload
<1> QED
  BY <1>3, <1>4 DEF OwedInv, Owed

LEMMA HookOwed ==
  ASSUME TypeOK, HookInv, OutcomeInv, OwedInv, NEW x \in Tasks, HookPreload(x)
  PROVE  OwedInv'
<1> USE DEF identity, entry, work, hooks
<1>1. /\ kind[x] # "None" /\ UNCHANGED <<kind, prog, status, listed, version, rev, job, loading, cached>>
      /\ hooking[x] \in {"intact", "stale"}
  BY DEF HookPreload, HookFinish, HookInv, HookInOnePlace, AtRest
<1>2. job[x] \in Jobs
  BY <1>1 DEF OwedInv, Given
<1>3. PreloadsTypeOK' /\ Given'
  BY <1>1, <1>2, MarkType DEF HookPreload, PreloadsTypeOK, OwedInv, Given
<1>4. PICK out \in CleanOps : Emit(x, out)
  BY DEF HookPreload, HookFinish, CleanOps
<1>5. hooking[x] = "intact" => prog[x].collected = "True"
  BY DEF OutcomeInv, Outcome, Earned, WorkOver, Cooked
<1>6. ASSUME NEW j \in Jobs, Marked(j)', j \notin cached'
      PROVE  \E t \in Tasks : kind'[t] # "None" /\ job'[t] = j /\ Owes(t)'
  <2>1. Marked(j) /\ (hooking[x] = "stale" => j # job[x])
    BY <1>2, <1>6, ClearClears DEF HookPreload, OwedInv, Marked
  <2>2. PICK t \in Tasks : kind[t] # "None" /\ job[t] = j /\ Owes(t)
    BY <1>1, <1>6, <2>1 DEF OwedInv, Owed
  <2>3. t # x
    BY <1>1, <1>5, <2>1, <2>2 DEF Owes
  <2>4. Owes(t)'
    BY <1>1, <1>4, <2>2, <2>3, ReportingOwes DEF Outs, CleanOps
  <2> QED
    BY <1>1, <2>2, <2>4
<1> QED
  BY <1>3, <1>6 DEF OwedInv, Owed

(* The new task owes what it marks; the one before it owes what it did.    *)
LEMMA PagedOwed ==
  ASSUME TypeOK, LatestInv, FailureInv, OwedInv,
         NEW x \in Tasks, NEW f \in Files, NEW p \in Preloaders, PreloadPaged(x, f, p)
  PROVE  OwedInv'
<1> USE DEF identity, entry, work, hooks
<1> DEFINE new == [sig |-> <<f, version[f]>>, by |-> p, rev |-> rev]
<1>1. new \in Jobs
  BY DEF Jobs, Sigs, OwedInv, PreloadsTypeOK
<1>2. /\ Mark(new) /\ job' = [job EXCEPT ![x] = new] /\ loading' = [loading EXCEPT ![f] = x]
      /\ UNCHANGED <<version, rev, cached>>
      /\ \/ Supersede(x, loading[f]) /\ loading[f] \in Tasks
         \/ Add(x, "Preload", "preload")
  BY DEF PreloadPaged
<1> HIDE DEF new
<1>3. kind[x] = "None" /\ kind' = [kind EXCEPT ![x] = "Preload"] /\ prog' = prog /\ ops' = ops
  BY <1>2 DEF Supersede, Add, Enlist
<1>4. PreloadsTypeOK'
  <2>1. loaded' \in [Sigs -> [rev: 0..MaxRev, marks: SUBSET Preloaders]]
    BY <1>1, <1>2, MarkType DEF OwedInv
  <2> QED
    BY <1>1, <1>2, <2>1 DEF OwedInv, PreloadsTypeOK
<1>5. Given'
  BY <1>1, <1>2, <1>3 DEF OwedInv, PreloadsTypeOK, Given, TypeOK
<1>6. kind'[x] # "None" /\ job'[x] = new /\ Owes(x)'
  <2>1. x \in listed'
    <3>1. x \notin listed
      BY <1>3 DEF FailureInv, Orderliness, Untouched
    <3> QED
      BY <1>2, <3>1 DEF Supersede, Add, Enlist, Keep
  <2>2. prog[x] = DefaultProg /\ ops[x] = <<>>
    BY <1>3 DEF FailureInv, Orderliness, Untouched
  <2>3. Owes(x)'
    BY <1>3, <2>1, <2>2, SaidNothing DEF Owes, DefaultProg
  <2> QED
    BY <1>2, <1>3, <2>3 DEF OwedInv, PreloadsTypeOK, TypeOK
<1>7. ASSUME NEW t \in Tasks, kind[t] # "None", Owes(t)
      PROVE  kind'[t] # "None" /\ job'[t] = job[t] /\ Owes(t)'
  <2>1. t # x /\ kind'[t] = kind[t] /\ job'[t] = job[t]
    BY <1>2, <1>3, <1>7 DEF TypeOK, OwedInv, PreloadsTypeOK
  <2>2. CASE Add(x, "Preload", "preload")
    <3>1. SameEntry(t)
      BY <1>3, <2>1, <2>2 DEF Add, SameEntry
    <3> QED
      BY <1>7, <2>1, <3>1, SameOwes
  <2>3. CASE Supersede(x, loading[f]) /\ loading[f] \in Tasks /\ loading[f] # t
    <3>1. SameEntry(t)
      BY <1>3, <2>1, <2>3 DEF Supersede, Keep, SameEntry, TypeOK
    <3> QED
      BY <1>7, <2>1, <3>1, SameOwes
  <2>4. CASE Supersede(x, t)
    <3>1. t \in listed /\ status'[t] = Cancel(status[t])
      BY <2>4 DEF Supersede, TypeOK
    <3> QED
      BY <1>3, <1>7, <2>1, <3>1, CanceledOwes
  <2> QED
    BY <1>2, <2>2, <2>3, <2>4
<1>8. ASSUME NEW j \in Jobs, Marked(j)', j \notin cached'
      PROVE  \E t \in Tasks : kind'[t] # "None" /\ job'[t] = j /\ Owes(t)'
  <2>1. CASE j = new
    BY <1>6, <2>1
  <2>2. CASE j # new
    <3>1. Marked(j)
      BY <1>1, <1>2, <1>8, <2>2, MarkMarks DEF OwedInv
    <3>2. PICK t \in Tasks : kind[t] # "None" /\ job[t] = j /\ Owes(t)
      BY <1>2, <1>8, <3>1 DEF OwedInv, Owed
    <3> QED
      BY <1>7, <3>2
  <2> QED
    BY <2>1, <2>2
<1> QED
  BY <1>4, <1>5, <1>8 DEF OwedInv, Owed

LEMMA TablesStay ==
  ASSUME OwedInv, UNCHANGED <<loaded, cached, job, loading>>, UNCHANGED kind,
         version' \in [Files -> 0..MaxVersion], rev' \in 0..MaxRev,
         \A t \in Tasks : kind[t] # "None" /\ Owes(t) => Owes(t)'
  PROVE  OwedInv'
<1>1. PreloadsTypeOK' /\ Given'
  BY DEF OwedInv, PreloadsTypeOK, Given
<1>2. \A j : Marked(j)' <=> Marked(j)
  BY DEF Marked
<1> QED
  BY <1>1, <1>2 DEF OwedInv, Owed

(* A mark is there for a reason: what it stands for is cached, or a task of *)
(* it is listed, or was forced out (preload.rs, hook.rs, prework.rs).      *)
THEOREM MarksAnswered == PreloadsSpec => []MarkIsAnswered
<1> DEFINE Before == TypeOK /\ HookInv /\ FailureInv /\ OutcomeInv /\ LatestInv
<1>1. Before /\ OwedInv /\ [PreloadsNext]_allvars => OwedInv'
  <2> SUFFICES ASSUME Before, OwedInv, [PreloadsNext]_allvars PROVE OwedInv'
    OBVIOUS
  <2>1. version \in [Files -> 0..MaxVersion] /\ rev \in 0..MaxRev
    BY DEF OwedInv, PreloadsTypeOK
  <2>2. CASE UNCHANGED vars /\ UNCHANGED <<loaded, cached, job, loading>>
              /\ version' \in [Files -> 0..MaxVersion] /\ rev' \in 0..MaxRev
    <3>1. \A t \in Tasks : SameEntry(t)
      BY <2>2 DEF SameEntry, vars, identity, entry
    <3> QED
      BY <2>2, <3>1, SameOwes, TablesStay DEF vars, identity
  <2>3. ASSUME NEW x \in Tasks, Background(x), UNCHANGED tables PROVE OwedInv'
    <3>1. \A t \in Tasks : kind[t] # "None" /\ Owes(t) => Owes(t)'
      BY <2>3, BackgroundOwes
    <3>2. UNCHANGED kind
      BY <2>3 DEF Background, UserCancel, ScopeCancel, Receive, WorkerCancel, Drop, OpLoop, OpSkip,
                  OpWait, OpHook, OpFulfill, ReduceOp, HookReceive, HookCheck, identity
    <3> QED
      BY <2>1, <2>3, <3>1, <3>2, TablesStay DEF tables
  <2>4. CASE Reindex
    BY <2>1, <2>2, <2>4, VersionBounds DEF Reindex
  <2>5. ASSUME NEW f \in Files, ChangeFile(f) PROVE OwedInv'
    <3>1. version' \in [Files -> 0..MaxVersion]
      BY <2>1, <2>5, VersionBounds DEF ChangeFile
    <3> QED
      BY <2>1, <2>2, <2>5, <3>1 DEF ChangeFile
  <2>6. CASE UNCHANGED allvars
    BY <2>1, <2>2, <2>6 DEF allvars, tables
  <2> QED
    BY <2>3, <2>4, <2>5, <2>6, RunOwed, HookOwed, PagedOwed DEF PreloadsNext
<1>2. PreloadsSpec => []OwedInv
  BY <1>1, LatestAlways, KeepsScheduling, TypeCorrect, HookAlways, FailureAlways, OutcomeAlways, OwedInit, PTL
  DEF PreloadsSpec
<1> QED
  BY <1>2, OwedImplied, PTL

=============================================================================
