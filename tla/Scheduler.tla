------------------------------ MODULE Scheduler ------------------------------
(***************************************************************************)
(* The task scheduler (yazi-scheduler): the list of ongoing tasks, the     *)
(* worker pools, the channel of operations and its reducing loop, the hook *)
(* workers, and cancellation.                                              *)
(*                                                                         *)
(* Four kinds of actors share the list of tasks behind one mutex:          *)
(*   - the application adds tasks and cancels them;                        *)
(*   - workers take inputs from the channel of their pool, run them, and   *)
(*     report every outcome as an operation;                               *)
(*   - the operation loop folds each report into its task and decides      *)
(*     whether the task waits, fails, goes to its cleanup hook or is done; *)
(*   - hook workers run the cleanup of a task and report it as well.       *)
(*                                                                         *)
(* A collecting task (copy, move, hardlink, download, upload) starts with  *)
(* one primary input, which walks the source tree, announces the files it  *)
(* finds and requeues each as an item input ("*Do" in the code) that any   *)
(* worker may run while the walk goes on.  Items of one task are alike, so *)
(* they are counted: `todo` in the channel, `doing` in a worker.           *)
(*                                                                         *)
(* `ops[t]` is the part of the operation channel that is about task t, in  *)
(* order.  The loop handles one operation at a time and touches one task   *)
(* at a time, so the interleaving of different tasks' operations in the    *)
(* one channel of the code makes no difference.  Which of the queued       *)
(* inputs a worker gets is left open, which covers the channels'           *)
(* priorities.                                                             *)
(*                                                                         *)
(* Bounds: a task announces at most MaxItems items, a plugin keeps at most *)
(* MaxOutputs unread operations on a custom task, and the kinds of all the *)
(* tasks that are added are those of one of Mixes.                         *)
(***************************************************************************)
EXTENDS TaskState, Sequences, FiniteSets, Functions

CONSTANTS
  Tasks,        \* the ids Ids::next hands out
  Kinds,        \* the kinds of task in play
  Mixes,        \* those in play together, by task; [Tasks -> Kinds] is no bound
  MaxItems,
  MaxOutputs,
  PoolSize,     \* workers per pool, a function on Pools
  HookWorkers,
  Steered       \* kinds of task whose handle a plugin holds

Pools == {"file", "plugin", "fetch", "preload", "size", "process"}

ASSUME KindsAssumption     == Kinds \subseteq AllKinds
ASSUME MixesAssumption     == Mixes \subseteq [Tasks -> Kinds \cup {"None"}]
ASSUME BoundsAssumption    == MaxItems \in Nat /\ MaxOutputs \in Nat
ASSUME PoolSizeAssumption  == PoolSize \in [Pools -> Nat \ {0}]
ASSUME HookWorkerAssumption == HookWorkers \in Nat \ {0}
ASSUME SteeredAssumption    == Steered \subseteq {"Copy", "Move", "Plugin", "Custom"}

VARIABLES
  kind,       \* kind[t]: what was asked for, "None" while t is not allocated
  pool,       \* pool[t]: the pool of its inputs, "none" for a custom task without one
  listed,     \* Ongoing::inner: the ids of the ongoing tasks
  status,     \* TaskHandle: outlives the entry in the list
  prog,       \* Task::prog
  hook,       \* Task::hook is Some
  scope,      \* the scope of t's input has been cancelled
  main,       \* where the primary input is
  todo,       \* item inputs in the pool's channel
  doing,      \* item inputs in a worker
  announced,  \* files the walk has announced
  ops,        \* operations about t not yet reduced
  hookq,      \* hook inputs of t in the hook channel
  hooking,    \* where the hook input taken by a hook worker is
  reports     \* completions told by hooks and custom tasks

identity == <<kind, pool>>
entry    == <<listed, status, prog, hook, scope>>
work     == <<main, todo, doing, announced>>
hooks    == <<hookq, hooking, reports>>
vars     == <<identity, entry, work, ops, hooks>>

HookedAtAdd == {"Delete", "Trash", "Download", "Upload", "Fetch", "Preload"}
HookedByOp  == {"Copy", "Move", "Link", "Hardlink"}
Rejectable  == Collecting
Scoped      == {"Fetch", "Preload", "Plugin", "Custom"}
Silent      == {"Fetch", "Preload"}    \* their hooks tell nobody

PoolsOf(k) ==
  CASE k \in Collecting \cup {"Link", "Delete", "Trash"} -> {"file"}
    [] k = "Plugin"                   -> {"plugin"}
    [] k = "Fetch"                    -> {"fetch"}
    [] k = "Preload"                  -> {"preload"}
    [] k = "Size"                     -> {"size"}
    [] k \in {"Block", "Orphan", "Bg"} -> {"process"}
    [] k = "Custom"                   -> (Pools \ {"size"}) \cup {"none"}

MainPhases == {"idle", "queued", "fresh", "walk", "gone"}
InWorker(t) == main[t] \in {"fresh", "walk"}

(* Inputs of pool p in a worker, against the number of its workers. *)
Load    == [t \in Tasks |-> doing[t] + (IF InWorker(t) THEN 1 ELSE 0)]
Busy(p) == FoldFunctionOnSet(+, 0, Load, {t \in Tasks : pool[t] = p})
Free(p) == Busy(p) < PoolSize[p]

TypeOK ==
  /\ kind      \in [Tasks -> Kinds \cup {"None"}]
  /\ pool      \in [Tasks -> Pools \cup {"none"}]
  /\ listed    \subseteq Tasks
  /\ status    \in [Tasks -> TaskStatus]
  /\ prog      \in [Tasks -> Progress]
  /\ hook      \in [Tasks -> BOOLEAN]
  /\ scope     \in [Tasks -> BOOLEAN]
  /\ main      \in [Tasks -> MainPhases]
  /\ todo      \in [Tasks -> Nat]
  /\ doing     \in [Tasks -> Nat]
  /\ announced \in [Tasks -> Nat]
  /\ ops       \in [Tasks -> Seq(Outs)]
  /\ hookq     \in [Tasks -> Nat]
  /\ hooking   \in [Tasks -> {"none", "taken", "intact", "stale"}]
  /\ reports   \in [Tasks -> Nat]

Init ==
  /\ kind      = [t \in Tasks |-> "None"]
  /\ pool      = [t \in Tasks |-> "none"]
  /\ listed    = {}
  /\ status    = [t \in Tasks |-> "Pending"]
  /\ prog      = [t \in Tasks |-> DefaultProg]
  /\ hook      = [t \in Tasks |-> FALSE]
  /\ scope     = [t \in Tasks |-> FALSE]
  /\ main      = [t \in Tasks |-> "idle"]
  /\ todo      = [t \in Tasks |-> 0]
  /\ doing     = [t \in Tasks |-> 0]
  /\ announced = [t \in Tasks |-> 0]
  /\ ops       = [t \in Tasks |-> <<>>]
  /\ hookq     = [t \in Tasks |-> 0]
  /\ hooking   = [t \in Tasks |-> "none"]
  /\ reports   = [t \in Tasks |-> 0]

-----------------------------------------------------------------------------
(* The application adds tasks.  Nothing of the task is visible before the  *)
(* call returns, so allocating the id, listing the task and submitting its *)
(* input are one step.                                                     *)

Emit(t, out) == ops' = [ops EXCEPT ![t] = Append(@, out)]

Enlist(t, k, p) ==
  /\ kind[t] = "None"
  /\ p \in PoolsOf(k)
  /\ kind' = [kind EXCEPT ![t] = k]
  /\ pool' = [pool EXCEPT ![t] = p]

(* A custom task with no pool is only started: its plugin does the rest. *)
Add(t, k, p) ==
  /\ Enlist(t, k, p)
  /\ listed' = listed \cup {t}
  /\ hook' = [hook EXCEPT ![t] = k \in HookedAtAdd]
  /\ IF p = "none"
     THEN /\ status' = [status EXCEPT ![t] = Start(@)]
          /\ UNCHANGED main
     ELSE /\ main' = [main EXCEPT ![t] = "queued"]
          /\ UNCHANGED status
  /\ UNCHANGED <<prog, scope, todo, doing, announced, ops, hooks>>

(* Into itself, across services, or a local file to download: the task is  *)
(* listed all the same and only gets a failure.                            *)
Reject(t, k, p) ==
  /\ k \in Rejectable
  /\ Enlist(t, k, p)
  /\ listed' = listed \cup {t}
  /\ hook' = [hook EXCEPT ![t] = k \in HookedAtAdd]
  /\ Emit(t, "Fail")
  /\ UNCHANGED <<status, prog, scope, work, hooks>>

(* A slip: the hook is copied out of the entry. *)
CancelCopyingHook(t) ==
  /\ listed' = listed \ (IF hook[t] THEN {} ELSE {t})
  /\ status' = [status EXCEPT ![t] = Cancel(@)]
  /\ scope'  = [scope EXCEPT ![t] = @ \/ kind[t] \in Scoped]
  /\ hookq'  = [hookq EXCEPT ![t] = @ + (IF hook[t] THEN 1 ELSE 0)]
  /\ UNCHANGED hook

(* What Ongoing::cancel leaves of the list: a task with a hook stays.      *)
Keep(t) == IF hook[t] THEN {} ELSE {t}

(* A slip: the hook taken from a canceled entry is not submitted. *)
SubmitNothing(t) == UNCHANGED hookq

Submit(t) == hookq' = [hookq EXCEPT ![t] = @ + (IF hook[t] THEN 1 ELSE 0)]

(* A preload of a file whose earlier preload `prev` is still loading       *)
(* cancels that one first (not by force).                                  *)
Supersede(t, prev) ==
  /\ Enlist(t, "Preload", "preload")
  /\ kind[prev] = "Preload"
  /\ prev \in listed
  /\ status[prev] # "Canceled"
  /\ main'   = [main EXCEPT ![t] = "queued"]
  /\ listed' = (listed \cup {t}) \ Keep(prev)
  /\ status' = [status EXCEPT ![prev] = Cancel(@)]
  /\ scope'  = [scope EXCEPT ![prev] = TRUE]
  /\ hook'   = [hook EXCEPT ![prev] = FALSE, ![t] = TRUE]
  /\ Submit(prev)
  /\ UNCHANGED <<prog, todo, doing, announced, ops, hooking, reports>>

-----------------------------------------------------------------------------
(* Cancellation. *)

CancelEntry(t) ==
  /\ listed' = listed \ Keep(t)
  /\ status' = [status EXCEPT ![t] = Cancel(@)]
  /\ scope'  = [scope EXCEPT ![t] = @ \/ kind[t] \in Scoped]
  /\ hook'   = [hook EXCEPT ![t] = FALSE]
  /\ Submit(t)

(* The user cancels the task under the cursor: by force, so a second time  *)
(* removes a task whose hook has not run yet.                              *)
UserCancel(t) ==
  /\ t \in listed
  /\ CancelEntry(t)
  /\ UNCHANGED <<identity, prog, work, ops, hooking, reports>>

(* Someone who shares the scope's token cancels it. *)
ScopeCancel(t) ==
  /\ kind[t] \in Scoped
  /\ ~scope[t]
  /\ scope' = [scope EXCEPT ![t] = TRUE]
  /\ UNCHANGED <<identity, listed, status, prog, hook, work, ops, hooks>>

(* A worker notices, drops its input and cancels the task (not by force).  *)
WorkerCancel(t) ==
  /\ InWorker(t)
  /\ scope[t]
  /\ ~IsFinished(status[t])
  /\ main' = [main EXCEPT ![t] = "gone"]
  /\ IF t \in listed THEN CancelEntry(t) ELSE UNCHANGED <<listed, status, scope, hook, hookq>>
  /\ UNCHANGED <<identity, prog, todo, doing, announced, ops, hooking, reports>>

(* A worker whose task is finished drops its input where it stands. *)
Drop(t) ==
  /\ InWorker(t)
  /\ IsFinished(status[t])
  /\ main' = [main EXCEPT ![t] = "gone"]
  /\ UNCHANGED <<identity, entry, todo, doing, announced, ops, hooks>>

DropItem(t) ==
  /\ doing[t] > 0
  /\ IsFinished(status[t])
  /\ doing' = [doing EXCEPT ![t] = @ - 1]
  /\ UNCHANGED <<identity, entry, main, todo, announced, ops, hooks>>

-----------------------------------------------------------------------------
(* Workers. *)

Receive(t) ==
  /\ main[t] = "queued"
  /\ Free(pool[t])
  /\ IF t \in listed
     THEN /\ main'   = [main EXCEPT ![t] = "fresh"]
          /\ status' = [status EXCEPT ![t] = Start(@)]
     ELSE /\ main' = [main EXCEPT ![t] = "gone"]
          /\ UNCHANGED status
  /\ UNCHANGED <<identity, listed, prog, hook, scope, todo, doing, announced, ops, hooks>>

ReceiveItem(t) ==
  /\ todo[t] > 0
  /\ Free(pool[t])
  /\ todo' = [todo EXCEPT ![t] = @ - 1]
  /\ IF t \in listed
     THEN /\ doing'  = [doing EXCEPT ![t] = @ + 1]
          /\ status' = [status EXCEPT ![t] = Start(@)]
     ELSE UNCHANGED <<doing, status>>
  /\ UNCHANGED <<identity, listed, prog, hook, scope, main, announced, ops, hooks>>

(* The destination is settled: copy, move and hardlink know their cleanup  *)
(* only now and send it along; then the walk begins.  (A copy or move also *)
(* has its destination refreshed now, which promises nothing yet.)         *)
Walk(t) ==
  /\ main[t] = "fresh"
  /\ kind[t] \in Collecting
  /\ main' = [main EXCEPT ![t] = "walk"]
  /\ IF kind[t] \in HookedByOp THEN Emit(t, "Hook") ELSE UNCHANGED ops
  /\ UNCHANGED <<identity, entry, todo, doing, announced, hooks>>

(* The walk finds a file to handle, or something it cannot handle. *)
Announce(t) ==
  /\ main[t] = "walk"
  /\ announced[t] < MaxItems
  /\ announced' = [announced EXCEPT ![t] = @ + 1]
  /\ todo' = [todo EXCEPT ![t] = @ + 1]
  /\ Emit(t, "New")
  /\ UNCHANGED <<identity, entry, main, doing, hooks>>

Deform(t) ==
  /\ main[t] = "walk"
  /\ announced[t] < MaxItems
  /\ announced' = [announced EXCEPT ![t] = @ + 1]
  /\ Emit(t, "Deform")
  /\ UNCHANGED <<identity, entry, main, todo, doing, hooks>>

(* A slip: a walk that found nothing reports nothing. *)
CollectSome(t) ==
  /\ main[t] = "walk"
  /\ main' = [main EXCEPT ![t] = "gone"]
  /\ IF announced[t] > 0 THEN Emit(t, "Succ") ELSE UNCHANGED ops
  /\ UNCHANGED <<identity, entry, todo, doing, announced, hooks>>

Collect(t) ==
  /\ main[t] = "walk"
  /\ main' = [main EXCEPT ![t] = "gone"]
  /\ Emit(t, "Succ")
  /\ UNCHANGED <<identity, entry, todo, doing, announced, hooks>>

(* No unique destination name, or the root itself cannot be read. *)
Abort(t) ==
  /\ \/ main[t] = "fresh" /\ kind[t] \in Collecting \cup {"Link"}
     \/ main[t] = "walk" /\ announced[t] = 0
  /\ main' = [main EXCEPT ![t] = "gone"]
  /\ Emit(t, "Fail")
  /\ UNCHANGED <<identity, entry, todo, doing, announced, hooks>>

(* The primary input of a link or a trash requeues itself as an item. *)
Relay(t) ==
  /\ main[t] = "fresh"
  /\ kind[t] \in {"Link", "Trash"}
  /\ main' = [main EXCEPT ![t] = "gone"]
  /\ todo' = [todo EXCEPT ![t] = @ + 1]
  /\ IF kind[t] \in HookedByOp THEN Emit(t, "Hook") ELSE UNCHANGED ops
  /\ UNCHANGED <<identity, entry, doing, announced, hooks>>

ItemVerdicts(k) == IF k \in Collecting THEN {"ItemSucc", "ItemFail"} ELSE {"Succ", "Fail"}

FinishItem(t) ==
  /\ doing[t] > 0
  /\ doing' = [doing EXCEPT ![t] = @ - 1]
  /\ \E out \in ItemVerdicts(kind[t]) : Emit(t, out)
  /\ UNCHANGED <<identity, entry, main, todo, announced, hooks>>

(* A deletion reports progress as it goes. *)
Remove(t) ==
  /\ main[t] = "fresh"
  /\ kind[t] = "Delete"
  /\ announced[t] < MaxItems
  /\ announced' = [announced EXCEPT ![t] = @ + 1]
  /\ \E out \in {"ItemSucc", "ItemFail", "BadDelta"} : Emit(t, out)
  /\ UNCHANGED <<identity, entry, main, todo, doing, hooks>>

(* The work of a task with one input.  A custom task's never ends. *)
Verdicts(k) ==
  CASE k = "Size"   -> {"Succ"}
    [] k = "Plugin" -> {"Succ", "Fail", "Cancel"}
    [] k \in {"Delete", "Fetch", "Preload", "Block", "Orphan", "Bg"} -> {"Succ", "Fail"}
    [] OTHER        -> {}

Finish(t) ==
  /\ main[t] = "fresh"
  /\ \E out \in Verdicts(kind[t]) : Emit(t, out)
  /\ main' = [main EXCEPT ![t] = "gone"]
  /\ UNCHANGED <<identity, entry, todo, doing, announced, hooks>>

(* A plugin uses the handle of a task it spawned: to cancel it, to settle a*)
(* custom task, or ("Log") for anything that leaves the task as it is.     *)
PluginOutput(t) ==
  /\ kind[t] \in Steered
  /\ Len(ops[t]) < MaxOutputs
  /\ \E out \in {"Log", "Cancel"} \cup (IF kind[t] = "Custom" THEN {"Succ", "Fail"} ELSE {}) :
       Emit(t, out)
  /\ UNCHANGED <<identity, entry, work, hooks>>

-----------------------------------------------------------------------------
(* The operation loop.  The reducer runs on the task as it is found, then  *)
(* one of the branches is taken.                                           *)

Op(t)         == Head(ops[t])
ProgAfter(t)  == Reduce(kind[t], prog[t], Op(t))
HookAfter(t)  == hook[t] \/ Op(t) = "Hook"
FailsNow(t)   == ~Running(kind[t], ProgAfter(t)) /\ ~Success(kind[t], ProgAfter(t))

StatusAfter(t) ==
  LET s == IF Op(t) = "Cancel" THEN Cancel(status[t]) ELSE status[t]
  IN  IF FailsNow(t) THEN Fail(s) ELSE s

Halted(t) ==
  \/ ~Cooked(kind[t], ProgAfter(t)) /\ ~IsFinished(StatusAfter(t))
  \/ StatusAfter(t) = "Failed"

(* A custom task that succeeds tells the application at once. *)
Told(t) == IF kind[t] = "Custom" /\ Op(t) = "Succ" /\ prog[t].collected = "None" THEN 1 ELSE 0

TakeOp(t) ==
  /\ ops[t] # <<>>
  /\ ops' = [ops EXCEPT ![t] = Tail(@)]

ReduceOp(t) ==
  /\ TakeOp(t)
  /\ t \in listed
  /\ prog'    = [prog EXCEPT ![t] = ProgAfter(t)]
  /\ scope'   = [scope EXCEPT ![t] = @ \/ (Op(t) = "Cancel" /\ kind[t] \in Scoped)]
  /\ reports' = [reports EXCEPT ![t] = @ + Told(t)]
  /\ UNCHANGED <<identity, work, hooking>>

(* The task is gone: the operation is lost. *)
OpSkip(t) ==
  /\ TakeOp(t)
  /\ t \notin listed
  /\ UNCHANGED <<identity, entry, work, hooks>>

OpWait(t) ==
  /\ ReduceOp(t)
  /\ Halted(t) \/ (~HookAfter(t) /\ CleanupPending(kind[t], ProgAfter(t)))
  /\ status' = [status EXCEPT ![t] = StatusAfter(t)]
  /\ hook'   = [hook EXCEPT ![t] = HookAfter(t)]
  /\ UNCHANGED <<listed, hookq>>

(* A slip: the hook is submitted and kept. *)
OpHookAgain(t) ==
  /\ ReduceOp(t)
  /\ ~Halted(t)
  /\ HookAfter(t)
  /\ status' = [status EXCEPT ![t] = StatusAfter(t)]
  /\ hook'   = [hook EXCEPT ![t] = TRUE]
  /\ hookq'  = [hookq EXCEPT ![t] = @ + 1]
  /\ UNCHANGED listed

OpHook(t) ==
  /\ ReduceOp(t)
  /\ ~Halted(t)
  /\ HookAfter(t)
  /\ status' = [status EXCEPT ![t] = StatusAfter(t)]
  /\ hook'   = [hook EXCEPT ![t] = FALSE]
  /\ hookq'  = [hookq EXCEPT ![t] = @ + 1]
  /\ UNCHANGED listed

(* Slips: a task is fulfilled while its cleanup is pending, or its handle  *)
(* is not told.                                                            *)
OpFulfillEarly(t) ==
  /\ ReduceOp(t)
  /\ ~Halted(t)
  /\ ~HookAfter(t)
  /\ listed' = listed \ {t}
  /\ status' = [status EXCEPT ![t] = Succeed(StatusAfter(t))]
  /\ UNCHANGED <<hook, hookq>>

OpFulfillSilently(t) ==
  /\ ReduceOp(t)
  /\ ~Halted(t)
  /\ ~HookAfter(t)
  /\ ~CleanupPending(kind[t], ProgAfter(t))
  /\ listed' = listed \ {t}
  /\ status' = [status EXCEPT ![t] = StatusAfter(t)]
  /\ UNCHANGED <<hook, hookq>>

OpFulfill(t) ==
  /\ ReduceOp(t)
  /\ ~Halted(t)
  /\ ~HookAfter(t)
  /\ ~CleanupPending(kind[t], ProgAfter(t))
  /\ listed' = listed \ {t}
  /\ status' = [status EXCEPT ![t] = Succeed(StatusAfter(t))]
  /\ UNCHANGED <<hook, hookq>>

-----------------------------------------------------------------------------
(* Hook workers: whether the task is listed, and whether it is intact, are *)
(* two looks at the list, and what follows is done without the lock.       *)

(* A slip: the hook of a canceled task is thrown away. *)
HookReceiveIntact(t) ==
  /\ hookq[t] > 0
  /\ hooking[t] = "none"
  /\ Cardinality({u \in Tasks : hooking[u] # "none"}) < HookWorkers
  /\ hookq'   = [hookq EXCEPT ![t] = @ - 1]
  /\ hooking' = [hooking EXCEPT ![t] =
                   IF t \in listed /\ status[t] # "Canceled" THEN "taken" ELSE "none"]
  /\ UNCHANGED <<identity, entry, work, ops, reports>>

HookReceive(t) ==
  /\ hookq[t] > 0
  /\ hooking[t] = "none"
  /\ Cardinality({u \in Tasks : hooking[u] # "none"}) < HookWorkers
  /\ hookq'   = [hookq EXCEPT ![t] = @ - 1]
  /\ hooking' = [hooking EXCEPT ![t] = IF t \in listed THEN "taken" ELSE "none"]
  /\ UNCHANGED <<identity, entry, work, ops, reports>>

(* A slip: a canceled task counts as intact. *)
HookCheckListed(t) ==
  /\ hooking[t] = "taken"
  /\ hooking' = [hooking EXCEPT ![t] = IF t \in listed THEN "intact" ELSE "stale"]
  /\ UNCHANGED <<identity, entry, work, ops, hookq, reports>>

HookCheck(t) ==
  /\ hooking[t] = "taken"
  /\ hooking' = [hooking EXCEPT ![t] =
                   IF t \in listed /\ status[t] # "Canceled" THEN "intact" ELSE "stale"]
  /\ UNCHANGED <<identity, entry, work, ops, hookq, reports>>

(* Only the cleanup of a move, removing what is left of the source, can    *)
(* fail.                                                                   *)
HookFinish(t) ==
  /\ hooking[t] \in {"intact", "stale"}
  /\ hooking' = [hooking EXCEPT ![t] = "none"]
  /\ reports' = [reports EXCEPT ![t] =
                   @ + (IF hooking[t] = "intact" /\ kind[t] \notin Silent THEN 1 ELSE 0)]
  /\ \E out \in {"Clean"} \cup
                (IF hooking[t] = "intact" /\ kind[t] = "Move" THEN {"CleanErr"} ELSE {}) :
       Emit(t, out)
  /\ UNCHANGED <<identity, entry, work, hookq>>

-----------------------------------------------------------------------------
(* The bound on what is in play together. *)
InPlay(t, k) ==
  \E mix \in Mixes : mix[t] = k /\ \A u \in Tasks \ {t} : kind[u] \in {"None", mix[u]}

Application(t) ==
  \/ \E k \in Kinds : InPlay(t, k) /\ \E p \in PoolsOf(k) : Add(t, k, p) \/ Reject(t, k, p)
  \/ \E prev \in Tasks \ {t} :
       "Preload" \in Kinds /\ InPlay(t, "Preload") /\ Supersede(t, prev)
  \/ UserCancel(t)
  \/ ScopeCancel(t)
  \/ PluginOutput(t)

WalkStep(t) == Walk(t) \/ Announce(t) \/ Deform(t) \/ Collect(t) \/ Abort(t) \/ Relay(t)
WorkStep(t) == WalkStep(t) \/ Remove(t) \/ Finish(t)

Worker(t) ==
  \/ Receive(t) \/ ReceiveItem(t)
  \/ WorkStep(t) \/ FinishItem(t)
  \/ WorkerCancel(t) \/ Drop(t) \/ DropItem(t)

OpLoop(t)     == OpSkip(t) \/ OpWait(t) \/ OpHook(t) \/ OpFulfill(t)
HookWorker(t) == HookReceive(t) \/ HookCheck(t) \/ HookFinish(t)

Next == \E t \in Tasks : Application(t) \/ Worker(t) \/ OpLoop(t) \/ HookWorker(t)

(* The runtime polls every worker and both loops; file operations, child   *)
(* processes and the plugins that run as tasks end, but not the input of a *)
(* custom task.  The application and what plugins do with handles promise  *)
(* nothing.                                                                *)
Fairness ==
  \A t \in Tasks :
    /\ WF_vars(Receive(t)) /\ WF_vars(ReceiveItem(t))
    /\ WF_vars(WorkStep(t)) /\ WF_vars(FinishItem(t))
    /\ WF_vars(WorkerCancel(t)) /\ WF_vars(Drop(t)) /\ WF_vars(DropItem(t))
    /\ WF_vars(OpLoop(t)) /\ WF_vars(HookWorker(t))

Spec     == Init /\ [][Next]_vars
FairSpec == Spec /\ Fairness

-----------------------------------------------------------------------------
(* Properties. *)

Outstanding(t) == main[t] \in {"queued", "fresh", "walk"} \/ todo[t] > 0 \/ doing[t] > 0

InFlight(t) == ops[t] # <<>> \/ hookq[t] > 0 \/ hooking[t] # "none"

(* A task is failed only when no input of it is left, queued or running:   *)
(* workers drop the inputs of a finished task, so an earlier failure would *)
(* abort the copying of the task's other files half way (worker.rs         *)
(* `handle.finished()`).  A deletion whose progress does not add up and a  *)
(* custom task are failed at once, on purpose.                             *)
FailureIsQuiet ==
  \A t \in Tasks :
    status[t] = "Failed" /\ kind[t] \notin {"Delete", "Custom"} => ~Outstanding(t)

(* Completion is told at most once, and only of work that is all done and  *)
(* went well: panes are refreshed, other instances act on it (hook.rs).    *)
ReportIsEarned ==
  \A t \in Tasks :
    /\ reports[t] <= 1
    /\ reports[t] = 1 => Cooked(kind[t], prog[t])
    /\ reports[t] = 1 /\ kind[t] # "Custom" => ~Outstanding(t) /\ prog[t].failed = 0

(* Whoever awaits a handle and sees it succeed finds the work done, the    *)
(* cleanup done and told, and nothing of the task left anywhere.           *)
SuccessIsComplete ==
  \A t \in Tasks :
    status[t] = "Succeeded" =>
      /\ t \notin listed
      /\ Success(kind[t], prog[t])
      /\ kind[t] # "Custom" => ~Outstanding(t)
      /\ kind[t] \in Cleaning \ Silent => reports[t] = 1
      /\ ~hook[t] /\ hookq[t] = 0 /\ hooking[t] = "none"

(* A task that has left the list has succeeded or was canceled: nobody     *)
(* awaits its handle for ever (ongoing.rs removes entries in two places).  *)
NoHandleForgotten ==
  \A t \in Tasks :
    kind[t] # "None" /\ t \notin listed => status[t] \in {"Succeeded", "Canceled"}

(* The cleanup hook of a task is in one place at a time: in its entry, in  *)
(* the channel or in a hook worker; so it runs at most once.               *)
HookIsSingle ==
  \A t \in Tasks :
    (IF hook[t] THEN 1 ELSE 0) + hookq[t] + (IF hooking[t] = "none" THEN 0 ELSE 1) <= 1

(* A listed task that has not failed has something under way that will     *)
(* move it on: it cannot sit in the list for ever.  Custom tasks wait for  *)
(* their plugin; a copy or move canceled by a plugin is the exception that *)
(* CanceledLeaves is about.                                                *)
Stranded(t) == t \in listed /\ status[t] # "Failed" /\ ~Outstanding(t) /\ ~InFlight(t)

NeverStranded ==
  \A t \in Tasks :
    kind[t] # "Custom" /\ kind[t] \notin Steered \cap HookedByOp => ~Stranded(t)

(* To those outside, the scheduler is TaskLifecycle: a status is final     *)
(* except that a failed task may still be canceled, and a task that left   *)
(* the list, which only a settled one does, never comes back.              *)
Lifecycle ==
  INSTANCE TaskLifecycle
    WITH life <- [t \in Tasks |-> IF kind[t] = "None" THEN "New" ELSE status[t]]

KeepsLifecycle == Lifecycle!Spec

(* A canceled task leaves the list of tasks in the end. *)
CanceledLeaves ==
  \A t \in Tasks : t \in listed /\ status[t] = "Canceled" ~> t \notin listed

(* So it does unless a plugin canceled it before its hook was sent: a      *)
(* cancellation never loses a hook that exists, and needs none for a task  *)
(* of another kind.                                                        *)
HookSent(t) ==
  \/ hook[t] \/ hookq[t] > 0 \/ hooking[t] # "none"
  \/ \E i \in DOMAIN ops[t] : ops[t][i] = "Hook"

HookedLeaves ==
  \A t \in Tasks :
    t \in listed /\ status[t] = "Canceled"
      /\ (kind[t] \in Steered \cap HookedByOp => HookSent(t)) ~> t \notin listed

(* All workers that an input of t waits for are held by custom tasks, whose *)
(* inputs never end by themselves (custom.rs).                             *)
Starved(t) ==
  /\ main[t] = "queued" \/ todo[t] > 0
  /\ Cardinality({u \in Tasks : kind[u] = "Custom" /\ pool[u] = pool[t] /\ InWorker(u)})
       = PoolSize[pool[t]]

(* Every task is finished in the end, one way or another, unless it is      *)
(* starved for ever; only a custom task needs its plugin for that.  A move *)
(* that follows symlinks is not among them: it needs workers to spare      *)
(* (MoveOrder).                                                            *)
EveryTaskEnds ==
  \A t \in Tasks :
    t \in listed /\ kind[t] # "Custom" ~> IsFinished(status[t]) \/ []Starved(t)
=============================================================================
