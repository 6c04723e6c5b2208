------------------------------ MODULE TaskState ------------------------------
(***************************************************************************)
(* The state of one scheduler task, without the scheduler around it: its   *)
(* status (yazi-scheduler/src/status.rs, handle.rs) and its progress       *)
(* record with the reducers that fold a worker's report into it            *)
(* (progress.rs and the progress.rs/out.rs of every kind of task).         *)
(*                                                                         *)
(* The sixteen progress types of the code have three shapes:               *)
(*   - with a collect phase: counters of items and `collected`;            *)
(*   - with one piece of work and a cleanup: `state` and `cleaned`;        *)
(*   - with one piece of work only: `state` (`done` for Size).             *)
(* One record stands for all of them: `collected` is also the `state`, and *)
(* the fields a kind lacks keep their initial value.  Byte counts, totals  *)
(* that only a percentage reads and log lines are left out.                *)
(***************************************************************************)
EXTENDS Naturals

TaskStatus == {"Pending", "Started", "Succeeded", "Failed", "Canceled"}

IsCancelable(s) == s \in {"Pending", "Started", "Failed"}
IsFinishable(s) == s \in {"Pending", "Started"}
IsFinished(s)   == s \in {"Succeeded", "Failed", "Canceled"}

(* Slips that the runs must notice: a start that is a plain store, and a   *)
(* failed task that cannot be canceled.                                    *)
StartBlindly(s)     == "Started"
CancelUnfinished(s) == IF IsFinishable(s) THEN "Canceled" ELSE s

(* Each is one compare-and-swap on the handle's atomic. *)
Start(s)   == IF s = "Pending"      THEN "Started"   ELSE s
Succeed(s) == IF IsFinishable(s)    THEN "Succeeded" ELSE s
Fail(s)    == IF IsFinishable(s)    THEN "Failed"    ELSE s
Cancel(s)  == IF IsCancelable(s)    THEN "Canceled"  ELSE s

-----------------------------------------------------------------------------
(* The kinds of task: the variants of TaskProg. *)

Collecting == {"Copy", "Move", "Hardlink", "Download", "Upload"}
Cleaning   == Collecting \cup {"Link", "Delete", "Trash", "Fetch", "Preload"}
Plain      == {"Plugin", "Size", "Block", "Orphan", "Bg", "Custom"}
AllKinds   == Cleaning \cup Plain

(* What a worker, a hook or a plugin reports of a task: the variants of    *)
(* TaskOut.  "ItemSucc" and "ItemFail" are the outcome of one file of a    *)
(* collecting task, or one more removed or unremovable entry of a deletion;*)
(* "BadDelta" is a deletion's Adv whose delta does not add up.             *)
Outs == {"New", "Deform", "ItemSucc", "ItemFail", "BadDelta", "Succ", "Fail",
         "Hook", "Clean", "CleanErr", "Cancel", "Log"}

Progress == [total: Nat, succeeded: Nat, failed: Nat,
             collected: {"None", "True", "False"},
             cleaned: {"Pending", "Success", "Failed"}]

DefaultProg == [total |-> 0, succeeded |-> 0, failed |-> 0,
                collected |-> "None", cleaned |-> "Pending"]

(* The main work is over and went well, whatever the cleanup did. *)
Cooked(k, p) ==
  /\ p.collected = "True"
  /\ k \in Collecting => p.succeeded = p.total
  /\ k = "Delete"     => p.failed = 0

(* A slip: the items are not waited for once the walk is over. *)
CookingByState(k, p) == p.collected = "None"

Cooking(k, p) ==
  \/ p.collected = "None"
  \/ k \in Collecting /\ p.succeeded + p.failed # p.total

CleanupPending(k, p) == k \in Cleaning /\ p.cleaned = "Pending"

Running(k, p) == Cooking(k, p) \/ (Cooked(k, p) /\ CleanupPending(k, p))

Success(k, p) == Cooked(k, p) /\ (k \in Cleaning => p.cleaned = "Success")

(* The reducers.  A deletion keeps a state it already failed with, a       *)
(* custom task its first verdict; every other kind takes the last one.     *)
Settle(k, p, verdict) ==
  IF \/ k = "Custom" /\ p.collected # "None"
     \/ k = "Delete" /\ p.collected # "None" /\ verdict = "True"
  THEN p
  ELSE [p EXCEPT !.collected = verdict]

Reduce(k, p, out) ==
  CASE out = "New"      -> [p EXCEPT !.total = @ + 1]
    [] out = "Deform"   -> [p EXCEPT !.total = @ + 1, !.failed = @ + 1]
    [] out = "ItemSucc" -> [p EXCEPT !.succeeded = @ + 1]
    [] out = "ItemFail" -> [p EXCEPT !.failed = @ + 1]
    [] out = "BadDelta" -> [p EXCEPT !.collected = "False"]
    [] out = "Succ"     -> Settle(k, p, "True")
    [] out = "Fail"     -> Settle(k, p, "False")
    [] out = "Clean"    -> [p EXCEPT !.cleaned = "Success"]
    [] out = "CleanErr" -> [p EXCEPT !.cleaned = "Failed"]
    [] OTHER            -> p
=============================================================================
