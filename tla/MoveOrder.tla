------------------------------ MODULE MoveOrder ------------------------------
(***************************************************************************)
(* The order inside a move that follows symlinks (yazi-scheduler           *)
(* file/file.rs, `File::move`).  A link must be copied while what it       *)
(* points to is still there, so the walk holds its items back: first the   *)
(* links are queued, each with a sender of a channel on which nobody ever  *)
(* sends; the primary input, still in its worker, waits until the last of  *)
(* the senders is dropped, and only then queues the files.  "Loose" items, *)
(* orphans that are recreated as links, are not held back.                 *)
(*                                                                         *)
(* The waiting input keeps its worker, and its links need one too.         *)
(*                                                                         *)
(* Bounds: a move has at most MaxItems items.  Module Scheduler has the    *)
(* rest of a task's life; here a task that is finished is just `canceled`. *)
(***************************************************************************)
EXTENDS Integers, Functions

CONSTANTS Moves, Workers, MaxItems

ASSUME WorkersAssumption  == Workers \in Nat \ {0}
ASSUME MaxItemsAssumption == MaxItems \in Nat

ItemKinds == {"link", "file", "loose"}

VARIABLES
  phase,     \* where the primary input of a move is
  held,      \* items of a kind that the walk holds back
  todo,      \* items in the channel of the file workers
  doing,     \* items in a worker
  canceled   \* TaskHandle::finished is ready

vars == <<phase, held, todo, doing, canceled>>

None == [k \in ItemKinds |-> 0]

TypeOK ==
  /\ phase    \in [Moves -> {"queued", "walk", "await", "gone"}]
  /\ held     \in [Moves -> [ItemKinds -> Nat]]
  /\ todo     \in [Moves -> [ItemKinds -> Nat]]
  /\ doing    \in [Moves -> [ItemKinds -> Nat]]
  /\ canceled \in [Moves -> BOOLEAN]

Init ==
  /\ phase    = [m \in Moves |-> "queued"]
  /\ held     = [m \in Moves |-> None]
  /\ todo     = [m \in Moves |-> None]
  /\ doing    = [m \in Moves |-> None]
  /\ canceled = [m \in Moves |-> FALSE]

Primary(m) == phase[m] \in {"walk", "await"}
Sum(f)     == FoldFunction(+, 0, f)

Busy == Sum([m \in Moves |-> Sum(doing[m]) + (IF Primary(m) THEN 1 ELSE 0)])
Free == Busy < Workers

LinksLeft(m) == todo[m]["link"] + doing[m]["link"]

-----------------------------------------------------------------------------
Receive(m) ==
  /\ phase[m] = "queued"
  /\ Free
  /\ phase' = [phase EXCEPT ![m] = IF canceled[m] THEN "gone" ELSE "walk"]
  /\ UNCHANGED <<held, todo, doing, canceled>>

Find(m, k) ==
  /\ phase[m] = "walk"
  /\ Sum(held[m]) + Sum(todo[m]) + Sum(doing[m]) < MaxItems
  /\ IF k = "loose"
     THEN todo' = [todo EXCEPT ![m][k] = @ + 1] /\ UNCHANGED held
     ELSE held' = [held EXCEPT ![m][k] = @ + 1] /\ UNCHANGED todo
  /\ UNCHANGED <<phase, doing, canceled>>

(* The root of the move cannot be read: the task fails. *)
Abort(m) ==
  /\ phase[m] = "walk"
  /\ held[m] = None /\ todo[m] = None /\ doing[m] = None
  /\ phase' = [phase EXCEPT ![m] = "gone"]
  /\ UNCHANGED <<held, todo, doing, canceled>>

QueueLinks(m) ==
  /\ phase[m] = "walk"
  /\ held[m]["link"] > 0
  /\ phase' = [phase EXCEPT ![m] = "await"]
  /\ todo'  = [todo EXCEPT ![m]["link"] = @ + held[m]["link"]]
  /\ held'  = [held EXCEPT ![m]["link"] = 0]
  /\ UNCHANGED <<doing, canceled>>

(* A slip: the files are queued right behind the links. *)
QueueFilesEarly(m) ==
  /\ \/ phase[m] = "walk" /\ held[m]["link"] = 0
     \/ phase[m] = "await"
  /\ phase' = [phase EXCEPT ![m] = "gone"]
  /\ todo'  = [todo EXCEPT ![m]["file"] = @ + held[m]["file"]]
  /\ held'  = [held EXCEPT ![m]["file"] = 0]
  /\ UNCHANGED <<doing, canceled>>

(* A slip: the move keeps a sender of its own, so the wait never ends. *)
QueueFilesUnawaited(m) ==
  /\ phase[m] = "walk" /\ held[m]["link"] = 0
  /\ phase' = [phase EXCEPT ![m] = "gone"]
  /\ todo'  = [todo EXCEPT ![m]["file"] = @ + held[m]["file"]]
  /\ held'  = [held EXCEPT ![m]["file"] = 0]
  /\ UNCHANGED <<doing, canceled>>

QueueFiles(m) ==
  /\ \/ phase[m] = "walk" /\ held[m]["link"] = 0
     \/ phase[m] = "await" /\ LinksLeft(m) = 0
  /\ phase' = [phase EXCEPT ![m] = "gone"]
  /\ todo'  = [todo EXCEPT ![m]["file"] = @ + held[m]["file"]]
  /\ held'  = [held EXCEPT ![m]["file"] = 0]
  /\ UNCHANGED <<doing, canceled>>

(* An item of a task that is gone is dropped, and its sender with it. *)
ReceiveItem(m, k) ==
  /\ todo[m][k] > 0
  /\ Free
  /\ todo'  = [todo EXCEPT ![m][k] = @ - 1]
  /\ doing' = IF canceled[m] THEN doing ELSE [doing EXCEPT ![m][k] = @ + 1]
  /\ UNCHANGED <<phase, held, canceled>>

(* Done, failed, or dropped because the task is finished. *)
FinishItem(m, k) ==
  /\ doing[m][k] > 0
  /\ doing' = [doing EXCEPT ![m][k] = @ - 1]
  /\ UNCHANGED <<phase, held, todo, canceled>>

Cancel(m) ==
  /\ ~canceled[m]
  /\ canceled' = [canceled EXCEPT ![m] = TRUE]
  /\ UNCHANGED <<phase, held, todo, doing>>

(* A slip: an input that waits for its links does not notice. *)
DropWalking(m) ==
  /\ phase[m] = "walk"
  /\ canceled[m]
  /\ phase' = [phase EXCEPT ![m] = "gone"]
  /\ held'  = [held EXCEPT ![m] = None]
  /\ UNCHANGED <<todo, doing, canceled>>

(* The primary input is dropped wherever it stands, with what it holds. *)
Drop(m) ==
  /\ Primary(m)
  /\ canceled[m]
  /\ phase' = [phase EXCEPT ![m] = "gone"]
  /\ held'  = [held EXCEPT ![m] = None]
  /\ UNCHANGED <<todo, doing, canceled>>

WalkOn(m) == Abort(m) \/ QueueLinks(m) \/ QueueFiles(m)

Next ==
  \E m \in Moves :
    \/ Receive(m) \/ WalkOn(m) \/ Drop(m) \/ Cancel(m)
    \/ \E k \in ItemKinds : Find(m, k) \/ ReceiveItem(m, k) \/ FinishItem(m, k)

(* Workers are polled and file operations end; nobody needs to cancel. *)
Fairness ==
  \A m \in Moves :
    /\ WF_vars(Receive(m)) /\ WF_vars(WalkOn(m)) /\ WF_vars(Drop(m))
    /\ \A k \in ItemKinds : WF_vars(ReceiveItem(m, k)) /\ WF_vars(FinishItem(m, k))

Spec     == Init /\ [][Next]_vars
FairSpec == Spec /\ Fairness

-----------------------------------------------------------------------------
(* No file is moved away while a link that may point to it is still to be  *)
(* copied, whatever is canceled in between.                                *)
LinksBeforeFiles ==
  \A m \in Moves : todo[m]["file"] + doing[m]["file"] > 0 => LinksLeft(m) = 0

(* A move ends when it is canceled, even if every worker holds a move that *)
(* waits for its links: the worker that is let go drains the channel.      *)
Ended(m) == phase[m] = "gone" /\ todo[m] = None /\ doing[m] = None

CanceledEnds == \A m \in Moves : canceled[m] ~> Ended(m)

(* Every move ends by itself, unless it needs a worker when each of them   *)
(* holds a move that waits for its links: with as many such moves as       *)
(* workers, no worker is left to copy a link.  That state is not left      *)
(* without a cancel; any other shortage of workers passes.                 *)
Waiting(m) == phase[m] = "await" /\ LinksLeft(m) > 0
Jam        == Sum([m \in Moves |-> IF Waiting(m) THEN 1 ELSE 0]) = Workers

MovesEnd == \A m \in Moves : <>[](Ended(m) \/ Jam)
=============================================================================
