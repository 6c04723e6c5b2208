-------------------------------- MODULE Sizing --------------------------------
(***************************************************************************)
(* The sizes of directories (yazi-scheduler size/, yazi-core prework.rs,   *)
(* yazi-shared throttle.rs).  A pane sorted by size asks for the sizes it  *)
(* lacks: one task per directory, and one throttle per batch of tasks, so  *)
(* that the pane is updated at most every 300 ms and once more after the   *)
(* last one.  `sizing` keeps a directory from being asked for twice.       *)
(*                                                                         *)
(* The time that has passed since a throttle last let something through is *)
(* left open.  The pane stays the same: its directories are Dirs.          *)
(*                                                                         *)
(* Bounds: Batches are the throttles ever created, Workers the size        *)
(* workers (three in the code), and the user cancels only tasks of         *)
(* Cancelable directories.                                                 *)
(***************************************************************************)
EXTENDS Integers, FiniteSets

CONSTANTS Dirs, Batches, Workers, Cancelable

ASSUME DirsAssumption       == IsFiniteSet(Dirs)
ASSUME WorkersAssumption    == Workers \in Nat \ {0}
ASSUME CancelableAssumption == Cancelable \subseteq Dirs

VARIABLES
  batch,    \* the directories a throttle was created for, {} if it was not
  left,     \* Throttle::inner.0: how many results it still expects
  buf,      \* Throttle::inner.2: the results it holds back
  task,     \* task[b][d]: the task of directory d in batch b
  flush,    \* flush[b]: sets of results taken out of buf, each by a worker
  sizing,   \* Size::sizing
  sent,     \* sizes on their way to the pane
  sizes     \* Entries::sizes

vars == <<batch, left, buf, task, flush, sizing, sent, sizes>>

Phases == {"none", "queued", "running", "done", "canceled"}

TypeOK ==
  /\ batch  \in [Batches -> SUBSET Dirs]
  /\ left   \in [Batches -> Int]
  /\ buf    \in [Batches -> SUBSET Dirs]
  /\ task   \in [Batches -> [Dirs -> Phases]]
  /\ flush  \in [Batches -> SUBSET SUBSET Dirs]
  /\ sizing \subseteq Dirs
  /\ sent   \subseteq Dirs
  /\ sizes  \subseteq Dirs

Init ==
  /\ batch  = [b \in Batches |-> {}]
  /\ left   = [b \in Batches |-> 0]
  /\ buf    = [b \in Batches |-> {}]
  /\ task   = [b \in Batches |-> [d \in Dirs |-> "none"]]
  /\ flush  = [b \in Batches |-> {}]
  /\ sizing = {}
  /\ sent   = {}
  /\ sizes  = {}

Live(b, d) == task[b][d] \in {"queued", "running"}

(* A worker flushes what it took before it takes another input. *)
Free ==
  Cardinality({bd \in Batches \X Dirs : task[bd[1]][bd[2]] = "running"})
    + Cardinality({bf \in Batches \X SUBSET Dirs : bf[2] \in flush[bf[1]]}) < Workers

-----------------------------------------------------------------------------
(* A slip: directories that are being sized are asked for again. *)
PreworkSortedAgain(b, seen) ==
  LET targets == seen \ sizes IN
    /\ batch[b] = {}
    /\ targets # {}
    /\ batch'  = [batch EXCEPT ![b] = targets]
    /\ left'   = [left EXCEPT ![b] = Cardinality(targets)]
    /\ task'   = [task EXCEPT ![b] = [d \in Dirs |-> IF d \in targets THEN "queued" ELSE "none"]]
    /\ sizing' = sizing \cup targets
    /\ UNCHANGED <<buf, flush, sent, sizes>>

(* `seen` is what the pane lists; filters and hidden files change it. *)
PreworkSorted(b, seen) ==
  LET targets == {d \in seen : d \notin sizes /\ d \notin sizing} IN
    /\ batch[b] = {}
    /\ targets # {}
    /\ batch'  = [batch EXCEPT ![b] = targets]
    /\ left'   = [left EXCEPT ![b] = Cardinality(targets)]
    /\ task'   = [task EXCEPT ![b] = [d \in Dirs |-> IF d \in targets THEN "queued" ELSE "none"]]
    /\ sizing' = sizing \cup targets
    /\ UNCHANGED <<buf, flush, sent, sizes>>

Receive(b, d) ==
  /\ task[b][d] = "queued"
  /\ Free
  /\ task' = [task EXCEPT ![b][d] = "running"]
  /\ UNCHANGED <<batch, left, buf, flush, sizing, sent, sizes>>

(* A slip: the countdown is compared before it is decremented. *)
DoneLate(b, d) ==
  /\ task[b][d] = "running"
  /\ task' = [task EXCEPT ![b][d] = "done"]
  /\ left' = [left EXCEPT ![b] = @ - 1]
  /\ LET held == buf[b] \cup {d} IN
       \/ buf' = [buf EXCEPT ![b] = held] /\ UNCHANGED flush
       \/ /\ left[b] = 0
          /\ buf'   = [buf EXCEPT ![b] = {}]
          /\ flush' = [flush EXCEPT ![b] = @ \cup {held}]
  /\ UNCHANGED <<batch, sizing, sent, sizes>>

(* The size is known: the throttle counts it, and lets through what it has *)
(* if this is the last one or if the interval has passed.                  *)
Done(b, d) ==
  /\ task[b][d] = "running"
  /\ task' = [task EXCEPT ![b][d] = "done"]
  /\ left' = [left EXCEPT ![b] = @ - 1]
  /\ LET held == buf[b] \cup {d} IN
       \/ /\ left'[b] # 0
          /\ buf' = [buf EXCEPT ![b] = held]
          /\ UNCHANGED flush
       \/ /\ buf'   = [buf EXCEPT ![b] = {}]
          /\ flush' = [flush EXCEPT ![b] = @ \cup {held}]
  /\ UNCHANGED <<batch, sizing, sent, sizes>>

(* A slip: the directories stay marked. *)
FlushMarked(b, held) ==
  /\ held \in flush[b]
  /\ flush' = [flush EXCEPT ![b] = @ \ {held}]
  /\ UNCHANGED <<batch, left, buf, task, sizing, sent, sizes>>

(* After the throttle's lock is released. *)
Flush(b, held) ==
  /\ held \in flush[b]
  /\ flush'  = [flush EXCEPT ![b] = @ \ {held}]
  /\ sizing' = sizing \ held
  /\ sent'   = sent \cup held
  /\ UNCHANGED <<batch, left, buf, task, sizes>>

UpdateSize ==
  /\ sent # {}
  /\ sizes' = sizes \cup sent
  /\ sent'  = {}
  /\ UNCHANGED <<batch, left, buf, task, flush, sizing>>

(* The task leaves the list at once, and its worker drops it: the throttle *)
(* is never told.                                                          *)
Cancel(b, d) ==
  /\ d \in Cancelable
  /\ Live(b, d)
  /\ task' = [task EXCEPT ![b][d] = "canceled"]
  /\ UNCHANGED <<batch, left, buf, flush, sizing, sent, sizes>>

Next ==
  \/ \E b \in Batches, seen \in SUBSET Dirs : PreworkSorted(b, seen)
  \/ \E b \in Batches, d \in Dirs : Receive(b, d) \/ Done(b, d) \/ Cancel(b, d)
  \/ \E b \in Batches : \E held \in flush[b] : Flush(b, held)
  \/ UpdateSize

(* Size workers are polled, and walking a directory ends. *)
Fairness ==
  /\ \A b \in Batches, d \in Dirs : WF_vars(Receive(b, d)) /\ WF_vars(Done(b, d))
  /\ \A b \in Batches, held \in SUBSET Dirs : WF_vars(Flush(b, held))
  /\ WF_vars(UpdateSize)

Spec     == Init /\ [][Next]_vars
FairSpec == Spec /\ Fairness

-----------------------------------------------------------------------------
(* A directory is measured once at a time, however often the pane is       *)
(* sorted while it is.                                                     *)
OneTaskPerDir ==
  \A d \in Dirs : Cardinality({b \in Batches : Live(b, d)}) <= 1

(* A marked directory is marked for a reason: it is being measured, or its *)
(* size is held back by a throttle that somebody will still open.  Only a  *)
(* canceled task of its batch leaves it marked for nothing, and then its   *)
(* size is never shown.                                                    *)
Spoiled(b) == \E d \in batch[b] : task[b][d] = "canceled"

Awaited(b, d) ==
  \/ Live(b, d)
  \/ \E held \in flush[b] : d \in held
  \/ d \in buf[b] /\ \E e \in Dirs : Live(b, e)

MarkIsOwed ==
  \A d \in sizing :
    \E b \in Batches : d \in batch[b] /\ (Awaited(b, d) \/ Spoiled(b))

(* Every size that is asked for is shown, unless a task of its batch is    *)
(* canceled.                                                               *)
SizesArrive ==
  \A b \in Batches, d \in Dirs :
    d \in batch[b] ~> d \in sizes \/ Spoiled(b)
=============================================================================
