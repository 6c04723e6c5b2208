----------------------------- MODULE SizingProofs -----------------------------
(* A directory is measured once at a time, and marked only while its size   *)
(* is owed, for any number of directories, batches and workers.             *)
EXTENDS Sizing, FiniteSetTheorems, TLAPS

(* Batch b has the size of d still to bring to the pane. *)
Flushing(b, d) == \E held \in flush[b] : d \in held
Holds(b, d)    == Live(b, d) \/ d \in buf[b] \/ Flushing(b, d)

(* A throttle still expects the results of these tasks, canceled ones, too. *)
Expected(b) == {d \in Dirs : task[b][d] \in {"queued", "running", "canceled"}}

(* A directory is with one batch, and there in one place: a task, the       *)
(* throttle, or one of the workers that flush.                              *)
Once ==
  /\ \A b \in Batches, d \in Dirs : Holds(b, d) => d \in sizing
  /\ \A b, c \in Batches, d \in Dirs : Holds(b, d) /\ Holds(c, d) => b = c
  /\ \A b \in Batches, d \in Dirs :
       /\ Live(b, d) => d \notin buf[b] /\ ~Flushing(b, d)
       /\ d \in buf[b] => ~Flushing(b, d)
  /\ \A b \in Batches : \A one, other \in flush[b] :
       one # other => one \cap other = {}

(* The throttle counts every task of its batch. *)
Counted ==
  \A b \in Batches :
    /\ batch[b] = {d \in Dirs : task[b][d] # "none"}
    /\ left[b] = Cardinality(Expected(b))
    /\ buf[b] \subseteq batch[b]
    /\ \A held \in flush[b] : held \subseteq batch[b]

SizingInv == TypeOK /\ Once /\ Counted /\ MarkIsOwed

LEMMA ExpectedFinite ==
  ASSUME NEW b \in Batches
  PROVE  IsFiniteSet(Expected(b)) /\ Cardinality(Expected(b)) \in Nat
BY DirsAssumption, FS_Subset, FS_CardinalityType DEF Expected

LEMMA SizingInit == Init => SizingInv
<1> SUFFICES ASSUME Init PROVE SizingInv
  OBVIOUS
<1>1. \A b \in Batches : Expected(b) = {}
  BY DEF Init, Expected
<1>2. Cardinality({}) = 0
  BY FS_EmptySet
<1> QED
  BY <1>1, <1>2 DEF Init, SizingInv, TypeOK, Phases, Once, Counted, MarkIsOwed, Holds, Live, Flushing

(* A new batch has only directories that no other one has. *)
LEMMA PreworkKeeps ==
  ASSUME SizingInv, NEW b \in Batches, NEW seen \in SUBSET Dirs, PreworkSorted(b, seen)
  PROVE  SizingInv'
<1> DEFINE targets == {d \in seen : d \notin sizes /\ d \notin sizing}
<1> USE DEF SizingInv, TypeOK
<1>1. /\ batch[b] = {} /\ targets \subseteq Dirs
      /\ batch'  = [batch EXCEPT ![b] = targets]
      /\ left'   = [left EXCEPT ![b] = Cardinality(targets)]
      /\ task'   = [task EXCEPT ![b] = [d \in Dirs |-> IF d \in targets THEN "queued" ELSE "none"]]
      /\ sizing' = sizing \cup targets
      /\ UNCHANGED <<buf, flush, sent, sizes>>
  BY DEF PreworkSorted
<1>2. Cardinality(targets) \in Nat
  BY <1>1, DirsAssumption, FS_Subset, FS_CardinalityType
<1>3. TypeOK'
  BY <1>1, <1>2 DEF Phases
<1>4. /\ \A d \in Dirs : task'[b][d] = IF d \in targets THEN "queued" ELSE "none"
      /\ \A c \in Batches : c # b => task'[c] = task[c] /\ batch'[c] = batch[c] /\ left'[c] = left[c]
  BY <1>1
<1>5. buf[b] = {} /\ (\A held \in flush[b] : held = {}) /\ (\A d \in Dirs : ~Live(b, d))
  BY <1>1 DEF Counted, Live
<1>6. /\ \A d \in Dirs : Holds(b, d)' <=> d \in targets
      /\ \A c \in Batches, d \in Dirs : c # b => (Holds(c, d)' <=> Holds(c, d))
      /\ \A c \in Batches, d \in Dirs : c # b => (Live(c, d)' <=> Live(c, d))
      /\ \A d \in Dirs : Live(b, d)' <=> d \in targets
  BY <1>1, <1>4, <1>5 DEF Holds, Live, Flushing
<1>7. Once'
  BY <1>1, <1>5, <1>6 DEF Once, Flushing
<1>8. Expected(b)' = targets /\ \A c \in Batches : c # b => Expected(c)' = Expected(c)
  BY <1>1, <1>4 DEF Expected
<1>9. Counted'
  <2>1. batch'[b] = targets /\ left'[b] = Cardinality(targets)
    BY <1>1
  <2>2. targets = {d \in Dirs : task'[b][d] # "none"}
    BY <1>1, <1>4
  <2> QED
    <3>1. ASSUME NEW c \in Batches
          PROVE  /\ batch'[c] = {d \in Dirs : task'[c][d] # "none"}
                 /\ left'[c] = Cardinality(Expected(c)')
                 /\ buf'[c] \subseteq batch'[c]
                 /\ \A held \in flush'[c] : held \subseteq batch'[c]
      <4>1. CASE c = b
        BY <1>1, <1>5, <1>8, <2>1, <2>2, <4>1
      <4>2. CASE c # b
        BY <1>1, <1>4, <1>8, <4>2 DEF Counted
      <4> QED
        BY <4>1, <4>2
    <3> QED
      BY <3>1 DEF Counted
<1>10. MarkIsOwed'
  <2>1. ASSUME NEW d \in targets
        PROVE  d \in batch'[b] /\ Awaited(b, d)'
    BY <1>1, <1>6 DEF Awaited
  <2>2. ASSUME NEW d \in sizing
        PROVE  \E c \in Batches : d \in batch'[c] /\ (Awaited(c, d)' \/ Spoiled(c)')
    <3>1. PICK c \in Batches : d \in batch[c] /\ (Awaited(c, d) \/ Spoiled(c))
      BY DEF MarkIsOwed
    <3>2. c # b
      BY <1>1, <3>1
    <3> QED
      BY <1>1, <1>4, <1>6, <3>1, <3>2 DEF Awaited, Spoiled
  <2> QED
    BY <1>1, <2>1, <2>2 DEF MarkIsOwed
<1> QED
  BY <1>3, <1>7, <1>9, <1>10

LEMMA ReceiveKeeps ==
  ASSUME SizingInv, NEW b \in Batches, NEW d \in Dirs, Receive(b, d)
  PROVE  SizingInv'
<1> USE DEF SizingInv, TypeOK
<1>1. /\ task[b][d] = "queued"
      /\ task' = [task EXCEPT ![b] = [task[b] EXCEPT ![d] = "running"]]
      /\ UNCHANGED <<batch, left, buf, flush, sizing, sent, sizes>>
  BY DEF Receive
<1>2. \A c \in Batches, e \in Dirs :
        task'[c][e] = IF c = b /\ e = d THEN "running" ELSE task[c][e]
  BY <1>1
<1>3. /\ \A c \in Batches, e \in Dirs : Live(c, e)' <=> Live(c, e)
      /\ \A c \in Batches : Expected(c)' = Expected(c)
      /\ \A c \in Batches : {e \in Dirs : task'[c][e] # "none"} = {e \in Dirs : task[c][e] # "none"}
      /\ \A c \in Batches, e \in Dirs : task'[c][e] = "canceled" <=> task[c][e] = "canceled"
  BY <1>1, <1>2 DEF Live, Expected
<1>4. TypeOK'
  BY <1>1 DEF Phases
<1>5. Once'
  BY <1>1, <1>3 DEF Once, Holds, Flushing
<1>6. Counted'
  BY <1>1, <1>3 DEF Counted
<1>7. MarkIsOwed'
  BY <1>1, <1>3 DEF MarkIsOwed, Awaited, Spoiled
<1> QED
  BY <1>4, <1>5, <1>6, <1>7

(* A task that ends leaves the throttle, and the last one opens it.  While  *)
(* results are held back another task of the batch is left.                 *)
LEMMA DoneKeeps ==
  ASSUME SizingInv, NEW b \in Batches, NEW d \in Dirs, Done(b, d)
  PROVE  SizingInv'
<1> DEFINE held == buf[b] \cup {d}
<1> USE DEF SizingInv, TypeOK
<1>1. /\ task[b][d] = "running"
      /\ task' = [task EXCEPT ![b] = [task[b] EXCEPT ![d] = "done"]]
      /\ left' = [left EXCEPT ![b] = left[b] - 1]
      /\ UNCHANGED <<batch, sizing, sent, sizes>>
  BY DEF Done
<1>2. \/ /\ left'[b] # 0 /\ buf' = [buf EXCEPT ![b] = held] /\ UNCHANGED flush
      \/ buf' = [buf EXCEPT ![b] = {}] /\ flush' = [flush EXCEPT ![b] = flush[b] \cup {held}]
  BY DEF Done
<1>3. \A c \in Batches, e \in Dirs :
        task'[c][e] = IF c = b /\ e = d THEN "done" ELSE task[c][e]
  BY <1>1
<1>4. /\ Live(b, d) /\ d \in batch[b] /\ d \notin buf[b] /\ ~Flushing(b, d)
      /\ held \subseteq batch[b] /\ batch[b] \subseteq Dirs
  BY <1>1 DEF Live, Counted, Once
<1>5. TypeOK'
  <2>1. task' \in [Batches -> [Dirs -> Phases]] /\ left' \in [Batches -> Int]
    BY <1>1 DEF Phases
  <2>2. held \subseteq Dirs
    BY <1>4
  <2>3. buf' \in [Batches -> SUBSET Dirs] /\ flush' \in [Batches -> SUBSET SUBSET Dirs]
    <3>1. CASE buf' = [buf EXCEPT ![b] = held] /\ flush' = flush
      BY <2>2, <3>1
    <3>2. CASE /\ buf' = [buf EXCEPT ![b] = {}]
               /\ flush' = [flush EXCEPT ![b] = flush[b] \cup {held}]
      <4>1. flush[b] \cup {held} \in SUBSET SUBSET Dirs
        BY <2>2
      <4> QED
        BY <3>2, <4>1
    <3> QED
      BY <1>2, <3>1, <3>2
  <2> QED
    BY <1>1, <2>1, <2>3
<1>6. /\ \A c \in Batches, e \in Dirs : Live(c, e)' <=> Live(c, e) /\ ~(c = b /\ e = d)
      /\ \A c \in Batches : {e \in Dirs : task'[c][e] # "none"} = {e \in Dirs : task[c][e] # "none"}
      /\ \A c \in Batches, e \in Dirs : task'[c][e] = "canceled" <=> task[c][e] = "canceled"
      /\ Expected(b)' = Expected(b) \ {d} /\ d \in Expected(b)
      /\ \A c \in Batches : c # b => Expected(c)' = Expected(c)
  BY <1>1, <1>3 DEF Live, Expected
<1>7. \A c \in Batches : c # b => buf'[c] = buf[c] /\ flush'[c] = flush[c] /\ left'[c] = left[c]
  BY <1>1, <1>2
<1>8. \/ /\ left'[b] # 0 /\ buf'[b] = held /\ flush'[b] = flush[b]
      \/ buf'[b] = {} /\ flush'[b] = flush[b] \cup {held}
  BY <1>2
<1>9. left'[b] = Cardinality(Expected(b)')
  BY <1>1, <1>6, ExpectedFinite, FS_RemoveElement, ZenonT(60) DEF Counted
<1>10. Once'
  <2>1. \A c \in Batches, e \in Dirs : Holds(c, e)' => Holds(c, e)
    BY <1>4, <1>6, <1>7, <1>8 DEF Holds, Flushing
  <2>2. \A c \in Batches, e \in Dirs :
          /\ Live(c, e)' => e \notin buf'[c] /\ ~Flushing(c, e)'
          /\ e \in buf'[c] => ~Flushing(c, e)'
    <3> SUFFICES ASSUME NEW c \in Batches, NEW e \in Dirs
                 PROVE  /\ Live(c, e)' => e \notin buf'[c] /\ ~Flushing(c, e)'
                        /\ e \in buf'[c] => ~Flushing(c, e)'
      OBVIOUS
    <3>1. CASE c = b
      BY <1>4, <1>6, <1>8, <3>1 DEF Once, Flushing
    <3>2. CASE c # b
      BY <1>6, <1>7, <3>2 DEF Once, Flushing
    <3> QED
      BY <3>1, <3>2
  <2>3. \A c \in Batches : \A one, other \in flush'[c] : one # other => one \cap other = {}
    <3>1. \A one \in flush[b] : one \cap held = {}
      BY <1>4 DEF Once, Flushing, Counted
    <3> SUFFICES ASSUME NEW c \in Batches, NEW one \in flush'[c], NEW other \in flush'[c],
                        one # other
                 PROVE  one \cap other = {}
      OBVIOUS
    <3>2. CASE c # b
      BY <1>7, <3>2 DEF Once
    <3>3. CASE c = b /\ flush'[b] = flush[b]
      BY <3>3 DEF Once
    <3>4. CASE c = b /\ flush'[b] = flush[b] \cup {held}
      BY <3>1, <3>4 DEF Once
    <3> QED
      BY <1>8, <3>2, <3>3, <3>4
  <2> QED
    BY <1>1, <2>1, <2>2, <2>3 DEF Once
<1>11. Counted'
  <2>1. ASSUME NEW c \in Batches
        PROVE  /\ batch'[c] = {e \in Dirs : task'[c][e] # "none"}
               /\ left'[c] = Cardinality(Expected(c)')
               /\ buf'[c] \subseteq batch'[c]
               /\ \A one \in flush'[c] : one \subseteq batch'[c]
    <3>1. batch'[c] = batch[c] /\ batch[c] = {e \in Dirs : task'[c][e] # "none"}
      BY <1>1, <1>6 DEF Counted
    <3>2. CASE c = b
      BY <1>4, <1>8, <1>9, <3>1, <3>2 DEF Counted
    <3>3. CASE c # b
      BY <1>6, <1>7, <3>1, <3>3 DEF Counted
    <3> QED
      BY <3>2, <3>3
  <2> QED
    BY <2>1 DEF Counted
<1>12. MarkIsOwed'
  <2> SUFFICES ASSUME NEW e \in sizing
               PROVE  \E c \in Batches : e \in batch'[c] /\ (Awaited(c, e)' \/ Spoiled(c)')
    BY <1>1 DEF MarkIsOwed
  <2>1. PICK c \in Batches : e \in batch[c] /\ (Awaited(c, e) \/ Spoiled(c))
    BY DEF MarkIsOwed
  <2>2. CASE Spoiled(c)
    BY <1>1, <1>6, <2>1, <2>2 DEF Spoiled
  <2>3. CASE c # b /\ Awaited(c, e)
    BY <1>1, <1>6, <1>7, <2>1, <2>3 DEF Awaited
  <2>4. CASE c = b /\ Awaited(c, e) /\ buf'[b] = {} /\ flush'[b] = flush[b] \cup {held}
    <3>1. e \in held \/ Live(b, e)' \/ \E one \in flush[b] : e \in one
      BY <1>6, <2>4 DEF Awaited
    <3>2. Awaited(b, e)'
      BY <2>4, <3>1 DEF Awaited
    <3> QED
      BY <1>1, <2>1, <2>4, <3>2
  <2>5. CASE c = b /\ Awaited(c, e) /\ left'[b] # 0 /\ buf'[b] = held /\ flush'[b] = flush[b]
    <3>1. PICK f \in Dirs : f \in Expected(b)'
      BY <1>6, <1>9, <2>5, FS_EmptySet, ZenonT(60) DEF Expected
    <3>2. Live(b, f)' \/ Spoiled(b)'
      <4>1. task'[b][f] \in {"queued", "running", "canceled"}
        BY <3>1 DEF Expected
      <4>2. f \in batch'[b]
        BY <4>1, <1>11 DEF Counted
      <4> QED
        BY <4>1, <4>2 DEF Live, Spoiled
    <3>3. e \in held \/ Live(b, e)' \/ Flushing(b, e)'
      BY <1>6, <2>5 DEF Awaited, Flushing
    <3> QED
      BY <1>1, <2>1, <2>5, <3>2, <3>3 DEF Awaited, Flushing
  <2> QED
    BY <1>8, <2>1, <2>2, <2>3, <2>4, <2>5
<1> QED
  BY <1>5, <1>10, <1>11, <1>12

(* The marks a worker takes back belong to what it took and to nothing else. *)
LEMMA FlushKeeps ==
  ASSUME SizingInv, NEW b \in Batches, NEW held \in flush[b], Flush(b, held)
  PROVE  SizingInv'
<1> USE DEF SizingInv, TypeOK
<1>1. /\ flush'  = [flush EXCEPT ![b] = flush[b] \ {held}]
      /\ sizing' = sizing \ held
      /\ sent'   = sent \cup held
      /\ UNCHANGED <<batch, left, buf, task, sizes>>
      /\ held \subseteq Dirs
  BY DEF Flush, Counted
<1>2. /\ flush'[b] = flush[b] \ {held}
      /\ \A c \in Batches : c # b => flush'[c] = flush[c]
      /\ \A c \in Batches : flush'[c] \subseteq flush[c]
  BY <1>1
<1>3. TypeOK'
  BY <1>1
<1>4. \A c \in Batches, e \in Dirs :
        /\ Live(c, e)' <=> Live(c, e)
        /\ Holds(c, e)' => Holds(c, e) /\ e \notin held
  <2> SUFFICES ASSUME NEW c \in Batches, NEW e \in Dirs, Holds(c, e)'
               PROVE  Holds(c, e) /\ e \notin held
    BY <1>1 DEF Live
  <2>1. Holds(c, e)
    BY <1>1, <1>2 DEF Holds, Live, Flushing
  <2>2. ASSUME e \in held
        PROVE  FALSE
    <3>1. Flushing(b, e) /\ c = b
      BY <2>1, <2>2 DEF Once, Holds, Flushing
    <3>2. ~Live(b, e) /\ e \notin buf[b] /\ ~Flushing(b, e)'
      BY <1>2, <2>2, <3>1 DEF Once, Flushing
    <3> QED
      BY <1>1, <3>1, <3>2 DEF Holds, Live
  <2> QED
    BY <2>1, <2>2
<1>5. Once'
  BY <1>1, <1>2, <1>4 DEF Once, Flushing
<1>6. Counted'
  <2>1. \A c \in Batches : Expected(c)' = Expected(c)
    BY <1>1 DEF Expected
  <2> QED
    BY <1>1, <1>2, <2>1 DEF Counted
<1>7. MarkIsOwed'
  BY <1>1, <1>2, <1>4 DEF MarkIsOwed, Awaited, Spoiled, Live
<1> QED
  BY <1>3, <1>5, <1>6, <1>7

(* A canceled task is still expected, and spoils its batch. *)
LEMMA CancelKeeps ==
  ASSUME SizingInv, NEW b \in Batches, NEW d \in Dirs, Cancel(b, d)
  PROVE  SizingInv'
<1> USE DEF SizingInv, TypeOK
<1>1. /\ Live(b, d)
      /\ task' = [task EXCEPT ![b] = [task[b] EXCEPT ![d] = "canceled"]]
      /\ UNCHANGED <<batch, left, buf, flush, sizing, sent, sizes>>
  BY DEF Cancel
<1>2. \A c \in Batches, e \in Dirs :
        task'[c][e] = IF c = b /\ e = d THEN "canceled" ELSE task[c][e]
  BY <1>1
<1>3. /\ \A c \in Batches, e \in Dirs : Live(c, e)' => Live(c, e)
      /\ \A c \in Batches, e \in Dirs : c # b => (Live(c, e)' <=> Live(c, e))
      /\ \A c \in Batches : Expected(c)' = Expected(c)
      /\ \A c \in Batches : {e \in Dirs : task'[c][e] # "none"} = {e \in Dirs : task[c][e] # "none"}
      /\ \A c \in Batches, e \in Dirs : task[c][e] = "canceled" => task'[c][e] = "canceled"
  BY <1>1, <1>2 DEF Live, Expected
<1>4. d \in batch[b] /\ task'[b][d] = "canceled"
  BY <1>1, <1>2 DEF Live, Counted
<1>5. TypeOK'
  BY <1>1 DEF Phases
<1>6. Once'
  BY <1>1, <1>3 DEF Once, Holds, Flushing
<1>7. Counted'
  BY <1>1, <1>3 DEF Counted
<1>8. MarkIsOwed'
  BY <1>1, <1>3, <1>4 DEF MarkIsOwed, Awaited, Spoiled
<1> QED
  BY <1>5, <1>6, <1>7, <1>8

LEMMA SizingStep == SizingInv /\ [Next]_vars => SizingInv'
<1> SUFFICES ASSUME SizingInv, [Next]_vars PROVE SizingInv'
  OBVIOUS
<1>1. ASSUME NEW b \in Batches, NEW seen \in SUBSET Dirs, PreworkSorted(b, seen)
      PROVE  SizingInv'
  BY <1>1, PreworkKeeps
<1>2. ASSUME NEW b \in Batches, NEW d \in Dirs, Receive(b, d) \/ Done(b, d) \/ Cancel(b, d)
      PROVE  SizingInv'
  BY <1>2, ReceiveKeeps, DoneKeeps, CancelKeeps
<1>3. ASSUME NEW b \in Batches, NEW held \in flush[b], Flush(b, held)
      PROVE  SizingInv'
  BY <1>3, FlushKeeps
<1>4. ASSUME UpdateSize \/ UNCHANGED vars
      PROVE  SizingInv'
  <2>1. /\ UNCHANGED <<batch, left, buf, task, flush, sizing>>
        /\ sizes' \subseteq Dirs /\ sent' \subseteq Dirs
    BY <1>4 DEF UpdateSize, vars, SizingInv, TypeOK
  <2> QED
    <3>1. /\ \A b \in Batches, d \in Dirs : Live(b, d)' <=> Live(b, d)
          /\ \A b \in Batches, d \in Dirs : Flushing(b, d)' <=> Flushing(b, d)
          /\ \A b \in Batches, d \in Dirs : Awaited(b, d)' <=> Awaited(b, d)
          /\ \A b \in Batches : Spoiled(b)' <=> Spoiled(b)
      BY <2>1 DEF Live, Flushing, Awaited, Spoiled
    <3>5. \A b \in Batches : Expected(b)' = Expected(b)
      BY <2>1 DEF Expected
    <3>2. TypeOK' /\ Once'
      BY <2>1, <3>1 DEF SizingInv, TypeOK, Once, Holds
    <3>3. Counted'
      BY <2>1, <3>5 DEF SizingInv, Counted
    <3>4. MarkIsOwed'
      <4> SUFFICES ASSUME NEW d \in sizing
                   PROVE  \E b \in Batches : d \in batch'[b] /\ (Awaited(b, d)' \/ Spoiled(b)')
        BY <2>1 DEF MarkIsOwed
      <4>1. PICK b \in Batches : d \in batch[b] /\ (Awaited(b, d) \/ Spoiled(b))
        BY DEF SizingInv, MarkIsOwed
      <4>2. d \in Dirs
        BY DEF SizingInv, TypeOK
      <4> QED
        BY <2>1, <3>1, <4>1, <4>2
    <3> QED
      BY <3>2, <3>3, <3>4 DEF SizingInv
<1> QED
  BY <1>1, <1>2, <1>3, <1>4 DEF Next

LEMMA SizingAlways == Spec => []SizingInv
BY SizingInit, SizingStep, PTL DEF Spec

(* Size workers and the pane never measure a directory twice at a time,      *)
(* however many batches ask for it and however they are canceled.            *)
THEOREM OncePerDir == Spec => []OneTaskPerDir
<1>1. SizingInv => OneTaskPerDir
  <2> SUFFICES ASSUME SizingInv, NEW d \in Dirs
               PROVE  Cardinality({b \in Batches : Live(b, d)}) <= 1
    BY DEF OneTaskPerDir
  <2>1. CASE {b \in Batches : Live(b, d)} = {}
    BY <2>1, FS_EmptySet
  <2>2. ASSUME NEW b \in Batches, Live(b, d)
        PROVE  Cardinality({c \in Batches : Live(c, d)}) <= 1
    <3>0. \A c \in Batches : Live(c, d) => c = b
      BY <2>2 DEF SizingInv, Once, Holds
    <3>1. {c \in Batches : Live(c, d)} = {b}
      BY <2>2, <3>0
    <3>2. Cardinality({c \in Batches : Live(c, d)}) = 1
      <4>1. Cardinality({b}) = 1
        BY FS_Singleton
      <4> QED
        BY <3>1, <4>1, Zenon
    <3> QED
      BY <3>2
  <2> QED
    BY <2>1, <2>2
<1> QED
  BY <1>1, SizingAlways, PTL

(* A directory stays marked as being sized only while its size is on the     *)
(* way, or a task of its batch was canceled: the countdown of the throttle   *)
(* never leaves a batch behind, for any number of directories and workers.   *)
THEOREM MarksOwed == Spec => []MarkIsOwed
<1>1. SizingInv => MarkIsOwed
  BY DEF SizingInv
<1> QED
  BY <1>1, SizingAlways, PTL
=============================================================================
