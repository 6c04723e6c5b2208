---------------------------- MODULE LoadingProofs ----------------------------
(***************************************************************************)
(* Proofs about Loading, for any tabs, parts and bounds.  A busy entry is  *)
(* answered because tickets are issued once and a reading that was aborted *)
(* leaves an entry that is not busy, until the next one takes its place:   *)
(* AnsweredInv.  What the folders list follows from ListInv: the parts of  *)
(* a reading are on their way in order and no older than its stat, and     *)
(* what a folder lists comes before what it may still get.  That a single  *)
(* tab gets all of them is WholeInv.                                       *)
(***************************************************************************)
EXTENDS Loading, SequenceTheorems, TLAPS

LEMMA TypeInit == Init => TypeOK
BY BoundsAssumption DEF Init, TypeOK, Folders, Items, Stats, Unknown, NoEntry, NoJob

(* A reading starts, or the entry is kept.                                 *)
LEMMA SpawnType ==
  ASSUME TypeOK, NEW e \in Entries, Spawn(e)
  PROVE  /\ entry' \in Entries
         /\ job' \in Jobs \cup {NoJob}
         /\ issued' \in Nat
<1>1. CASE e.dirty /\ e.busy = 0
  <2>1. Fresh(e.file) \in Entries /\ issued + 1 \in Nat \ {0} /\ <<>> \in Items
    BY DEF TypeOK, Entries, Fresh, Items
  <2>2. Turn(e) \in Jobs
    BY <2>1, PartsAssumption DEF Turn, Jobs, Entries
  <2> QED
    BY <1>1, <2>1, <2>2 DEF Spawn, Entries
<1>2. CASE ~(e.dirty /\ e.busy = 0)
  BY <1>2 DEF Spawn, TypeOK
<1> QED
  BY <1>1, <1>2

LEMMA EntryForType ==
  ASSUME TypeOK, NEW file \in Stats
  PROVE  EntryFor(file) \in Entries
BY DEF TypeOK, EntryFor, Fresh, Entries

LEMMA TakeRefreshType ==
  ASSUME NEW f \in Folders
  PROVE  TakeRefresh(f) \in Messages
BY DEF TakeRefresh, Refresh, Load, Folders, Messages

LEMMA AbortType ==
  ASSUME TypeOK
  PROVE  (IF job.live THEN [job EXCEPT !.live = FALSE] ELSE job) \in Jobs \cup {NoJob}
BY DEF TypeOK, Jobs, NoJob

LEMMA OutcomeType ==
  ASSUME NEW prev \in Jobs, NEW result \in {"Full", "Part", "Skip", "Err"}
  PROVE  Outcome(prev, result) \in Seq(Operations)
<1>1. prev.file \in Stats /\ prev.items \in Items /\ prev.ticket \in Nat
  BY DEF Jobs
<1>2. /\ [op |-> "Full", file |-> prev.file, items |-> prev.items] \in Operations
      /\ [op |-> "Done", file |-> prev.file, ticket |-> prev.ticket] \in Operations
      /\ [op |-> "Fail"] \in Operations
  BY <1>1 DEF Operations
<1>3. /\ <<[op |-> "Full", file |-> prev.file, items |-> prev.items]>> \in Seq(Operations)
      /\ <<[op |-> "Done", file |-> prev.file, ticket |-> prev.ticket]>> \in Seq(Operations)
      /\ <<[op |-> "Fail"]>> \in Seq(Operations)
      /\ <<>> \in Seq(Operations)
  BY <1>2
<1> QED
  BY <1>3 DEF Outcome

LEMMA HandleType ==
  ASSUME TypeOK, Handle
  PROVE  TypeOK'
<1>1. inbox \in Seq(Messages) /\ inbox # <<>> /\ Head(inbox) \in Messages /\ Tail(inbox) \in Seq(Messages)
  BY DEF Handle, HandleSync, HandleLoad, HandleRefresh, HandleDone, Receive, TypeOK
<1>2. /\ UNCHANGED <<disk, told, panes, bounds>>
      /\ inbox' \in Seq(Messages)
  BY <1>1 DEF Handle, HandleSync, HandleLoad, HandleRefresh, HandleDone, Receive
<1> SUFFICES /\ entry' \in Entries \cup {NoEntry} /\ job' \in Jobs \cup {NoJob}
             /\ issued' \in Nat /\ events' \in Seq(Operations)
  BY <1>2 DEF TypeOK, panes, bounds
<1>3. CASE HandleSync
  <2>1. Head(inbox) \in [op: {"Sync"}, shown: BOOLEAN, file: Stats]
    BY <1>1, <1>3 DEF HandleSync, Receive, Messages
  <2>2. (IF job.live THEN [job EXCEPT !.live = FALSE] ELSE job) \in Jobs \cup {NoJob}
    BY AbortType
  <2>3. Fresh(Head(inbox).file) \in Entries
    BY <2>1 DEF Fresh, Entries
  <2> QED
    BY <1>3, <2>1, <2>2, <2>3 DEF HandleSync, TypeOK
<1>4. CASE HandleLoad
  <2> DEFINE e == EntryFor(Head(inbox).file)
  <2>1. Head(inbox) \in [op: {"Load"}, file: Stats]
    BY <1>1, <1>4 DEF HandleLoad, Receive, Messages
  <2>2. e \in Entries
    BY <2>1, EntryForType
  <2>3. [e EXCEPT !.dirty = TRUE, !.report = TRUE, !.force = TRUE, !.stream = TRUE] \in Entries
    BY <2>2 DEF Entries
  <2> QED
    BY <1>4, <2>2, <2>3, SpawnType DEF HandleLoad, TypeOK
<1>5. CASE HandleRefresh
  <2> DEFINE e == EntryFor(Head(inbox).file)
  <2>1. Head(inbox) \in [op: {"Refresh"}, file: Stats, force: BOOLEAN]
    BY <1>1, <1>5 DEF HandleRefresh, Receive, Messages
  <2>2. e \in Entries
    BY <2>1, EntryForType
  <2>3. [e EXCEPT !.dirty = TRUE, !.report = TRUE, !.force = @ \/ Head(inbox).force,
                  !.stream = FALSE] \in Entries
    BY <2>1, <2>2 DEF Entries
  <2> QED
    BY <1>5, <2>2, <2>3, SpawnType DEF HandleRefresh, TypeOK
<1>6. CASE HandleDone
  <2> DEFINE prev == Head(inbox).prev  result == Head(inbox).result
             e == [entry EXCEPT !.busy = 0, !.force = @ \/ result = "Err",
                     !.file = IF result \in {"Full", "Part"} THEN prev.file ELSE @]
  <2>1. Head(inbox) \in [op: {"Done"}, prev: Jobs, result: {"Full", "Part", "Skip", "Err"}]
    BY <1>1, <1>6 DEF HandleDone, Receive, Messages
  <2>2. prev \in Jobs /\ prev.ticket \in Nat \ {0} /\ prev.file \in Stats /\ prev.items \in Items
    BY <2>1 DEF Jobs
  <2>3. CASE entry.busy # prev.ticket
    BY <1>6, <2>3 DEF HandleDone, TypeOK, reader
  <2>4. CASE entry.busy = prev.ticket
    <3>1. entry \in Entries
      BY <2>2, <2>4 DEF TypeOK, NoEntry
    <3>2. e \in Entries
      BY <2>1, <2>2, <3>1 DEF Entries
    <3>3. Outcome(prev, result) \in Seq(Operations)
      BY <2>1, <2>2, OutcomeType
    <3>4. events \o Outcome(prev, result) \in Seq(Operations)
      BY <3>3 DEF TypeOK
    <3> QED
      BY <1>6, <2>4, <3>2, <3>4, SpawnType DEF HandleDone
  <2> QED
    BY <2>3, <2>4
<1> QED
  BY <1>3, <1>4, <1>5, <1>6 DEF Handle

LEMMA ReadOnType ==
  ASSUME TypeOK, ReadOn
  PROVE  TypeOK'
<1>1. job \in Jobs /\ NoJob \in Jobs \cup {NoJob}
  BY DEF ReadOn, Revalidate, Unreadable, ReadPart, ReadEnd, Reading, TypeOK
<1>2. /\ job.file \in Stats /\ job.ticket \in Nat \ {0} /\ job.items \in Items
      /\ job.at \in 0..(Parts + 1) /\ disk \in Stats
  BY <1>1 DEF Jobs, TypeOK, Stats, Unknown
<1>3. UNCHANGED <<disk, told, panes, entry, issued, bounds>>
  BY DEF ReadOn, Revalidate, Unreadable, ReadPart, ReadEnd
<1> SUFFICES /\ job' \in Jobs \cup {NoJob}
             /\ inbox' \in Seq(Messages) /\ events' \in Seq(Operations)
  BY <1>3 DEF TypeOK, panes, bounds
<1>4. ASSUME NEW result \in {"Full", "Part", "Skip", "Err"}, Finish(job, result), UNCHANGED events
      PROVE  /\ job' \in Jobs \cup {NoJob}
             /\ inbox' \in Seq(Messages) /\ events' \in Seq(Operations)
  <2>1. [op |-> "Done", prev |-> job, result |-> result] \in Messages
    BY <1>1 DEF Messages
  <2> QED
    BY <1>1, <1>4, <2>1 DEF Finish, TypeOK
<1>5. CASE Revalidate
  <2> DEFINE next == [job EXCEPT !.file = disk, !.at = 1]
             part == [op |-> "Part", ticket |-> job.ticket, items |-> <<>>]
  <2>1. next \in Jobs
    <3>1. 1 \in 0..(Parts + 1)
      BY PartsAssumption
    <3> QED
      BY <1>1, <1>2, <3>1 DEF Jobs
  <2>2. part \in Operations
    BY <1>2 DEF Operations, Items
  <2>3. CASE job.file = disk /\ ~job.force
    BY <1>4, <1>5, <2>3 DEF Revalidate
  <2>4. CASE ~(job.file = disk /\ ~job.force)
    <3>1. job' = next /\ inbox' = inbox /\ (events' = Append(events, part) \/ events' = events)
      BY <1>5, <2>4 DEF Revalidate
    <3>2. events \in Seq(Operations) /\ inbox \in Seq(Messages)
      BY DEF TypeOK
    <3> HIDE DEF next, part
    <3> QED
      BY <2>1, <2>2, <3>1, <3>2
  <2> QED
    BY <2>3, <2>4
<1>6. CASE Unreadable
  BY <1>4, <1>6 DEF Unreadable
<1>7. CASE ReadPart
  <2> DEFINE item == [by |-> job.ticket, part |-> job.at, version |-> disk]
  <2>1. item \in [by: Nat, part: 1..Parts, version: 0..MaxVersion] /\ job.at + 1 \in 0..(Parts + 1)
    BY <1>2, <1>7, PartsAssumption, SMTT(60) DEF ReadPart, TypeOK
  <2>2. <<item>> \in Items /\ Append(job.items, item) \in Items
    BY <1>2, <2>1 DEF Items
  <2>3. /\ [job EXCEPT !.at = @ + 1] \in Jobs
        /\ [job EXCEPT !.at = @ + 1, !.items = Append(@, item)] \in Jobs
    BY <1>1, <2>1, <2>2 DEF Jobs
  <2>4. [op |-> "Part", ticket |-> job.ticket, items |-> <<item>>] \in Operations
    BY <1>2, <2>2 DEF Operations
  <2>5. job' \in Jobs \cup {NoJob}
    BY <1>7, <2>3 DEF ReadPart
  <2>6. events' \in Seq(Operations)
    <3> DEFINE part == [op |-> "Part", ticket |-> job.ticket, items |-> <<item>>]
    <3>1. events' = Append(events, part) \/ events' = events
      BY <1>7 DEF ReadPart
    <3>2. events \in Seq(Operations)
      BY DEF TypeOK
    <3> HIDE DEF part
    <3>3. part \in Operations
      BY <2>4 DEF part
    <3> QED
      BY <3>1, <3>2, <3>3
  <2> QED
    BY <1>7, <2>5, <2>6 DEF ReadPart, TypeOK
<1>8. CASE ReadEnd
  BY <1>4, <1>8 DEF ReadEnd
<1> QED
  BY <1>5, <1>6, <1>7, <1>8 DEF ReadOn

(* What a folder becomes of an operation.                                  *)
LEMMA UpdateType ==
  ASSUME TypeOK, NEW f \in Folders, NEW e \in Operations
  PROVE  Update(f, e) \in Folders
<1>1. f.items \in Items /\ f.ticket \in Nat /\ f.file \in Stats /\ <<>> \in Items
      /\ Unknown \in Stats /\ issued + 1 \in Nat
  BY BoundsAssumption DEF Folders, Items, Stats, Unknown, TypeOK
<1>2. CASE e.op = "Full"
  <2>1. e.file \in Stats /\ e.items \in Items
    BY <1>2 DEF Operations
  <2> QED
    BY <1>1, <1>2, <2>1 DEF Update, Folders
<1>3. CASE e.op = "Fail"
  BY <1>1, <1>3 DEF Update, Folders
<1>4. CASE e.op = "Part"
  <2>1. e.ticket \in Nat /\ e.items \in Items
    BY <1>4 DEF Operations
  <2>2. f.items \o e.items \in Items
    BY <1>1, <2>1 DEF Items
  <2> QED
    BY <1>1, <1>4, <2>1, <2>2 DEF Update, Folders
<1>5. CASE e.op = "Done"
  <2>1. e.file \in Stats
    BY <1>5 DEF Operations
  <2> QED
    BY <1>1, <1>5, <2>1 DEF Update, Folders
<1>6. CASE e.op \notin {"Full", "Fail", "Part", "Done"}
  BY <1>6 DEF Update
<1> QED
  BY <1>2, <1>3, <1>4, <1>5, <1>6

LEMMA DeliverType ==
  ASSUME TypeOK, Deliver
  PROVE  TypeOK'
<1>1. events # <<>> /\ Head(events) \in Operations /\ Tail(events) \in Seq(Operations)
  <2>1. events # <<>> /\ events \in Seq(Operations)
    BY DEF Deliver, DeliverLoad, DeliverUpsert, TypeOK
  <2> QED
    BY <2>1
<1>2. /\ UNCHANGED <<disk, told, active, place, reader, bounds>>
      /\ events' \in Seq(Operations)
  BY <1>1 DEF Deliver, DeliverLoad, DeliverUpsert
<1>3. active \in Tabs /\ folder[active] \in Folders
  BY DEF TypeOK
<1> SUFFICES /\ locked' \in [Tabs -> BOOLEAN] /\ folder' \in [Tabs -> Folders]
             /\ inbox' \in Seq(Messages) /\ issued' \in Nat
  BY <1>2 DEF TypeOK, reader, bounds
<1>4. CASE DeliverLoad
  <2> DEFINE e == Head(events)
             new == [Update(folder[active], e) EXCEPT !.here = TRUE]
  <2>1. new \in Folders
    BY <1>1, <1>3, UpdateType DEF Folders
  <2>2. TakeRefresh(new) \in Messages
    BY <2>1, TakeRefreshType
  <2>3. [new EXCEPT !.stale = FALSE] \in Folders
    BY <2>1 DEF Folders
  <2>4. ASSUME NEW changed, Repeek(active, new, changed)
        PROVE  folder' \in [Tabs -> Folders] /\ inbox' \in Seq(Messages)
    <3>1. \/ folder' = [folder EXCEPT ![active] = new]
          \/ folder' = [folder EXCEPT ![active] = [new EXCEPT !.stale = FALSE]]
      BY <2>4 DEF Repeek
    <3>2. inbox' = inbox \/ inbox' = Append(inbox, TakeRefresh(new))
      BY <2>4 DEF Repeek
    <3>3. folder \in [Tabs -> Folders] /\ inbox \in Seq(Messages)
      BY DEF TypeOK
    <3> HIDE DEF new
    <3>4. folder' \in [Tabs -> Folders]
      BY <1>3, <2>1, <2>3, <3>1, <3>3
    <3>5. inbox' \in Seq(Messages)
      BY <2>2, <3>2, <3>3
    <3> QED
      BY <3>4, <3>5
  <2>5. folder' \in [Tabs -> Folders] /\ inbox' \in Seq(Messages)
    BY <1>4, <2>4 DEF DeliverLoad
  <2>6. issued' \in Nat
    BY <1>4 DEF DeliverLoad, TypeOK
  <2>7. locked' \in [Tabs -> BOOLEAN]
    BY <1>4 DEF DeliverLoad, TypeOK
  <2> QED
    BY <2>5, <2>6, <2>7
<1>5. CASE DeliverUpsert
  <2>1. Refresh(folder[active].file, TRUE) \in Messages
    BY <1>3 DEF Refresh, Folders, Messages
  <2>2. \A t \in Tabs, b \in BOOLEAN : [folder[t] EXCEPT !.stale = b] \in Folders
    BY DEF TypeOK, Folders
  <2>3. folder' \in [Tabs -> Folders]
    BY <1>5, <2>2 DEF DeliverUpsert, TypeOK
  <2>4. inbox' \in Seq(Messages)
    <3> DEFINE m == Refresh(folder[active].file, TRUE)
    <3>1. inbox' = Append(inbox, m) \/ inbox' = inbox
      BY <1>5 DEF DeliverUpsert
    <3>2. inbox \in Seq(Messages) /\ m \in Messages
      BY <2>1 DEF TypeOK
    <3> HIDE DEF m
    <3> QED
      BY <3>1, <3>2
  <2> QED
    BY <1>5, <2>3, <2>4 DEF DeliverUpsert, TypeOK
<1> QED
  BY <1>4, <1>5 DEF Deliver

LEMMA LookType ==
  ASSUME TypeOK, NEW t \in Tabs, NEW p \in {"away", "hovered", "opened"}, Look(t, p)
  PROVE  TypeOK'
<1>1. folder[t] \in Folders /\ KnownStats(t, p) \subseteq Stats
  <2>1. folder[t] \in Folders /\ folder[t].file \in Stats
    BY DEF TypeOK, Folders
  <2>2. 0..disk \subseteq Stats
    BY BoundsAssumption DEF TypeOK, Stats, Unknown
  <2> QED
    BY <2>1, <2>2 DEF KnownStats
<1>2. inbox' \in Seq(Messages)
  <2>1. PICK file \in KnownStats(t, p) :
          LET asked == IF Asks(t, p)
                       THEN Append(inbox, TakeRefresh([folder[t] EXCEPT !.file = file])) ELSE inbox
          IN  inbox' = Append(asked, Sync(p # "away", file))
    BY DEF Look
  <2>2. file \in Stats /\ [folder[t] EXCEPT !.file = file] \in Folders
    BY <1>1, <2>1 DEF Folders
  <2>3. /\ TakeRefresh([folder[t] EXCEPT !.file = file]) \in Messages
        /\ Sync(p # "away", file) \in Messages
    BY <2>2, TakeRefreshType DEF Sync, Messages
  <2> QED
    BY <2>1, <2>3 DEF TypeOK
<1>3. locked' \in [Tabs -> BOOLEAN]
  <2>1. LocksAfter(t, p) \subseteq BOOLEAN
    BY DEF LocksAfter, TypeOK
  <2> QED
    BY <2>1 DEF Look
<1>4. folder' \in [Tabs -> Folders]
  <2>1. /\ (folder[t].here \/ p = "opened") \in BOOLEAN
        /\ (folder[t].stale /\ ~Asks(t, p)) \in BOOLEAN
    BY <1>1 DEF Folders
  <2> QED
    BY <1>1, <2>1 DEF Look, TypeOK, Folders
<1>5. place' \in [Tabs -> {"away", "hovered", "opened"}] /\ active' \in Tabs /\ looks' \in 0..MaxLooks
  BY BoundsAssumption DEF Look, TypeOK
<1>6. UNCHANGED <<disk, told, reader, events, issued, ticks>>
  BY DEF Look
<1> QED
  BY <1>2, <1>3, <1>4, <1>5, <1>6 DEF TypeOK, reader

(* Every variable keeps its type, for any number of tabs and parts.        *)
THEOREM TypeCorrect == Spec => []TypeOK
<1>1. TypeOK /\ [Next]_vars => TypeOK'
  <2> SUFFICES ASSUME TypeOK, [Next]_vars PROVE TypeOK'
    OBVIOUS
  <2>1. CASE Change
    BY <2>1, BoundsAssumption DEF Change, TypeOK, panes, reader, bounds
  <2>2. CASE Tell
    <3>1. [op |-> "Upsert"] \in Operations
      BY DEF Operations
    <3> QED
      BY <2>2, <3>1 DEF Tell, TypeOK, panes, reader, bounds
  <2>3. CASE Tick
    <3>1. entry \in Entries /\ [entry EXCEPT !.dirty = TRUE] \in Entries
      BY <2>3 DEF Tick, TypeOK, Entries
    <3>2. entry' \in Entries /\ job' \in Jobs \cup {NoJob} /\ issued' \in Nat
      BY <2>3, <3>1, SpawnType DEF Tick
    <3> QED
      BY <2>3, <3>2, BoundsAssumption DEF Tick, TypeOK, panes
  <2>4. CASE Abort
    BY <2>4 DEF Abort, TypeOK, panes, bounds
  <2>5. CASE UNCHANGED vars
    BY <2>5 DEF vars, TypeOK, panes, reader, bounds
  <2> QED
    BY <2>1, <2>2, <2>3, <2>4, <2>5, LookType, HandleType, ReadOnType, DeliverType DEF Next
<1> QED
  BY <1>1, TypeInit, PTL DEF Spec

-----------------------------------------------------------------------------
(* The answers of a reading in a queue; what is owed to a busy entry.      *)
Dones(n)      == {m \in Messages : m.op = "Done" /\ m.prev.ticket = n}
Answering(q, n)  == {i \in 1..Len(q) : q[i] \in Dones(n)}
Unanswered(q, n) == Answering(q, n) = {}
Answered(q, n)   == \E i \in 1..Len(q) : Answering(q, n) = {i}
Alike(q, r, n)   == (Unanswered(q, n) <=> Unanswered(r, n)) /\ (Answered(q, n) <=> Answered(r, n))

(* No ticket is answered before it is issued, a reading that is under way  *)
(* has not answered and is the entry's as long as it lives, and a busy     *)
(* entry has one of them, the reading or its answer.                       *)
Owed(q, busy, j, k) ==
  /\ \A n \in Nat : n > k => Unanswered(q, n)
  /\ j # NoJob => j.ticket <= k /\ Unanswered(q, j.ticket) /\ (j.live <=> busy = j.ticket)
  /\ busy # 0 => busy <= k /\ (IF j.live THEN Unanswered(q, busy) ELSE Answered(q, busy))

AnsweredInv == Owed(inbox, entry.busy, job, issued)

LEMMA JobFacts ==
  ASSUME TypeOK
  PROVE  /\ job = NoJob => job.live = FALSE
         /\ job # NoJob => job \in Jobs /\ job.ticket \in Nat \ {0}
         /\ issued \in Nat /\ entry.busy \in Nat
BY DEF TypeOK, Jobs, NoJob, Entries, NoEntry

LEMMA AnsweringAppend ==
  ASSUME NEW q \in Seq(Messages), NEW m \in Messages, NEW n
  PROVE  /\ Append(q, m) \in Seq(Messages)
         /\ Answering(Append(q, m), n) =
              Answering(q, n) \cup (IF m \in Dones(n) THEN {Len(q) + 1} ELSE {})
BY DEF Answering

(* Only answers matter, and the first one is the only one.                 *)
LEMMA AppendAlike ==
  ASSUME NEW q \in Seq(Messages), NEW m \in Messages, NEW n
  PROVE  /\ m \notin Dones(n) => Alike(q, Append(q, m), n)
         /\ m \in Dones(n) /\ Unanswered(q, n) => Answered(Append(q, m), n)
<1>1. CASE m \in Dones(n)
  <2>1. Len(Append(q, m)) = Len(q) + 1 /\ Len(q) + 1 \in 1..Len(Append(q, m))
    OBVIOUS
  <2> QED
    BY <1>1, <2>1, AnsweringAppend DEF Unanswered, Answered
<1>2. CASE m \notin Dones(n)
  <2>1. Answering(Append(q, m), n) = Answering(q, n)
    BY <1>2, AnsweringAppend
  <2>2. \A i : Answering(q, n) = {i} => i \in 1..Len(q) /\ i \in 1..Len(Append(q, m))
    BY DEF Answering
  <2> QED
    BY <1>2, <2>1, <2>2 DEF Alike, Unanswered, Answered
<1> QED
  BY <1>1, <1>2

(* Requests do not answer. *)
LEMMA RequestAlike ==
  ASSUME NEW q \in Seq(Messages), NEW m \in Messages, m.op # "Done", NEW n
  PROVE  Append(q, m) \in Seq(Messages) /\ Alike(q, Append(q, m), n)
<1>1. m \notin Dones(n)
  BY DEF Dones
<1> QED
  BY <1>1, AppendAlike, AnsweringAppend

LEMMA TailAlike ==
  ASSUME NEW q \in Seq(Messages), q # <<>>, NEW n
  PROVE  /\ Tail(q) \in Seq(Messages)
         /\ Head(q) \notin Dones(n) => Alike(q, Tail(q), n)
         /\ Head(q) \in Dones(n) => ~Unanswered(q, n) /\ (Answered(q, n) => Unanswered(Tail(q), n))
         /\ Unanswered(q, n) => Unanswered(Tail(q), n)
<1>1. /\ Tail(q) \in Seq(Messages) /\ Len(q) \in Nat \ {0} /\ Len(Tail(q)) = Len(q) - 1
      /\ Head(q) = q[1]
      /\ \A i \in 1..Len(Tail(q)) : Tail(q)[i] = q[i + 1]
  OBVIOUS
<1>2. \A i \in 1..Len(Tail(q)) : i \in Answering(Tail(q), n) <=> i + 1 \in Answering(q, n)
  BY <1>1 DEF Answering
<1>3. \A i \in Answering(q, n) : i \in 1..Len(q) /\ (i # 1 => i - 1 \in Answering(Tail(q), n))
  BY <1>1 DEF Answering
<1>4. 1 \in Answering(q, n) <=> Head(q) \in Dones(n)
  BY <1>1 DEF Answering
<1>5. \A i \in Answering(Tail(q), n) : i \in 1..Len(Tail(q)) /\ i + 1 \in Answering(q, n) /\ i + 1 # 1
  BY <1>1, <1>2 DEF Answering
<1>6. Unanswered(q, n) => Unanswered(Tail(q), n)
  BY <1>5 DEF Unanswered
<1>7. CASE Head(q) \in Dones(n)
  <2>1. ASSUME Answered(q, n) PROVE Unanswered(Tail(q), n)
    <3>1. Answering(q, n) = {1}
      BY <1>4, <1>7, <2>1 DEF Answered
    <3> QED
      BY <1>5, <3>1 DEF Unanswered
  <2> QED
    BY <1>1, <1>4, <1>6, <1>7, <2>1 DEF Unanswered
<1>8. CASE Head(q) \notin Dones(n)
  <2>1. 1 \notin Answering(q, n)
    BY <1>4, <1>8
  <2>2. Unanswered(Tail(q), n) => Unanswered(q, n)
    BY <1>3, <2>1 DEF Unanswered
  <2>3. ASSUME Answered(q, n) PROVE Answered(Tail(q), n)
    <3>1. PICK i \in 1..Len(q) : Answering(q, n) = {i}
      BY <2>3 DEF Answered
    <3>2. i - 1 \in Answering(Tail(q), n) /\ i - 1 \in 1..Len(Tail(q))
      BY <1>1, <1>3, <2>1, <3>1
    <3>3. \A k \in Answering(Tail(q), n) : k = i - 1
      BY <1>1, <1>5, <3>1
    <3> QED
      BY <3>2, <3>3 DEF Answered
  <2>4. ASSUME Answered(Tail(q), n) PROVE Answered(q, n)
    <3>1. PICK i \in 1..Len(Tail(q)) : Answering(Tail(q), n) = {i}
      BY <2>4 DEF Answered
    <3>2. i + 1 \in Answering(q, n) /\ i + 1 \in 1..Len(q)
      BY <1>1, <1>2, <3>1
    <3>3. \A k \in Answering(q, n) : k = i + 1
      BY <1>1, <1>3, <2>1, <3>1
    <3> QED
      BY <3>2, <3>3 DEF Answered
  <2> QED
    BY <1>1, <1>6, <1>8, <2>2, <2>3, <2>4 DEF Alike
<1> QED
  BY <1>7, <1>8

(* What is owed depends on the answers alone, and tickets that are issued   *)
(* elsewhere do not matter.                                                *)
LEMMA OwedAlike ==
  ASSUME NEW q, NEW r, NEW busy \in Nat, NEW j \in Jobs \cup {NoJob}, NEW k \in Nat,
         NEW l \in Nat, k <= l,
         \A n \in Nat : Alike(q, r, n),
         Owed(q, busy, j, k)
  PROVE  Owed(r, busy, j, l)
<1>1. j # NoJob => j.ticket \in Nat
  BY DEF Jobs
<1> QED
  BY <1>1 DEF Owed, Alike

LEMMA OwedSpawn ==
  ASSUME TypeOK, NEW q, NEW e \in Entries, Spawn(e), Owed(q, e.busy, job, issued)
  PROVE  Owed(q, entry'.busy, job', issued')
<1>1. CASE e.dirty /\ e.busy = 0
  <2>1. /\ entry'.busy = issued + 1 /\ issued' = issued + 1
        /\ job'.ticket = issued + 1 /\ job'.live = TRUE
    BY <1>1 DEF Spawn, Turn, Fresh
  <2>2. Unanswered(q, issued + 1) /\ issued \in Nat
    BY JobFacts DEF Owed
  <2>3. \A n \in Nat : n > issued + 1 => Unanswered(q, n)
    BY <2>2 DEF Owed
  <2> QED
    BY <2>1, <2>2, <2>3 DEF Owed
<1>2. CASE ~(e.dirty /\ e.busy = 0)
  BY <1>2 DEF Spawn
<1> QED
  BY <1>1, <1>2

LEMMA AnsweredInit == Init => AnsweredInv
<1> SUFFICES ASSUME Init PROVE AnsweredInv
  OBVIOUS
<1>1. inbox \in Seq(Messages) /\ Len(inbox) = 0
  BY DEF Init
<1>2. ASSUME NEW n PROVE Unanswered(inbox, n)
  BY <1>1 DEF Unanswered, Answering
<1>3. job = NoJob /\ entry.busy = 0
  BY DEF Init, NoEntry
<1> QED
  BY <1>2, <1>3 DEF AnsweredInv, Owed

LEMMA AnsweredHandle ==
  ASSUME TypeOK, AnsweredInv, Handle
  PROVE  AnsweredInv'
<1> DEFINE m == Head(inbox)
           q == Tail(inbox)
<1>1. inbox # <<>> /\ inbox' = q
  BY DEF Handle, HandleSync, HandleLoad, HandleRefresh, HandleDone, Receive
<1>2. inbox \in Seq(Messages) /\ m \in Messages /\ q \in Seq(Messages)
  <2>1. inbox \in Seq(Messages)
    BY DEF TypeOK
  <2> QED
    BY <1>1, <2>1
<1>3. ASSUME NEW n
      PROVE  /\ m \notin Dones(n) => Alike(inbox, q, n)
             /\ m \in Dones(n) => ~Unanswered(inbox, n) /\ (Answered(inbox, n) => Unanswered(q, n))
             /\ Unanswered(inbox, n) => Unanswered(q, n)
  BY <1>1, <1>2, TailAlike
<1>4. job \in Jobs \cup {NoJob} /\ entry.busy \in Nat /\ issued \in Nat
  BY JobFacts DEF TypeOK
<1>5. ASSUME m.op # "Done" PROVE Owed(q, entry.busy, job, issued)
  <2>1. \A n \in Nat : Alike(inbox, q, n)
    BY <1>3, <1>5 DEF Dones
  <2> QED
    BY <1>4, <2>1, OwedAlike DEF AnsweredInv
<1>6. CASE HandleSync
  <2>1. m.op # "Done"
    BY <1>6 DEF HandleSync, Receive
  <2>2. CASE m.shown
    <3>1. entry'.busy = entry.busy /\ UNCHANGED <<job, issued>>
      BY <1>6, <2>2 DEF HandleSync, Fresh, NoEntry
    <3> QED
      BY <1>1, <1>5, <2>1, <3>1 DEF AnsweredInv
  <2>3. CASE ~m.shown
    <3>1. entry'.busy = 0 /\ issued' = issued /\ job' = IF job.live THEN [job EXCEPT !.live = FALSE] ELSE job
      BY <1>6, <2>3 DEF HandleSync, NoEntry
    <3>2. job' # NoJob => /\ job # NoJob /\ job'.ticket = job.ticket /\ job'.ticket # 0
                          /\ job'.live = FALSE
      BY <3>1, JobFacts DEF Jobs
    <3> QED
      BY <1>1, <1>5, <2>1, <3>1, <3>2 DEF AnsweredInv, Owed
  <2> QED
    BY <2>2, <2>3
<1>7. CASE HandleLoad
  <2> DEFINE e == EntryFor(m.file)
             f == [e EXCEPT !.dirty = TRUE, !.report = TRUE, !.force = TRUE, !.stream = TRUE]
  <2>1. m \in [op: {"Load"}, file: Stats]
    BY <1>2, <1>7 DEF HandleLoad, Receive, Messages
  <2>2. e \in Entries /\ e.busy = entry.busy
    <3>1. e \in Entries
      BY <2>1, EntryForType
    <3>2. e.busy = entry.busy
      BY DEF EntryFor, Fresh, NoEntry, TypeOK, Entries
    <3> QED
      BY <3>1, <3>2
  <2>3. f \in Entries /\ f.busy = entry.busy
    BY <2>2 DEF Entries
  <2>4. CASE e.busy # 0
    BY <1>1, <1>5, <1>7, <2>1, <2>2, <2>4 DEF HandleLoad, AnsweredInv
  <2>5. CASE e.busy = 0
    <3>1. Spawn(f)
      BY <1>7, <2>5 DEF HandleLoad
    <3>2. Owed(q, f.busy, job, issued)
      BY <1>5, <2>1, <2>3
    <3> HIDE DEF f
    <3> QED
      BY <1>1, <2>3, <3>1, <3>2, OwedSpawn DEF AnsweredInv
  <2> QED
    BY <2>4, <2>5
<1>8. CASE HandleRefresh
  <2> DEFINE e == EntryFor(m.file)
             f == [e EXCEPT !.dirty = TRUE, !.report = TRUE, !.force = @ \/ m.force, !.stream = FALSE]
  <2>1. m \in [op: {"Refresh"}, file: Stats, force: BOOLEAN]
    BY <1>2, <1>8 DEF HandleRefresh, Receive, Messages
  <2>2. e \in Entries /\ e.busy = entry.busy
    <3>1. e \in Entries
      BY <2>1, EntryForType
    <3>2. e.busy = entry.busy
      BY DEF EntryFor, Fresh, NoEntry, TypeOK, Entries
    <3> QED
      BY <3>1, <3>2
  <2>3. f \in Entries /\ f.busy = entry.busy
    BY <2>1, <2>2 DEF Entries
  <2>4. CASE e.busy # 0 /\ ~m.force
    BY <1>1, <1>5, <1>8, <2>1, <2>2, <2>4 DEF HandleRefresh, AnsweredInv
  <2>5. CASE ~(e.busy # 0 /\ ~m.force)
    <3>1. Spawn(f)
      BY <1>8, <2>5 DEF HandleRefresh
    <3>2. Owed(q, f.busy, job, issued)
      BY <1>5, <2>1, <2>3
    <3> HIDE DEF f
    <3> QED
      BY <1>1, <2>3, <3>1, <3>2, OwedSpawn DEF AnsweredInv
  <2> QED
    BY <2>4, <2>5
<1>9. CASE HandleDone
  <2> DEFINE n == m.prev.ticket
             e == [entry EXCEPT !.busy = 0, !.force = @ \/ m.result = "Err",
                     !.file = IF m.result \in {"Full", "Part"} THEN m.prev.file ELSE @]
  <2>1. m \in [op: {"Done"}, prev: Jobs, result: {"Full", "Part", "Skip", "Err"}]
    BY <1>2, <1>9 DEF HandleDone, Receive, Messages
  <2>2. n \in Nat \ {0} /\ m.prev.file \in Stats
    BY <2>1 DEF Jobs
  <2>3. m \in Dones(n) /\ \A k : m \in Dones(k) <=> k = n
    BY <1>2, <2>1 DEF Dones
  <2>4. /\ ~Unanswered(inbox, n) /\ (Answered(inbox, n) => Unanswered(q, n))
        /\ \A k : k # n => Alike(inbox, q, k)
    BY <1>3, <2>3
  <2>5. job # NoJob => job.ticket # n /\ job.ticket \in Nat
    BY <1>3, <2>4, JobFacts DEF AnsweredInv, Owed
  <2>6. \A k \in Nat : k > issued => Unanswered(q, k)
    BY <1>3 DEF AnsweredInv, Owed
  <2>7. CASE entry.busy # n
    BY <1>1, <1>9, <2>4, <2>5, <2>6, <2>7 DEF HandleDone, AnsweredInv, Owed, Alike, reader
  <2>8. CASE entry.busy = n
    <3>1. entry \in Entries
      BY <2>2, <2>8 DEF TypeOK, NoEntry
    <3>2. e \in Entries /\ e.busy = 0
      BY <2>1, <2>2, <3>1 DEF Entries
    <3>3. job.live = FALSE
      BY <1>3, <2>2, <2>4, <2>8, JobFacts DEF AnsweredInv, Owed, Jobs
    <3>4. job # NoJob => job.ticket # 0
      BY JobFacts
    <3>5. Owed(q, 0, job, issued)
      BY <2>4, <2>5, <2>6, <3>3, <3>4 DEF AnsweredInv, Owed, Alike
    <3>6. Spawn(e)
      BY <1>9, <2>8 DEF HandleDone
    <3> HIDE DEF e
    <3> QED
      BY <1>1, <3>2, <3>5, <3>6, OwedSpawn DEF AnsweredInv
  <2> QED
    BY <2>7, <2>8
<1> QED
  BY <1>6, <1>7, <1>8, <1>9 DEF Handle

LEMMA AnsweredReadOn ==
  ASSUME TypeOK, AnsweredInv, ReadOn
  PROVE  AnsweredInv'
<1>1. job \in Jobs /\ job # NoJob /\ job.ticket \in Nat \ {0}
  BY JobFacts DEF ReadOn, Revalidate, Unreadable, ReadPart, ReadEnd, Reading
<1>2. UNCHANGED <<entry, issued>> /\ entry.busy \in Nat /\ issued \in Nat /\ inbox \in Seq(Messages)
  BY JobFacts DEF ReadOn, Revalidate, Unreadable, ReadPart, ReadEnd, TypeOK
<1>3. ASSUME NEW result \in {"Full", "Part", "Skip", "Err"}, Finish(job, result)
      PROVE  AnsweredInv'
  <2> DEFINE m == [op |-> "Done", prev |-> job, result |-> result]
  <2>1. m \in Messages
    BY <1>1 DEF Messages
  <2>2. ASSUME NEW n
        PROVE  IF n = job.ticket THEN Unanswered(inbox, n) => Answered(inbox', n)
                                 ELSE Alike(inbox, inbox', n)
    <3>1. m \in Dones(n) <=> n = job.ticket
      BY <2>1 DEF Dones
    <3>2. inbox' = Append(inbox, m)
      BY <1>3 DEF Finish
    <3> HIDE DEF m
    <3> QED
      BY <1>2, <2>1, <3>1, <3>2, AppendAlike
  <2>3. \A n \in Nat : n > issued => Unanswered(inbox', n)
    BY <1>1, <1>2, <2>2 DEF AnsweredInv, Owed, Alike
  <2>4. entry.busy # 0 => entry.busy <= issued /\ Answered(inbox', entry.busy)
    <3>1. CASE job.live
      BY <1>1, <1>2, <2>2, <3>1 DEF AnsweredInv, Owed, Alike
    <3>2. CASE ~job.live
      BY <1>1, <1>2, <2>2, <3>2 DEF AnsweredInv, Owed, Alike
    <3> QED
      BY <3>1, <3>2
  <2>5. job' = NoJob /\ NoJob.live = FALSE
    BY <1>3 DEF Finish, NoJob
  <2> QED
    BY <1>2, <2>3, <2>4, <2>5 DEF AnsweredInv, Owed
<1>4. ASSUME NEW j \in Jobs, j.ticket = job.ticket, j.live = job.live, job' = j, UNCHANGED inbox
      PROVE  AnsweredInv'
  BY <1>1, <1>2, <1>4 DEF AnsweredInv, Owed
<1>5. CASE Revalidate
  <2> DEFINE j == [job EXCEPT !.file = disk, !.at = 1]
  <2>1. j \in Jobs /\ j.ticket = job.ticket /\ j.live = job.live
    <3>1. 1 \in 0..(Parts + 1) /\ disk \in Stats
      BY PartsAssumption DEF TypeOK, Stats, Unknown
    <3> QED
      BY <1>1, <3>1 DEF Jobs
  <2>2. CASE job.file = disk /\ ~job.force
    BY <1>3, <1>5, <2>2 DEF Revalidate
  <2>3. CASE ~(job.file = disk /\ ~job.force)
    <3>1. job' = j /\ UNCHANGED inbox
      BY <1>5, <2>3 DEF Revalidate
    <3> HIDE DEF j
    <3> QED
      BY <1>4, <2>1, <3>1
  <2> QED
    BY <2>2, <2>3
<1>6. CASE Unreadable
  BY <1>3, <1>6 DEF Unreadable
<1>7. CASE ReadPart
  <2> DEFINE item == [by |-> job.ticket, part |-> job.at, version |-> disk]
             j == [job EXCEPT !.at = @ + 1]
             i == [job EXCEPT !.at = @ + 1, !.items = Append(@, item)]
  <2>1. /\ job.at + 1 \in 0..(Parts + 1) /\ job.items \in Items
        /\ item \in [by: Nat, part: 1..Parts, version: 0..MaxVersion]
    BY <1>1, <1>7, PartsAssumption DEF ReadPart, TypeOK, Jobs
  <2>2. Append(job.items, item) \in Items
    BY <2>1 DEF Items
  <2>3. j \in Jobs /\ j.ticket = job.ticket /\ j.live = job.live
    BY <1>1, <2>1 DEF Jobs
  <2>4. i \in Jobs /\ i.ticket = job.ticket /\ i.live = job.live
    BY <1>1, <2>1, <2>2 DEF Jobs
  <2>5. job' \in {j, i} /\ UNCHANGED inbox
    BY <1>7 DEF ReadPart
  <2> HIDE DEF i, j
  <2> QED
    BY <1>4, <2>3, <2>4, <2>5
<1>8. CASE ReadEnd
  BY <1>3, <1>8 DEF ReadEnd
<1> QED
  BY <1>5, <1>6, <1>7, <1>8 DEF ReadOn

(* The application only adds requests, and its tickets are new ones.       *)
LEMMA AnsweredApplication ==
  ASSUME TypeOK, AnsweredInv, UNCHANGED reader, issued' \in Nat, issued <= issued',
         inbox' \in Seq(Messages), \A n \in Nat : Alike(inbox, inbox', n)
  PROVE  AnsweredInv'
<1>1. job \in Jobs \cup {NoJob} /\ entry.busy \in Nat /\ issued \in Nat
  BY JobFacts DEF TypeOK
<1>2. Owed(inbox', entry.busy, job, issued')
  BY <1>1, OwedAlike DEF AnsweredInv
<1> QED
  BY <1>2 DEF AnsweredInv, reader

LEMMA AnsweredLook ==
  ASSUME TypeOK, AnsweredInv, NEW t \in Tabs, NEW p \in {"away", "hovered", "opened"}, Look(t, p)
  PROVE  AnsweredInv'
<1>1. folder[t] \in Folders /\ inbox \in Seq(Messages) /\ issued \in Nat
  BY DEF TypeOK
<1>2. PICK file \in KnownStats(t, p) :
        LET asked == IF Asks(t, p)
                     THEN Append(inbox, TakeRefresh([folder[t] EXCEPT !.file = file])) ELSE inbox
        IN  inbox' = Append(asked, Sync(p # "away", file))
  BY DEF Look
<1> DEFINE a == TakeRefresh([folder[t] EXCEPT !.file = file])
           b == Sync(p # "away", file)
           asked == IF Asks(t, p) THEN Append(inbox, a) ELSE inbox
<1>3. file \in Stats
  BY <1>1, <1>2, BoundsAssumption DEF KnownStats, Folders, TypeOK, Stats, Unknown
<1>4. a \in Messages /\ a.op # "Done"
  <2>1. [folder[t] EXCEPT !.file = file] \in Folders
    BY <1>1, <1>3 DEF Folders
  <2>2. a.op # "Done"
    BY DEF TakeRefresh, Refresh, Load
  <2> QED
    BY <2>1, <2>2, TakeRefreshType
<1>5. b \in Messages /\ b.op # "Done"
  BY <1>3 DEF Sync, Messages
<1>6. inbox' = Append(asked, b)
  BY <1>2
<1> HIDE DEF a, b
<1>7. asked \in Seq(Messages) /\ \A n \in Nat : Alike(inbox, asked, n)
  BY <1>1, <1>4, RequestAlike DEF Alike
<1>8. inbox' \in Seq(Messages) /\ \A n \in Nat : Alike(inbox, inbox', n)
  BY <1>5, <1>6, <1>7, RequestAlike DEF Alike
<1>9. UNCHANGED reader /\ issued' = issued
  BY DEF Look
<1> QED
  BY <1>1, <1>8, <1>9, AnsweredApplication

LEMMA AnsweredDeliver ==
  ASSUME TypeOK, TypeOK', AnsweredInv, Deliver
  PROVE  AnsweredInv'
<1>1. UNCHANGED reader /\ issued' \in Nat /\ issued \in Nat /\ issued <= issued'
  <2>1. issued \in Nat
    BY DEF TypeOK
  <2>2. UNCHANGED reader /\ (issued' = issued \/ issued' = issued + 1)
    BY DEF Deliver, DeliverLoad, DeliverUpsert
  <2> QED
    BY <2>1, <2>2
<1>2. inbox \in Seq(Messages) /\ inbox' \in Seq(Messages)
  BY DEF TypeOK
<1>3. \/ inbox' = inbox
      \/ \E m \in Messages : m.op # "Done" /\ inbox' = Append(inbox, m)
  <2>1. events # <<>> /\ Head(events) \in Operations /\ folder[active] \in Folders
    <3>1. events # <<>> /\ events \in Seq(Operations)
      BY DEF Deliver, DeliverLoad, DeliverUpsert, TypeOK
    <3> QED
      BY <3>1 DEF TypeOK
  <2>2. CASE DeliverLoad
    <3> DEFINE new == [Update(folder[active], Head(events)) EXCEPT !.here = TRUE]
    <3>1. new \in Folders
      BY <2>1, UpdateType DEF Folders
    <3>2. TakeRefresh(new) \in Messages
      BY <3>1, TakeRefreshType
    <3>3. TakeRefresh(new).op # "Done"
      BY DEF TakeRefresh, Refresh, Load
    <3>4. inbox' = inbox \/ inbox' = Append(inbox, TakeRefresh(new))
      BY <2>2 DEF DeliverLoad, Repeek
    <3> HIDE DEF new
    <3> QED
      BY <3>2, <3>3, <3>4
  <2>3. CASE DeliverUpsert
    <3> DEFINE m == Refresh(folder[active].file, TRUE)
    <3>1. m \in Messages /\ m.op # "Done"
      BY <2>1 DEF Refresh, Folders, Messages
    <3>2. inbox' = inbox \/ inbox' = Append(inbox, m)
      BY <2>3 DEF DeliverUpsert
    <3> HIDE DEF m
    <3> QED
      BY <3>1, <3>2
  <2> QED
    BY <2>2, <2>3 DEF Deliver
<1>4. \A n \in Nat : Alike(inbox, inbox', n)
  <2>1. ASSUME NEW m \in Messages, m.op # "Done", inbox' = Append(inbox, m), NEW n \in Nat
        PROVE  Alike(inbox, inbox', n)
    BY <1>2, <2>1, RequestAlike
  <2> QED
    BY <1>3, <2>1 DEF Alike
<1> QED
  BY <1>1, <1>2, <1>4, AnsweredApplication

LEMMA AnsweredImplied == TypeOK /\ AnsweredInv => BusyIsAnswered
<1> SUFFICES ASSUME TypeOK, AnsweredInv, entry.busy # 0
             PROVE  \/ job.live /\ job.ticket = entry.busy /\ Answers(entry.busy) = {}
                    \/ ~job.live /\ \E i \in Answers(entry.busy) : Answers(entry.busy) = {i}
  BY DEF BusyIsAnswered
<1> DEFINE n == entry.busy
<1>1. inbox \in Seq(Messages)
  BY DEF TypeOK
<1>2. Answers(n) = Answering(inbox, n)
  <2>1. DOMAIN inbox = 1..Len(inbox) /\ \A i \in DOMAIN inbox : inbox[i] \in Messages
    BY <1>1
  <2> QED
    BY <2>1 DEF Answers, Answering, Dones
<1>3. CASE job.live
  <2>1. job # NoJob /\ job.ticket = n /\ Unanswered(inbox, n)
    BY <1>3, JobFacts DEF AnsweredInv, Owed
  <2> QED
    BY <1>2, <1>3, <2>1 DEF Unanswered
<1>4. CASE ~job.live
  <2>1. Answered(inbox, n)
    BY <1>4 DEF AnsweredInv, Owed
  <2> QED
    BY <1>2, <1>4, <2>1 DEF Answered
<1> QED
  BY <1>3, <1>4

(* A busy entry is always answered, for any number of tabs and parts: no   *)
(* directory is turned away for ever by an entry that nobody works for.    *)
THEOREM BusyAnswered == Spec => []BusyIsAnswered
<1>1. TypeOK /\ TypeOK' /\ AnsweredInv /\ [Next]_vars => AnsweredInv'
  <2> SUFFICES ASSUME TypeOK, TypeOK', AnsweredInv, [Next]_vars PROVE AnsweredInv'
    OBVIOUS
  <2>1. CASE Change \/ Tell \/ UNCHANGED vars
    BY <2>1 DEF Change, Tell, vars, reader, AnsweredInv
  <2>2. CASE Tick
    <3>1. entry \in Entries /\ [entry EXCEPT !.dirty = TRUE] \in Entries
          /\ [entry EXCEPT !.dirty = TRUE].busy = entry.busy
      BY <2>2 DEF Tick, TypeOK, Entries
    <3>2. Spawn([entry EXCEPT !.dirty = TRUE]) /\ inbox' = inbox
      BY <2>2 DEF Tick
    <3> DEFINE e == [entry EXCEPT !.dirty = TRUE]
    <3>3. e \in Entries /\ Spawn(e) /\ e.busy = entry.busy
      BY <3>1, <3>2
    <3> HIDE DEF e
    <3> QED
      BY <3>2, <3>3, OwedSpawn DEF AnsweredInv
  <2>3. CASE Abort
    <3>1. job.live = FALSE /\ job' = NoJob /\ UNCHANGED <<inbox, entry, issued>> /\ NoJob.live = FALSE
      BY <2>3, JobFacts DEF Abort, NoJob, Jobs
    <3> QED
      BY <3>1 DEF AnsweredInv, Owed
  <2> QED
    BY <2>1, <2>2, <2>3, AnsweredLook, AnsweredHandle, AnsweredReadOn, AnsweredDeliver DEF Next
<1> QED
  BY <1>1, AnsweredInit, AnsweredImplied, TypeCorrect, PTL DEF Spec

-----------------------------------------------------------------------------
(* What the folders list. *)

Since(items, v) == \A i \in 1..Len(items) : items[i].version >= v

Sorted(items) ==
  \A i, k \in 1..Len(items) :
    items[i].by = items[k].by /\ (i < k => items[i].part < items[k].part)

Entire(items) ==
  /\ Len(items) = Parts
  /\ \A i, k \in 1..Len(items) : items[i].part = i /\ items[i].by = items[k].by

(* A reading in one go has listed the parts before the next one; no part   *)
(* is older than its stat.                                                 *)
JobOK(j) ==
  /\ j.ticket <= issued
  /\ Len(j.items) = IF j.stream \/ j.at = 0 THEN 0 ELSE j.at - 1
  /\ Since(j.items, j.file)
  /\ \A i \in 1..Len(j.items) : j.items[i].by = j.ticket /\ j.items[i].part = i

MessageOK(m) ==
  m.op = "Done" =>
    /\ m.prev.ticket <= issued
    /\ m.result = "Full" => Entire(m.prev.items) /\ Since(m.prev.items, m.prev.file)

EventOK(e) ==
  /\ e.op = "Full" => Entire(e.items) /\ Since(e.items, e.file)
  /\ e.op = "Part" => /\ e.ticket <= issued
                      /\ Len(e.items) <= 1
                      /\ \A i \in 1..Len(e.items) : e.items[i].by = e.ticket
  /\ e.op = "Done" => e.ticket <= issued

(* The parts of a reading are handed on in order, after the event that     *)
(* empties the folder.                                                     *)
Rank(e)       == IF e.items = <<>> THEN 0 ELSE e.items[1].part
Carries(e, k) == e.op = "Part" /\ e.ticket = k

OrderInv ==
  \A i, k \in 1..Len(events) :
    i < k /\ events[i].op = "Part" /\ Carries(events[k], events[i].ticket)
      => Rank(events[i]) < Rank(events[k])

AheadInv ==
  job # NoJob => \A i \in 1..Len(events) : Carries(events[i], job.ticket) => Rank(events[i]) < job.at

(* What a folder lists comes before what it may still get.                 *)
FolderOK(f) ==
  /\ f.ticket <= issued
  /\ Sorted(f.items)
  /\ f.stage = "Loaded" => Since(f.items, f.file)
  /\ \A n \in 1..Len(f.items) :
       /\ \A i \in 1..Len(events) :
            Carries(events[i], f.ticket) => f.items[n].by = f.ticket /\ f.items[n].part < Rank(events[i])
       /\ job # NoJob /\ job.ticket = f.ticket =>
            f.items[n].by = f.ticket /\ f.items[n].part < job.at

(* The stat v of a streamed reading with ticket k is on its way to the     *)
(* folder, and no part of that reading is older.                           *)
Source(k, v) ==
  \/ job # NoJob /\ job.at > 0 /\ k = job.ticket /\ v = job.file
  \/ \E i \in 1..Len(inbox) :
       inbox[i].op = "Done" /\ inbox[i].result = "Part" /\ k = inbox[i].prev.ticket /\ v = inbox[i].prev.file
  \/ \E i \in 1..Len(events) : events[i].op = "Done" /\ k = events[i].ticket /\ v = events[i].file

SourceOK(k, v) ==
  /\ v <= disk
  /\ \A i \in 1..Len(events) : Carries(events[i], k) => Since(events[i].items, v)
  /\ \A t \in Tabs : folder[t].ticket = k => Since(folder[t].items, v)

ListInv ==
  /\ job # NoJob => JobOK(job)
  /\ \A i \in 1..Len(inbox) : MessageOK(inbox[i])
  /\ \A i \in 1..Len(events) : EventOK(events[i])
  /\ OrderInv
  /\ AheadInv
  /\ \A t \in Tabs : FolderOK(folder[t])
  /\ \A k \in Nat, v \in Stats : Source(k, v) => SourceOK(k, v)

(* There are three kinds of steps.  In the first the folders stay as they  *)
(* are, and answers and events come from the reading and its answers.      *)
Lists(f) == <<f.ticket, f.stage, f.file, f.items>>
SameLists == \A t \in Tabs : Lists(folder'[t]) = Lists(folder[t])

JobSame ==
  /\ job # NoJob /\ job' # NoJob
  /\ job'.ticket = job.ticket /\ job'.stream = job.stream /\ job'.at = job.at
  /\ job'.file = job.file /\ job'.items = job.items

JobNew ==
  /\ job' # NoJob /\ issued' = issued + 1
  /\ job'.ticket = issued + 1 /\ job'.at = 0 /\ job'.items = <<>>

Given(m) == \E i \in 1..Len(inbox) : m = inbox[i]

AnswerOfJob(m) ==
  /\ job # NoJob /\ m.prev = job /\ job' = NoJob
  /\ m.result \in {"Full", "Part"} => job.at = Parts + 1 /\ (job.stream <=> m.result = "Part")

OutcomeOf(m, e) ==
  \/ m.result = "Full" /\ e = [op |-> "Full", file |-> m.prev.file, items |-> m.prev.items]
  \/ m.result = "Part" /\ e = [op |-> "Done", file |-> m.prev.file, ticket |-> m.prev.ticket]

Handed(e) ==
  \/ e.op \in {"Upsert", "Fail"}
  \/ \E i \in 1..Len(inbox) : inbox[i].op = "Done" /\ OutcomeOf(inbox[i], e)

AnswersKnown == \A i \in 1..Len(inbox') :
  inbox'[i].op = "Done" => Given(inbox'[i]) \/ AnswerOfJob(inbox'[i])

Reads ==
  /\ SameLists
  /\ issued <= issued' /\ disk <= disk'
  /\ job' = NoJob \/ JobSame \/ JobNew
  /\ AnswersKnown
  /\ events' = events \/ \E e \in Operations : Handed(e) /\ events' = Append(events, e)

(* In the second the reading comes to its next part. *)
PartRead == [by |-> job.ticket, part |-> job.at, version |-> disk]
NextPart ==
  [op |-> "Part", ticket |-> job.ticket, items |-> IF job.at = 0 THEN <<>> ELSE <<PartRead>>]

Proceeds ==
  /\ SameLists
  /\ UNCHANGED <<disk, issued, inbox>>
  /\ job # NoJob /\ job' # NoJob /\ job.at <= Parts
  /\ job'.ticket = job.ticket /\ job'.stream = job.stream /\ job'.at = job.at + 1
  /\ job'.file = IF job.at = 0 THEN disk ELSE job.file
  /\ job'.items = IF job.stream \/ job.at = 0 THEN job.items ELSE Append(job.items, PartRead)
  /\ events' = IF job.stream THEN Append(events, NextPart) ELSE events

(* In the third a folder is told. *)
Delivers ==
  /\ UNCHANGED <<disk, job>>
  /\ events # <<>> /\ events' = Tail(events)
  /\ issued' = IF Head(events).op \in {"Full", "Fail"} THEN issued + 1 ELSE issued
  /\ \A t \in Tabs :
       Lists(folder'[t]) = Lists(IF t = active THEN Update(folder[t], Head(events)) ELSE folder[t])
  /\ \A i \in 1..Len(inbox') : inbox'[i].op = "Done" => Given(inbox'[i])

(* The elements of a queue after a change at one of its ends. *)
LEMMA AppendElements ==
  ASSUME NEW S, NEW q \in Seq(S), NEW m \in S
  PROVE  /\ Append(q, m) \in Seq(S) /\ Len(Append(q, m)) = Len(q) + 1
         /\ \A i \in 1..Len(Append(q, m)) :
              (i \in 1..Len(q) /\ Append(q, m)[i] = q[i]) \/ (i = Len(q) + 1 /\ Append(q, m)[i] = m)
         /\ \A i \in 1..Len(q) : i \in 1..Len(Append(q, m)) /\ Append(q, m)[i] = q[i]
OBVIOUS

LEMMA TailElements ==
  ASSUME NEW S, NEW q \in Seq(S), q # <<>>
  PROVE  /\ Tail(q) \in Seq(S) /\ Head(q) \in S /\ Len(q) \in Nat \ {0} /\ Head(q) = q[1]
         /\ Len(Tail(q)) = Len(q) - 1
         /\ \A i \in 1..Len(Tail(q)) : i + 1 \in 2..Len(q) /\ Tail(q)[i] = q[i + 1]
         /\ \A i \in 2..Len(q) : i - 1 \in 1..Len(Tail(q)) /\ Tail(q)[i - 1] = q[i]
OBVIOUS

LEMMA ElementOf ==
  ASSUME NEW S, NEW q \in Seq(S), NEW i \in 1..Len(q)
  PROVE  q[i] \in S
OBVIOUS

LEMMA EventFacts ==
  ASSUME NEW e \in Operations
  PROVE  /\ e.op = "Full" => e.file \in Stats /\ e.items \in Items
         /\ e.op = "Part" => e.ticket \in Nat /\ e.items \in Items /\ Rank(e) \in 0..Parts
                             /\ (e.items # <<>> => Rank(e) \in 1..Parts /\ Rank(e) = e.items[1].part)
         /\ e.op = "Done" => e.ticket \in Nat /\ e.file \in Stats
<1>1. /\ e.op = "Full" => e.file \in Stats /\ e.items \in Items
      /\ e.op = "Part" => e.ticket \in Nat /\ e.items \in Items
      /\ e.op = "Done" => e.ticket \in Nat /\ e.file \in Stats
  BY DEF Operations
<1>2. ASSUME NEW items \in Items, items # <<>>
      PROVE  items[1].part \in 1..Parts
  <2>1. 1 \in 1..Len(items)
    BY <1>2 DEF Items
  <2>2. items[1] \in [by: Nat, part: 1..Parts, version: 0..MaxVersion]
    BY <2>1, ElementOf DEF Items
  <2> QED
    BY <2>2
<1> QED
  BY <1>1, <1>2, PartsAssumption DEF Rank

LEMMA MessageFacts ==
  ASSUME NEW m \in Messages, m.op = "Done"
  PROVE  m.prev \in Jobs /\ m.result \in {"Full", "Part", "Skip", "Err"}
BY DEF Messages

(* Handing on an operation to the refresher adds a request at most. *)
LEMMA GivenRequests ==
  ASSUME TypeOK, NEW m \in Messages, m.op # "Done",
         inbox' = inbox \/ inbox' = Append(inbox, m), NEW i \in 1..Len(inbox'), inbox'[i].op = "Done"
  PROVE  Given(inbox'[i])
<1>1. inbox \in Seq(Messages)
  BY DEF TypeOK
<1> QED
  BY <1>1, AppendElements DEF Given

LEMMA GivenTail ==
  ASSUME TypeOK, inbox # <<>>, inbox' = Tail(inbox), NEW i \in 1..Len(inbox')
  PROVE  Given(inbox'[i])
<1>1. inbox \in Seq(Messages)
  BY DEF TypeOK
<1>2. i + 1 \in 1..Len(inbox) /\ inbox'[i] = inbox[i + 1]
  BY <1>1, TailElements
<1> QED
  BY <1>2 DEF Given

(* A reading that starts is a new one. *)
LEMMA SpawnJob ==
  ASSUME TypeOK, NEW e \in Entries, Spawn(e)
  PROVE  /\ issued <= issued'
         /\ job' = NoJob \/ JobSame \/ JobNew
<1>1. issued \in Nat
  BY DEF TypeOK
<1>2. CASE e.dirty /\ e.busy = 0
  <2>1. job' = Turn(e) /\ issued' = issued + 1
    BY <1>2 DEF Spawn
  <2>2. Turn(e).live = TRUE /\ NoJob.live = FALSE
    BY DEF Turn, NoJob
  <2>3. job' # NoJob
    BY <2>1, <2>2
  <2> QED
    BY <1>1, <2>1, <2>3 DEF Turn, JobNew
<1>3. CASE ~(e.dirty /\ e.busy = 0)
  BY <1>1, <1>3 DEF Spawn, JobSame
<1> QED
  BY <1>2, <1>3

LEMMA HandleReads ==
  ASSUME TypeOK, Handle
  PROVE  Reads
<1> DEFINE m == Head(inbox)
<1>1. /\ inbox # <<>> /\ inbox' = Tail(inbox)
      /\ UNCHANGED <<disk, folder>>
  BY DEF Handle, HandleSync, HandleLoad, HandleRefresh, HandleDone, Receive, panes
<1>2. inbox \in Seq(Messages) /\ m \in Messages /\ disk \in 0..MaxVersion /\ issued \in Nat
  BY <1>1, TailElements DEF TypeOK
<1>3. SameLists /\ disk <= disk' /\ AnswersKnown
  BY <1>1, <1>2, GivenTail, BoundsAssumption DEF SameLists, AnswersKnown
<1>4. job = NoJob \/ (job # NoJob /\ job \in Jobs)
  BY DEF TypeOK
<1>5. CASE HandleSync
  <2>1. job' = NoJob \/ JobSame
    <3>1. CASE job' = job
      BY <3>1 DEF JobSame
    <3>2. CASE job.live /\ job' = [job EXCEPT !.live = FALSE]
      <4>1. job # NoJob /\ job \in Jobs
        BY <1>4, <3>2 DEF NoJob
      <4>2. job' # NoJob
        <5>1. job' \in Jobs /\ job'.ticket \in Nat \ {0}
          BY <3>2, <4>1 DEF Jobs
        <5> QED
          BY <3>2, <4>1 DEF NoJob, Jobs
      <4> QED
        BY <3>2, <4>1, <4>2 DEF JobSame, Jobs
    <3> QED
      BY <1>5, <3>1, <3>2 DEF HandleSync
  <2> QED
    BY <1>2, <1>3, <1>5, <2>1 DEF HandleSync, Reads
<1>6. CASE HandleLoad
  <2>1. m \in [op: {"Load"}, file: Stats]
    BY <1>2, <1>6 DEF HandleLoad, Receive, Messages
  <2>2. EntryFor(m.file) \in Entries
    BY <2>1, EntryForType
  <2> DEFINE f == [EntryFor(m.file) EXCEPT !.dirty = TRUE, !.report = TRUE, !.force = TRUE, !.stream = TRUE]
  <2>3. f \in Entries
    BY <2>2 DEF Entries
  <2>4. (Spawn(f) \/ UNCHANGED <<job, issued>>) /\ events' = events
    BY <1>6 DEF HandleLoad
  <2> HIDE DEF f
  <2>5. issued <= issued' /\ (job' = NoJob \/ JobSame \/ JobNew)
    BY <1>2, <2>3, <2>4, SpawnJob DEF JobSame
  <2> QED
    BY <1>3, <2>4, <2>5 DEF Reads
<1>7. CASE HandleRefresh
  <2>1. m \in [op: {"Refresh"}, file: Stats, force: BOOLEAN]
    BY <1>2, <1>7 DEF HandleRefresh, Receive, Messages
  <2>2. EntryFor(m.file) \in Entries
    BY <2>1, EntryForType
  <2> DEFINE f == [EntryFor(m.file) EXCEPT !.dirty = TRUE, !.report = TRUE, !.force = @ \/ m.force,
                                           !.stream = FALSE]
  <2>3. f \in Entries
    BY <2>1, <2>2 DEF Entries
  <2>4. (Spawn(f) \/ UNCHANGED <<job, issued>>) /\ events' = events
    BY <1>7 DEF HandleRefresh
  <2> HIDE DEF f
  <2>5. issued <= issued' /\ (job' = NoJob \/ JobSame \/ JobNew)
    BY <1>2, <2>3, <2>4, SpawnJob DEF JobSame
  <2> QED
    BY <1>3, <2>4, <2>5 DEF Reads
<1>8. CASE HandleDone
  <2> DEFINE e == [entry EXCEPT !.busy = 0, !.force = @ \/ m.result = "Err",
                     !.file = IF m.result \in {"Full", "Part"} THEN m.prev.file ELSE @]
  <2>1. m \in [op: {"Done"}, prev: Jobs, result: {"Full", "Part", "Skip", "Err"}]
    BY <1>2, <1>8 DEF HandleDone, Receive, Messages
  <2>2. m.prev.ticket # 0 /\ m.prev.file \in Stats
    BY <2>1 DEF Jobs
  <2>3. CASE entry.busy # m.prev.ticket
    <3>1. UNCHANGED <<job, events, issued>>
      BY <1>8, <2>3 DEF HandleDone, reader
    <3> QED
      BY <1>2, <1>3, <3>1 DEF Reads, JobSame
  <2>4. CASE entry.busy = m.prev.ticket
    <3>1. entry \in Entries
      BY <2>2, <2>4 DEF TypeOK, NoEntry
    <3>2. e \in Entries
      BY <2>1, <2>2, <3>1 DEF Entries
    <3>3. Spawn(e) /\ events' = events \o Outcome(m.prev, m.result)
      BY <1>8, <2>4 DEF HandleDone
    <3> HIDE DEF e
    <3>4. issued <= issued' /\ (job' = NoJob \/ JobSame \/ JobNew)
      BY <3>2, <3>3, SpawnJob
    <3>5. events' = events \/ \E x \in Operations : Handed(x) /\ events' = Append(events, x)
      <4>1. events \in Seq(Operations)
        BY DEF TypeOK
      <4>2. ASSUME NEW x, Outcome(m.prev, m.result) = <<x>>, x \in Operations
            PROVE  events' = Append(events, x)
        <5>1. events' = events \o <<x>>
          BY <3>3, <4>2
        <5> QED
          BY <4>1, <4>2, <5>1
      <4>3. m.op = "Done" /\ \E i \in 1..Len(inbox) : m = inbox[i]
        BY <1>1, <1>2, <2>1, TailElements
      <4>4. CASE m.result = "Full"
        <5> DEFINE x == [op |-> "Full", file |-> m.prev.file, items |-> m.prev.items]
        <5>1. Outcome(m.prev, m.result) = <<x>>
          BY <4>4 DEF Outcome
        <5>2. x \in Operations /\ Handed(x)
          BY <2>1, <4>3, <4>4 DEF Jobs, Operations, Handed, OutcomeOf
        <5> QED
          BY <4>2, <5>1, <5>2
      <4>5. CASE m.result = "Part"
        <5> DEFINE x == [op |-> "Done", file |-> m.prev.file, ticket |-> m.prev.ticket]
        <5>1. Outcome(m.prev, m.result) = <<x>>
          BY <4>5 DEF Outcome
        <5>2. x \in Operations /\ Handed(x)
          BY <2>1, <4>3, <4>5 DEF Jobs, Operations, Handed, OutcomeOf
        <5> QED
          BY <4>2, <5>1, <5>2
      <4>6. CASE m.result = "Err" /\ m.prev.report
        <5> DEFINE x == [op |-> "Fail"]
        <5>1. Outcome(m.prev, m.result) = <<x>>
          BY <4>6 DEF Outcome
        <5>2. x \in Operations /\ Handed(x)
          BY DEF Operations, Handed
        <5> QED
          BY <4>2, <5>1, <5>2
      <4>7. CASE m.result = "Skip" \/ (m.result = "Err" /\ ~m.prev.report)
        <5>1. Outcome(m.prev, m.result) = <<>>
          BY <4>7 DEF Outcome
        <5> QED
          BY <3>3, <4>1, <5>1
      <4> QED
        BY <2>1, <4>4, <4>5, <4>6, <4>7
    <3> QED
      BY <1>3, <3>4, <3>5 DEF Reads
  <2> QED
    BY <2>3, <2>4
<1> QED
  BY <1>5, <1>6, <1>7, <1>8 DEF Handle

LEMMA RequestReads ==
  ASSUME TypeOK, NEW t \in Tabs, NEW p \in {"away", "hovered", "opened"}, Look(t, p)
  PROVE  Reads
<1>1. folder \in [Tabs -> Folders] /\ inbox \in Seq(Messages) /\ issued \in Nat /\ disk \in 0..MaxVersion
  BY DEF TypeOK
<1>2. SameLists
  BY <1>1 DEF Look, SameLists, Lists, Folders
<1>3. UNCHANGED <<disk, job, events, issued>>
  BY DEF Look, reader
<1>4. PICK file \in KnownStats(t, p) :
        LET asked == IF Asks(t, p)
                     THEN Append(inbox, TakeRefresh([folder[t] EXCEPT !.file = file])) ELSE inbox
        IN  inbox' = Append(asked, Sync(p # "away", file))
  BY DEF Look
<1> DEFINE a == TakeRefresh([folder[t] EXCEPT !.file = file])
           b == Sync(p # "away", file)
           asked == IF Asks(t, p) THEN Append(inbox, a) ELSE inbox
<1>5. file \in Stats
  BY <1>1, <1>4, BoundsAssumption DEF KnownStats, Folders, Stats, Unknown
<1>6. a \in Messages /\ a.op # "Done"
  <2>1. [folder[t] EXCEPT !.file = file] \in Folders
    BY <1>1, <1>5 DEF Folders
  <2>2. a.op # "Done"
    BY DEF TakeRefresh, Refresh, Load
  <2> QED
    BY <2>1, <2>2, TakeRefreshType
<1>7. b \in Messages /\ b.op # "Done"
  BY <1>5 DEF Sync, Messages
<1>8. inbox' = Append(asked, b)
  BY <1>4
<1> HIDE DEF a, b
<1>9. asked \in Seq(Messages) /\ \A i \in 1..Len(asked) : asked[i].op = "Done" => Given(asked[i])
  <2>1. CASE asked = inbox
    BY <1>1, <2>1 DEF Given
  <2>2. CASE asked = Append(inbox, a)
    BY <1>1, <1>6, <2>2, AppendElements DEF Given
  <2> QED
    BY <2>1, <2>2
<1>10. AnswersKnown
  <2> HIDE DEF asked
  <2> QED
    BY <1>7, <1>8, <1>9, AppendElements DEF AnswersKnown
<1> QED
  BY <1>1, <1>2, <1>3, <1>10, BoundsAssumption DEF Reads, JobSame

LEMMA WorldReads ==
  ASSUME TypeOK, Change \/ Tell \/ Tick \/ Abort \/ UNCHANGED vars
  PROVE  Reads
<1>1. issued \in Nat /\ disk \in 0..MaxVersion /\ events \in Seq(Operations)
  BY DEF TypeOK
<1>2. UNCHANGED folder => SameLists
  BY DEF SameLists
<1>3. UNCHANGED inbox => AnswersKnown
  BY DEF AnswersKnown, Given
<1>4. UNCHANGED job => job' = NoJob \/ JobSame
  BY DEF JobSame
<1> USE BoundsAssumption
<1>5. CASE Change
  BY <1>1, <1>2, <1>3, <1>4, <1>5 DEF Change, panes, reader, Reads
<1>6. CASE Tell
  <2>1. [op |-> "Upsert"] \in Operations /\ Handed([op |-> "Upsert"])
    BY DEF Operations, Handed
  <2> QED
    BY <1>1, <1>2, <1>3, <1>4, <1>6, <2>1 DEF Tell, panes, reader, Reads
<1>7. CASE Tick
  <2> DEFINE e == [entry EXCEPT !.dirty = TRUE]
  <2>1. e \in Entries /\ Spawn(e)
    BY <1>7 DEF Tick, TypeOK, Entries
  <2> HIDE DEF e
  <2>2. issued <= issued' /\ (job' = NoJob \/ JobSame \/ JobNew)
    BY <2>1, SpawnJob
  <2> QED
    BY <1>1, <1>2, <1>3, <1>7, <2>2 DEF Tick, panes, Reads
<1>8. CASE Abort
  BY <1>1, <1>2, <1>3, <1>8 DEF Abort, panes, Reads
<1>9. CASE UNCHANGED vars
  BY <1>1, <1>2, <1>3, <1>4, <1>9 DEF vars, panes, reader, Reads
<1> QED
  BY <1>5, <1>6, <1>7, <1>8, <1>9

LEMMA ReadOnReads ==
  ASSUME TypeOK, ReadOn
  PROVE  Reads \/ Proceeds
<1>1. issued \in Nat /\ disk \in 0..MaxVersion /\ inbox \in Seq(Messages)
  BY DEF TypeOK
<1>2. job # NoJob /\ job \in Jobs
  BY DEF TypeOK, ReadOn, Revalidate, Unreadable, ReadPart, ReadEnd, Reading
<1>3. SameLists /\ UNCHANGED <<disk, issued>>
  BY DEF SameLists, ReadOn, Revalidate, Unreadable, ReadPart, ReadEnd, panes
<1>4. ASSUME NEW result \in {"Full", "Part", "Skip", "Err"}, Finish(job, result), UNCHANGED events,
             result \in {"Full", "Part"} => job.at = Parts + 1 /\ (job.stream <=> result = "Part")
      PROVE  Reads
  <2> DEFINE m == [op |-> "Done", prev |-> job, result |-> result]
  <2>1. m \in Messages /\ AnswerOfJob(m)
    BY <1>2, <1>4 DEF Messages, AnswerOfJob, Finish
  <2>2. inbox' = Append(inbox, m) /\ job' = NoJob
    BY <1>4 DEF Finish
  <2> HIDE DEF m
  <2>3. AnswersKnown
    BY <1>1, <2>1, <2>2, AppendElements DEF AnswersKnown, Given
  <2> QED
    BY <1>1, <1>3, <1>4, <2>2, <2>3, BoundsAssumption DEF Reads
<1>5. CASE Revalidate
  <2>1. CASE job.file = disk /\ ~job.force
    BY <1>4, <1>5, <2>1 DEF Revalidate
  <2>2. CASE ~(job.file = disk /\ ~job.force)
    <3>1. /\ job.at = 0 /\ job' = [job EXCEPT !.file = disk, !.at = 1]
          /\ UNCHANGED inbox
          /\ events' = IF job.stream THEN Append(events, [op |-> "Part", ticket |-> job.ticket, items |-> <<>>])
                                     ELSE events
      BY <1>5, <2>2 DEF Revalidate
    <3>2. /\ job'.ticket = job.ticket /\ job'.stream = job.stream /\ job'.at = job.at + 1
          /\ job'.file = disk /\ job'.items = job.items /\ job.at <= Parts
      BY <1>2, <3>1, PartsAssumption DEF Jobs
    <3>3. job' # NoJob
      <4>1. DOMAIN job' = DOMAIN job
        BY <3>1
      <4>2. "ticket" \in DOMAIN job /\ "ticket" \notin DOMAIN NoJob
        BY <1>2 DEF Jobs, NoJob
      <4> QED
        BY <4>1, <4>2
    <3> QED
      BY <1>2, <1>3, <3>1, <3>2, <3>3 DEF Proceeds, NextPart
  <2> QED
    BY <2>1, <2>2
<1>6. CASE Unreadable
  BY <1>4, <1>6 DEF Unreadable
<1>7. CASE ReadPart
  <2>1. /\ job.at \in 1..Parts /\ UNCHANGED inbox
        /\ job' = IF job.stream THEN [job EXCEPT !.at = @ + 1]
                                ELSE [job EXCEPT !.at = @ + 1, !.items = Append(@, PartRead)]
        /\ events' = IF job.stream THEN Append(events, [op |-> "Part", ticket |-> job.ticket, items |-> <<PartRead>>])
                                   ELSE events
    BY <1>7 DEF ReadPart, PartRead
  <2>2. /\ job'.ticket = job.ticket /\ job'.stream = job.stream /\ job'.at = job.at + 1
        /\ job'.file = job.file /\ job.at <= Parts /\ job.at # 0
        /\ job'.items = IF job.stream THEN job.items ELSE Append(job.items, PartRead)
    BY <1>2, <2>1, PartsAssumption DEF Jobs
  <2>3. job' # NoJob
    <3>1. DOMAIN job' = DOMAIN job
      BY <2>1
    <3>2. "ticket" \in DOMAIN job /\ "ticket" \notin DOMAIN NoJob
      BY <1>2 DEF Jobs, NoJob
    <3> QED
      BY <3>1, <3>2
  <2> QED
    BY <1>2, <1>3, <2>1, <2>2, <2>3 DEF Proceeds, NextPart
<1>8. CASE ReadEnd
  <2>1. CASE job.stream
    BY <1>4, <1>8, <2>1 DEF ReadEnd
  <2>2. CASE ~job.stream
    BY <1>4, <1>8, <2>2 DEF ReadEnd
  <2> QED
    BY <2>1, <2>2
<1> QED
  BY <1>5, <1>6, <1>7, <1>8 DEF ReadOn

LEMMA DeliverDelivers ==
  ASSUME TypeOK, Deliver
  PROVE  Delivers
<1>1. /\ events # <<>> /\ events' = Tail(events) /\ UNCHANGED <<disk, job>>
      /\ folder \in [Tabs -> Folders] /\ active \in Tabs /\ events \in Seq(Operations)
      /\ inbox \in Seq(Messages)
  BY DEF Deliver, DeliverLoad, DeliverUpsert, TypeOK, reader
<1>2. Head(events) \in Operations /\ folder[active] \in Folders
  BY <1>1, TailElements
<1>3. CASE DeliverLoad
  <2> DEFINE up  == Update(folder[active], Head(events))
             new == [up EXCEPT !.here = TRUE]
  <2>1. up \in Folders
    BY <1>2, UpdateType
  <2>2. new \in Folders /\ Lists(new) = Lists(up)
    BY <2>1 DEF Folders, Lists
  <2>3. /\ issued' = IF Head(events).op \in {"Full", "Fail"} THEN issued + 1 ELSE issued
        /\ \/ folder' = [folder EXCEPT ![active] = [new EXCEPT !.stale = FALSE]]
           \/ folder' = [folder EXCEPT ![active] = new]
        /\ inbox' = inbox \/ inbox' = Append(inbox, TakeRefresh(new))
    BY <1>3 DEF DeliverLoad, Repeek
  <2>4. TakeRefresh(new) \in Messages /\ TakeRefresh(new).op # "Done"
    <3>1. TakeRefresh(new) \in Messages
      BY <2>2, TakeRefreshType
    <3>2. TakeRefresh(new).op # "Done"
      BY DEF TakeRefresh, Refresh, Load
    <3> QED
      BY <3>1, <3>2
  <2>5. Lists([new EXCEPT !.stale = FALSE]) = Lists(new)
    BY <2>2 DEF Folders, Lists
  <2> HIDE DEF new, up
  <2>6. \A t \in Tabs : Lists(folder'[t]) = Lists(IF t = active THEN up ELSE folder[t])
    BY <1>1, <2>2, <2>3, <2>5
  <2>7. \A t \in Tabs :
          Lists(folder'[t]) = Lists(IF t = active THEN Update(folder[t], Head(events)) ELSE folder[t])
    BY <2>6 DEF up
  <2>8. \A i \in 1..Len(inbox') : inbox'[i].op = "Done" => Given(inbox'[i])
    BY <2>3, <2>4, GivenRequests
  <2> QED
    BY <1>1, <2>3, <2>7, <2>8 DEF Delivers
<1>4. CASE DeliverUpsert
  <2> DEFINE m == Refresh(folder[active].file, TRUE)
  <2>1. m \in Messages /\ m.op # "Done"
    BY <1>2 DEF Refresh, Folders, Messages
  <2>2. inbox' = inbox \/ inbox' = Append(inbox, m)
    BY <1>4 DEF DeliverUpsert
  <2>3. issued' = issued /\ Head(events).op = "Upsert"
    BY <1>4 DEF DeliverUpsert
  <2>4. \A t \in Tabs : Lists(folder'[t]) = Lists(folder[t])
    BY <1>1, <1>4 DEF DeliverUpsert, Lists, Folders
  <2>6. Update(folder[active], Head(events)) = folder[active]
    BY <2>3 DEF Update
  <2> HIDE DEF m
  <2>5. \A i \in 1..Len(inbox') : inbox'[i].op = "Done" => Given(inbox'[i])
    BY <2>1, <2>2, GivenRequests
  <2> QED
    BY <1>1, <2>3, <2>4, <2>5, <2>6 DEF Delivers
<1> QED
  BY <1>3, <1>4 DEF Deliver

LEMMA Typed ==
  ASSUME TypeOK
  PROVE  /\ issued \in Nat /\ disk \in 0..MaxVersion /\ disk \in Stats
         /\ inbox \in Seq(Messages) /\ events \in Seq(Operations)
         /\ \A i \in 1..Len(inbox) : inbox[i] \in Messages
         /\ \A i \in 1..Len(events) : events[i] \in Operations
         /\ job # NoJob => job \in Jobs /\ job.ticket \in Nat /\ job.file \in Stats /\ job.items \in Items
                           /\ job.at \in 0..(Parts + 1) /\ Len(job.items) \in Nat
         /\ \A t \in Tabs : folder[t] \in Folders /\ folder[t].ticket \in Nat
                            /\ folder[t].items \in Items /\ folder[t].file \in Stats
<1>1. /\ issued \in Nat /\ disk \in 0..MaxVersion
      /\ inbox \in Seq(Messages) /\ events \in Seq(Operations)
      /\ folder \in [Tabs -> Folders] /\ (job # NoJob => job \in Jobs)
  BY DEF TypeOK
<1>2. disk \in Stats
  BY <1>1, BoundsAssumption DEF Stats, Unknown
<1>3. job # NoJob => job.ticket \in Nat /\ job.file \in Stats /\ job.items \in Items
                     /\ job.at \in 0..(Parts + 1) /\ Len(job.items) \in Nat
  BY <1>1 DEF Jobs, Items
<1>4. \A t \in Tabs : folder[t] \in Folders /\ folder[t].ticket \in Nat
                      /\ folder[t].items \in Items /\ folder[t].file \in Stats
  BY <1>1 DEF Folders
<1> QED
  BY <1>1, <1>2, <1>3, <1>4, ElementOf

LEMMA ItemTyped ==
  ASSUME NEW items \in Items
  PROVE  /\ Len(items) \in Nat
         /\ \A i \in 1..Len(items) : items[i].by \in Nat /\ items[i].part \in 1..Parts
                                     /\ items[i].version \in 0..MaxVersion
<1>1. \A i \in 1..Len(items) : items[i] \in [by: Nat, part: 1..Parts, version: 0..MaxVersion]
  BY ElementOf DEF Items
<1> QED
  BY <1>1 DEF Items

LEMMA HandedOp ==
  ASSUME NEW e, Handed(e)
  PROVE  e.op \in {"Upsert", "Fail", "Full", "Done"}
<1>1. ASSUME NEW m, OutcomeOf(m, e) PROVE e.op \in {"Full", "Done"}
  BY <1>1 DEF OutcomeOf
<1> QED
  BY <1>1 DEF Handed

(* A source has a ticket that was issued. *)
LEMMA SourceIssued ==
  ASSUME TypeOK, ListInv, NEW k \in Nat, NEW v \in Stats, Source(k, v)
  PROVE  k <= issued
BY DEF ListInv, Source, JobOK, MessageOK, EventOK

LEMMA ListReads ==
  ASSUME TypeOK, TypeOK', ListInv, Reads
  PROVE  ListInv'
<1>1. issued \in Nat /\ issued' \in Nat /\ issued <= issued' /\ disk <= disk' /\ disk \in Nat /\ disk' \in Nat
  <2>1. issued' \in Nat /\ disk' \in Nat
    BY BoundsAssumption DEF TypeOK
  <2> QED
    BY <2>1, Typed DEF Reads
<1>2. \A t \in Tabs : /\ folder'[t].ticket = folder[t].ticket /\ folder'[t].stage = folder[t].stage
                      /\ folder'[t].file = folder[t].file /\ folder'[t].items = folder[t].items
  BY DEF Reads, SameLists, Lists
<1>3. \A i \in 1..Len(events') :
        \/ i \in 1..Len(events) /\ events'[i] = events[i]
        \/ Handed(events'[i])
  BY Typed, AppendElements DEF Reads
<1>4. \A i \in 1..Len(events') : events'[i].op = "Part" => i \in 1..Len(events) /\ events'[i] = events[i]
  BY <1>3, HandedOp
<1>5. job' # NoJob => JobOK(job)'
  <2>1. CASE JobSame
    BY <1>1, <2>1, Typed DEF JobSame, ListInv, JobOK, Since
  <2>2. CASE JobNew
    BY <1>1, <2>2 DEF JobNew, JobOK, Since
  <2> QED
    BY <2>1, <2>2 DEF Reads
<1>6. \A i \in 1..Len(inbox') : MessageOK(inbox[i])'
  <2> SUFFICES ASSUME NEW i \in 1..Len(inbox'), inbox'[i].op = "Done" PROVE MessageOK(inbox[i])'
    BY DEF MessageOK
  <2>1. CASE Given(inbox'[i])
    <3>1. MessageOK(inbox'[i]) /\ inbox'[i].prev.ticket \in Nat
      <4>1. PICK k \in 1..Len(inbox) : inbox'[i] = inbox[k]
        BY <2>1 DEF Given
      <4>2. inbox[k].prev \in Jobs
        BY <4>1, Typed, MessageFacts
      <4> QED
        BY <4>1, <4>2 DEF ListInv, Jobs
    <3> QED
      BY <1>1, <3>1 DEF MessageOK
  <2>2. CASE AnswerOfJob(inbox'[i])
    <3>1. job # NoJob /\ inbox'[i].prev = job /\ JobOK(job)
      BY <2>2 DEF AnswerOfJob, ListInv
    <3>2. inbox'[i].result = "Full" => Entire(job.items) /\ Since(job.items, job.file)
      BY <2>2, <3>1, Typed, PartsAssumption DEF AnswerOfJob, JobOK, Entire
    <3> QED
      BY <1>1, <3>1, <3>2, Typed DEF MessageOK, JobOK
  <2> QED
    BY <2>1, <2>2 DEF Reads, AnswersKnown
<1>7. \A i \in 1..Len(events') : EventOK(events[i])'
  <2> SUFFICES ASSUME NEW i \in 1..Len(events') PROVE EventOK(events[i])'
    OBVIOUS
  <2>1. CASE i \in 1..Len(events) /\ events'[i] = events[i]
    <3>1. EventOK(events[i]) /\ events[i] \in Operations
      BY <2>1, Typed DEF ListInv
    <3> QED
      BY <1>1, <2>1, <3>1, EventFacts DEF EventOK
  <2>2. CASE events'[i].op \in {"Upsert", "Fail"}
    BY <2>2 DEF EventOK
  <2>3. ASSUME NEW k \in 1..Len(inbox), inbox[k].op = "Done", OutcomeOf(inbox[k], events'[i])
        PROVE  EventOK(events[i])'
    <3>1. MessageOK(inbox[k]) /\ inbox[k].prev \in Jobs
      BY <2>3, Typed, MessageFacts DEF ListInv
    <3>2. inbox[k].prev.ticket \in Nat
      BY <3>1 DEF Jobs
    <3> QED
      BY <1>1, <2>3, <3>1, <3>2 DEF OutcomeOf, MessageOK, EventOK
  <2> QED
    BY <1>3, <2>1, <2>2, <2>3 DEF Handed
<1>8. OrderInv'
  BY <1>4 DEF ListInv, OrderInv, Carries
<1>9. AheadInv'
  <2>1. CASE JobSame
    BY <1>4, <2>1 DEF JobSame, ListInv, AheadInv, Carries
  <2>2. CASE JobNew
    <3>1. \A i \in 1..Len(events) : events[i].op = "Part" => events[i].ticket <= issued /\ events[i].ticket \in Nat
      BY Typed, EventFacts DEF ListInv, EventOK
    <3>2. \A i \in 1..Len(events) : ~Carries(events[i], issued + 1)
      BY <1>1, <3>1 DEF Carries
    <3> QED
      BY <1>4, <2>2, <3>2 DEF JobNew, AheadInv, Carries
  <2> QED
    BY <2>1, <2>2 DEF Reads, AheadInv
<1>10. \A t \in Tabs : FolderOK(folder[t])'
  <2> SUFFICES ASSUME NEW t \in Tabs PROVE FolderOK(folder[t])'
    OBVIOUS
  <2> DEFINE f == folder[t]
             g == folder'[t]
  <2>1. FolderOK(f) /\ f.ticket \in Nat
    BY Typed DEF ListInv
  <2>2. g.ticket = f.ticket /\ g.stage = f.stage /\ g.file = f.file /\ g.items = f.items
    BY <1>2
  <2>3. g.ticket <= issued' /\ Sorted(g.items) /\ (g.stage = "Loaded" => Since(g.items, g.file))
    BY <1>1, <2>1, <2>2 DEF FolderOK
  <2>4. \A n \in 1..Len(g.items) : \A i \in 1..Len(events') :
          Carries(events'[i], g.ticket) => g.items[n].by = g.ticket /\ g.items[n].part < Rank(events'[i])
    BY <1>4, <2>1, <2>2 DEF FolderOK, Carries
  <2>5. \A n \in 1..Len(g.items) : job' # NoJob /\ job'.ticket = g.ticket =>
          g.items[n].by = g.ticket /\ g.items[n].part < job'.at
    <3>1. CASE JobSame
      BY <2>1, <2>2, <3>1 DEF FolderOK, JobSame
    <3>2. CASE JobNew
      BY <1>1, <2>1, <2>2, <3>2 DEF FolderOK, JobNew
    <3> QED
      BY <3>1, <3>2 DEF Reads
  <2> QED
    BY <2>3, <2>4, <2>5 DEF FolderOK
<1>11. \A k \in Nat, v \in Stats : Source(k, v)' => SourceOK(k, v)'
  <2> SUFFICES ASSUME NEW k \in Nat, NEW v \in Stats, Source(k, v)' PROVE SourceOK(k, v)'
    OBVIOUS
  <2>1. Source(k, v)
    <3>1. CASE job' # NoJob /\ job'.at > 0 /\ k = job'.ticket /\ v = job'.file
      BY <3>1 DEF Reads, JobSame, JobNew, Source
    <3>2. ASSUME NEW i \in 1..Len(inbox'), inbox'[i].op = "Done", inbox'[i].result = "Part",
                 k = inbox'[i].prev.ticket, v = inbox'[i].prev.file
          PROVE  Source(k, v)
      <4>1. CASE Given(inbox'[i])
        BY <3>2, <4>1 DEF Given, Source
      <4>2. CASE AnswerOfJob(inbox'[i])
        BY <3>2, <4>2, PartsAssumption DEF AnswerOfJob, Source
      <4> QED
        BY <3>2, <4>1, <4>2 DEF Reads, AnswersKnown
    <3>3. ASSUME NEW i \in 1..Len(events'), events'[i].op = "Done", k = events'[i].ticket, v = events'[i].file
          PROVE  Source(k, v)
      <4>1. CASE i \in 1..Len(events) /\ events'[i] = events[i]
        BY <3>3, <4>1 DEF Source
      <4>2. CASE Handed(events'[i])
        <5>1. PICK m \in 1..Len(inbox) : inbox[m].op = "Done" /\ OutcomeOf(inbox[m], events'[i])
          BY <3>3, <4>2 DEF Handed
        <5>2. inbox[m].result = "Part" /\ k = inbox[m].prev.ticket /\ v = inbox[m].prev.file
          BY <3>3, <5>1 DEF OutcomeOf
        <5> QED
          BY <5>1, <5>2 DEF Source
      <4> QED
        BY <1>3, <3>3, <4>1, <4>2
    <3> QED
      BY <3>1, <3>2, <3>3 DEF Source
  <2>2. SourceOK(k, v) /\ v \in Int
    BY <2>1, BoundsAssumption DEF ListInv, Stats, Unknown
  <2> QED
    BY <1>1, <1>2, <1>4, <2>2 DEF SourceOK, Carries
<1> QED
  BY <1>5, <1>6, <1>7, <1>8, <1>9, <1>10, <1>11 DEF ListInv

LEMMA NextPartFacts ==
  ASSUME TypeOK, Proceeds
  PROVE  NextPart \in Operations /\ NextPart.op = "Part" /\ NextPart.ticket = job.ticket
         /\ Rank(NextPart) = job.at /\ Len(NextPart.items) <= 1
         /\ \A i \in 1..Len(NextPart.items) :
              NextPart.items[i].by = job.ticket /\ NextPart.items[i].version = disk
<1>0. job.ticket \in Nat /\ job.at \in 0..(Parts + 1) /\ job.at <= Parts /\ disk \in 0..MaxVersion
  BY Typed DEF Proceeds
<1>1. NextPart.op = "Part" /\ NextPart.ticket = job.ticket
  BY DEF NextPart
<1>2. CASE job.at = 0
  <2>1. NextPart.items = <<>>
    BY <1>2 DEF NextPart
  <2>2. <<>> \in Items
    BY DEF Items
  <2> QED
    BY <1>0, <1>1, <1>2, <2>1, <2>2 DEF NextPart, Operations, Rank
<1>3. CASE job.at # 0
  <2>1. NextPart.items = <<PartRead>>
    BY <1>3 DEF NextPart
  <2>2. PartRead \in [by: Nat, part: 1..Parts, version: 0..MaxVersion]
    BY <1>0, <1>3, Typed DEF PartRead
  <2>3. <<PartRead>> \in Items
    BY <2>2 DEF Items
  <2>4. Rank(NextPart) = job.at
    BY <2>1 DEF Rank, PartRead
  <2>5. NextPart \in Operations
    BY <1>0, <2>1, <2>3 DEF NextPart, Operations
  <2> QED
    BY <1>1, <2>1, <2>4, <2>5 DEF PartRead
<1> QED
  BY <1>2, <1>3

LEMMA ListProceeds ==
  ASSUME TypeOK, TypeOK', ListInv, Proceeds
  PROVE  ListInv'
<1>1. /\ issued \in Nat /\ issued' = issued /\ disk' = disk /\ disk \in Nat /\ inbox' = inbox
      /\ job # NoJob /\ job' # NoJob /\ JobOK(job)
      /\ job.ticket \in Nat /\ job.at \in Nat /\ job.at <= Parts /\ job.items \in Items /\ job.file \in Int
      /\ job'.ticket = job.ticket /\ job'.stream = job.stream /\ job'.at = job.at + 1
  <2>1. job.at \in Nat /\ job.file \in Int
    BY Typed, PartsAssumption, BoundsAssumption DEF Proceeds, Stats, Unknown
  <2> QED
    BY <2>1, Typed DEF Proceeds, ListInv
<1>2. \A t \in Tabs : /\ folder'[t].ticket = folder[t].ticket /\ folder'[t].stage = folder[t].stage
                      /\ folder'[t].file = folder[t].file /\ folder'[t].items = folder[t].items
  BY DEF Proceeds, SameLists, Lists
<1>3. NextPart \in Operations /\ NextPart.op = "Part" /\ NextPart.ticket = job.ticket
      /\ Rank(NextPart) = job.at /\ Len(NextPart.items) <= 1
      /\ \A i \in 1..Len(NextPart.items) :
           NextPart.items[i].by = job.ticket /\ NextPart.items[i].version = disk
  BY NextPartFacts
<1> HIDE DEF NextPart
<1>4. /\ \A i \in 1..Len(events') : \/ i \in 1..Len(events) /\ events'[i] = events[i]
                                    \/ i = Len(events) + 1 /\ events'[i] = NextPart
      /\ Len(events) \in Nat
  BY <1>3, Typed, AppendElements DEF Proceeds
<1>5. \A i \in 1..Len(events) : events[i] \in Operations /\ EventOK(events[i])
  BY Typed DEF ListInv
<1>6. \A i \in 1..Len(job.items) : job.items[i].version \in Int
  BY <1>1, ItemTyped
<1>7. job.at > 0 => job.file <= disk
  BY <1>1, Typed DEF ListInv, Source, SourceOK
<1>8. JobOK(job)'
  <2>1. CASE job.at = 0
    <3>1. job'.items = job.items /\ Len(job.items) = 0
      BY <1>1, <2>1 DEF Proceeds, JobOK
    <3> QED
      BY <1>1, <2>1, <3>1 DEF JobOK, Since
  <2>2. CASE job.at > 0 /\ job.stream
    <3>1. job'.items = job.items /\ job'.file = job.file
      BY <1>1, <2>2 DEF Proceeds
    <3> QED
      BY <1>1, <2>2, <3>1 DEF JobOK, Since
  <2>3. CASE job.at > 0 /\ ~job.stream
    <3>1. job'.items = Append(job.items, PartRead) /\ job'.file = job.file
      BY <1>1, <2>3 DEF Proceeds
    <3>2. PartRead \in [by: Nat, part: 1..Parts, version: 0..MaxVersion]
      BY <1>1, <2>3, Typed DEF PartRead
    <3>3. /\ Len(job'.items) = Len(job.items) + 1
          /\ \A i \in 1..Len(job'.items) :
               (i \in 1..Len(job.items) /\ job'.items[i] = job.items[i]) \/ (i = Len(job.items) + 1 /\ job'.items[i] = PartRead)
      BY <1>1, <3>1, <3>2, AppendElements DEF Items
    <3>4. PartRead.by = job.ticket /\ PartRead.part = job.at /\ PartRead.version = disk
      BY DEF PartRead
    <3>5. Len(job.items) = job.at - 1
      BY <1>1, <2>3 DEF JobOK
    <3>6. Since(job'.items, job'.file)
      BY <1>1, <1>7, <2>3, <3>1, <3>3, <3>4 DEF JobOK, Since
    <3>7. \A i \in 1..Len(job'.items) : job'.items[i].by = job'.ticket /\ job'.items[i].part = i
      <4> SUFFICES ASSUME NEW i \in 1..Len(job'.items)
                   PROVE  job'.items[i].by = job'.ticket /\ job'.items[i].part = i
        OBVIOUS
      <4>1. CASE i \in 1..Len(job.items) /\ job'.items[i] = job.items[i]
        BY <1>1, <4>1 DEF JobOK
      <4>2. CASE i = Len(job.items) + 1 /\ job'.items[i] = PartRead
        <5>1. i = job.at
          BY <1>1, <3>5, <4>2
        <5> QED
          BY <1>1, <3>4, <4>2, <5>1
      <4> QED
        BY <3>3, <4>1, <4>2
    <3> QED
      BY <1>1, <2>3, <3>3, <3>5, <3>6, <3>7 DEF JobOK
  <2> QED
    BY <1>1, <2>1, <2>2, <2>3
<1>9. \A i \in 1..Len(inbox') : MessageOK(inbox[i])'
  BY <1>1 DEF ListInv, MessageOK
<1>10. \A i \in 1..Len(events') : EventOK(events[i])'
  <2> SUFFICES ASSUME NEW i \in 1..Len(events') PROVE EventOK(events[i])'
    OBVIOUS
  <2>1. CASE i \in 1..Len(events) /\ events'[i] = events[i]
    BY <1>1, <1>5, <2>1 DEF EventOK
  <2>2. CASE events'[i] = NextPart
    BY <1>1, <1>3, <2>2 DEF EventOK, JobOK
  <2> QED
    BY <1>4, <2>1, <2>2
<1>11. \A i \in 1..Len(events) : Carries(events[i], job.ticket) => Rank(events[i]) < job.at /\ Rank(events[i]) \in Nat
  BY <1>1, <1>5, EventFacts DEF ListInv, AheadInv, Carries
<1>12. OrderInv'
  <2> SUFFICES ASSUME NEW i \in 1..Len(events'), NEW k \in 1..Len(events'), i < k,
                      events'[i].op = "Part", Carries(events'[k], events'[i].ticket)
               PROVE  Rank(events'[i]) < Rank(events'[k])
    BY DEF OrderInv, Carries, Rank
  <2>1. i \in 1..Len(events) /\ events'[i] = events[i]
    BY <1>4
  <2>2. CASE k \in 1..Len(events) /\ events'[k] = events[k]
    BY <2>1, <2>2 DEF ListInv, OrderInv
  <2>3. CASE events'[k] = NextPart
    BY <1>3, <1>11, <2>1, <2>3 DEF Carries
  <2> QED
    BY <1>4, <2>2, <2>3
<1>13. AheadInv'
  <2> SUFFICES ASSUME NEW i \in 1..Len(events'), Carries(events'[i], job.ticket)
               PROVE  Rank(events'[i]) < job.at + 1
    BY <1>1 DEF AheadInv, Carries, Rank
  <2> QED
    BY <1>1, <1>3, <1>4, <1>11
<1>14. \A t \in Tabs : FolderOK(folder[t])'
  <2> SUFFICES ASSUME NEW t \in Tabs PROVE FolderOK(folder[t])'
    OBVIOUS
  <2> DEFINE f == folder[t]
             g == folder'[t]
  <2>1. FolderOK(f) /\ f.ticket \in Nat /\ \A n \in 1..Len(f.items) : f.items[n].part \in Nat
    BY Typed, ItemTyped, PartsAssumption DEF ListInv
  <2>2. g.ticket = f.ticket /\ g.stage = f.stage /\ g.file = f.file /\ g.items = f.items
    BY <1>2
  <2>3. g.ticket <= issued' /\ Sorted(g.items) /\ (g.stage = "Loaded" => Since(g.items, g.file))
    BY <1>1, <2>1, <2>2 DEF FolderOK
  <2>4. \A n \in 1..Len(g.items) : \A i \in 1..Len(events') :
          Carries(events'[i], g.ticket) => g.items[n].by = g.ticket /\ g.items[n].part < Rank(events'[i])
    <3> SUFFICES ASSUME NEW n \in 1..Len(g.items), NEW i \in 1..Len(events'), Carries(events'[i], g.ticket)
                 PROVE  g.items[n].by = g.ticket /\ g.items[n].part < Rank(events'[i])
      OBVIOUS
    <3>1. CASE i \in 1..Len(events) /\ events'[i] = events[i]
      BY <2>1, <2>2, <3>1 DEF FolderOK
    <3>2. CASE events'[i] = NextPart
      <4>1. f.ticket = job.ticket
        BY <1>3, <2>2, <3>2 DEF Carries
      <4> QED
        BY <1>1, <1>3, <2>1, <2>2, <3>2, <4>1 DEF FolderOK
    <3> QED
      BY <1>4, <3>1, <3>2
  <2>5. \A n \in 1..Len(g.items) : job' # NoJob /\ job'.ticket = g.ticket =>
          g.items[n].by = g.ticket /\ g.items[n].part < job'.at
    BY <1>1, <2>1, <2>2 DEF FolderOK
  <2> QED
    BY <2>3, <2>4, <2>5 DEF FolderOK
<1>15. \A k \in Nat, v \in Stats : Source(k, v)' => SourceOK(k, v)'
  <2> SUFFICES ASSUME NEW k \in Nat, NEW v \in Stats, Source(k, v)' PROVE SourceOK(k, v)'
    OBVIOUS
  <2>0. v \in Int
    BY BoundsAssumption DEF Stats, Unknown
  <2>1. Source(k, v) \/ (job.at = 0 /\ k = job.ticket /\ v = disk)
    <3>1. CASE job' # NoJob /\ job'.at > 0 /\ k = job'.ticket /\ v = job'.file
      BY <1>1, <3>1 DEF Proceeds, Source
    <3>2. ASSUME NEW i \in 1..Len(events'), events'[i].op = "Done", k = events'[i].ticket, v = events'[i].file
          PROVE  Source(k, v)
      BY <1>3, <1>4, <3>2 DEF Source
    <3> QED
      BY <1>1, <3>1, <3>2 DEF Source
  <2>2. CASE Source(k, v)
    <3>1. SourceOK(k, v)
      BY <2>2 DEF ListInv
    <3>2. \A i \in 1..Len(events') : Carries(events'[i], k) => Since(events'[i].items, v)
      <4> SUFFICES ASSUME NEW i \in 1..Len(events'), Carries(events'[i], k) PROVE Since(events'[i].items, v)
        OBVIOUS
      <4>1. CASE i \in 1..Len(events) /\ events'[i] = events[i]
        BY <3>1, <4>1 DEF SourceOK
      <4>2. CASE events'[i] = NextPart
        BY <1>1, <1>3, <3>1, <4>2 DEF SourceOK, Since
      <4> QED
        BY <1>4, <4>1, <4>2
    <3> QED
      BY <1>1, <1>2, <3>1, <3>2 DEF SourceOK
  <2>3. CASE job.at = 0 /\ k = job.ticket /\ v = disk
    <3>1. \A i \in 1..Len(events') : Carries(events'[i], k) => Since(events'[i].items, v)
      <4> SUFFICES ASSUME NEW i \in 1..Len(events'), Carries(events'[i], k) PROVE Since(events'[i].items, v)
        OBVIOUS
      <4>1. events'[i] = NextPart
        BY <1>1, <1>4, <1>11, <2>3
      <4> QED
        BY <1>1, <1>3, <2>0, <2>3, <4>1 DEF Since
    <3>2. \A t \in Tabs : folder'[t].ticket = k => Since(folder'[t].items, v)
      <4> SUFFICES ASSUME NEW t \in Tabs, folder'[t].ticket = k PROVE Since(folder'[t].items, v)
        OBVIOUS
      <4>1. folder'[t].items = folder[t].items /\ folder[t].ticket = job.ticket
        BY <1>2, <2>3
      <4>2. \A n \in 1..Len(folder[t].items) : folder[t].items[n].part < 0 /\ folder[t].items[n].part \in 1..Parts
        BY <1>1, <2>3, <4>1, Typed, ItemTyped DEF ListInv, FolderOK
      <4>3. \A n \in 1..Len(folder[t].items) : FALSE
        BY <4>2
      <4> QED
        BY <4>1, <4>3 DEF Since
    <3> QED
      BY <1>1, <2>3, <3>1, <3>2 DEF SourceOK
  <2> QED
    BY <2>1, <2>2, <2>3
<1> QED
  BY <1>8, <1>9, <1>10, <1>12, <1>13, <1>14, <1>15 DEF ListInv

(* What a folder lists after it is told of an event. *)
Reset(f, e, g)    == e.op = "Part" /\ e.items = <<>> /\ Lists(g) = <<e.ticket, "Loading", f.file, <<>>>>
Extended(f, e, g) == /\ e.op = "Part" /\ e.items # <<>> /\ e.ticket = f.ticket
                     /\ Lists(g) = <<f.ticket, "Loading", f.file, f.items \o e.items>>
Completed(f, e, g) == e.op = "Done" /\ e.ticket = f.ticket /\ Lists(g) = <<f.ticket, "Loaded", e.file, f.items>>
Replaced(e, g)    == e.op = "Full" /\ Lists(g) = <<issued + 1, "Loaded", e.file, e.items>>
Emptied(e, g)     == e.op = "Fail" /\ Lists(g) = <<issued + 1, "Failed", Unknown, <<>>>>
Ignored(f, e, g)  ==
  /\ Lists(g) = Lists(f)
  /\ e.op = "Part" => Late(f, e) \/ (e.items # <<>> /\ e.ticket # f.ticket)
  /\ e.op = "Done" => Late(f, e) \/ e.ticket # f.ticket

LEMMA UpdateCases ==
  ASSUME NEW f \in Folders, NEW e \in Operations, NEW g, Lists(g) = Lists(Update(f, e))
  PROVE  Replaced(e, g) \/ Emptied(e, g) \/ Reset(f, e, g) \/ Extended(f, e, g) \/ Completed(f, e, g)
           \/ Ignored(f, e, g)
<1>1. CASE e.op = "Full"
  BY <1>1 DEF Update, Lists, Folders, Replaced
<1>2. CASE e.op = "Fail"
  BY <1>2 DEF Update, Lists, Folders, Emptied
<1>3. CASE e.op = "Part"
  <2>1. CASE ~Late(f, e) /\ e.items = <<>>
    BY <1>3, <2>1 DEF Update, Lists, Folders, Reset
  <2>2. CASE ~Late(f, e) /\ e.items # <<>> /\ e.ticket = f.ticket
    BY <1>3, <2>2 DEF Update, Lists, Folders, Extended
  <2>3. CASE Late(f, e) \/ (e.items # <<>> /\ e.ticket # f.ticket)
    BY <1>3, <2>3 DEF Update, Ignored
  <2> QED
    BY <2>1, <2>2, <2>3
<1>4. CASE e.op = "Done"
  <2>1. CASE ~Late(f, e) /\ e.ticket = f.ticket
    BY <1>4, <2>1 DEF Update, Lists, Folders, Completed
  <2>2. CASE Late(f, e) \/ e.ticket # f.ticket
    BY <1>4, <2>2 DEF Update, Ignored
  <2> QED
    BY <2>1, <2>2
<1>5. CASE e.op = "Upsert"
  BY <1>5 DEF Update, Ignored
<1> QED
  BY <1>1, <1>2, <1>3, <1>4, <1>5 DEF Operations

LEMMA JoinElements ==
  ASSUME NEW a \in Items, NEW b \in Items, Len(b) = 1
  PROVE  /\ Len(a \o b) = Len(a) + 1
         /\ \A i \in 1..Len(a \o b) : \/ i \in 1..Len(a) /\ (a \o b)[i] = a[i]
                                      \/ i = Len(a) + 1 /\ (a \o b)[i] = b[1]
<1>1. Len(a) \in Nat
  BY DEF Items
<1>2. /\ Len(a \o b) = Len(a) + Len(b)
      /\ \A i \in 1..(Len(a) + Len(b)) : (a \o b)[i] = IF i <= Len(a) THEN a[i] ELSE b[i - Len(a)]
  BY ConcatProperties DEF Items
<1> QED
  BY <1>1, <1>2

LEMMA OnePart ==
  ASSUME NEW b \in Items, b # <<>>, Len(b) <= 1
  PROVE  Len(b) = 1
<1>1. Len(b) \in Nat \ {0}
  BY EmptySeq DEF Items
<1>2. \A n \in Nat \ {0} : n <= 1 => n = 1
  OBVIOUS
<1> QED
  BY <1>1, <1>2, Zenon

(* A part that is appended comes after what the folder lists. *)
LEMMA ExtendedItems ==
  ASSUME TypeOK, ListInv, NEW t \in Tabs, events # <<>>, NEW g, Extended(folder[t], Head(events), g)
  PROVE  /\ g.ticket = folder[t].ticket /\ g.stage = "Loading"
         /\ Len(g.items) = Len(folder[t].items) + 1 /\ Len(folder[t].items) \in Nat
         /\ Rank(Head(events)) \in 1..Parts
         /\ \A n \in 1..Len(g.items) :
              \/ n \in 1..Len(folder[t].items) /\ g.items[n] = folder[t].items[n]
                   /\ g.items[n].by = g.ticket /\ g.items[n].part < Rank(Head(events))
              \/ n = Len(folder[t].items) + 1 /\ g.items[n] = Head(events).items[1]
                   /\ g.items[n].by = g.ticket /\ g.items[n].part = Rank(Head(events))
<1> DEFINE f == folder[t]
           e == Head(events)
<1>1. e \in Operations /\ e = events[1] /\ 1 \in 1..Len(events)
  BY TailElements DEF TypeOK
<1>2. e.op = "Part" /\ e.items # <<>> /\ e.ticket = f.ticket /\ e.items \in Items
  BY <1>1, EventFacts DEF Extended
<1>3. Len(e.items) <= 1 /\ \A i \in 1..Len(e.items) : e.items[i].by = e.ticket
  BY <1>1, <1>2 DEF ListInv, EventOK
<1>4. Len(e.items) = 1
  BY <1>2, <1>3, OnePart
<1>5. Rank(e) \in 1..Parts /\ Rank(e) = e.items[1].part /\ e.items[1].by = f.ticket
  BY <1>1, <1>2, <1>3, <1>4, EventFacts
<1>6. Carries(events[1], f.ticket) /\ f.items \in Items /\ Len(f.items) \in Nat
  BY <1>1, <1>2, Typed, ItemTyped DEF Carries
<1>7. \A n \in 1..Len(f.items) : f.items[n].by = f.ticket /\ f.items[n].part < Rank(e)
  BY <1>1, <1>6 DEF ListInv, FolderOK
<1>8. g.ticket = f.ticket /\ g.stage = "Loading" /\ g.items = f.items \o e.items
  <2>1. Lists(g) = <<f.ticket, "Loading", f.file, f.items \o e.items>>
    BY DEF Extended
  <2> QED
    BY <2>1 DEF Lists
<1>9. /\ Len(g.items) = Len(f.items) + 1
      /\ \A i \in 1..Len(g.items) : \/ i \in 1..Len(f.items) /\ g.items[i] = f.items[i]
                                    \/ i = Len(f.items) + 1 /\ g.items[i] = e.items[1]
  <2> HIDE DEF f, e
  <2>1. /\ Len(f.items \o e.items) = Len(f.items) + 1
        /\ \A i \in 1..Len(f.items \o e.items) :
             \/ i \in 1..Len(f.items) /\ (f.items \o e.items)[i] = f.items[i]
             \/ i = Len(f.items) + 1 /\ (f.items \o e.items)[i] = e.items[1]
    BY <1>2, <1>4, <1>6, JoinElements
  <2> QED
    BY <1>8, <2>1, Zenon
<1> QED
  BY <1>5, <1>6, <1>7, <1>8, <1>9

(* A folder is told; the events behind move up. *)
LEMMA ListDelivers ==
  ASSUME TypeOK, TypeOK', ListInv, Delivers
  PROVE  ListInv'
<1> DEFINE e == Head(events)
<1>1. /\ issued \in Nat /\ issued' \in Nat /\ issued <= issued' /\ disk' = disk /\ job' = job
      /\ e.op \in {"Full", "Fail"} => issued' = issued + 1
  <2>1. issued \in Nat
    BY Typed
  <2> QED
    BY <2>1 DEF Delivers
<1>2. e \in Operations /\ e = events[1] /\ 1 \in 1..Len(events) /\ EventOK(e) /\ Len(events) \in Nat \ {0}
  <2>1. e \in Operations /\ e = events[1] /\ Len(events) \in Nat \ {0}
    BY Typed, TailElements DEF Delivers
  <2> QED
    BY <2>1 DEF ListInv
<1>3. \A i \in 1..Len(events') :
        i + 1 \in 1..Len(events) /\ 1 < i + 1 /\ events'[i] = events[i + 1] /\ EventOK(events'[i])
          /\ events'[i] \in Operations
  <2>1. \A i \in 1..Len(events') : i + 1 \in 2..Len(events) /\ events'[i] = events[i + 1]
    BY Typed, TailElements DEF Delivers
  <2>2. \A i \in 2..Len(events) : i \in 1..Len(events) /\ 1 < i
    BY <1>2
  <2> QED
    BY <2>1, <2>2, Typed DEF ListInv
<1>4. \A t \in Tabs : LET f == folder[t]  g == folder'[t] IN
        \/ Replaced(e, g) \/ Emptied(e, g) \/ Reset(f, e, g) \/ Extended(f, e, g) \/ Completed(f, e, g)
        \/ Lists(g) = Lists(f)
  <2> SUFFICES ASSUME NEW t \in Tabs
               PROVE  LET f == folder[t]  g == folder'[t] IN
                        \/ Replaced(e, g) \/ Emptied(e, g) \/ Reset(f, e, g) \/ Extended(f, e, g)
                        \/ Completed(f, e, g) \/ Lists(g) = Lists(f)
    OBVIOUS
  <2>1. folder[t] \in Folders
    BY Typed
  <2>2. CASE t # active
    BY <2>2 DEF Delivers
  <2>3. CASE t = active
    <3>1. Lists(folder'[t]) = Lists(Update(folder[t], e))
      BY <2>3 DEF Delivers
    <3> QED
      BY <1>2, <2>1, <3>1, UpdateCases DEF Ignored
  <2> QED
    BY <2>2, <2>3
<1>5. \A t \in Tabs : /\ FolderOK(folder[t]) /\ folder[t].ticket \in Nat /\ folder[t].items \in Items
                      /\ Len(folder[t].items) \in Nat
  BY Typed, ItemTyped DEF ListInv
<1> HIDE DEF e
<1>6. ASSUME NEW k \in Nat, NEW v \in Stats, Source(k, v)'
      PROVE  Source(k, v)
  <2>1. CASE job' # NoJob /\ job'.at > 0 /\ k = job'.ticket /\ v = job'.file
    BY <1>1, <2>1 DEF Source
  <2>2. ASSUME NEW i \in 1..Len(inbox'), inbox'[i].op = "Done", inbox'[i].result = "Part",
               k = inbox'[i].prev.ticket, v = inbox'[i].prev.file
        PROVE  Source(k, v)
    BY <2>2 DEF Delivers, Given, Source
  <2>3. ASSUME NEW i \in 1..Len(events'), events'[i].op = "Done", k = events'[i].ticket, v = events'[i].file
        PROVE  Source(k, v)
    BY <1>3, <2>3 DEF Source
  <2> QED
    BY <1>6, <2>1, <2>2, <2>3 DEF Source
<1>7. (job # NoJob => JobOK(job))'
  BY <1>1, Typed DEF ListInv, JobOK
<1>8. \A i \in 1..Len(inbox') : MessageOK(inbox[i])'
  <2> SUFFICES ASSUME NEW i \in 1..Len(inbox'), inbox'[i].op = "Done" PROVE MessageOK(inbox[i])'
    BY DEF MessageOK
  <2>1. PICK k \in 1..Len(inbox) : inbox'[i] = inbox[k]
    BY DEF Delivers, Given
  <2>2. MessageOK(inbox[k]) /\ inbox[k].prev.ticket \in Nat
    <3>1. inbox[k].prev \in Jobs
      BY <2>1, Typed, MessageFacts
    <3> QED
      BY <3>1 DEF ListInv, Jobs
  <2> QED
    BY <1>1, <2>1, <2>2 DEF MessageOK
<1>9. \A i \in 1..Len(events') : EventOK(events[i])'
  BY <1>1, <1>3, EventFacts DEF EventOK
<1>10. OrderInv'
  <2> SUFFICES ASSUME NEW i \in 1..Len(events'), NEW k \in 1..Len(events'), i < k,
                      events'[i].op = "Part", Carries(events'[k], events'[i].ticket)
               PROVE  Rank(events'[i]) < Rank(events'[k])
    BY DEF OrderInv, Carries, Rank
  <2>1. i + 1 \in 1..Len(events) /\ k + 1 \in 1..Len(events) /\ i + 1 < k + 1
        /\ events'[i] = events[i + 1] /\ events'[k] = events[k + 1]
    BY <1>3
  <2> QED
    BY <2>1 DEF ListInv, OrderInv
<1>11. AheadInv'
  BY <1>1, <1>3 DEF ListInv, AheadInv, Carries, Rank
<1>12. ASSUME NEW i \in 1..Len(events'), NEW k, Carries(events'[i], k)
       PROVE  k <= issued /\ k \in Nat
  BY <1>3, <1>12, EventFacts DEF EventOK, Carries
<1>13. \A t \in Tabs : FolderOK(folder[t])'
  <2> SUFFICES ASSUME NEW t \in Tabs PROVE FolderOK(folder[t])'
    OBVIOUS
  <2> DEFINE f == folder[t]
             g == folder'[t]
  <2>1. FolderOK(f) /\ f.ticket \in Nat /\ f.items \in Items /\ Len(f.items) \in Nat
    BY <1>5
  <2>2. CASE Lists(g) = Lists(f)
    <3>1. g.ticket = f.ticket /\ g.stage = f.stage /\ g.file = f.file /\ g.items = f.items
      BY <2>2 DEF Lists
    <3>2. g.ticket <= issued' /\ Sorted(g.items) /\ (g.stage = "Loaded" => Since(g.items, g.file))
      BY <1>1, <2>1, <3>1 DEF FolderOK
    <3>3. \A n \in 1..Len(g.items) : \A i \in 1..Len(events') :
            Carries(events'[i], g.ticket) => g.items[n].by = g.ticket /\ g.items[n].part < Rank(events'[i])
      BY <1>3, <2>1, <3>1 DEF FolderOK
    <3>4. \A n \in 1..Len(g.items) : job' # NoJob /\ job'.ticket = g.ticket =>
            g.items[n].by = g.ticket /\ g.items[n].part < job'.at
      BY <1>1, <2>1, <3>1 DEF FolderOK
    <3> QED
      BY <3>2, <3>3, <3>4 DEF FolderOK, Carries, Rank
  <2>3. CASE g.items = <<>> /\ g.ticket <= issued' /\ g.stage # "Loaded"
    BY <2>3 DEF FolderOK, Sorted
  <2>4. CASE Emptied(e, g)
    <3>1. g.items = <<>> /\ g.ticket = issued + 1 /\ g.stage = "Failed" /\ e.op = "Fail"
      BY <2>4 DEF Emptied, Lists
    <3> QED
      BY <1>1, <2>3, <3>1
  <2>5. CASE Reset(f, e, g)
    <3>1. g.items = <<>> /\ g.ticket = e.ticket /\ g.stage = "Loading" /\ e.op = "Part"
      BY <2>5 DEF Reset, Lists
    <3>2. e.ticket <= issued /\ e.ticket \in Nat
      BY <1>2, <3>1, EventFacts DEF EventOK
    <3> QED
      BY <1>1, <2>3, <3>1, <3>2
  <2>6. CASE Replaced(e, g)
    <3>1. g.items = e.items /\ g.ticket = issued + 1 /\ g.stage = "Loaded" /\ g.file = e.file /\ e.op = "Full"
      BY <2>6 DEF Replaced, Lists
    <3>2. Entire(e.items) /\ Since(e.items, e.file)
      BY <1>2, <3>1 DEF EventOK
    <3>3. Sorted(g.items)
      BY <3>1, <3>2 DEF Entire, Sorted
    <3>4. \A i \in 1..Len(events') : ~Carries(events'[i], g.ticket)
      <4> SUFFICES ASSUME NEW i \in 1..Len(events'), Carries(events'[i], g.ticket) PROVE FALSE
        OBVIOUS
      <4>1. g.ticket <= issued
        BY <1>12
      <4> QED
        BY <1>1, <3>1, <4>1
    <3>5. job # NoJob => job.ticket # g.ticket
      BY <1>1, <3>1, Typed DEF ListInv, JobOK
    <3> QED
      BY <1>1, <3>1, <3>2, <3>3, <3>4, <3>5 DEF FolderOK, Carries
  <2>7. CASE Extended(f, e, g)
    <3>1. /\ g.ticket = f.ticket /\ g.stage = "Loading"
          /\ Len(g.items) = Len(f.items) + 1
          /\ Rank(e) \in 1..Parts
          /\ \A n \in 1..Len(g.items) :
               \/ n \in 1..Len(f.items) /\ g.items[n] = f.items[n]
                    /\ g.items[n].by = g.ticket /\ g.items[n].part < Rank(e)
               \/ n = Len(f.items) + 1 /\ g.items[n] = e.items[1]
                    /\ g.items[n].by = g.ticket /\ g.items[n].part = Rank(e)
      BY <2>7, ExtendedItems DEF Delivers, e
    <3>2. e.op = "Part" /\ e.ticket = f.ticket /\ Carries(e, f.ticket)
      BY <2>7 DEF Extended, Carries
    <3>3. Sorted(g.items)
      <4> SUFFICES ASSUME NEW i \in 1..Len(g.items), NEW k \in 1..Len(g.items)
                   PROVE  g.items[i].by = g.items[k].by /\ (i < k => g.items[i].part < g.items[k].part)
        BY DEF Sorted
      <4>1. CASE k \in 1..Len(f.items) /\ g.items[k] = f.items[k] /\ i \in 1..Len(f.items) /\ g.items[i] = f.items[i]
        BY <2>1, <4>1 DEF FolderOK, Sorted
      <4>2. CASE k = Len(f.items) + 1 /\ g.items[k].by = g.ticket /\ g.items[k].part = Rank(e)
        <5>1. i < k => i # Len(f.items) + 1
          BY <2>1, <4>2
        <5>2. g.items[i].by = g.ticket /\ (i < k => g.items[i].part < Rank(e))
          BY <3>1, <5>1
        <5> QED
          BY <4>2, <5>2
      <4>3. CASE k \in 1..Len(f.items) /\ i = Len(f.items) + 1
        <5>1. ~(i < k)
          BY <2>1, <4>3
        <5>2. g.items[i].by = g.ticket /\ g.items[k].by = g.ticket
          BY <3>1
        <5> QED
          BY <5>1, <5>2
      <4> QED
        BY <3>1, <4>1, <4>2, <4>3
    <3>4. \A n \in 1..Len(g.items) : g.items[n].by = g.ticket /\ g.items[n].part <= Rank(e) /\ g.items[n].part \in Nat
      <4>1. \A n \in 1..Len(g.items) : g.items[n].part \in Nat
        BY <2>1, <3>1, ItemTyped, SMTT(60)
      <4> QED
        BY <3>1, <4>1
    <3>5. \A n \in 1..Len(g.items) : \A i \in 1..Len(events') :
            Carries(events'[i], g.ticket) => g.items[n].part < Rank(events'[i])
      <4> SUFFICES ASSUME NEW n \in 1..Len(g.items), NEW i \in 1..Len(events'), Carries(events'[i], g.ticket)
                   PROVE  g.items[n].part < Rank(events'[i])
        OBVIOUS
      <4>1. Rank(e) < Rank(events'[i])
        BY <1>2, <1>3, <3>1, <3>2 DEF ListInv, OrderInv
      <4>2. Rank(events'[i]) \in Nat
        BY <1>3, EventFacts DEF Carries
      <4> QED
        BY <3>1, <3>4, <4>1, <4>2
    <3>6. \A n \in 1..Len(g.items) : job' # NoJob /\ job'.ticket = g.ticket => g.items[n].part < job'.at
      <4>1. job # NoJob /\ job.ticket = f.ticket => Rank(e) < job.at /\ job.at \in Nat
        BY <1>2, <3>2, Typed, PartsAssumption DEF ListInv, AheadInv
      <4> QED
        BY <1>1, <3>1, <3>4, <4>1
    <3>7. g.ticket <= issued'
      BY <1>1, <2>1, <3>1 DEF FolderOK
    <3> QED
      BY <3>1, <3>3, <3>4, <3>5, <3>6, <3>7 DEF FolderOK, Carries, Rank
  <2>8. CASE Completed(f, e, g)
    <3>1. g.items = f.items /\ g.ticket = f.ticket /\ g.stage = "Loaded" /\ g.file = e.file
          /\ e.op = "Done" /\ e.ticket = f.ticket
      BY <2>8 DEF Completed, Lists
    <3>2. e.file \in Stats /\ Source(f.ticket, e.file)
      BY <1>2, <3>1, EventFacts DEF Source
    <3>3. Since(f.items, e.file)
      BY <2>1, <3>2 DEF ListInv, SourceOK
    <3>4. g.ticket <= issued' /\ Sorted(g.items)
      BY <1>1, <2>1, <3>1 DEF FolderOK
    <3>5. \A n \in 1..Len(g.items) : \A i \in 1..Len(events') :
            Carries(events'[i], g.ticket) => g.items[n].by = g.ticket /\ g.items[n].part < Rank(events'[i])
      BY <1>3, <2>1, <3>1 DEF FolderOK
    <3>6. \A n \in 1..Len(g.items) : job' # NoJob /\ job'.ticket = g.ticket =>
            g.items[n].by = g.ticket /\ g.items[n].part < job'.at
      BY <1>1, <2>1, <3>1 DEF FolderOK
    <3> QED
      BY <3>1, <3>3, <3>4, <3>5, <3>6 DEF FolderOK, Carries, Rank
  <2> QED
    BY <1>4, <2>2, <2>4, <2>5, <2>6, <2>7, <2>8
<1>14. \A k \in Nat, v \in Stats : Source(k, v)' => SourceOK(k, v)'
  <2> SUFFICES ASSUME NEW k \in Nat, NEW v \in Stats, Source(k, v)' PROVE SourceOK(k, v)'
    OBVIOUS
  <2>1. SourceOK(k, v) /\ k <= issued
    BY <1>6, SourceIssued DEF ListInv
  <2>2. \A i \in 1..Len(events') : Carries(events'[i], k) => Since(events'[i].items, v)
    BY <1>3, <2>1 DEF SourceOK
  <2>3. \A t \in Tabs : folder'[t].ticket = k => Since(folder'[t].items, v)
    <3> SUFFICES ASSUME NEW t \in Tabs, folder'[t].ticket = k PROVE Since(folder'[t].items, v)
      OBVIOUS
    <3> DEFINE f == folder[t]
               g == folder'[t]
    <3>1. CASE Replaced(e, g) \/ Emptied(e, g)
      <4>1. g.ticket = issued + 1
        BY <3>1 DEF Replaced, Emptied, Lists
      <4> QED
        BY <1>1, <2>1, <4>1
    <3>2. CASE Reset(f, e, g)
      BY <3>2 DEF Reset, Lists, Since
    <3>3. CASE Extended(f, e, g)
      <4>1. /\ g.ticket = f.ticket
            /\ \A n \in 1..Len(g.items) :
                 \/ n \in 1..Len(f.items) /\ g.items[n] = f.items[n]
                 \/ g.items[n] = e.items[1]
        BY <3>3, ExtendedItems DEF Delivers, e
      <4>2. Since(f.items, v)
        BY <2>1, <4>1 DEF SourceOK
      <4>3. Carries(e, k) /\ e.items # <<>> /\ e.items \in Items
        BY <1>2, <3>3, <4>1, EventFacts DEF Extended, Carries
      <4>4. Since(e.items, v)
        BY <1>2, <2>1, <4>3 DEF SourceOK
      <4>5. 1 \in 1..Len(e.items)
        <5>1. Len(e.items) \in Nat \ {0}
          BY <4>3, EmptySeq DEF Items
        <5> QED
          BY <5>1
      <4> QED
        BY <4>1, <4>2, <4>4, <4>5 DEF Since
    <3>4. CASE Completed(f, e, g) \/ Lists(g) = Lists(f)
      <4>1. g.ticket = f.ticket /\ g.items = f.items
        BY <3>4 DEF Completed, Lists
      <4> QED
        BY <2>1, <4>1 DEF SourceOK
    <3> QED
      BY <1>4, <3>1, <3>2, <3>3, <3>4
  <2> QED
    BY <1>1, <2>1, <2>2, <2>3 DEF SourceOK, Carries
<1> QED
  BY <1>7, <1>8, <1>9, <1>10, <1>11, <1>13, <1>14 DEF ListInv

LEMMA ListInit == Init => ListInv
<1> SUFFICES ASSUME Init PROVE ListInv
  OBVIOUS
<1>1. job = NoJob /\ inbox = <<>> /\ events = <<>> /\ issued = 0
  BY DEF Init
<1>2. \A t \in Tabs : FolderOK(folder[t])
  <2> SUFFICES ASSUME NEW t \in Tabs PROVE FolderOK(folder[t])
    OBVIOUS
  <2>1. folder[t].items = <<>> /\ folder[t].ticket = 0 /\ folder[t].stage = "Loading"
    BY DEF Init
  <2> QED
    BY <1>1, <2>1 DEF FolderOK, Sorted
<1>3. \A k \in Nat, v \in Stats : ~Source(k, v)
  BY <1>1 DEF Source
<1> QED
  BY <1>1, <1>2, <1>3 DEF ListInv, OrderInv, AheadInv

LEMMA Steps ==
  ASSUME TypeOK, [Next]_vars
  PROVE  Reads \/ Proceeds \/ Delivers
BY RequestReads, HandleReads, WorldReads, ReadOnReads, DeliverDelivers DEF Next

LEMMA ListAlways == Spec => []ListInv
<1>1. TypeOK /\ TypeOK' /\ ListInv /\ [Next]_vars => ListInv'
  BY Steps, ListReads, ListProceeds, ListDelivers
<1> QED
  BY <1>1, ListInit, TypeCorrect, PTL DEF Spec

(* The parts that a folder lists are of one reading, in order, and none of *)
(* them twice, whichever tabs the events went to (Folder::update).         *)
THEOREM ReadingsApart == Spec => []OneReading
<1>1. TypeOK /\ ListInv => OneReading
  <2> SUFFICES ASSUME TypeOK, ListInv, NEW t \in Tabs PROVE Sorted(folder[t].items) /\ DOMAIN folder[t].items = 1..Len(folder[t].items)
    BY DEF OneReading, Sorted
  <2> QED
    BY Typed DEF ListInv, FolderOK, Items
<1> QED
  BY <1>1, ListAlways, TypeCorrect, PTL

(* All that a loaded folder lists is at least as new as the stat that its  *)
(* next refresh compares with, for that was taken before the parts were    *)
(* read (refresher.rs).  That a refresh comes is not said.                 *)
THEOREM NoStatAhead == Spec => []NeverBlind
<1>1. TypeOK /\ ListInv => NeverBlind
  <2> SUFFICES ASSUME TypeOK, ListInv, NEW t \in Tabs, folder[t].stage = "Loaded"
               PROVE  Since(folder[t].items, folder[t].file) /\ DOMAIN folder[t].items = 1..Len(folder[t].items)
    BY DEF NeverBlind, Since
  <2> QED
    BY Typed DEF ListInv, FolderOK, Items
<1> QED
  BY <1>1, ListAlways, TypeCorrect, PTL

-----------------------------------------------------------------------------
(* A single tab gets every part.  Of a reading k, part p is behind the n-th *)
(* event: on its way before it, listed, or turned away with all of k by    *)
(* what the folder has got since.                                          *)
ResetDue(q, k) == \E i \in 1..Len(q) : Carries(q[i], k) /\ Rank(q[i]) = 0

Has(q, f, k, p, n) ==
  \/ \E i \in 1..Len(q) : i < n /\ Carries(q[i], k) /\ Rank(q[i]) = p
  \/ f.ticket = k /\ p <= Len(f.items)
  \/ f.ticket # k /\ ~ResetDue(q, k)

Ended ==
  job # NoJob =>
    /\ \A i \in 1..Len(inbox) : inbox[i].op = "Done" => inbox[i].prev.ticket # job.ticket
    /\ \A i \in 1..Len(events) : events[i].op = "Done" => events[i].ticket # job.ticket

Numbered(f) ==
  /\ \A i \in 1..Len(f.items) : f.items[i].part = i
  /\ f.stage = "Loaded" => Len(f.items) = Parts
  /\ ~ResetDue(events, f.ticket)
  /\ job # NoJob /\ job.ticket = f.ticket => job.at > 0

HasAll(f) ==
  /\ job # NoJob /\ job.stream /\ job.at > 0 => Has(events, f, job.ticket, job.at - 1, Len(events) + 1)
  /\ \A i \in 1..Len(inbox) : inbox[i].op = "Done" /\ inbox[i].result = "Part" =>
       Has(events, f, inbox[i].prev.ticket, Parts, Len(events) + 1)
  /\ \A i \in 1..Len(events) :
       /\ events[i].op = "Part" /\ Rank(events[i]) > 0 => Has(events, f, events[i].ticket, Rank(events[i]) - 1, i)
       /\ events[i].op = "Done" => Has(events, f, events[i].ticket, Parts, i)

WholeInv == Ended /\ \A t \in Tabs : Numbered(folder[t]) /\ HasAll(folder[t])

LEMMA EndedReads ==
  ASSUME TypeOK, ListInv, Ended, Reads
  PROVE  Ended'
<1> SUFFICES ASSUME job' # NoJob
             PROVE  /\ \A i \in 1..Len(inbox') : inbox'[i].op = "Done" => inbox'[i].prev.ticket # job'.ticket
                    /\ \A i \in 1..Len(events') : events'[i].op = "Done" => events'[i].ticket # job'.ticket
  BY DEF Ended
<1>1. \A i \in 1..Len(inbox) : inbox[i].op = "Done" =>
        inbox[i].prev.ticket \in Nat /\ inbox[i].prev.ticket <= issued /\ inbox[i].prev.ticket # job'.ticket
  <2> SUFFICES ASSUME NEW i \in 1..Len(inbox), inbox[i].op = "Done"
               PROVE  inbox[i].prev.ticket \in Nat /\ inbox[i].prev.ticket <= issued
                        /\ inbox[i].prev.ticket # job'.ticket
    OBVIOUS
  <2>1. inbox[i].prev \in Jobs
    BY Typed, MessageFacts
  <2>2. inbox[i].prev.ticket \in Nat /\ inbox[i].prev.ticket <= issued /\ issued \in Nat
    BY <2>1, Typed DEF ListInv, MessageOK, Jobs
  <2>3. CASE JobSame
    BY <2>2, <2>3 DEF JobSame, Ended
  <2>4. CASE JobNew
    BY <2>2, <2>4 DEF JobNew
  <2> QED
    BY <2>2, <2>3, <2>4 DEF Reads
<1>2. \A i \in 1..Len(events) : events[i].op = "Done" => events[i].ticket # job'.ticket
  <2> SUFFICES ASSUME NEW i \in 1..Len(events), events[i].op = "Done" PROVE events[i].ticket # job'.ticket
    OBVIOUS
  <2>1. events[i].ticket \in Nat /\ events[i].ticket <= issued /\ issued \in Nat
    BY Typed, EventFacts DEF ListInv, EventOK
  <2>2. CASE JobSame
    BY <2>2 DEF JobSame, Ended
  <2>3. CASE JobNew
    BY <2>1, <2>3 DEF JobNew
  <2> QED
    BY <2>2, <2>3 DEF Reads
<1>3. \A i \in 1..Len(inbox') : inbox'[i].op = "Done" => inbox'[i].prev.ticket # job'.ticket
  BY <1>1 DEF Reads, AnswersKnown, AnswerOfJob, Given
<1>4. \A i \in 1..Len(events') : events'[i].op = "Done" => events'[i].ticket # job'.ticket
  <2> SUFFICES ASSUME NEW i \in 1..Len(events'), events'[i].op = "Done" PROVE events'[i].ticket # job'.ticket
    OBVIOUS
  <2>1. CASE i \in 1..Len(events) /\ events'[i] = events[i]
    BY <1>2, <2>1
  <2>2. CASE Handed(events'[i])
    <3>1. PICK m \in 1..Len(inbox) : inbox[m].op = "Done" /\ OutcomeOf(inbox[m], events'[i])
      BY <2>2 DEF Handed
    <3> QED
      BY <1>1, <3>1 DEF OutcomeOf
  <2> QED
    BY <2>1, <2>2, Typed, AppendElements DEF Reads
<1> QED
  BY <1>3, <1>4

LEMMA WholeReads ==
  ASSUME TypeOK, TypeOK', ListInv, WholeInv, Reads
  PROVE  WholeInv'
<1>1. \A t \in Tabs : /\ folder'[t].ticket = folder[t].ticket /\ folder'[t].stage = folder[t].stage
                      /\ folder'[t].file = folder[t].file /\ folder'[t].items = folder[t].items
  BY DEF Reads, SameLists, Lists
<1>2. /\ \A i \in 1..Len(events') : \/ i \in 1..Len(events) /\ events'[i] = events[i]
                                    \/ Handed(events'[i]) /\ i = Len(events) + 1
      /\ \A i \in 1..Len(events) : i \in 1..Len(events') /\ events'[i] = events[i]
      /\ Len(events) \in Nat /\ Len(events') \in Nat /\ Len(events) <= Len(events')
  <2>1. Len(events) \in Nat
    BY Typed
  <2>2. CASE events' = events
    BY <2>1, <2>2
  <2>3. ASSUME NEW e \in Operations, Handed(e), events' = Append(events, e)
        PROVE  <1>2
    BY <2>1, <2>3, Typed, AppendElements
  <2> QED
    BY <2>2, <2>3 DEF Reads
<1>3. \A i \in 1..Len(events') : events'[i].op = "Part" => i \in 1..Len(events) /\ events'[i] = events[i]
  BY <1>2, HandedOp
<1>4. \A k : ResetDue(events', k) => ResetDue(events, k)
  BY <1>3 DEF ResetDue, Carries
<1>5. ASSUME NEW t \in Tabs, NEW k, NEW p, NEW n \in Int, NEW m \in Int, n <= m, Has(events, folder[t], k, p, n)
      PROVE  Has(events', folder'[t], k, p, m)
  <2>1. CASE \E i \in 1..Len(events) : i < n /\ Carries(events[i], k) /\ Rank(events[i]) = p
    <3>1. PICK i \in 1..Len(events) : i < n /\ Carries(events[i], k) /\ Rank(events[i]) = p
      BY <2>1
    <3>2. i < m /\ i \in 1..Len(events') /\ events'[i] = events[i]
      BY <1>2, <1>5, <3>1
    <3> QED
      BY <3>1, <3>2 DEF Has
  <2>2. CASE folder[t].ticket = k /\ p <= Len(folder[t].items)
    BY <1>1, <2>2 DEF Has
  <2>3. CASE folder[t].ticket # k /\ ~ResetDue(events, k)
    BY <1>1, <1>4, <2>3 DEF Has
  <2> QED
    BY <1>5, <2>1, <2>2, <2>3 DEF Has
<1>6. \A t \in Tabs : Numbered(folder[t])'
  <2> SUFFICES ASSUME NEW t \in Tabs PROVE Numbered(folder[t])'
    OBVIOUS
  <2>1. Numbered(folder[t])
    BY DEF WholeInv
  <2>2. job' # NoJob /\ job'.ticket = folder[t].ticket => job'.at > 0
    <3>1. CASE JobSame
      BY <2>1, <3>1 DEF JobSame, Numbered
    <3>2. CASE JobNew
      BY <3>2, Typed DEF JobNew, ListInv, FolderOK
    <3> QED
      BY <3>1, <3>2 DEF Reads
  <2> QED
    BY <1>1, <1>4, <2>1, <2>2 DEF Numbered
<1>7. \A t \in Tabs : HasAll(folder[t])'
  <2> SUFFICES ASSUME NEW t \in Tabs PROVE HasAll(folder[t])'
    OBVIOUS
  <2> DEFINE N  == Len(events) + 1
             N2 == Len(events') + 1
  <2>1. HasAll(folder[t]) /\ N \in Int /\ N2 \in Int /\ N <= N2
    BY <1>2 DEF WholeInv
  <2>2. job' # NoJob /\ job'.stream /\ job'.at > 0 => Has(events', folder'[t], job'.ticket, job'.at - 1, N2)
    <3> SUFFICES ASSUME job' # NoJob, job'.stream, job'.at > 0
                 PROVE  Has(events', folder'[t], job'.ticket, job'.at - 1, N2)
      OBVIOUS
    <3>1. JobSame
      BY DEF Reads, JobNew
    <3>2. Has(events, folder[t], job'.ticket, job'.at - 1, N)
      BY <2>1, <3>1 DEF JobSame, HasAll
    <3> HIDE DEF N, N2
    <3> QED
      BY <1>5, <2>1, <3>2
  <2>3. \A i \in 1..Len(inbox) : inbox[i].op = "Done" /\ inbox[i].result = "Part" =>
          Has(events, folder[t], inbox[i].prev.ticket, Parts, N)
    BY <2>1 DEF HasAll
  <2>4. \A i \in 1..Len(inbox') : inbox'[i].op = "Done" /\ inbox'[i].result = "Part" =>
          Has(events', folder'[t], inbox'[i].prev.ticket, Parts, N2)
    <3> SUFFICES ASSUME NEW i \in 1..Len(inbox'), inbox'[i].op = "Done", inbox'[i].result = "Part"
                 PROVE  Has(events', folder'[t], inbox'[i].prev.ticket, Parts, N2)
      OBVIOUS
    <3>1. Has(events, folder[t], inbox'[i].prev.ticket, Parts, N)
      <4>1. CASE Given(inbox'[i])
        BY <2>3, <4>1 DEF Given
      <4>2. CASE AnswerOfJob(inbox'[i])
        <5>1. job # NoJob /\ inbox'[i].prev = job /\ job.at = Parts + 1 /\ job.stream
          BY <4>2 DEF AnswerOfJob
        <5>2. Has(events, folder[t], job.ticket, job.at - 1, N)
          BY <2>1, <5>1, PartsAssumption DEF HasAll
        <5>3. job.at - 1 = Parts
          BY <5>1, PartsAssumption
        <5> QED
          BY <5>1, <5>2, <5>3
      <4> QED
        BY <4>1, <4>2 DEF Reads, AnswersKnown
    <3> HIDE DEF N, N2
    <3> QED
      BY <1>5, <2>1, <3>1
  <2>5. \A i \in 1..Len(events') : events'[i].op = "Part" /\ Rank(events'[i]) > 0 =>
          Has(events', folder'[t], events'[i].ticket, Rank(events'[i]) - 1, i)
    <3> SUFFICES ASSUME NEW i \in 1..Len(events'), events'[i].op = "Part", Rank(events'[i]) > 0
                 PROVE  Has(events', folder'[t], events'[i].ticket, Rank(events'[i]) - 1, i)
      OBVIOUS
    <3>1. Has(events, folder[t], events'[i].ticket, Rank(events'[i]) - 1, i)
      BY <1>3, <2>1 DEF HasAll
    <3> DEFINE k == events'[i].ticket
               p == Rank(events'[i]) - 1
    <3>2. i \in Int /\ i <= i /\ Has(events, folder[t], k, p, i)
      BY <3>1
    <3> HIDE DEF k, p
    <3>3. Has(events', folder'[t], k, p, i)
      BY <1>5, <3>2
    <3> QED
      BY <3>3 DEF k, p
  <2>6. \A i \in 1..Len(events') : events'[i].op = "Done" => Has(events', folder'[t], events'[i].ticket, Parts, i)
    <3> SUFFICES ASSUME NEW i \in 1..Len(events'), events'[i].op = "Done"
                 PROVE  Has(events', folder'[t], events'[i].ticket, Parts, i)
      OBVIOUS
    <3>1. Has(events, folder[t], events'[i].ticket, Parts, i)
      <4>1. CASE i \in 1..Len(events) /\ events'[i] = events[i]
        BY <2>1, <4>1 DEF HasAll
      <4>2. CASE Handed(events'[i]) /\ i = Len(events) + 1
        <5>1. PICK m \in 1..Len(inbox) : inbox[m].op = "Done" /\ OutcomeOf(inbox[m], events'[i])
          BY <4>2 DEF Handed
        <5>2. inbox[m].result = "Part" /\ events'[i].ticket = inbox[m].prev.ticket
          BY <5>1 DEF OutcomeOf
        <5> QED
          BY <2>3, <4>2, <5>1, <5>2
      <4> QED
        BY <1>2, <4>1, <4>2
    <3> QED
      BY <1>5, <3>1
  <2> QED
    BY <2>2, <2>4, <2>5, <2>6 DEF HasAll
<1> QED
  BY <1>6, <1>7, EndedReads DEF WholeInv

LEMMA WholeProceeds ==
  ASSUME TypeOK, TypeOK', ListInv, WholeInv, Proceeds
  PROVE  WholeInv'
<1>1. \A t \in Tabs : /\ folder'[t].ticket = folder[t].ticket /\ folder'[t].stage = folder[t].stage
                      /\ folder'[t].file = folder[t].file /\ folder'[t].items = folder[t].items
  BY DEF Proceeds, SameLists, Lists
<1>2. /\ job # NoJob /\ job' # NoJob /\ job.at \in Nat /\ inbox' = inbox
      /\ job'.ticket = job.ticket /\ job'.stream = job.stream /\ job'.at = job.at + 1
  BY Typed, PartsAssumption DEF Proceeds
<1>3. NextPart \in Operations /\ Carries(NextPart, job.ticket) /\ Rank(NextPart) = job.at /\ NextPart.op = "Part"
  BY NextPartFacts DEF Carries
<1> HIDE DEF NextPart
<1>4. /\ \A i \in 1..Len(events') : \/ i \in 1..Len(events) /\ events'[i] = events[i]
                                    \/ job.stream /\ i = Len(events) + 1 /\ events'[i] = NextPart
      /\ \A i \in 1..Len(events) : i \in 1..Len(events') /\ events'[i] = events[i]
      /\ job.stream => Len(events') = Len(events) + 1 /\ events'[Len(events')] = NextPart
      /\ Len(events) \in Nat /\ Len(events') \in Nat /\ Len(events) <= Len(events')
  <2>1. Len(events) \in Nat
    BY Typed
  <2>2. CASE ~job.stream
    BY <2>1, <2>2 DEF Proceeds
  <2>3. CASE job.stream
    <3>1. events' = Append(events, NextPart)
      BY <2>3 DEF Proceeds
    <3>2. Len(events') = Len(events) + 1 /\ events'[Len(events')] = NextPart
      BY <1>3, <3>1, Typed
    <3> QED
      BY <1>3, <2>1, <2>3, <3>1, <3>2, Typed, AppendElements
  <2> QED
    BY <2>2, <2>3
<1>5. ASSUME NEW k, ResetDue(events', k), ~ResetDue(events, k)
      PROVE  job.stream /\ job.at = 0 /\ k = job.ticket
  <2>1. PICK i \in 1..Len(events') : Carries(events'[i], k) /\ Rank(events'[i]) = 0
    BY <1>5 DEF ResetDue
  <2>2. job.stream /\ events'[i] = NextPart
    BY <1>4, <1>5, <2>1 DEF ResetDue
  <2> QED
    BY <1>3, <2>1, <2>2 DEF Carries
<1>6. ASSUME NEW t \in Tabs, NEW k, NEW p, NEW n \in Int, NEW m \in Int, n <= m, Has(events, folder[t], k, p, n),
             k # job.ticket \/ job.at > 0
      PROVE  Has(events', folder'[t], k, p, m)
  <2>1. CASE \E i \in 1..Len(events) : i < n /\ Carries(events[i], k) /\ Rank(events[i]) = p
    <3>1. PICK i \in 1..Len(events) : i < n /\ Carries(events[i], k) /\ Rank(events[i]) = p
      BY <2>1
    <3>2. i < m /\ i \in 1..Len(events') /\ events'[i] = events[i]
      BY <1>4, <1>6, <3>1
    <3> QED
      BY <3>1, <3>2 DEF Has
  <2>2. CASE folder[t].ticket = k /\ p <= Len(folder[t].items)
    BY <1>1, <2>2 DEF Has
  <2>3. CASE folder[t].ticket # k /\ ~ResetDue(events, k)
    BY <1>1, <1>5, <1>6, <2>3 DEF Has
  <2> QED
    BY <1>6, <2>1, <2>2, <2>3 DEF Has
<1>7. Ended'
  <2>1. \A i \in 1..Len(events') : events'[i].op = "Done" => i \in 1..Len(events) /\ events'[i] = events[i]
    BY <1>3, <1>4
  <2> QED
    BY <1>2, <2>1 DEF WholeInv, Ended
<1>8. \A t \in Tabs : Numbered(folder[t])'
  BY <1>1, <1>2, <1>5 DEF WholeInv, Numbered
<1>9. \A t \in Tabs : HasAll(folder[t])'
  <2> SUFFICES ASSUME NEW t \in Tabs PROVE HasAll(folder[t])'
    OBVIOUS
  <2> DEFINE N  == Len(events) + 1
             N2 == Len(events') + 1
  <2>1. HasAll(folder[t]) /\ N \in Int /\ N2 \in Int /\ N <= N2
    BY <1>4 DEF WholeInv
  <2>2. job' # NoJob /\ job'.stream /\ job'.at > 0 => Has(events', folder'[t], job'.ticket, job'.at - 1, N2)
    <3> SUFFICES ASSUME job.stream PROVE Has(events', folder'[t], job.ticket, job.at, N2)
      BY <1>2
    <3>1. /\ Len(events') \in 1..Len(events') /\ Len(events') < N2
          /\ Carries(events'[Len(events')], job.ticket) /\ Rank(events'[Len(events')]) = job.at
      BY <1>3, <1>4
    <3> QED
      BY <3>1 DEF Has
  <2>3. \A i \in 1..Len(inbox') : inbox'[i].op = "Done" /\ inbox'[i].result = "Part" =>
          Has(events', folder'[t], inbox'[i].prev.ticket, Parts, N2)
    <3> SUFFICES ASSUME NEW i \in 1..Len(inbox), inbox[i].op = "Done", inbox[i].result = "Part"
                 PROVE  Has(events', folder'[t], inbox[i].prev.ticket, Parts, N2)
      BY <1>2
    <3>1. Has(events, folder[t], inbox[i].prev.ticket, Parts, N)
      BY <2>1 DEF HasAll
    <3>2. inbox[i].prev.ticket # job.ticket
      BY <1>2 DEF WholeInv, Ended
    <3> HIDE DEF N, N2
    <3> QED
      BY <1>6, <2>1, <3>1, <3>2
  <2>4. \A i \in 1..Len(events') : events'[i].op = "Part" /\ Rank(events'[i]) > 0 =>
          Has(events', folder'[t], events'[i].ticket, Rank(events'[i]) - 1, i)
    <3> SUFFICES ASSUME NEW i \in 1..Len(events'), events'[i].op = "Part", Rank(events'[i]) > 0
                 PROVE  Has(events', folder'[t], events'[i].ticket, Rank(events'[i]) - 1, i)
      OBVIOUS
    <3>1. CASE i \in 1..Len(events) /\ events'[i] = events[i]
      <4>1. Has(events, folder[t], events'[i].ticket, Rank(events'[i]) - 1, i)
        BY <2>1, <3>1 DEF HasAll
      <4>2. events'[i].ticket # job.ticket \/ job.at > 0
        <5>1. events'[i].ticket = job.ticket => Rank(events'[i]) < job.at
          BY <1>2, <3>1 DEF ListInv, AheadInv, Carries
        <5>2. Rank(events'[i]) \in Nat
          BY <3>1, EventFacts, Typed
        <5> QED
          BY <1>2, <5>1, <5>2
      <4>3. \A p : Has(events, folder[t], events'[i].ticket, p, i) => Has(events', folder'[t], events'[i].ticket, p, i)
        BY <1>6, <4>2
      <4> QED
        BY <4>1, <4>3, Zenon
    <3>2. CASE job.stream /\ i = Len(events) + 1 /\ events'[i] = NextPart
      <4>1. events'[i].ticket = job.ticket /\ Rank(events'[i]) = job.at /\ job.at > 0
        BY <1>3, <3>2 DEF Carries
      <4>2. Has(events, folder[t], job.ticket, job.at - 1, i)
        BY <1>2, <2>1, <3>2, <4>1 DEF HasAll
      <4>3. \A p : Has(events, folder[t], job.ticket, p, i) => Has(events', folder'[t], job.ticket, p, i)
        <5>1. i \in Int /\ i <= i
          OBVIOUS
        <5>2. job.at > 0
          BY <4>1
        <5> QED
          BY <1>6, <5>1, <5>2
      <4>4. Has(events', folder'[t], job.ticket, job.at - 1, i)
        BY <4>2, <4>3, Zenon
      <4> QED
        BY <4>1, <4>4
    <3> QED
      BY <1>4, <3>1, <3>2
  <2>5. \A i \in 1..Len(events') : events'[i].op = "Done" => Has(events', folder'[t], events'[i].ticket, Parts, i)
    <3> SUFFICES ASSUME NEW i \in 1..Len(events'), events'[i].op = "Done"
                 PROVE  Has(events', folder'[t], events'[i].ticket, Parts, i)
      OBVIOUS
    <3>1. i \in 1..Len(events) /\ events'[i] = events[i]
      BY <1>3, <1>4
    <3>2. Has(events, folder[t], events'[i].ticket, Parts, i) /\ events'[i].ticket # job.ticket
      BY <1>2, <2>1, <3>1 DEF HasAll, WholeInv, Ended
    <3> QED
      BY <1>6, <3>2, SMTT(60)
  <2> QED
    BY <2>2, <2>3, <2>4, <2>5 DEF HasAll
<1> QED
  BY <1>7, <1>8, <1>9 DEF WholeInv

(* The event moves out of the queue, and its part into the folder. *)
LEMMA WholeDelivers ==
  ASSUME NEW t, Tabs = {t}, TypeOK, TypeOK', ListInv, WholeInv, Delivers
  PROVE  WholeInv'
<1> DEFINE e == Head(events)
           f == folder[t]
           g == folder'[t]
<1>1. /\ issued \in Nat /\ job' = job /\ t \in Tabs
      /\ e \in Operations /\ e = events[1] /\ 1 \in 1..Len(events) /\ EventOK(e)
      /\ Len(events) \in Nat /\ Len(events') = Len(events) - 1
  <2>1. e \in Operations /\ e = events[1] /\ Len(events) \in Nat \ {0} /\ Len(events') = Len(events) - 1
    BY Typed, TailElements DEF Delivers
  <2> QED
    BY <2>1, Typed DEF ListInv, Delivers
<1>2. /\ \A i \in 1..Len(events') : i + 1 \in 2..Len(events) /\ events'[i] = events[i + 1]
      /\ \A i \in 2..Len(events) : i - 1 \in 1..Len(events') /\ events'[i - 1] = events[i]
  BY Typed, TailElements DEF Delivers
<1>3. \A i \in 1..Len(events') : i + 1 \in 1..Len(events) /\ 1 < i + 1 /\ events'[i] = events[i + 1]
  BY <1>1, <1>2
<1>4. Replaced(e, g) \/ Emptied(e, g) \/ Reset(f, e, g) \/ Extended(f, e, g) \/ Completed(f, e, g)
        \/ Ignored(f, e, g)
  <2>1. f \in Folders /\ active = t
    BY Typed DEF TypeOK
  <2>2. Lists(g) = Lists(Update(f, e))
    BY <1>1, <2>1 DEF Delivers
  <2> QED
    BY <1>1, <2>1, <2>2, UpdateCases
<1>5. /\ FolderOK(f) /\ Numbered(f) /\ HasAll(f) /\ f.ticket \in Nat /\ f.ticket <= issued
      /\ f.items \in Items /\ Len(f.items) \in Nat
  BY <1>1, Typed, ItemTyped DEF ListInv, WholeInv, FolderOK
<1> HIDE DEF e, f, g
<1>6. Replaced(e, g) => /\ e.op = "Full" /\ g.ticket = issued + 1 /\ g.items = e.items
                        /\ Len(g.items) = Parts /\ \A i \in 1..Len(g.items) : g.items[i].part = i
  <2> SUFFICES ASSUME Replaced(e, g)
               PROVE  /\ e.op = "Full" /\ g.ticket = issued + 1 /\ g.items = e.items
                      /\ Len(g.items) = Parts /\ \A i \in 1..Len(g.items) : g.items[i].part = i
    OBVIOUS
  <2>1. e.op = "Full" /\ g.ticket = issued + 1 /\ g.items = e.items
    BY DEF Replaced, Lists
  <2> QED
    BY <1>1, <2>1 DEF EventOK, Entire
<1>7. Emptied(e, g) => e.op = "Fail" /\ g.ticket = issued + 1 /\ g.items = <<>> /\ g.stage = "Failed"
  BY DEF Emptied, Lists
<1>8. Reset(f, e, g) => /\ e.op = "Part" /\ e.items = <<>> /\ Rank(e) = 0 /\ Carries(e, e.ticket)
                        /\ g.ticket = e.ticket /\ g.items = <<>> /\ g.stage = "Loading"
  BY DEF Reset, Lists, Rank, Carries
<1>9. Extended(f, e, g) =>
        /\ e.op = "Part" /\ e.ticket = f.ticket /\ g.ticket = f.ticket /\ g.stage = "Loading"
        /\ Rank(e) = Len(f.items) + 1 /\ Len(g.items) = Len(f.items) + 1
        /\ \A i \in 1..Len(g.items) : g.items[i].part = i
  <2> SUFFICES ASSUME Extended(f, e, g)
               PROVE  /\ e.op = "Part" /\ e.ticket = f.ticket /\ g.ticket = f.ticket /\ g.stage = "Loading"
                      /\ Rank(e) = Len(f.items) + 1 /\ Len(g.items) = Len(f.items) + 1
                      /\ \A i \in 1..Len(g.items) : g.items[i].part = i
    OBVIOUS
  <2>1. e.op = "Part" /\ e.ticket = f.ticket
    BY DEF Extended
  <2>2. /\ g.ticket = f.ticket /\ g.stage = "Loading"
        /\ Len(g.items) = Len(f.items) + 1
        /\ Rank(e) \in 1..Parts
        /\ \A n \in 1..Len(g.items) :
             \/ n \in 1..Len(f.items) /\ g.items[n] = f.items[n] /\ g.items[n].part < Rank(e)
             \/ n = Len(f.items) + 1 /\ g.items[n].part = Rank(e)
    BY <1>1, ExtendedItems, SMTT(60) DEF Delivers, e, f, g
  <2>3. Rank(e) - 1 <= Len(f.items)
    <3>1. Has(events, f, e.ticket, Rank(e) - 1, 1)
      BY <1>1, <1>5, <2>1, <2>2 DEF HasAll
    <3>2. \A i \in 1..Len(events) : ~(i < 1)
      BY <1>1
    <3> QED
      BY <2>1, <3>1, <3>2 DEF Has
  <2>4. Len(f.items) < Rank(e)
    <3>1. CASE Len(f.items) = 0
      BY <2>2, <3>1
    <3>2. CASE Len(f.items) # 0
      <4>1. Len(f.items) \in 1..Len(f.items) /\ Len(f.items) \in 1..Len(g.items) /\ Len(f.items) # Len(f.items) + 1
        BY <1>5, <2>2, <3>2
      <4>2. f.items[Len(f.items)].part = Len(f.items)
        BY <1>5, <4>1 DEF Numbered
      <4> QED
        BY <2>2, <4>1, <4>2
    <3> QED
      BY <3>1, <3>2
  <2>5. Rank(e) = Len(f.items) + 1
    BY <1>5, <2>2, <2>3, <2>4
  <2>6. \A i \in 1..Len(g.items) : g.items[i].part = i
    BY <1>5, <2>2, <2>5 DEF Numbered
  <2> QED
    BY <2>1, <2>2, <2>5, <2>6
<1>10. Completed(f, e, g) => /\ e.op = "Done" /\ g.ticket = f.ticket /\ g.items = f.items
                             /\ Len(f.items) = Parts
  <2> SUFFICES ASSUME Completed(f, e, g)
               PROVE  e.op = "Done" /\ g.ticket = f.ticket /\ g.items = f.items /\ Len(f.items) = Parts
    OBVIOUS
  <2>1. e.op = "Done" /\ e.ticket = f.ticket /\ g.ticket = f.ticket /\ g.items = f.items
    BY DEF Completed, Lists
  <2>2. Has(events, f, e.ticket, Parts, 1)
    BY <1>1, <1>5, <2>1 DEF HasAll
  <2>3. Parts <= Len(f.items)
    <3>1. \A i \in 1..Len(events) : ~(i < 1)
      BY <1>1
    <3> QED
      BY <2>1, <2>2, <3>1 DEF Has
  <2>4. Len(f.items) \in 1..Len(f.items)
    BY <1>5, <2>3, PartsAssumption
  <2>5. Len(f.items) <= Parts
    BY <1>5, <2>4, ItemTyped DEF Numbered
  <2> QED
    BY <1>5, <2>1, <2>3, <2>5, PartsAssumption
<1>11. Ignored(f, e, g) => g.ticket = f.ticket /\ g.items = f.items /\ g.stage = f.stage
  BY DEF Ignored, Lists
<1>12. \A k : ResetDue(events', k) => ResetDue(events, k)
  BY <1>3 DEF ResetDue
<1>13. ASSUME NEW k, Carries(e, k)
       PROVE  ~ResetDue(events', k) /\ (Rank(e) = 0 => ResetDue(events, k))
  <2>1. \A i \in 1..Len(events') : Carries(events'[i], k) => Rank(e) < Rank(events'[i])
    BY <1>1, <1>3, <1>13 DEF ListInv, OrderInv, Carries
  <2>2. Rank(e) \in Nat
    BY <1>1, <1>13, EventFacts DEF Carries
  <2> QED
    BY <1>1, <1>13, <2>1, <2>2 DEF ResetDue
<1>14. ASSUME NEW i \in 1..Len(events), events[i].op \in {"Part", "Done"}
       PROVE  events[i].ticket \in Nat /\ events[i].ticket <= issued
  BY <1>14, Typed, EventFacts DEF ListInv, EventOK
<1>15. ASSUME NEW k \in Nat, k <= issued, NEW p \in Int, NEW n \in Int, Has(events, f, k, p, n)
       PROVE  Has(events', g, k, p, n - 1)
  <2>1. g.ticket = issued + 1 => g.ticket # k
    BY <1>1, <1>15
  <2>2. CASE f.ticket = k /\ p <= Len(f.items)
    <3>1. ~ResetDue(events, k) /\ ~ResetDue(events', k)
      BY <1>5, <1>12, <2>2 DEF Numbered
    <3>2. CASE Reset(f, e, g)
      BY <1>8, <1>13, <3>1, <3>2 DEF Has
    <3>3. CASE Extended(f, e, g)
      <4>1. g.ticket = k /\ Len(g.items) = Len(f.items) + 1
        BY <1>9, <2>2, <3>3
      <4>2. p <= Len(g.items)
        BY <1>5, <2>2, <4>1
      <4> QED
        BY <4>1, <4>2 DEF Has
    <3>4. CASE Completed(f, e, g) \/ Ignored(f, e, g)
      BY <1>10, <1>11, <2>2, <3>4 DEF Has
    <3>5. CASE Replaced(e, g) \/ Emptied(e, g)
      BY <1>6, <1>7, <2>1, <3>1, <3>5 DEF Has
    <3> QED
      BY <1>4, <3>2, <3>3, <3>4, <3>5
  <2>3. CASE f.ticket # k /\ ~ResetDue(events, k)
    <3>1. ~ResetDue(events', k)
      BY <1>12, <2>3
    <3>2. CASE Reset(f, e, g)
      BY <1>8, <1>13, <2>3, <3>1, <3>2 DEF Has
    <3>3. CASE Extended(f, e, g) \/ Completed(f, e, g) \/ Ignored(f, e, g)
      BY <1>9, <1>10, <1>11, <2>3, <3>1, <3>3 DEF Has
    <3>4. CASE Replaced(e, g) \/ Emptied(e, g)
      BY <1>6, <1>7, <2>1, <3>1, <3>4 DEF Has
    <3> QED
      BY <1>4, <3>2, <3>3, <3>4
  <2>4. ASSUME NEW i \in 1..Len(events), i < n, Carries(events[i], k), Rank(events[i]) = p
        PROVE  Has(events', g, k, p, n - 1)
    <3>1. CASE i # 1
      <4>1. i \in 2..Len(events) /\ i - 1 < n - 1
        BY <1>1, <2>4, <3>1
      <4>2. i - 1 \in 1..Len(events') /\ events'[i - 1] = events[i]
        BY <1>2, <4>1
      <4> QED
        BY <2>4, <4>1, <4>2 DEF Has
    <3>2. CASE i = 1
      <4>1. Carries(e, k) /\ Rank(e) = p /\ e.op = "Part" /\ e.ticket = k /\ ~ResetDue(events', k)
        BY <1>1, <1>13, <2>4, <3>2 DEF Carries
      <4>2. Rank(e) \in 0..Parts
        BY <1>1, <4>1, EventFacts
      <4>3. CASE Reset(f, e, g)
        <5>1. g.ticket = k /\ p = 0 /\ Len(g.items) = 0
          BY <1>8, <4>1, <4>3
        <5> QED
          BY <5>1 DEF Has
      <4>4. CASE Extended(f, e, g)
        <5>1. g.ticket = k /\ p = Len(g.items) /\ Len(g.items) \in Nat
          BY <1>5, <1>9, <4>1, <4>4
        <5>2. p <= Len(g.items)
          BY <5>1
        <5> QED
          BY <5>1, <5>2 DEF Has
      <4>5. CASE Ignored(f, e, g)
        <5>1. CASE g.ticket # k
          BY <4>1, <5>1 DEF Has
        <5>2. CASE g.ticket = k
          <6>1. f.stage = "Loaded"
            BY <1>11, <4>1, <4>5, <5>2 DEF Ignored, Late
          <6>2. Len(g.items) = Parts
            BY <1>5, <1>11, <4>5, <6>1 DEF Numbered
          <6>3. p <= Len(g.items)
            BY <4>1, <4>2, <6>2, PartsAssumption
          <6> QED
            BY <5>2, <6>3 DEF Has
        <5> QED
          BY <5>1, <5>2
      <4>6. ~Replaced(e, g) /\ ~Emptied(e, g) /\ ~Completed(f, e, g)
        BY <4>1 DEF Replaced, Emptied, Completed
      <4> QED
        BY <1>4, <4>3, <4>4, <4>5, <4>6
    <3> QED
      BY <3>1, <3>2
  <2> QED
    BY <1>15, <2>2, <2>3, <2>4 DEF Has
<1>16. Ended'
  <2>1. \A i \in 1..Len(inbox') : inbox'[i].op = "Done" => Given(inbox'[i])
    BY DEF Delivers
  <2> QED
    BY <1>1, <1>3, <2>1 DEF WholeInv, Ended, Given
<1>17. Numbered(folder[t])'
  <2>1. (\A i \in 1..Len(g.items) : g.items[i].part = i) /\ (g.stage = "Loaded" => Len(g.items) = Parts)
    <3>1. CASE Replaced(e, g)
      BY <1>6, <3>1
    <3>2. CASE Emptied(e, g) \/ Reset(f, e, g)
      <4>1. g.items = <<>> /\ g.stage # "Loaded" /\ Len(g.items) = 0
        BY <1>7, <1>8, <3>2
      <4> QED
        BY <4>1
    <3>3. CASE Extended(f, e, g)
      BY <1>9, <3>3
    <3>4. CASE Completed(f, e, g)
      BY <1>5, <1>10, <3>4 DEF Numbered
    <3>5. CASE Ignored(f, e, g)
      BY <1>5, <1>11, <3>5 DEF Numbered
    <3> QED
      BY <1>4, <3>1, <3>2, <3>3, <3>4, <3>5
  <2>2. ~ResetDue(events', g.ticket) /\ (job # NoJob /\ job.ticket = g.ticket => job.at > 0)
    <3>1. CASE Replaced(e, g) \/ Emptied(e, g)
      <4>1. g.ticket = issued + 1
        BY <1>6, <1>7, <3>1
      <4>2. ~ResetDue(events, g.ticket)
        BY <1>1, <1>14, <4>1 DEF ResetDue, Carries
      <4>3. job # NoJob => job.ticket # g.ticket
        BY <1>1, <4>1, Typed DEF ListInv, JobOK
      <4> QED
        BY <1>12, <4>2, <4>3
    <3>2. CASE Reset(f, e, g)
      <4>1. ~ResetDue(events', g.ticket)
        BY <1>8, <1>13, <3>2
      <4>2. job # NoJob /\ job.ticket = g.ticket => 0 < job.at
        BY <1>1, <1>8, <3>2 DEF ListInv, AheadInv
      <4> QED
        BY <4>1, <4>2, Typed
    <3>3. CASE Extended(f, e, g) \/ Completed(f, e, g) \/ Ignored(f, e, g)
      BY <1>5, <1>9, <1>10, <1>11, <1>12, <3>3 DEF Numbered
    <3> QED
      BY <1>4, <3>1, <3>2, <3>3
  <2> QED
    BY <1>1, <2>1, <2>2 DEF Numbered, g
<1>18. HasAll(folder[t])'
  <2>1. Len(events) + 1 \in Int /\ Len(events') + 1 = (Len(events) + 1) - 1
    BY <1>1
  <2>2. job' # NoJob /\ job'.stream /\ job'.at > 0 => Has(events', g, job'.ticket, job'.at - 1, Len(events') + 1)
    <3> SUFFICES ASSUME job # NoJob, job.stream, job.at > 0
                 PROVE  Has(events', g, job.ticket, job.at - 1, Len(events') + 1)
      BY <1>1
    <3>1. Has(events, f, job.ticket, job.at - 1, Len(events) + 1)
      BY <1>5 DEF HasAll
    <3>2. job.ticket \in Nat /\ job.ticket <= issued /\ job.at - 1 \in Int
      BY Typed, PartsAssumption DEF ListInv, JobOK
    <3> QED
      BY <1>15, <2>1, <3>1, <3>2
  <2>3. \A i \in 1..Len(inbox') : inbox'[i].op = "Done" /\ inbox'[i].result = "Part" =>
          Has(events', g, inbox'[i].prev.ticket, Parts, Len(events') + 1)
    <3> SUFFICES ASSUME NEW i \in 1..Len(inbox'), inbox'[i].op = "Done", inbox'[i].result = "Part"
                 PROVE  Has(events', g, inbox'[i].prev.ticket, Parts, Len(events') + 1)
      OBVIOUS
    <3>1. PICK k \in 1..Len(inbox) : inbox'[i] = inbox[k]
      BY DEF Delivers, Given
    <3>2. inbox[k].prev \in Jobs /\ MessageOK(inbox[k])
      BY <3>1, Typed, MessageFacts DEF ListInv
    <3>3. inbox[k].prev.ticket \in Nat /\ inbox[k].prev.ticket <= issued
      BY <3>1, <3>2 DEF Jobs, MessageOK
    <3>4. Has(events, f, inbox[k].prev.ticket, Parts, Len(events) + 1)
      BY <1>5, <3>1 DEF HasAll
    <3> DEFINE j == inbox[k].prev.ticket
    <3>5. Has(events', g, inbox[k].prev.ticket, Parts, Len(events') + 1)
      <4>1. j \in Nat /\ j <= issued /\ Parts \in Int /\ Has(events, f, j, Parts, Len(events) + 1)
        BY <3>3, <3>4, PartsAssumption
      <4> HIDE DEF j
      <4>2. Has(events', g, j, Parts, Len(events') + 1)
        BY <1>15, <2>1, <4>1
      <4> QED
        BY <4>2 DEF j
    <3> QED
      BY <3>1, <3>5
  <2>4. \A i \in 1..Len(events') : events'[i].op = "Part" /\ Rank(events'[i]) > 0 =>
          Has(events', g, events'[i].ticket, Rank(events'[i]) - 1, i)
    <3> SUFFICES ASSUME NEW i \in 1..Len(events'), events'[i].op = "Part", Rank(events'[i]) > 0
                 PROVE  Has(events', g, events'[i].ticket, Rank(events'[i]) - 1, i)
      OBVIOUS
    <3> DEFINE k == events'[i].ticket
               p == Rank(events'[i]) - 1
    <3>1. i + 1 \in 1..Len(events) /\ events'[i] = events[i + 1]
      BY <1>3
    <3>2. Has(events, f, k, p, i + 1)
      BY <1>5, <3>1 DEF HasAll
    <3>3. k \in Nat /\ k <= issued
      BY <1>14, <3>1
    <3>4. Rank(events'[i]) \in Nat
      BY <3>1, Typed, EventFacts
    <3>5. p \in Int /\ i + 1 \in Int /\ (i + 1) - 1 = i
      BY <3>4
    <3> HIDE DEF k, p
    <3>6. Has(events', g, k, p, i)
      BY <1>15, <3>2, <3>3, <3>5
    <3> QED
      BY <3>6 DEF k, p
  <2>5. \A i \in 1..Len(events') : events'[i].op = "Done" => Has(events', g, events'[i].ticket, Parts, i)
    <3> SUFFICES ASSUME NEW i \in 1..Len(events'), events'[i].op = "Done"
                 PROVE  Has(events', g, events'[i].ticket, Parts, i)
      OBVIOUS
    <3>1. i + 1 \in 1..Len(events) /\ events'[i] = events[i + 1]
      BY <1>3
    <3>2. Has(events, f, events'[i].ticket, Parts, i + 1)
      BY <1>5, <3>1 DEF HasAll
    <3>3. events'[i].ticket \in Nat /\ events'[i].ticket <= issued
      BY <1>14, <3>1
    <3>4. i + 1 \in Int /\ (i + 1) - 1 = i /\ Parts \in Int
      BY PartsAssumption
    <3> DEFINE k == events'[i].ticket
    <3>5. k \in Nat /\ k <= issued /\ Has(events, f, k, Parts, i + 1)
      BY <3>2, <3>3
    <3> HIDE DEF k
    <3>6. Has(events', g, k, Parts, i)
      BY <1>15, <3>4, <3>5
    <3> QED
      BY <3>6 DEF k
  <2> QED
    BY <2>2, <2>3, <2>4, <2>5 DEF HasAll, g
<1> QED
  BY <1>16, <1>17, <1>18 DEF WholeInv

LEMMA WholeInit == Init => WholeInv
<1> SUFFICES ASSUME Init PROVE WholeInv
  OBVIOUS
<1>1. job = NoJob /\ inbox = <<>> /\ events = <<>>
  BY DEF Init
<1>2. ASSUME NEW t \in Tabs PROVE Numbered(folder[t]) /\ HasAll(folder[t])
  <2>1. folder[t].items = <<>> /\ folder[t].stage = "Loading"
    BY DEF Init
  <2> QED
    BY <1>1, <2>1 DEF Numbered, HasAll, ResetDue
<1> QED
  BY <1>1, <1>2 DEF WholeInv, Ended

(* A folder that is said to be loaded lists all of the directory, if there *)
(* is one tab: every event of a reading comes to the folder it was read    *)
(* for, in order, and what comes late was listed before (Folder::update).  *)
(* With two tabs the run loading_parts shows that it does not hold.    *)
THEOREM LoadedWhole ==
  ASSUME NEW t, Tabs = {t}
  PROVE  Spec => []LoadedIsWhole
<1>1. TypeOK /\ TypeOK' /\ ListInv /\ WholeInv /\ [Next]_vars => WholeInv'
  BY Steps, WholeReads, WholeProceeds, WholeDelivers
<1>2. WholeInv => LoadedIsWhole
  BY DEF WholeInv, Numbered, LoadedIsWhole
<1> QED
  BY <1>1, <1>2, WholeInit, ListAlways, TypeCorrect, PTL DEF Spec
=============================================================================
