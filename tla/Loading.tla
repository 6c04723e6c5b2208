------------------------------- MODULE Loading -------------------------------
(***************************************************************************)
(* Loading a directory (yazi-watcher refresher.rs, yazi-core tab/folder.rs,*)
(* yazi-fs entries.rs, yazi-vfs entries.rs): one directory, the tabs that  *)
(* may show it, and the refresher that reads it for all of them.           *)
(*                                                                         *)
(* A tab that comes to show the directory sends a request to the refresher,*)
(* followed by the set of directories it shows.  The refresher has an      *)
(* entry for each shown directory and at most one reading of it under way, *)
(* started in a task of its own: it looks whether the directory has        *)
(* changed and reads it again, as a stream of parts when it is loaded for  *)
(* the first time and in one go otherwise.  What comes out is an event of  *)
(* the application, and goes to the tab that is active by the time it is   *)
(* handled.  Every reading has a ticket; so has what a folder lists.       *)
(*                                                                         *)
(* A directory is a version, which is also what its stat tells of it, and  *)
(* always has as many parts as there are.  Left out: directories that are  *)
(* removed or replaced, file systems without times, changes to single      *)
(* files, the eviction of folders from the history, and an error in the    *)
(* middle of a directory, which the code takes for its end.                *)
(*                                                                         *)
(* A reading whose entry is dropped is aborted: it goes on until it next   *)
(* waits, but not after another reading has started.                       *)
(*                                                                         *)
(* Bounds: MaxVersion changes, MaxLooks actions of the user, MaxTicks of   *)
(* the two-second timer.                                                   *)
(***************************************************************************)
EXTENDS Integers, Sequences

CONSTANTS
  Tabs,
  Remote,                          \* the file system tells of no change
  Blank,                           \* nothing may be hovered elsewhere
  Parts,
  MaxVersion, MaxLooks, MaxTicks

ASSUME KindAssumption   == Remote \in BOOLEAN /\ Blank \in BOOLEAN
ASSUME PartsAssumption  == Parts \in Nat \ {0}
ASSUME BoundsAssumption == MaxVersion \in Nat /\ MaxLooks \in Nat /\ MaxTicks \in Nat

VARIABLES
  disk,      \* the version of the directory
  told,      \* the last version the file system told the watcher of
  active,    \* the tab the user is in
  place,     \* what the directory is to a tab: opened is its cwd or the parent
  locked,    \* Preview::folder_lock is the directory
  folder,    \* the tab's Folder
  inbox,     \* operations on their way to the refresher
  entry,     \* the refresher's Entry
  job,       \* the reading under way
  events,    \* file operations on their way to the active tab
  issued,    \* FILES_TICKET
  looks, ticks

panes    == <<active, place, locked, folder>>
reader   == <<entry, job>>
bounds   == <<looks, ticks>>
vars     == <<disk, told, panes, inbox, reader, events, issued, bounds>>

Unknown == -1                      \* the stat of a dummy file
Stats   == Unknown..MaxVersion
Items   == Seq([by: Nat, part: 1..Parts, version: 0..MaxVersion])

Folders ==
  [here: BOOLEAN, stage: {"Loading", "Loaded", "Failed"}, ticket: Nat, file: Stats,
   items: Items, stale: BOOLEAN]

Entries == [file: Stats, busy: Nat, dirty: BOOLEAN, report: BOOLEAN, force: BOOLEAN, stream: BOOLEAN]
NoEntry == [busy |-> 0]

(* `at` 0 is before the revalidation, then comes the part to be read next. *)
Jobs  == [ticket: Nat \ {0}, file: Stats, report: BOOLEAN, force: BOOLEAN, stream: BOOLEAN,
          at: 0..(Parts + 1), items: Items, live: BOOLEAN]
NoJob == [live |-> FALSE]

Messages ==
  [op: {"Load"}, file: Stats] \cup [op: {"Refresh"}, file: Stats, force: BOOLEAN]
    \cup [op: {"Sync"}, shown: BOOLEAN, file: Stats]
    \cup [op: {"Done"}, prev: Jobs, result: {"Full", "Part", "Skip", "Err"}]

Operations ==
  [op: {"Full"}, file: Stats, items: Items] \cup [op: {"Part"}, ticket: Nat, items: Items]
    \cup [op: {"Done"}, file: Stats, ticket: Nat] \cup [op: {"Fail", "Upsert"}]

TypeOK ==
  /\ disk   \in 0..MaxVersion
  /\ told   \in 0..MaxVersion
  /\ active \in Tabs
  /\ place  \in [Tabs -> {"away", "hovered", "opened"}]
  /\ locked \in [Tabs -> BOOLEAN]
  /\ folder \in [Tabs -> Folders]
  /\ inbox  \in Seq(Messages)
  /\ events \in Seq(Operations)
  /\ entry  \in Entries \cup {NoEntry}
  /\ job    \in Jobs \cup {NoJob}
  /\ issued \in Nat
  /\ looks  \in 0..MaxLooks
  /\ ticks  \in 0..MaxTicks

Init ==
  /\ disk   = 0
  /\ told   = 0
  /\ active \in Tabs
  /\ place  = [t \in Tabs |-> "away"]
  /\ locked = [t \in Tabs |-> FALSE]
  /\ folder = [t \in Tabs |-> [here |-> FALSE, stage |-> "Loading", ticket |-> 0,
                               file |-> Unknown, items |-> <<>>, stale |-> FALSE]]
  /\ inbox  = <<>>
  /\ entry  = NoEntry
  /\ job    = NoJob
  /\ events = <<>>
  /\ issued = 0
  /\ looks  = 0
  /\ ticks  = 0

-----------------------------------------------------------------------------
(* The world: the directory changes, and a local file system tells.        *)
Change ==
  /\ disk < MaxVersion
  /\ disk' = disk + 1
  /\ UNCHANGED <<told, panes, inbox, reader, events, issued, bounds>>

Tell ==
  /\ ~Remote
  /\ told < disk
  /\ told' = disk
  /\ events' = Append(events, [op |-> "Upsert"])
  /\ UNCHANGED <<disk, panes, inbox, reader, issued, bounds>>

-----------------------------------------------------------------------------
(* The user goes to tab t, where the directory is opened, hovered or not   *)
(* shown; or the terminal gets the focus.  Actors cd, arrow, tab_create,   *)
(* tab_switch and focus end in refresh, peek and watch.                    *)

Load(file)           == [op |-> "Load", file |-> file]
Refresh(file, force) == [op |-> "Refresh", file |-> file, force |-> force]
Sync(shown, file)    == [op |-> "Sync", shown |-> shown, file |-> file]

TakeRefresh(f) ==
  IF f.stale THEN Refresh(f.file, TRUE)
  ELSE IF f.stage = "Loaded" \/ f.ticket # 0 THEN Refresh(f.file, FALSE)
  ELSE Load(f.file)

(* A preview asks once; the lock keeps it from asking again, unless the    *)
(* directory is known to have changed.                                     *)
Asks(t, p) == p = "opened" \/ (p = "hovered" /\ (~locked[t] \/ folder[t].stale))

(* A directory that the tab has no folder of is known from its parent.     *)
KnownStats(t, p) ==
  IF folder[t].here \/ p # "hovered" THEN {folder[t].file} ELSE 0..disk

(* Where nothing is hovered, in an empty directory or behind a filter that *)
(* matches nothing, the preview keeps its lock.                            *)
LocksAfter(t, p) ==
  CASE p = "hovered" -> {TRUE}
    [] p = "opened"  -> {locked[t] /\ folder[t].items = <<>>}
    [] p = "away"    -> {FALSE} \cup (IF Blank THEN {locked[t]} ELSE {})

Look(t, p) ==
  /\ looks < MaxLooks
  /\ looks'  = looks + 1
  /\ active' = t
  /\ place'  = [place EXCEPT ![t] = p]
  /\ \E kept \in LocksAfter(t, p) : locked' = [u \in Tabs |-> u = t /\ kept]
  /\ folder' = [folder EXCEPT ![t].here  = @ \/ p = "opened",
                              ![t].stale = @ /\ ~Asks(t, p)]
  /\ \E file \in KnownStats(t, p) :
       LET asked == IF Asks(t, p) THEN Append(inbox, TakeRefresh([folder[t] EXCEPT !.file = file]))
                                  ELSE inbox
       IN  inbox' = Append(asked, Sync(p # "away", file))
  /\ UNCHANGED <<disk, told, reader, events, issued, ticks>>

-----------------------------------------------------------------------------
(* The refresher. *)

Fresh(file) ==
  [file |-> file, busy |-> 0, dirty |-> FALSE, report |-> FALSE, force |-> FALSE, stream |-> FALSE]

Turn(e) ==
  [ticket |-> issued + 1, file |-> e.file, report |-> e.report, force |-> e.force,
   stream |-> e.stream, at |-> 0, items |-> <<>>, live |-> TRUE]

Spawn(e) ==
  IF e.dirty /\ e.busy = 0
  THEN /\ entry'  = [Fresh(e.file) EXCEPT !.busy = issued + 1]
       /\ job'    = Turn(e)
       /\ issued' = issued + 1
  ELSE /\ entry' = e
       /\ UNCHANGED <<job, issued>>

Receive(op) ==
  /\ inbox # <<>>
  /\ Head(inbox).op = op
  /\ inbox' = Tail(inbox)
  /\ UNCHANGED <<disk, told, panes, bounds>>

EntryFor(file) == IF entry = NoEntry THEN Fresh(file) ELSE [entry EXCEPT !.file = file]

(* Dropping an entry aborts its reading. *)
HandleSync ==
  /\ Receive("Sync")
  /\ IF Head(inbox).shown
     THEN /\ entry' = IF entry = NoEntry THEN Fresh(Head(inbox).file) ELSE entry
          /\ UNCHANGED job
     ELSE /\ entry' = NoEntry
          /\ job' = IF job.live THEN [job EXCEPT !.live = FALSE] ELSE job
  /\ UNCHANGED <<events, issued>>

HandleLoad ==
  LET e == EntryFor(Head(inbox).file) IN
  /\ Receive("Load")
  /\ IF e.busy # 0
     THEN entry' = e /\ UNCHANGED <<job, issued>>
     ELSE Spawn([e EXCEPT !.dirty = TRUE, !.report = TRUE, !.force = TRUE, !.stream = TRUE])
  /\ UNCHANGED events

(* A slip: a busy entry is left alone whatever the request. *)
HandleRefreshIdle ==
  LET e == EntryFor(Head(inbox).file) IN
  /\ Receive("Refresh")
  /\ IF e.busy # 0
     THEN entry' = e /\ UNCHANGED <<job, issued>>
     ELSE Spawn([e EXCEPT !.dirty = TRUE, !.report = TRUE, !.force = @ \/ Head(inbox).force,
                          !.stream = FALSE])
  /\ UNCHANGED events

HandleRefresh ==
  LET e == EntryFor(Head(inbox).file) IN
  /\ Receive("Refresh")
  /\ IF e.busy # 0 /\ ~Head(inbox).force
     THEN entry' = e /\ UNCHANGED <<job, issued>>
     ELSE Spawn([e EXCEPT !.dirty = TRUE, !.report = TRUE, !.force = @ \/ Head(inbox).force,
                          !.stream = FALSE])
  /\ UNCHANGED events

Outcome(prev, result) ==
  CASE result = "Full" -> <<[op |-> "Full", file |-> prev.file, items |-> prev.items]>>
    [] result = "Part" -> <<[op |-> "Done", file |-> prev.file, ticket |-> prev.ticket]>>
    [] result = "Err" /\ prev.report -> <<[op |-> "Fail"]>>
    [] OTHER -> <<>>

(* A slip: a failed reading returns early. *)
HandleDoneEarly ==
  LET prev == Head(inbox).prev  result == Head(inbox).result IN
  /\ Receive("Done")
  /\ IF entry.busy # prev.ticket
     THEN UNCHANGED <<reader, events, issued>>
     ELSE /\ events' = events \o Outcome(prev, result)
          /\ IF result = "Err"
             THEN entry' = [entry EXCEPT !.force = TRUE] /\ UNCHANGED <<job, issued>>
             ELSE Spawn([entry EXCEPT !.busy = 0,
                           !.file = IF result \in {"Full", "Part"} THEN prev.file ELSE @])

(* The answer of a reading that is no longer the entry's is ignored.       *)
HandleDone ==
  LET prev == Head(inbox).prev  result == Head(inbox).result IN
  /\ Receive("Done")
  /\ IF entry.busy # prev.ticket
     THEN UNCHANGED <<reader, events, issued>>
     ELSE /\ events' = events \o Outcome(prev, result)
          /\ Spawn([entry EXCEPT !.busy = 0, !.force = @ \/ result = "Err",
                      !.file = IF result \in {"Full", "Part"} THEN prev.file ELSE @])

Tick ==
  /\ Remote
  /\ ticks < MaxTicks
  /\ entry # NoEntry
  /\ ticks' = ticks + 1
  /\ Spawn([entry EXCEPT !.dirty = TRUE])
  /\ UNCHANGED <<disk, told, panes, inbox, events, looks>>

Handle == HandleSync \/ HandleLoad \/ HandleRefresh \/ HandleDone

-----------------------------------------------------------------------------
(* The reading, poll by poll. *)

Finish(prev, result) ==
  /\ job'   = NoJob
  /\ inbox' = Append(inbox, [op |-> "Done", prev |-> prev, result |-> result])

Reading == job # NoJob

Revalidate ==
  /\ Reading /\ job.at = 0
  /\ IF job.file = disk /\ ~job.force
     THEN Finish(job, "Skip") /\ UNCHANGED events
     ELSE /\ job' = [job EXCEPT !.file = disk, !.at = 1]
          /\ events' = IF job.stream THEN Append(events, [op |-> "Part", ticket |-> job.ticket, items |-> <<>>])
                                     ELSE events
          /\ UNCHANGED inbox
  /\ UNCHANGED <<disk, told, panes, entry, issued, bounds>>

(* The directory cannot be looked up, or not be opened. *)
Unreadable ==
  /\ Reading /\ job.at <= 1
  /\ Finish(job, "Err")
  /\ UNCHANGED <<disk, told, panes, entry, events, issued, bounds>>

ReadPart ==
  LET item == [by |-> job.ticket, part |-> job.at, version |-> disk] IN
  /\ Reading /\ job.at \in 1..Parts
  /\ IF job.stream
     THEN /\ job' = [job EXCEPT !.at = @ + 1]
          /\ events' = Append(events, [op |-> "Part", ticket |-> job.ticket, items |-> <<item>>])
     ELSE /\ job' = [job EXCEPT !.at = @ + 1, !.items = Append(@, item)]
          /\ UNCHANGED events
  /\ UNCHANGED <<disk, told, panes, inbox, entry, issued, bounds>>

(* Slips: an end that comes too soon, and a stat taken at the end. *)
ReadEndSoon ==
  /\ Reading /\ job.at \in 1..(Parts + 1)
  /\ Finish(job, IF job.stream THEN "Part" ELSE "Full")
  /\ UNCHANGED <<disk, told, panes, entry, events, issued, bounds>>

ReadEndStat ==
  /\ Reading /\ job.at = Parts + 1
  /\ Finish([job EXCEPT !.file = disk], IF job.stream THEN "Part" ELSE "Full")
  /\ UNCHANGED <<disk, told, panes, entry, events, issued, bounds>>

ReadEnd ==
  /\ Reading /\ job.at = Parts + 1
  /\ Finish(job, IF job.stream THEN "Part" ELSE "Full")
  /\ UNCHANGED <<disk, told, panes, entry, events, issued, bounds>>

(* An aborted reading ends where it waits. *)
Abort ==
  /\ Reading /\ ~job.live
  /\ job' = NoJob
  /\ UNCHANGED <<disk, told, panes, inbox, entry, events, issued, bounds>>

ReadOn == Revalidate \/ Unreadable \/ ReadPart \/ ReadEnd

-----------------------------------------------------------------------------
(* The active tab handles an event: Folder::update. *)

(* A slip: what is as old as the folder is late even while it is loading.  *)
LateAlways(f, e) == e.ticket <= f.ticket

Late(f, e) == f.stage = "Loaded" /\ e.ticket <= f.ticket

(* A slip: a part is taken whoever read it. *)
UpdateAnyPart(f, e) ==
  CASE e.op = "Full" ->
         [f EXCEPT !.file = e.file, !.stage = "Loaded", !.items = e.items, !.ticket = issued + 1]
    [] e.op = "Fail" ->
         [f EXCEPT !.file = Unknown, !.stage = "Failed", !.items = <<>>, !.ticket = issued + 1]
    [] e.op = "Part" /\ ~Late(f, e) /\ e.items = <<>> ->
         [f EXCEPT !.stage = "Loading", !.items = <<>>, !.ticket = e.ticket]
    [] e.op = "Part" /\ ~Late(f, e) /\ e.items # <<>> ->
         [f EXCEPT !.stage = "Loading", !.items = @ \o e.items]
    [] e.op = "Done" /\ ~Late(f, e) /\ e.ticket = f.ticket ->
         [f EXCEPT !.file = e.file, !.stage = "Loaded"]
    [] OTHER -> f

Update(f, e) ==
  CASE e.op = "Full" ->
         [f EXCEPT !.file = e.file, !.stage = "Loaded", !.items = e.items, !.ticket = issued + 1]
    [] e.op = "Fail" ->
         [f EXCEPT !.file = Unknown, !.stage = "Failed", !.items = <<>>, !.ticket = issued + 1]
    [] e.op = "Part" /\ ~Late(f, e) /\ e.items = <<>> ->
         [f EXCEPT !.stage = "Loading", !.items = <<>>, !.ticket = e.ticket]
    [] e.op = "Part" /\ ~Late(f, e) /\ e.items # <<>> /\ e.ticket = f.ticket ->
         [f EXCEPT !.stage = "Loading", !.items = @ \o e.items]
    [] e.op = "Done" /\ ~Late(f, e) /\ e.ticket = f.ticket ->
         [f EXCEPT !.file = e.file, !.stage = "Loaded"]
    [] OTHER -> f

(* A preview that has changed peeks again. *)
Repeek(t, f, changed) ==
  IF changed /\ place[t] = "hovered" /\ f.stale
  THEN /\ folder' = [folder EXCEPT ![t] = [f EXCEPT !.stale = FALSE]]
       /\ inbox'  = Append(inbox, TakeRefresh(f))
  ELSE /\ folder' = [folder EXCEPT ![t] = f]
       /\ UNCHANGED inbox

DeliverLoad ==
  LET e == Head(events)
      old == folder[active]
      new == [Update(old, e) EXCEPT !.here = TRUE]
      changed == <<new.stage, new.items>> # <<old.stage, old.items>>
  IN
  /\ events # <<>> /\ e.op # "Upsert"
  /\ events' = Tail(events)
  /\ issued' = IF e.op \in {"Full", "Fail"} THEN issued + 1 ELSE issued
  /\ Repeek(active, new, changed)
  /\ locked' = [locked EXCEPT ![active] =
                  @ /\ ~(changed /\ place[active] = "opened" /\ new.items # <<>>)]
  /\ UNCHANGED <<disk, told, active, place, reader, bounds>>

(* The directory changed under its parent: every tab's folder of it is     *)
(* stale (Invalidator), and a preview of it peeks again.                   *)
DeliverUpsert ==
  LET asks == place[active] = "hovered" /\ folder[active].here IN
  /\ events # <<>> /\ Head(events).op = "Upsert"
  /\ events' = Tail(events)
  /\ folder' = [t \in Tabs |-> [folder[t] EXCEPT
                  !.stale = (@ \/ folder[t].here) /\ ~(t = active /\ asks)]]
  /\ inbox'  = IF asks THEN Append(inbox, Refresh(folder[active].file, TRUE)) ELSE inbox
  /\ UNCHANGED <<disk, told, active, place, locked, reader, issued, bounds>>

Deliver == DeliverLoad \/ DeliverUpsert

-----------------------------------------------------------------------------
Next ==
  \/ Change \/ Tell
  \/ \E t \in Tabs, p \in {"away", "hovered", "opened"} : Look(t, p)
  \/ Handle \/ Tick
  \/ ReadOn \/ Abort
  \/ Deliver

(* The refresher, its reading and the application are polled, and reading  *)
(* a directory ends.  The user, the disk and the watcher promise nothing.  *)
Fairness == WF_vars(Handle) /\ WF_vars(ReadOn \/ Abort) /\ WF_vars(Deliver)

Spec     == Init /\ [][Next]_vars
FairSpec == Spec /\ Fairness

-----------------------------------------------------------------------------
(* An entry is busy only while somebody will answer for it: a reading that *)
(* is under way, or its answer in the inbox; and only one of them.  A busy *)
(* entry turns requests away, so it would never be read again.             *)
Answers(n) == {i \in DOMAIN inbox : inbox[i].op = "Done" /\ inbox[i].prev.ticket = n}

BusyIsAnswered ==
  entry.busy # 0 =>
    \/ job.live /\ job.ticket = entry.busy /\ Answers(entry.busy) = {}
    \/ ~job.live /\ \E i \in Answers(entry.busy) : Answers(entry.busy) = {i}

(* A folder lists one reading: parts of two are never mixed, and none is   *)
(* listed twice or out of order, whichever tabs the parts went to.         *)
OneReading ==
  \A t \in Tabs : \A i, k \in DOMAIN folder[t].items :
    LET a == folder[t].items[i]  b == folder[t].items[k] IN
      a.by = b.by /\ (i < k => a.part < b.part)

(* The stat that a folder's next refresh compares with is not newer than   *)
(* anything it lists: otherwise the refresh would skip a change.           *)
NeverBlind ==
  \A t \in Tabs : folder[t].stage = "Loaded" =>
    \A i \in DOMAIN folder[t].items : folder[t].items[i].version >= folder[t].file

(* A folder that is said to be loaded lists the whole directory.  It holds *)
(* of a single tab.                                                        *)
LoadedIsWhole ==
  \A t \in Tabs : folder[t].stage = "Loaded" => Len(folder[t].items) = Parts

Shown(t) == active = t /\ place[t] # "away"

(* A directory that is shown does not stay "Loading" for ever.  It holds   *)
(* of a single tab that keeps no lock where nothing is hovered.            *)
ShownLoads ==
  \A t \in Tabs : Shown(t) ~> ~Shown(t) \/ folder[t].stage # "Loading"

(* A preview catches up with a change of which the watcher was told, even  *)
(* if the directory is being read at the time.                             *)
CaughtUp(t) ==
  \/ folder[t].stage = "Failed"
  \/ /\ folder[t].stage = "Loaded"
     /\ \A i \in DOMAIN folder[t].items : folder[t].items[i].version = MaxVersion

PreviewCatchesUp ==
  \A t \in Tabs :
    Shown(t) /\ place[t] = "hovered" /\ told = MaxVersion
      ~> ~Shown(t) \/ place[t] # "hovered" \/ CaughtUp(t)
=============================================================================
