--------------------------------- MODULE Tab ---------------------------------
(***************************************************************************)
(* One tab (yazi-core tab/, yazi-actor mgr/) that shows a local directory, *)
(* Home, or a directory in it, with Home as the parent pane.  Home changes *)
(* on disk, by the user's own doing and by others'; the watcher reports    *)
(* what has changed, the refresher reads Home in parts or in full, and all *)
(* of it reaches the tab as operations in one queue.                       *)
(*                                                                         *)
(* A directory in Home holds one file, which comes and goes with it.  How  *)
(* the refresher works is the subject of Loading: here a request takes     *)
(* effect at once.                                                         *)
(***************************************************************************)
EXTENDS Pane, Selection

CONSTANTS
  Dirs,        \* keys of directories
  StackMax,    \* a back stack that is longer is trimmed: 60
  StackKeep,   \* how many places before the current one are left then: 30
  MaxChanges,  \* bound: changes of the disk
  MaxReads,    \* bound: readings
  MaxActs      \* bound: what the user does in the tab

Home == "~"

ASSUME TabAssumption ==
  /\ Dirs \subseteq Names /\ Home \notin Names /\ StackMax \in Nat /\ StackKeep \in 0..StackMax
  /\ MaxChanges \in Nat /\ MaxReads \in Nat /\ MaxActs \in Nat

Absent == -1

VARIABLES
  disk,      \* the stat of each file in Home; Absent if there is none
  pending,   \* local_tx: children of Home, or Home itself, that the watcher was told of
  permit,    \* the keys, old and new, of the renaming or creation that holds WATCHER
  reading,   \* the refresher's reading of Home
  queue,     \* events of the application
  home,      \* the tab's folder of Home: its current or its parent one
  cwd,       \* Home or a key of Dirs
  stack,     \* Backstack.stack
  pos,       \* Backstack.cursor, counted from 1
  pref,      \* Tab.pref: show_hidden and sort_by
  selected,  \* Tab.selected
  issued,    \* FILES_TICKET
  changes,   \* what the bounds count
  reads,
  acts,
  torn       \* history: Home has changed while a reading of it was on its way

world == <<disk, pending, permit, changes>>
load  == <<reading, issued, reads>>
place == <<cwd, stack, pos>>
vars  == <<world, load, place, queue, home, pref, selected, acts, torn>>

Idle    == [ticket |-> 0]
Reading == [ticket : Nat \ {0}, stream : BOOLEAN, left : Seq(Names), got : Seq(Files)]
Events(keys) ==  \* `keys` are those of an upsert
  [op : {"Full"}, files : Seq(Files)] \cup [op : {"Part"}, files : Seq(Files), ticket : Nat]
    \cup [op : {"Done"}, ticket : Nat] \cup [op : {"Delete"}, keys : SUBSET Names]
    \cup [op : {"Upsert"}, files : [keys -> Files]]
    \cup [op : {"Reveal"}, key : Names] \cup [op : {"Self"}]
Inside(d) == <<d, "inside">>

TypeOK ==
  /\ disk \in [Names -> {Absent} \cup 1..MaxChanges + 1]
  /\ pending \in Seq(Names \cup {Home})
  /\ permit \in {<<>>} \cup (Names \X Names)
  /\ reading \in {Idle} \cup Reading
  /\ \A i \in DOMAIN queue : \E keys \in SUBSET Names : queue[i] \in Events(keys)
  /\ home \in Folder /\ ~home.bumped
  /\ cwd \in {Home} \cup Dirs
  /\ stack \in Seq({Home} \cup Dirs) /\ pos \in Nat
  /\ pref \in [show : BOOLEAN, by : {"name", "time"}]
  /\ selected \in [inner : SUBSET (Paths(Names) \cup {Inside(d) : d \in Dirs}),
                   parents : [{<<>>} \cup Paths(Dirs) -> Nat]]
  /\ issued \in Nat /\ torn \in BOOLEAN
  /\ changes \in 0..MaxChanges /\ reads \in Nat /\ acts \in Nat

\* The directory is opened, and its names are read.
Begin(ticket, stream) ==
  [ticket |-> ticket, stream |-> stream, got |-> <<>>,
   left |-> Pick(Alphabet, {i \in DOMAIN Alphabet : disk[Alphabet[i]] # Absent})]

\* The tab is in Home, where it has begun or to which it has gone at once, and
\* which is read for the first time, in parts.
Init ==
  /\ disk \in [Names -> {Absent, 1}]
  /\ pending = <<>> /\ permit = <<>>
  /\ home = Empty(FALSE) /\ cwd = Home
  /\ stack \in {<<Home>>} \cup {<<d, Home>> : d \in {d \in Dirs : disk[d] # Absent}}
  /\ pos = Len(stack)
  /\ pref = [show |-> FALSE, by |-> "name"]
  /\ selected = NoneSelected({<<>>} \cup Paths(Dirs))
  /\ reading = Begin(1, TRUE) /\ issued = 1
  /\ queue = <<[op |-> "Part", files |-> <<>>, ticket |-> 1]>>
  /\ changes = 0 /\ reads = 1 /\ acts = 0 /\ torn = FALSE

-----------------------------------------------------------------------------
(* Home on disk. *)

Loads == {"Full", "Part", "Done"}
OnItsWay == reading # Idle \/ \E i \in DOMAIN queue : queue[i].op \in Loads

\* The file system reports each changed file, and Reporter its directory too.
Change(n, stat) ==
  /\ changes < MaxChanges
  /\ changes' = changes + 1
  /\ disk' = [disk EXCEPT ![n] = stat]
  /\ pending' = pending \o <<n, Home>>
  /\ torn' = (torn \/ OnItsWay)

Touch(n)  == Change(n, changes + 2)
Vanish(n) == disk[n] # Absent /\ Change(n, Absent)

Replaces(old, new) ==
  /\ old # new /\ disk[old] # Absent
  /\ (old \in Dirs) = (new \in Dirs) /\ (new \in Dirs => disk[new] = Absent)

Shift(old, new) ==
  /\ changes < MaxChanges
  /\ Replaces(old, new)
  /\ changes' = changes + 1
  /\ disk' = [disk EXCEPT ![old] = Absent, ![new] = changes + 2]
  /\ pending' = pending \o <<old, Home, new, Home>>
  /\ torn' = (torn \/ OnItsWay)

Others ==
  /\ \/ \E n \in Names : Touch(n) \/ Vanish(n)
     \/ \E old, new \in Names : Shift(old, new)
  /\ UNCHANGED <<permit, load, place, queue, home, pref, selected, acts>>

\* Rename::do and Create::do up to the change of the disk.  Nothing is created
\* in the place of a directory; a file that is in the way is removed.
RenameFile(old, new) ==
  /\ permit = <<>>
  /\ Shift(old, new)
  /\ permit' = <<old, new>>
  /\ UNCHANGED <<load, place, queue, home, pref, selected, acts>>

CreateFile(n) ==
  /\ permit = <<>>
  /\ n \in Dirs => disk[n] = Absent
  /\ Touch(n)
  /\ permit' = <<n, n>>
  /\ queue' = IF disk[n] = Absent THEN queue ELSE Append(queue, [op |-> "Delete", keys |-> {n}])
  /\ UNCHANGED <<load, place, home, pref, selected, acts>>

\* And from there on, if the new file is still there.
Announce ==
  LET old == permit[1]  new == permit[2] IN
  /\ permit # <<>>
  /\ permit' = <<>>
  /\ queue' = IF disk[new] = Absent THEN queue
              ELSE queue \o << [op |-> "Upsert", files |-> [k \in {old} |-> File(new, disk[new])]],
                               [op |-> "Reveal", key |-> new] >>
  /\ UNCHANGED <<disk, pending, changes, load, place, home, pref, selected, acts, torn>>

\* Local::changed takes what has come in the meantime, and FilesOp::mutate sorts
\* it by directories, in any order.  It cannot fall between a change by Rename or
\* Create and its announcement.
Patches(urls) ==
  LET gone  == {n \in urls : disk[n] = Absent}
      there == urls \ gone
  IN  (IF gone = {} THEN <<>> ELSE << [op |-> "Delete", keys |-> gone] >>)
      \o (IF there = {} THEN <<>>
          ELSE << [op |-> "Upsert", files |-> [n \in there |-> File(n, disk[n])]] >>)

Watch(k) ==
  LET urls == ToSet(SubSeq(pending, 1, k))
      patches == Patches(urls \ {Home})
      self == IF Home \in urls THEN << [op |-> "Self"] >> ELSE <<>>
  IN  /\ permit = <<>>
      /\ pending' = SubSeq(pending, k + 1, Len(pending))
      /\ queue' \in {queue \o patches \o self, queue \o self \o patches}
      /\ UNCHANGED <<disk, permit, changes, load, place, home, pref, selected, acts, torn>>

\* A name that is gone by the time it is looked up is listed as a dummy.
Read(k) ==
  LET file(n) == File(n, IF disk[n] = Absent THEN Dummy ELSE disk[n])
      files == [i \in 1..k |-> file(reading.left[i])]
  IN  /\ reading' = [reading EXCEPT !.left = SubSeq(@, k + 1, Len(@)),
                                    !.got  = IF reading.stream THEN @ ELSE @ \o files]
      /\ queue' = IF reading.stream
                  THEN Append(queue, [op |-> "Part", files |-> files, ticket |-> reading.ticket])
                  ELSE queue
      /\ UNCHANGED <<world, issued, reads, place, home, pref, selected, acts, torn>>

EndRead ==
  /\ reading # Idle /\ reading.left = <<>>
  /\ reading' = Idle
  /\ queue' = Append(queue, IF reading.stream
                            THEN [op |-> "Done", ticket |-> reading.ticket]
                            ELSE [op |-> "Full", files |-> reading.got])
  /\ UNCHANGED <<world, issued, reads, place, home, pref, selected, acts, torn>>

-----------------------------------------------------------------------------
(* The back stack. *)

Push(s, p, u) ==
  LET q == p + 1
      t == Append(SubSeq(s, 1, p), u)
      start == IF q > StackMax THEN Less(p, StackKeep) ELSE 0
  IN  CASE s = <<>>               -> [stack |-> <<u>>, pos |-> 1]
        [] s # <<>> /\ s[p] = u  -> [stack |-> s, pos |-> p]
        [] OTHER                  -> [stack |-> SubSeq(t, start + 1, q), pos |-> q - start]

\* The places in s that repeat the one before.
Repeats(s) == {i \in 2..Len(s) : s[i] = s[i - 1]}

\* A slip: the places that come together are not merged.
RemoveKeysApart(s, p, keys) ==
  LET kept == Without(s, {i \in DOMAIN s : s[i] \in keys})
  IN  [stack |-> kept,
       pos |-> Least(p - Cardinality({i \in 1..p-1 : s[i] \in keys}), Len(kept))]

\* Backstack::remove_keys and dedup
RemoveKeys(s, p, keys) ==
  LET kept == Without(s, {i \in DOMAIN s : s[i] \in keys})
      old  == p - Cardinality({i \in 1..p-1 : s[i] \in keys})
      here == Least(old, Len(kept))
  IN  [stack |-> Without(kept, Repeats(kept)),
       pos |-> here - Cardinality({i \in Repeats(kept) : i <= here})]

-----------------------------------------------------------------------------
(* Parts of the handlers, on a folder f of Home in a tab that is in `at`. *)

\* mgr:hover; the parent pane follows the tab.
Hover(f, at) == Repos(f, IF at = Home THEN None ELSE at)

HoverOn(f, k) ==
  LET g == Repos(f, k) IN IF Hovered(g) = k THEN [g EXCEPT !.trace = k] ELSE g

\* A slip: what is put in order moves away under the cursor.
CatchupStill(f, at) ==
  IF f.unsorted THEN [f EXCEPT !.items = Sorted(f, @), !.unsorted = FALSE] ELSE f

\* Entries::catchup_revision, and mgr:hover if there was something to catch up with
Catchup(f, at) ==
  IF f.unsorted THEN Hover([f EXCEPT !.items = Sorted(f, @), !.unsorted = FALSE], at) ELSE f

\* mgr:hidden and mgr:sort, which leave a folder alone that is being loaded
Hide(f, at, show) == IF f.stage = "Loading" THEN f ELSE Catchup(SetShowHidden(f, show), at)
Sort(f, at, by)   == IF f.stage = "Loading" THEN f ELSE Catchup(SetSorter(f, by), at)

Prefer(f, at) == Sort(Hide(f, at, pref.show), at, pref.by)

Calm(f) == [f EXCEPT !.bumped = FALSE]

\* Folder::take_refresh and the request: a directory known to have changed is
\* read at once, another one if its time tells and nobody is reading it.
Ask(f) ==
  \/ /\ f.stale \/ (f.stage = "Loaded" /\ reading = Idle)
     /\ reads < MaxReads
     /\ reads' = reads + 1
     /\ issued' = issued + 1
     /\ reading' = Begin(issued + 1, FALSE)
     /\ torn' = FALSE
     /\ home' = [f EXCEPT !.stale = FALSE]
  \/ /\ ~f.stale
     /\ home' = f
     /\ UNCHANGED <<reads, issued, reading, torn>>

\* Cd::act from anywhere to `to`, given a back stack b
Cd(f, to, b) ==
  LET c == Push(b.stack, b.pos, to) IN
  /\ cwd' = to /\ stack' = c.stack /\ pos' = c.pos
  /\ Ask(Calm(Hover(Prefer(f, to), to)))

-----------------------------------------------------------------------------
(* The application handles an event. *)

Next1(op) == queue # <<>> /\ Head(queue).op = op /\ queue' = Tail(queue)

\* The rest of UpdateFiles::update_tab
Settle(f) == LET g == Prefer(f, cwd) IN Calm(IF g.bumped THEN Hover(g, cwd) ELSE g)

UpdateLoad ==
  LET h == Head(queue)
      e == IF h.op = "Full" THEN [op |-> "Full", files |-> h.files, ticket |-> issued + 1] ELSE h
      ended == h.op = "Done" /\ home.stage = "Loading" /\ home.ticket = h.ticket
  IN  /\ \E op \in Loads : Next1(op)
      /\ home' = Settle(Update(home, e))
      /\ issued' = IF h.op = "Full" THEN issued + 1 ELSE issued
      /\ selected' = CASE h.op = "Full" -> Scan(selected, Keys(h.files))
                       [] ended -> Scan(selected, Keys(home.items) \cup Keys(home.hidden))
                       [] OTHER -> selected
      /\ UNCHANGED <<world, reading, reads, place, pref, acts, torn>>

UpdateUpserted ==
  /\ Next1("Upsert")
  /\ home' = Settle(Update(home, Head(queue)))
  /\ selected' = Rename(selected, Head(queue).files)
  /\ UNCHANGED <<world, load, place, pref, acts, torn>>

\* When the tab is in a deleted directory, it leaves for Home.
UpdateDeleted ==
  LET keys == Head(queue).keys
      b == RemoveKeys(stack, pos, keys)
      f == Update(home, Head(queue))
  IN  /\ Next1("Delete")
      /\ selected' = Delete(selected, keys)
      /\ IF cwd \in keys
         THEN Cd(f, Home, b)
         ELSE /\ stack' = b.stack /\ pos' = b.pos
              /\ home' = Settle(f)
              /\ UNCHANGED <<cwd, load, torn>>
      /\ UNCHANGED <<world, pref, acts>>

\* Home was reported: the Invalidator makes the tab's folder stale.
Invalidate ==
  /\ Next1("Self")
  /\ home' = [home EXCEPT !.stale = TRUE]
  /\ UNCHANGED <<world, load, place, pref, selected, acts, torn>>

\* A file that cannot be hovered is taken for one that is yet to be listed.
RevealIn(f, k) ==
  LET g == HoverKey(f, k)
      h == IF Hovered(g) = k THEN g
           ELSE Sort(Update(g, [op |-> "Create", file |-> File(k, Dummy)]), Home, pref.by)
  IN  Calm(HoverOn(h, k))

Reveal ==
  LET k == Head(queue).key IN
  /\ Next1("Reveal")
  /\ IF cwd = Home
     THEN home' = RevealIn(home, k) /\ UNCHANGED <<place, load, torn>>
     ELSE LET c == Push(stack, pos, Home) IN
          /\ cwd' = Home /\ stack' = c.stack /\ pos' = c.pos
          /\ Ask(RevealIn(Calm(Hover(Prefer(home, Home), Home)), k))
  /\ UNCHANGED <<world, pref, selected, acts>>

Deliver == UpdateLoad \/ UpdateUpserted \/ UpdateDeleted \/ Invalidate \/ Reveal

-----------------------------------------------------------------------------
(* The user. *)

Act ==
  /\ acts < MaxActs
  /\ acts' = acts + 1
  /\ UNCHANGED <<world, queue>>

Move(n) ==
  LET f == ArrowAround(home, n) IN
  /\ cwd = Home /\ home.items # <<>>
  /\ f.cursor # home.cursor \/ f.offset # home.offset
  /\ home' = Hover(Retrace(f), Home)
  /\ Act /\ UNCHANGED <<load, place, pref, selected, torn>>

ToggleHidden ==
  /\ pref' = [pref EXCEPT !.show = ~@]
  /\ home' = Calm(Hide(home, cwd, pref'.show))
  /\ Act /\ UNCHANGED <<load, place, selected, torn>>

SortBy(by) ==
  /\ pref.by # by
  /\ pref' = [pref EXCEPT !.by = by]
  /\ home' = Calm(Sort(home, cwd, by))
  /\ Act /\ UNCHANGED <<load, place, selected, torn>>

FilterDo ==
  LET f == SetFilter(home, ~home.filter)  k == Hovered(home) IN
  /\ cwd = Home
  /\ home' = CASE Hovered(f) = k              -> f
               [] Hovered(f) # k /\ k = None -> Hover(f, Home)
               [] OTHER                       -> HoverOn(f, k)
  /\ Act /\ UNCHANGED <<load, place, pref, selected, torn>>

Select ==
  /\ \/ cwd = Home /\ Hovered(home) # None /\ selected' = Toggle(selected, <<Hovered(home)>>)
     \/ cwd \in Dirs /\ selected' = Toggle(selected, Inside(cwd))
     \/ cwd = Home /\ selected' = ToggleAll(selected, Paths(Keys(home.items)))
  /\ Act /\ UNCHANGED <<load, place, home, pref, torn>>

\* Enter, Leave, Back, Forward
Go ==
  /\ \/ cwd = Home /\ Hovered(home) \in Dirs
          /\ Cd(home, Hovered(home), [stack |-> stack, pos |-> pos])
     \/ cwd # Home /\ Cd(home, Home, [stack |-> stack, pos |-> pos])
     \/ \E p \in {pos - 1, pos + 1} \cap DOMAIN stack :
          Cd(home, stack[p], [stack |-> stack, pos |-> p])
  /\ Act /\ UNCHANGED <<pref, selected>>

\* The terminal gets the focus: mgr:refresh.
Focus ==
  /\ Ask(home) /\ reads' # reads
  /\ Act /\ UNCHANGED <<place, pref, selected>>

User ==
  \/ \E n \in {-1, 1} : Move(n)
  \/ \E by \in {"name", "time"} : SortBy(by)
  \/ ToggleHidden \/ FilterDo \/ Select \/ Go \/ Focus

Next ==
  \/ Others \/ Announce
  \/ \E n \in Names : CreateFile(n)
  \/ \E old, new \in Names : RenameFile(old, new)
  \/ \E k \in 1..Len(pending) : Watch(k)
  \/ reading # Idle /\ \E k \in 1..Len(reading.left) : Read(k)
  \/ EndRead
  \/ Deliver
  \/ User

Spec == Init /\ [][Next]_vars

-----------------------------------------------------------------------------
(* Properties *)

Listed == Keys(home.items) \cup Keys(home.hidden)

ListedOnce ==
  /\ IsInjective([i \in DOMAIN home.items |-> home.items[i].key])
  /\ IsInjective([i \in DOMAIN home.hidden |-> home.hidden[i].key])
  /\ Keys(home.items) \cap Keys(home.hidden) = {}

\* Exactly the files on disk are listed, as they are now, in the right of the
\* two lists, and in order.
Exact ==
  /\ ToSet(home.items) \cup ToSet(home.hidden)
       = {File(n, disk[n]) : n \in {n \in Names : disk[n] # Absent}}
  /\ \A n \in Keys(home.items) : Visible(home, n)
  /\ \A n \in Keys(home.hidden) : ~Visible(home, n)
  /\ home.items = Sorted(home, home.items)
  /\ home.show = pref.show /\ home.by = pref.by

Quiet == pending = <<>> /\ queue = <<>> /\ permit = <<>> /\ reading = Idle

\* The listing follows the disk by patches alone, in whatever order changes,
\* reports, renamings and the user's own preferences come: no file is listed
\* twice, and once nothing is under way the listing is the directory's.  The
\* one exception is a directory that changes while it is being read: patches and
\* readings may then overtake each other, and the folder is stale, so that it
\* is read again.
InSync ==
  /\ ListedOnce \/ torn \/ OnItsWay
  /\ Quiet => (ListedOnce /\ Exact) \/ (torn /\ home.stale)

Followed ==
  /\ IF home.items = <<>> THEN home.cursor = 0 ELSE home.cursor < Len(home.items)
  /\ home.offset <= home.cursor /\ home.cursor < home.offset + Limit
  /\ LET k == IF cwd = Home THEN home.trace ELSE cwd
     IN  k \in Keys(home.items) => Hovered(home) = k

\* Whatever is listed, deleted, renamed, sorted or hidden around it, the cursor
\* stays with its file: the one the user has gone to, if it is there, and in the
\* parent pane the directory that the tab is in.  It is on some file if there is
\* one, and within what is visible of the pane.  Only the filter may bring the
\* file back without the cursor, which then follows with the next change.
CursorFollows ==
  [][home'.filter = home.filter
       /\ <<home.items, home.cursor, cwd>>' # <<home.items, home.cursor, cwd>>
     => Followed']_vars

\* No directory is selected together with a file in it, which takes the right
\* counts; and what is selected in Home is listed there, so that an operation
\* on the selection does not meet what the user cannot see.
SelectionSound ==
  /\ \A p \in selected.inner : Ancestors(p) \cap selected.inner = {}
  /\ \A u \in DOMAIN selected.parents :
       selected.parents[u] = Cardinality({p \in selected.inner : u \in Ancestors(p)})
  /\ home.stage = "Loaded" => Children(selected) \subseteq Listed

\* The back stack stands where the tab is, and going back or forth always leads
\* somewhere else, however directories on it disappear.
StackSound ==
  /\ pos \in DOMAIN stack /\ stack[pos] = cwd
  /\ Repeats(stack) = {}
=============================================================================
