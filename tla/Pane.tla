-------------------------------- MODULE Pane --------------------------------
(***************************************************************************)
(* What a pane shows of one directory: its files, kept apart into items    *)
(* and hidden ones (yazi-fs entries.rs), and the cursor on the items, which *)
(* is bound to a file by a trace of its key (yazi-core tab/folder.rs,      *)
(* yazi-widgets scrollable.rs).  Pure operators on a record; module Tab    *)
(* drives them.                                                            *)
(*                                                                         *)
(* A file is a key and a stat; the key tells whether it is a hidden file,  *)
(* a directory, and whether the filter matches it.  Of the revision and    *)
(* the version of the entries there is left whether they differ            *)
(* (`unsorted`), and whether the revision has risen since the handler in   *)
(* progress has begun (`bumped`).                                          *)
(***************************************************************************)
EXTENDS Integers, Sequences, FiniteSets, SequencesExt

CONSTANTS
  Alphabet,     \* the keys, in alphabetical order
  HiddenNames,  \* keys that begin with a dot
  Matching,     \* keys that the filter matches
  Limit,        \* lines of a pane
  Scrolloff,    \* lines kept between the cursor and the edge of the pane
  None

Names == ToSet(Alphabet)

ASSUME PaneAssumption ==
  /\ Alphabet \in Seq(Names) /\ IsInjective(Alphabet)
  /\ HiddenNames \subseteq Names /\ Matching \subseteq Names /\ None \notin Names
  /\ Limit \in Nat \ {0} /\ Scrolloff \in 0..(Limit \div 2)

\* The elements of s at the places P, in the order they have there.
Pick(s, P) ==
  [n \in 1..Cardinality(P) |-> s[CHOOSE i \in P : Cardinality({j \in P : j < i}) = n - 1]]

Without(s, places) == Pick(s, DOMAIN s \ places)

Dummy == 0  \* the stat of a file that could not be looked up

File(n, stat) == [key |-> n, stat |-> stat]
Files        == [key : Names, stat : Nat]
Keys(files) == {files[i].key : i \in DOMAIN files}

Folder ==
  [items : Seq(Files), hidden : Seq(Files), ticket : Nat, unsorted : BOOLEAN, bumped : BOOLEAN,
   by : {"name", "time"}, filter : BOOLEAN, show : BOOLEAN, stage : {"Loading", "Loaded"},
   cursor : Nat, offset : Nat, trace : Names \cup {None}, stale : BOOLEAN]

Empty(show) ==
  [items |-> <<>>, hidden |-> <<>>, ticket |-> 0, unsorted |-> FALSE, bumped |-> FALSE,
   by |-> "name", filter |-> FALSE, show |-> show, stage |-> "Loading",
   cursor |-> 0, offset |-> 0, trace |-> None, stale |-> FALSE]

-----------------------------------------------------------------------------
(* Entries *)

Revise(f, really) == IF really THEN [f EXCEPT !.unsorted = TRUE, !.bumped = TRUE] ELSE f

Visible(f, n) == (f.show \/ n \notin HiddenNames) /\ (f.filter => n \in Matching)

\* Entries::split_files
Split(f, files) ==
  LET shown == {i \in DOMAIN files : Visible(f, files[i].key)}
  IN  [items |-> Pick(files, shown), hidden |-> Without(files, shown)]

\* The alphabetical order.
Place == [n \in Names |-> CHOOSE i \in DOMAIN Alphabet : Alphabet[i] = n]

\* FilesSorter::sort; where the time of two files is the same, their names decide.
Before(by, x, y) ==
  IF by = "time" /\ x.stat # y.stat THEN x.stat < y.stat ELSE Place[x.key] < Place[y.key]

Sorted(f, files) ==
  LET Precedes(i, j) == \/ Before(f.by, files[i], files[j])
                        \/ i < j /\ ~Before(f.by, files[j], files[i])
      Those(j) == {i \in DOMAIN files : Precedes(i, j)}
  IN  [n \in DOMAIN files |-> files[CHOOSE j \in DOMAIN files : Cardinality(Those(j)) = n - 1]]

UpdateFull(f, files, ticket) ==
  LET s == Split(f, files) IN
  [Revise(f, s.items # <<>> \/ f.items # <<>>) EXCEPT
     !.items = s.items, !.hidden = s.hidden, !.ticket = ticket]

UpdatePart(f, files, ticket) ==
  LET s == Split(f, files) IN
  CASE files = <<>>       -> [Revise(f, f.items # <<>>) EXCEPT
                                !.items = <<>>, !.hidden = <<>>, !.ticket = ticket]
    [] files # <<>> /\ ticket # f.ticket -> f
    [] OTHER              -> [Revise(f, s.items # <<>>) EXCEPT
                                !.items = @ \o s.items, !.hidden = @ \o s.hidden]

UpdateCreate(f, file) ==
  IF Visible(f, file.key)
  THEN IF file.key \in Keys(f.items) THEN f
       ELSE [Revise(f, TRUE) EXCEPT !.items = Append(@, file)]
  ELSE IF file.key \in Keys(f.hidden) THEN f
       ELSE [f EXCEPT !.hidden = Append(@, file)]

\* Where each key of `keys` stands first: it is looked for only once.
First(files, keys) ==
  {i \in DOMAIN files : files[i].key \in keys /\ \A j \in 1..i-1 : files[j].key # files[i].key}

UpdateDelete(f, keys) ==
  LET shown == First(f.items, keys)  covered == First(f.hidden, keys \ Keys(f.items)) IN
  [Revise(f, shown # {}) EXCEPT !.items  = Without(@, shown), !.hidden = Without(@, covered)]

\* `files` maps the keys of old files to new files.
Existing(old, files) ==
  LET found == First(old, DOMAIN files) IN
  [i \in DOMAIN old |-> IF i \in found THEN files[old[i].key] ELSE old[i]]

Rest(old, files) == SetToSeq({files[k] : k \in DOMAIN files \ Keys(old)})

\* A slip: what is renamed onto an existing file leaves that one listed.
UpdateUpsertOver(f, files) ==
  LET shown   == RestrictDomain(files, LAMBDA k : Visible(f, files[k].key))
      covered == RestrictDomain(files, LAMBDA k : ~Visible(f, files[k].key))
      items   == Existing(f.items, shown)
      more    == Rest(f.items, shown)
  IN  [Revise(f, items # f.items \/ more # <<>>) EXCEPT
         !.items = items \o more, !.hidden = Existing(@, covered) \o Rest(@, covered)]

UpdateUpsert(f, files) ==
  LET g       == UpdateDelete(f, {files[k].key : k \in {k \in DOMAIN files : files[k].key # k}})
      shown   == RestrictDomain(files, LAMBDA k : Visible(f, files[k].key))
      covered == RestrictDomain(files, LAMBDA k : ~Visible(f, files[k].key))
      items   == Existing(g.items, shown)
      more    == Rest(g.items, shown)
  IN  [Revise(g, items # g.items \/ more # <<>>) EXCEPT
         !.items = items \o more, !.hidden = Existing(@, covered) \o Rest(@, covered)]

SetSorter(f, by) == [Revise(f, f.by # by) EXCEPT !.by = by]

SetFilter(f, on) ==
  LET g == [f EXCEPT !.filter = on]
      s == Split(g, IF on THEN f.items \o f.hidden ELSE f.hidden)
      items == IF on THEN s.items ELSE f.items \o s.items
  IN  IF f.filter = on THEN f
      ELSE [g EXCEPT !.hidden = s.hidden,
                     !.items = IF on \/ s.items # <<>> THEN Sorted(f, items) ELSE items]

SetShowHidden(f, show) ==
  LET g == [f EXCEPT !.show = show]
      s == Split(g, IF show THEN f.hidden ELSE f.items)
      h == IF show THEN [g EXCEPT !.items = @ \o s.items, !.hidden = s.hidden]
                   ELSE [g EXCEPT !.items = s.items, !.hidden = @ \o s.hidden]
  IN  IF f.show = show THEN f ELSE Revise(h, Len(h.items) # Len(f.items))

-----------------------------------------------------------------------------
(* Cursor *)

\* A slip: the difference does not stop at zero.
LessBelow(a, b) == a - b

Less(a, b) == IF a > b THEN a - b ELSE 0

Least(a, b) == IF a < b THEN a ELSE b

Hovered(f) == IF f.cursor < Len(f.items) THEN f.items[f.cursor + 1].key ELSE None

\* Scrollable::next and prev: the offset follows a cursor that nears an edge.
Scroll(f, new) ==
  LET len  == Len(f.items)
      down == new >= Less(Least(len, f.offset + Limit), Scrolloff)
      up   == new < f.offset + Scrolloff
  IN  [f EXCEPT !.cursor = new,
         !.offset = CASE new > f.cursor /\ down   -> Least(Less(len, Limit), @ + new - f.cursor)
                      [] new <= f.cursor /\ up    -> Less(@, f.cursor - new)
                      [] OTHER                    -> Least(@, Less(len, 1))]

\* Folder::squeeze_offset
Squeeze(f) ==
  LET len == Len(f.items)
      new == IF f.cursor < Less(Least(f.offset + Limit, len), Scrolloff)
             THEN f.offset
             ELSE Less(f.cursor, Limit) + 1 + Scrolloff
  IN  [f EXCEPT !.offset = Least(Least(Less(len, Limit), new), f.cursor)]

\* Folder::arrow with an offset, and with Prev (-1) and Next (1), which wrap.
ArrowTo(f, new) ==
  Squeeze(IF f.items = <<>> THEN [f EXCEPT !.cursor = 0, !.offset = 0] ELSE Scroll(f, new))

Arrow(f, n) ==
  LET len == Len(f.items)  new == f.cursor + n
  IN  ArrowTo(f, CASE new < 0 -> 0 [] new >= len -> Less(len, 1) [] OTHER -> new)

ArrowAround(f, n) == ArrowTo(f, (f.cursor + n) % Len(f.items))

Retrace(f) == IF Hovered(f) = None THEN f ELSE [f EXCEPT !.trace = Hovered(f)]

\* Folder::hover
HoverKey(f, k) ==
  LET at == SelectInSeq(f.items, LAMBDA x : x.key = k) IN
  IF Hovered(f) = k THEN Arrow(f, 0)
  ELSE Retrace(Arrow(f, IF at = 0 THEN 0 ELSE at - 1 - f.cursor))

\* Folder::repos
Repos(f, k) ==
  CASE k # None                   -> HoverKey(f, k)
    [] k = None /\ f.trace # None -> [HoverKey(f, f.trace) EXCEPT !.trace = f.trace]
    [] OTHER                      -> Arrow(f, 0)

-----------------------------------------------------------------------------
(* Folder::update *)

Late(f, ticket) == f.stage = "Loaded" /\ ticket <= f.ticket

Stage(f, e) ==
  CASE e.op = "Full" -> "Loaded"
    [] e.op = "Part" /\ (e.files = <<>> \/ e.ticket = f.ticket) -> "Loading"
    [] e.op = "Done" /\ e.ticket = f.ticket -> "Loaded"
    [] OTHER -> f.stage

\* What is deleted above the cursor moves it up.
Update(f, e) ==
  LET s == [f EXCEPT !.stage = Stage(f, e)]
      g == CASE e.op = "Full"   -> UpdateFull(s, e.files, e.ticket)
             [] e.op = "Part"   -> UpdatePart(s, e.files, e.ticket)
             [] e.op = "Create" -> UpdateCreate(s, e.file)
             [] e.op = "Delete" -> UpdateDelete(s, e.keys)
             [] e.op = "Upsert" -> UpdateUpsert(s, e.files)
             [] OTHER           -> s
      h == IF g.items = <<>> /\ g.stage # "Loading"
           THEN [g EXCEPT !.trace = None] ELSE g
      above == IF e.op = "Delete" THEN {i \in First(f.items, e.keys) : i <= f.cursor} ELSE {}
  IN  IF e.op \in {"Part", "Done"} /\ Late(f, e.ticket) THEN f
      ELSE Arrow(h, -Cardinality(above))
=============================================================================
