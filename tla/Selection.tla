------------------------------ MODULE Selection ------------------------------
(***************************************************************************)
(* The selected files of a tab (yazi-core tab/selected.rs) and what an     *)
(* operation on a directory does to them (reconciler.rs).  A directory is  *)
(* never selected together with a file in it; to tell, each selected file  *)
(* is counted at all of its ancestors.                                     *)
(*                                                                         *)
(* A path is a sequence of keys that starts in the directory <<>>, whose   *)
(* own ancestors have the same count.  The order of selecting is left out. *)
(***************************************************************************)
EXTENDS Integers, Sequences, FiniteSets, SequencesExt

Ancestors(path) == {SubSeq(path, 1, i) : i \in 0..Len(path)-1}

\* Nothing is selected, and there are directories `folders`.
NoneSelected(folders) == [inner |-> {}, parents |-> [u \in folders |-> 0]]

Count(sel, above, n) == [u \in DOMAIN sel.parents |-> sel.parents[u] + IF u \in above THEN n ELSE 0]

\* A slip: a file is counted again when it is selected again.
AddSameAgain(sel, paths) ==
  LET free == {p \in paths : p \in DOMAIN sel.parents => sel.parents[p] = 0}
      above == UNION {Ancestors(p) : p \in free}
  IN  IF free = {} \/ above \cap sel.inner # {} THEN sel
      ELSE [inner |-> sel.inner \cup free, parents |-> Count(sel, above, Cardinality(free))]

\* Selected::add_same, of paths in one directory
AddSame(sel, paths) ==
  LET free == {p \in paths : p \in DOMAIN sel.parents => sel.parents[p] = 0}
      above == UNION {Ancestors(p) : p \in free}
  IN  IF free = {} \/ above \cap sel.inner # {} THEN sel
      ELSE [inner |-> sel.inner \cup free,
            parents |-> Count(sel, above, Cardinality(free \ sel.inner))]

\* Selected::remove_same, likewise
RemoveSame(sel, paths) ==
  [inner |-> sel.inner \ paths,
   parents |-> Count(sel, UNION {Ancestors(p) : p \in paths}, -Cardinality(paths \cap sel.inner))]

\* Toggle and ToggleAll, without a state
Toggle(sel, path) ==
  IF path \in sel.inner THEN RemoveSame(sel, {path}) ELSE AddSame(sel, {path})

ToggleAll(sel, paths) == AddSame(RemoveSame(sel, paths \cap sel.inner), paths \ sel.inner)

-----------------------------------------------------------------------------
(* Reconciler::apply, for an operation on the directory <<>>. *)

Children(sel) == {p[1] : p \in {q \in sel.inner : Len(q) = 1}}
Paths(keys) == {<<k>> : k \in keys}

\* Of a whole directory: what is not in it is not selected any longer.
Scan(sel, keys) == RemoveSame(sel, Paths(Children(sel) \ keys))

Delete(sel, keys) == RemoveSame(sel, Paths(Children(sel) \cap keys))

\* A file that is selected under an old key is selected under the new one.
Rename(sel, files) ==
  LET hit   == Children(sel) \cap DOMAIN files
      moved == {k \in hit : files[k].key # k}
  IN  AddSame(RemoveSame(sel, Paths(moved)), Paths({files[k].key : k \in hit}))
=============================================================================
