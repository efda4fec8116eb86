------------------------------- MODULE Walker -------------------------------
(***************************************************************************)
(* The discovery of the dataset's files, internal/walker: filepath.WalkDir *)
(* calls back for every path it comes to, the callback filters, and what   *)
(* is left is sorted into the index.                                       *)
(*                                                                         *)
(* A path is the sequence of its names below the root, which is <<>>.  A   *)
(* name is [key, prefix, zst, matches]: its place in the lexical order,    *)
(* its first character if that is "." or "$", whether its extension is     *)
(* zst, and whether it matches --pattern.  A tree is [paths, dirs, denied, *)
(* broken, pattern]: denied directories may not be read, broken ones       *)
(* cannot, and the pattern is "blank", "valid" or "invalid".               *)
(*                                                                         *)
(* The walk goes on with any path that it knows of: the lexical order of   *)
(* WalkDir is one of these orders, and the index is sorted anyway.         *)
(***************************************************************************)
EXTENDS Integers, Sequences, FiniteSets, SequencesExt

CONSTANT Trees     \* the trees that may lie below --path

\* The proper prefixes of a path, the root among them.
Above(p) == {SubSeq(p, 1, n) : n \in 0 .. Len(p) - 1}

IsTree(t) ==
  /\ IsFiniteSet(t.paths) /\ t.dirs \subseteq t.paths /\ <<>> \in t.dirs
  /\ \A p \in t.paths : p \in Seq(ToSet(p)) /\ Above(p) \subseteq t.dirs
  /\ t.broken \subseteq t.dirs

ASSUME TreesAssumption == \A t \in Trees : IsTree(t)

VARIABLES
  tree,    \* the tree below --path
  todo,    \* the paths that WalkDir will still come to
  found,   \* the files found
  walk,    \* "walking", or how WalkAndAccumulate returned: "ok", "error", "panic"
  index    \* what it returned

walkVars == <<tree, todo, found, walk, index>>

WalkInit ==
  /\ tree \in Trees
  /\ todo = {<<>>} /\ found = <<>>
  /\ walk = "walking" /\ index = <<>>

-----------------------------------------------------------------------------
Children(p) == {q \in tree.paths : q # <<>> /\ Front(q) = p}

ExcludeHidden(name) == name.prefix # "."
ExcludeReserved(name) == name.prefix # "$"
dirFilters(name) == ExcludeHidden(name) /\ ExcludeReserved(name)

\* regexp.Compile's error is dropped: the nil expression panics when it is first used.
WithPattern(name) == tree.pattern = "blank" \/ name.matches

\* Mutant: a file that fails a filter answers SkipDir.
BugVisitFile(p) ==
  /\ walk = "walking" /\ p \in todo \ tree.dirs
  /\ IF Last(p).zst /\ tree.pattern = "invalid"
       THEN walk' = "panic" /\ UNCHANGED <<todo, found>>
       ELSE IF Last(p).zst /\ WithPattern(Last(p))
         THEN todo' = todo \ {p} /\ found' = Append(found, p) /\ UNCHANGED walk
         ELSE todo' = {q \in todo : Front(q) # Front(p)} /\ UNCHANGED <<found, walk>>
  /\ UNCHANGED <<tree, index>>

\* A file.  The extension is looked at before the pattern.
VisitFile(p) ==
  /\ walk = "walking" /\ p \in todo \ tree.dirs
  /\ todo' = todo \ {p}
  /\ CASE ~Last(p).zst                         -> UNCHANGED <<found, walk>>
       [] Last(p).zst /\ tree.pattern = "invalid" -> walk' = "panic" /\ UNCHANGED found
       [] Last(p).zst /\ tree.pattern # "invalid" ->
            /\ found' = IF WithPattern(Last(p)) THEN Append(found, p) ELSE found
            /\ UNCHANGED walk
  /\ UNCHANGED <<tree, index>>

Skipped(p) == (p # <<>> /\ ~dirFilters(Last(p))) \/ p \in tree.denied

\* A directory: the filters, except for the root, then its entries.  Permission denied
\* skips it, any other error ends the walk.
VisitDir(p) ==
  /\ walk = "walking" /\ p \in todo \cap tree.dirs
  /\ todo' = (todo \ {p}) \union (IF Skipped(p) \/ p \in tree.broken THEN {} ELSE Children(p))
  /\ walk' = IF ~Skipped(p) /\ p \in tree.broken THEN "error" ELSE walk
  /\ UNCHANGED <<tree, found, index>>

InOrder(s) == \A i, j \in DOMAIN s : i < j => Last(s[i]).key <= Last(s[j]).key

\* The index, sorted by file name alone and not stably: files of one name end up in any
\* order.  (The files found are distinct: an s that has them all has each once.)
WalkReturns ==
  /\ walk = "walking" /\ todo = {}
  /\ \E s \in [DOMAIN found -> ToSet(found)] :
       ToSet(s) = ToSet(found) /\ InOrder(s) /\ index' = s
  /\ walk' = "ok" /\ found' = <<>>
  /\ UNCHANGED <<tree, todo>>

WalkNext == WalkReturns \/ \E p \in todo : VisitFile(p) \/ VisitDir(p)

WalkSpec == WalkInit /\ [][WalkNext]_walkVars

-----------------------------------------------------------------------------
\* A path the walk comes to: no directory above it is hidden, reserved or denied.
Visible(p) == \A d \in Above(p) : ~Skipped(d)

Datasets == {p \in tree.paths \ tree.dirs : Visible(p) /\ Last(p).zst}
Wanted == {p \in Datasets : WithPattern(Last(p))}
Unreadable == {d \in tree.broken : Visible(d) /\ ~Skipped(d)}

\* The index is what the flags ask for: every visible dataset file that matches, once,
\* in the order of the names, whatever else lies in the tree.  A directory that cannot
\* be read fails the walk rather than shorten the index, and a pattern that does not
\* compile never yields one.
IndexComplete ==
  IF Unreadable # {} \/ (tree.pattern = "invalid" /\ Datasets # {})
    THEN walk # "ok" /\ index = <<>>
    ELSE /\ walk \in {"walking", "ok"}
         /\ walk = "ok" => /\ Len(index) = Cardinality(Wanted) /\ ToSet(index) = Wanted
                           /\ InOrder(index)
=============================================================================
