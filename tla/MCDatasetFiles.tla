--------------------------- MODULE MCDatasetFiles ---------------------------
(***************************************************************************)
(* An instance of DatasetJob for the files that the walker finds.  Every   *)
(* tree is walked; the job itself runs for the tree JobTree, whose index   *)
(* has its three files.                                                    *)
(***************************************************************************)
EXTENDS MCDatasetJob, Walker

\* Trees of a file below the root, a file in a directory and two in one below that; the
\* names of two of the files are the same.
Name(k, prefix, zst) == [key |-> k, prefix |-> prefix, zst |-> zst, matches |-> k # 2]

Tree(d, e, zst1, zst2, denied, broken, pattern) ==
  LET dir == <<Name(3, d, FALSE)>>
      sub == dir \o <<Name(4, e, FALSE)>>
      files == {<<Name(5, "", TRUE)>>, dir \o <<Name(1, ".", zst1)>>,
                sub \o <<Name(1, ".", TRUE)>>, sub \o <<Name(2, "", zst2)>>}
      At(n) == CASE n = 0 -> <<>> [] n = 1 -> dir [] OTHER -> sub
  IN  [paths |-> files \union {<<>>, dir, sub}, dirs |-> {<<>>, dir, sub}, pattern |-> pattern,
       denied |-> {At(n) : n \in denied}, broken |-> {At(n) : n \in broken}]

MCTrees ==
  {Tree(d, e, zst1, zst2, denied, broken, pattern) :
     d \in {"", ".", "$"}, e \in {"", "."}, zst1 \in BOOLEAN, zst2 \in BOOLEAN,
     denied \in SUBSET (0 .. 2), broken \in SUBSET {1, 2}, pattern \in {"blank", "valid", "invalid"}}

JobTree == Tree("", "", FALSE, TRUE, {}, {}, "blank")

\* The walk of some tree, and the job on the files of one.
MCInit == Init /\ WalkInit

MCNext ==
  \/ WalkNext /\ UNCHANGED vars
  \/ walk = "ok" /\ tree = JobTree /\ Next /\ UNCHANGED walkVars
  \/ (walk \notin {"walking", "ok"} \/ tree # JobTree) /\ walk # "walking" /\ UNCHANGED <<vars, walkVars>>

MCSpec == MCInit /\ [][MCNext]_<<vars, walkVars>> /\ Fairness
=============================================================================
