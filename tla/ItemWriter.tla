----------------------------- MODULE ItemWriter -----------------------------
(***************************************************************************)
(* What a pipeline may rely on of a writer (chainmorph.ItemWriter): Write  *)
(* is called for one item at a time and comes back once; if it returns nil *)
(* the item has been kept, in the database or among the dead letters, and  *)
(* an item that was kept stays kept.                                       *)
(***************************************************************************)
CONSTANTS Items, NoItem

VARIABLES current,   \* the item Write is working on, or NoItem
          answer,    \* answer[i]: "none", "nil" or "error"
          kept       \* the items in the database or among the dead letters

vars == <<current, answer, kept>>

Init == current = NoItem /\ answer = [i \in Items |-> "none"] /\ kept = {}

Call(i) ==
  /\ current = NoItem /\ answer[i] = "none"
  /\ current' = i
  /\ UNCHANGED <<answer, kept>>

\* The item may be kept although the call goes on, and is later answered with an error.
Keep ==
  /\ current # NoItem
  /\ kept' = kept \union {current}
  /\ UNCHANGED <<current, answer>>

ReturnNil ==
  /\ current # NoItem
  /\ kept' = kept \union {current}
  /\ answer' = [answer EXCEPT ![current] = "nil"]
  /\ current' = NoItem

ReturnError ==
  /\ current # NoItem
  /\ kept' \in {kept, kept \union {current}}
  /\ answer' = [answer EXCEPT ![current] = "error"]
  /\ current' = NoItem

Next == (\E i \in Items : Call(i)) \/ Keep \/ ReturnNil \/ ReturnError

Spec == Init /\ [][Next]_vars
=============================================================================
