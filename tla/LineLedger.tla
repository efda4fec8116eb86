----------------------------- MODULE LineLedger -----------------------------
(***************************************************************************)
(* What the backfill job promises about the lines of its dataset, whatever *)
(* the number of workers and however the goroutines interleave: a line     *)
(* enters the pipeline once, never before a line that precedes it in the   *)
(* dataset, and leaves it once, with a verdict that is never revised.      *)
(* A line may stay unread, or in flight, for ever: a cancelled job stops.  *)
(***************************************************************************)
CONSTANTS Lines,     \* the lines of the dataset
          Precedes,  \* the pairs <<x, y>> of lines with x before y
          Verdicts   \* what can become of a line

VARIABLE stage       \* stage[x]: "unread", "inflight" or a verdict

TypeOK == stage \in [Lines -> {"unread", "inflight"} \union Verdicts]

Init == stage = [x \in Lines |-> "unread"]

Enter(x) ==
  /\ stage[x] = "unread"
  /\ \A y \in Lines : <<y, x>> \in Precedes => stage[y] # "unread"
  /\ stage' = [stage EXCEPT ![x] = "inflight"]

Leave(x, v) ==
  /\ stage[x] = "inflight"
  /\ stage' = [stage EXCEPT ![x] = v]

Next == \E x \in Lines : Enter(x) \/ \E v \in Verdicts : Leave(x, v)

Spec == Init /\ [][Next]_stage
=============================================================================
