----------------------------- MODULE RingBuffer -----------------------------
(***************************************************************************)
(* The log of the terminal UI, internal/telemetry/ring_buffer.go: a fixed  *)
(* array which every goroutine pushes to and the UI reads the end of.      *)
(* Both hold the mutex for their whole operation.                          *)
(***************************************************************************)
EXTENDS Integers, Sequences

CONSTANTS Size,    \* capacity of the buffer, 30 in the code
          Entry,   \* log entries
          Zero     \* the zero LogEntry

\* A buffer that holds something.
SizeAssumption == Size \in Nat \ {0}

VARIABLES
  buf, total,   \* the array, and how many entries have ever been pushed
  written       \* history: the entries pushed, in order

ringVars == <<buf, total, written>>

Slots == 0 .. Size - 1

Init ==
  /\ buf = [i \in Slots |-> Zero]
  /\ total = 0
  /\ written = <<>>

Push(e) ==
  /\ buf' = [buf EXCEPT ![total % Size] = e]
  /\ total' = total + 1
  /\ written' = Append(written, e)

\* Mutant: the request is not clamped to what is still in the buffer.
BugCount(n) == IF n < 0 THEN 0 ELSE IF n < total THEN n ELSE total

\* max(0, min(n, total, size)).
Count(n) ==
  LET least == IF n < total THEN IF n < Size THEN n ELSE Size
               ELSE IF total < Size THEN total ELSE Size
  IN  IF least < 0 THEN 0 ELSE least

\* The last entries, at most n of them, oldest first.
Last(n) == [k \in 1 .. Count(n) |-> buf[(total - Count(n) + k - 1) % Size]]

Next == \E e \in Entry : Push(e)

Spec == Init /\ [][Next]_ringVars

-----------------------------------------------------------------------------
\* The types, and as many entries counted as written.
TypeOK ==
  /\ buf \in [Slots -> Entry \union {Zero}]
  /\ written \in Seq(Entry)
  /\ total = Len(written)

\* The log shows its own end: for any request, negative, zero or too large, the entries
\* are the last ones written, in order, as many as were asked for as far as there are
\* such and the buffer holds them.
LogShowsTail ==
  \A n \in -1 .. Size + 1 :
    /\ Count(n) \in 0 .. Size
    /\ Count(n) <= Len(written)
    /\ n \in 0 .. Size /\ n <= Len(written) => Count(n) = n
    /\ \A k \in 1 .. Count(n) : Last(n)[k] = written[Len(written) - Count(n) + k]
=============================================================================
