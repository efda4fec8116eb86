---------------------------- MODULE DurableQueue ----------------------------
(***************************************************************************)
(* What a publisher may rely on of RabbitMQ and the processor together:    *)
(* the accepted messages stand in one line, whichever of them have been    *)
(* delivered, and how often.  A message leaves the line only if it is      *)
(* unreadable, and what is saved is still in it: delivery is at least      *)
(* once.                                                                   *)
(***************************************************************************)
EXTENDS Integers, Sequences, SequencesExt

CONSTANTS Message, Unreadable

VARIABLES line,   \* the accepted messages, in order
          saved   \* the messages whose content is in the database

vars == <<line, saved>>

Init == line = <<>> /\ saved = {}

Accept(m) ==
  /\ line' = Append(line, m)
  /\ UNCHANGED saved

Reject(n) ==
  /\ line[n] = Unreadable
  /\ line' = RemoveAt(line, n)
  /\ UNCHANGED saved

Save(n) ==
  /\ line[n] # Unreadable
  /\ saved' = saved \union {line[n]}
  /\ UNCHANGED line

Next ==
  \/ \E m \in Message : Accept(m)
  \/ \E n \in 1 .. Len(line) : Reject(n) \/ Save(n)

Spec == Init /\ [][Next]_vars
=============================================================================
