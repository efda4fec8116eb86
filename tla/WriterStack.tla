---------------------------- MODULE WriterStack ----------------------------
(***************************************************************************)
(* The writer of a dataset worker: a DeadLetterWriter around a RetryWriter *)
(* around the PgcrWriter, as root.go:194-207 stacks them.  WriteTo calls   *)
(* Write for one item after the other and ends at the first error.         *)
(*                                                                         *)
(* The database is abstracted to the set of items it holds.  An attempt    *)
(* that fails may have stored its item nevertheless: the connection can be *)
(* lost after the server committed.  Module PgcrWriter models the          *)
(* statements of an attempt.                                               *)
(***************************************************************************)
EXTENDS WriteErrors, Integers, Sequences, FiniteSets

CONSTANTS Items,    \* the items of the worker
          NoItem,
          Retries   \* attempts per item, 3 in the code

\* NewRetryWriter is called with 3; with 0 Write would return nil and write nothing.
ASSUME RetriesAssumption == Retries \in Nat \ {0}
ASSUME NoItemAssumption == NoItem \notin Items

VARIABLES
  ctxDone,   \* the context of the calls is cancelled
  pc,        \* "idle", "backoff", "attempt", "sink" or "stopped"
  current,   \* the item of the call in progress
  tries,     \* tries[i]: attempts made for item i
  err,       \* err[i]: the RetryWriter's err
  answer,    \* answer[i]: what the outer Write returned
  db,        \* the items in the database
  inserted,  \* calls of Task.IncrementInserted
  sink,      \* what was written to the dead-letter file
  sunk       \* the items it was written for

vars == <<ctxDone, pc, current, tries, err, answer, db, inserted, sink, sunk>>

Init ==
  /\ ctxDone = FALSE
  /\ pc = "idle"
  /\ current = NoItem
  /\ tries = [i \in Items |-> 0]
  /\ err = [i \in Items |-> NoError]
  /\ answer = [i \in Items |-> "none"]
  /\ db = {}
  /\ inserted = 0
  /\ sink = <<>>
  /\ sunk = {}

\* The entry written for an item: the SinkableFunc that root.go passes.
Sinkable(i) == "Hello world"

\* The outer Write returns; an error ends WriteTo.
Return(a) ==
  /\ answer' = [answer EXCEPT ![current] = a]
  /\ current' = NoItem
  /\ pc' = IF a = "nil" THEN "idle" ELSE "stopped"

\* WriteTo hands over the next item; the first attempt has no backoff.
Call(i) ==
  /\ pc = "idle" /\ answer[i] = "none"
  /\ current' = i
  /\ pc' = "attempt"
  /\ UNCHANGED <<ctxDone, tries, err, answer, db, inserted, sink, sunk>>

\* Mutant: the success is noted but the loop goes on to the next attempt.
BugAttemptSucceeds ==
  /\ pc = "attempt"
  /\ db' = db \union {current}
  /\ inserted' = inserted + 1
  /\ tries' = [tries EXCEPT ![current] = @ + 1]
  /\ err' = [err EXCEPT ![current] = NoError]
  /\ IF tries'[current] < Retries
       THEN pc' = "backoff" /\ UNCHANGED <<current, answer>>
       ELSE Return("nil")
  /\ UNCHANGED <<ctxDone, sink, sunk>>

\* PgcrWriter.Write stores the item, counts it and returns nil, and so do the others.
AttemptSucceeds ==
  /\ pc = "attempt"
  /\ db' = db \union {current}
  /\ inserted' = inserted + 1
  /\ tries' = [tries EXCEPT ![current] = @ + 1]
  /\ err' = [err EXCEPT ![current] = NoError]
  /\ Return("nil")
  /\ UNCHANGED <<ctxDone, sink, sunk>>

\* The loop has ended with error e: quarantine it or return it.
Exhausted(e) ==
  IF ShouldQuarantine(e)
    THEN pc' = "sink" /\ UNCHANGED <<current, answer>>
    ELSE Return("error")

\* An attempt fails; every error is tried again while attempts are left.
AttemptFails(raw) ==
  /\ pc = "attempt"
  /\ db' \in {db, db \union {current}}
  /\ tries' = [tries EXCEPT ![current] = @ + 1]
  /\ err' = [err EXCEPT ![current] = Classify(raw)]
  /\ IF tries'[current] < Retries
       THEN pc' = "backoff" /\ UNCHANGED <<current, answer>>
       ELSE Exhausted(Classify(raw))
  /\ UNCHANGED <<ctxDone, inserted, sink, sunk>>

\* Mutant: a backoff waits for its cancellation instead of its timer.
BugBackoffElapses ==
  /\ pc = "backoff" /\ ctxDone
  /\ pc' = "attempt"
  /\ UNCHANGED <<ctxDone, current, tries, err, answer, db, inserted, sink, sunk>>

\* The timer fires; select may take it even when the context is done as well.
BackoffElapses ==
  /\ pc = "backoff"
  /\ pc' = "attempt"
  /\ UNCHANGED <<ctxDone, current, tries, err, answer, db, inserted, sink, sunk>>

\* Mutant: the RetryWriter answers a cancellation with nil.
BugBackoffCancelled ==
  /\ pc = "backoff" /\ ctxDone
  /\ err' = [err EXCEPT ![current] = NoError]
  /\ Return("nil")
  /\ UNCHANGED <<ctxDone, tries, db, inserted, sink, sunk>>

\* The backoff is cut short: ctx.Err() is never quarantined.
BackoffCancelled ==
  /\ pc = "backoff" /\ ctxDone
  /\ err' = [err EXCEPT ![current] = "context"]
  /\ Exhausted("context")
  /\ UNCHANGED <<ctxDone, tries, db, inserted, sink, sunk>>

SinkWrites ==
  /\ pc = "sink"
  /\ sink' = Append(sink, Sinkable(current))
  /\ sunk' = sunk \union {current}
  /\ Return("nil")
  /\ UNCHANGED <<ctxDone, tries, err, db, inserted>>

\* Mutant: the error of the sink is logged and swallowed.
BugSinkFails ==
  /\ pc = "sink"
  /\ Return("nil")
  /\ UNCHANGED <<ctxDone, tries, err, db, inserted, sink, sunk>>

SinkFails ==
  /\ pc = "sink"
  /\ Return("error")
  /\ UNCHANGED <<ctxDone, tries, err, db, inserted, sink, sunk>>

Cancel ==
  /\ ~ctxDone
  /\ ctxDone' = TRUE
  /\ UNCHANGED <<pc, current, tries, err, answer, db, inserted, sink, sunk>>

WriteStep ==
  \/ AttemptSucceeds
  \/ \E raw \in RawErrors : AttemptFails(raw)
  \/ BackoffElapses \/ BackoffCancelled \/ SinkWrites \/ SinkFails

\* The worker has stopped, or has written all its items.
Finished ==
  /\ pc = "stopped" \/ (pc = "idle" /\ \A i \in Items : answer[i] # "none")
  /\ UNCHANGED vars

Next == (\E i \in Items : Call(i)) \/ WriteStep \/ Cancel \/ Finished

Spec == Init /\ [][Next]_vars

\* A database call returns, a timer fires.
FairSpec == Spec /\ WF_vars(WriteStep)

-----------------------------------------------------------------------------
(***************************************************************************)
(* Properties.                                                             *)
(***************************************************************************)

\* Every variable has its type; a call is in progress exactly outside idle and stopped.
TypeOK ==
  /\ ctxDone \in BOOLEAN
  /\ pc \in {"idle", "backoff", "attempt", "sink", "stopped"}
  /\ current \in Items \union {NoItem}
  /\ current = NoItem <=> pc \in {"idle", "stopped"}
  /\ tries \in [Items -> 0 .. Retries]
  /\ err \in [Items -> RawErrors \union Kinds \union {NoError}]
  /\ answer \in [Items -> {"none", "nil", "error"}]
  /\ db \subseteq Items
  /\ inserted \in Nat
  /\ sink \in Seq({Sinkable(i) : i \in Items})
  /\ sunk \subseteq Items

\* Write returned nil for an item only if the item is in the database or something was
\* written to the dead letters for it: no error path of the three writers loses it.
NilMeansKept == \A i \in Items : answer[i] = "nil" => i \in db \union sunk

\* An item goes to the dead letters only when every attempt was made and failed, the
\* last of them with a transient error: never for a cancelled context, a permanent
\* error or an unclassified one.
QuarantinedAfterRetries ==
  \A i \in Items : i \in sunk \/ (i = current /\ pc = "sink") =>
    tries[i] = Retries /\ err[i] = "transient"

\* The progress counter counts an item once, whatever its retries: it is the number of
\* items whose Write returned nil without the dead letters.
InsertedOnce == inserted = Cardinality({i \in Items : answer[i] = "nil" /\ i \notin sunk})

\* Every call of Write comes back.
WriteReturns == (current # NoItem) ~> (current = NoItem)

\* The stack is an ItemWriter.
Abstract == INSTANCE ItemWriter WITH kept <- db \union sunk

ImplementsItemWriter == Abstract!Spec
=============================================================================
