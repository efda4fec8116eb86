------------------------- MODULE WriterStackProofs -------------------------
(***************************************************************************)
(* Proofs about WriterStack, for every set of items and every number of    *)
(* attempts.                                                               *)
(***************************************************************************)
EXTENDS WriterStack, FiniteSetTheorems, TLAPS

\* Classify returns its argument or a kind, and only the six transient states become
\* the kind that is quarantined.
LEMMA ClassifyType ==
  ASSUME NEW raw \in RawErrors
  PROVE  /\ Classify(raw) \in RawErrors \union Kinds
         /\ ShouldQuarantine(Classify(raw)) <=> raw \in TransientStates
BY DEF Classify, ShouldQuarantine, RawErrors, Kinds, TransientStates, AlreadyStates,
       PermanentStates

-----------------------------------------------------------------------------
(***************************************************************************)
(* The inductive invariant: attempts are left wherever the loop goes on,   *)
(* an item is quarantined with its attempts used up, and nothing has been  *)
(* answered or put aside for the item in progress.                         *)
(***************************************************************************)
LoopInv ==
  /\ \A i \in Items : answer[i] = "none" /\ i # current => tries[i] = 0
  /\ pc \in {"attempt", "backoff"} => tries[current] < Retries
  /\ pc = "sink" => tries[current] = Retries /\ err[current] = "transient"
  /\ current # NoItem => answer[current] = "none"
  /\ \A i \in sunk : answer[i] # "none" /\ tries[i] = Retries /\ err[i] = "transient"

StackInv == TypeOK /\ LoopInv /\ NilMeansKept

LEMMA InitStackInv == Init => StackInv
<1>. SUFFICES ASSUME Init PROVE StackInv
  OBVIOUS
<1>1. TypeOK
  <2>1. sink \in Seq({Sinkable(i) : i \in Items})
    BY DEF Init
  <2>2. tries \in [Items -> 0 .. Retries]
    BY RetriesAssumption DEF Init
  <2>. QED
    BY <2>1, <2>2 DEF Init, TypeOK
<1>. QED
  BY <1>1, NoItemAssumption DEF Init, StackInv, LoopInv, NilMeansKept

LEMMA NextStackInv == StackInv /\ [Next]_vars => StackInv'
<1>. SUFFICES ASSUME StackInv, [Next]_vars PROVE StackInv'
  OBVIOUS
<1>. USE RetriesAssumption, NoItemAssumption
     DEF StackInv, TypeOK, LoopInv, NilMeansKept
<1>1. ASSUME NEW i \in Items, Call(i) PROVE StackInv'
  <2>1. TypeOK'
    BY <1>1 DEF Call
  <2>2. LoopInv'
    BY <1>1 DEF Call
  <2>3. NilMeansKept'
    BY <1>1 DEF Call
  <2>. QED
    BY <2>1, <2>2, <2>3
<1>2. CASE AttemptSucceeds
  <2>1. current \in Items /\ tries[current] + 1 \in 0 .. Retries
    BY <1>2 DEF AttemptSucceeds
  <2>. QED
    BY <1>2, <2>1 DEF AttemptSucceeds, Return, NoError
<1>3. ASSUME NEW raw \in RawErrors, AttemptFails(raw) PROVE StackInv'
  <2>1. /\ current \in Items /\ pc = "attempt" /\ answer[current] = "none"
        /\ current \notin sunk
        /\ tries[current] + 1 \in 0 .. Retries
        /\ tries' = [tries EXCEPT ![current] = tries[current] + 1]
        /\ err' = [err EXCEPT ![current] = Classify(raw)]
        /\ db \subseteq db' /\ db' \subseteq Items
        /\ UNCHANGED <<ctxDone, inserted, sink, sunk>>
    BY <1>3 DEF AttemptFails
  <2>2. Classify(raw) \in RawErrors \union Kinds
    BY ClassifyType
  <2>3. /\ tries' \in [Items -> 0 .. Retries] /\ tries'[current] = tries[current] + 1
        /\ err' \in [Items -> RawErrors \union Kinds \union {NoError}]
        /\ err'[current] = Classify(raw)
        /\ \A i \in Items : i # current => tries'[i] = tries[i] /\ err'[i] = err[i]
    BY <2>1, <2>2
  <2>4. CASE tries'[current] < Retries
    <3>1. pc' = "backoff" /\ UNCHANGED <<current, answer>>
      BY <1>3, <2>4 DEF AttemptFails
    <3>. QED
      BY <2>1, <2>3, <2>4, <3>1
  <2>5. CASE tries'[current] = Retries /\ ShouldQuarantine(Classify(raw))
    <3>1. pc' = "sink" /\ UNCHANGED <<current, answer>> /\ Classify(raw) = "transient"
      BY <1>3, <2>5 DEF AttemptFails, Exhausted, ShouldQuarantine
    <3>. QED
      BY <2>1, <2>3, <2>5, <3>1
  <2>6. CASE tries'[current] = Retries /\ ~ShouldQuarantine(Classify(raw))
    <3>1. /\ pc' = "stopped" /\ current' = NoItem
          /\ answer' = [answer EXCEPT ![current] = "error"]
      BY <1>3, <2>6 DEF AttemptFails, Exhausted, Return
    <3>. QED
      BY <2>1, <2>3, <3>1
  <2>. QED
    BY <2>1, <2>3, <2>4, <2>5, <2>6
<1>4. CASE BackoffElapses
  BY <1>4 DEF BackoffElapses
<1>5. CASE BackoffCancelled
  BY <1>5 DEF BackoffCancelled, Exhausted, ShouldQuarantine, Return, RawErrors
<1>6. CASE SinkWrites
  <2>1. sink' \in Seq({Sinkable(i) : i \in Items})
    BY <1>6 DEF SinkWrites
  <2>. QED
    BY <1>6, <2>1 DEF SinkWrites, Return
<1>7. CASE SinkFails
  BY <1>7 DEF SinkFails, Return
<1>8. CASE Cancel
  BY <1>8 DEF Cancel
<1>9. CASE UNCHANGED vars
  BY <1>9 DEF vars
<1>. QED
  BY <1>1, <1>2, <1>3, <1>4, <1>5, <1>6, <1>7, <1>8, <1>9 DEF Next, WriteStep, Finished

THEOREM StackCorrect == Spec => []StackInv
BY InitStackInv, NextStackInv, PTL DEF Spec

\* Every variable keeps its type, and attempts never exceed the configured number.
THEOREM StackTypeSafety == Spec => []TypeOK
BY StackCorrect, PTL DEF StackInv

\* No path through the three writers answers nil for an item that was not kept.
THEOREM NilIsKept == Spec => []NilMeansKept
BY StackCorrect, PTL DEF StackInv

\* The dead letters get an item only after all its attempts, for a transient error.
THEOREM QuarantineIsLast == Spec => []QuarantinedAfterRetries
<1>1. StackInv => QuarantinedAfterRetries
  BY DEF StackInv, LoopInv, QuarantinedAfterRetries
<1>. QED
  BY <1>1, StackCorrect, PTL

-----------------------------------------------------------------------------
(***************************************************************************)
(* The progress counter.                                                   *)
(***************************************************************************)
Counted == {i \in Items : answer[i] = "nil" /\ i \notin sunk}

CountInv == StackInv /\ InsertedOnce /\ IsFiniteSet(Counted)

LEMMA NextCountInv == CountInv /\ [Next]_vars => CountInv'
<1>. SUFFICES ASSUME CountInv, [Next]_vars PROVE CountInv'
  OBVIOUS
<1>1. StackInv'
  BY NextStackInv DEF CountInv
<1>2. InsertedOnce <=> inserted = Cardinality(Counted)
  BY DEF InsertedOnce, Counted
<1>3. InsertedOnce' <=> inserted' = Cardinality(Counted')
  BY DEF InsertedOnce, Counted
<1>4. CASE AttemptSucceeds
  <2>1. /\ current \in Items /\ current \notin Counted /\ inserted' = inserted + 1
        /\ Counted' = Counted \union {current}
    BY <1>4 DEF AttemptSucceeds, Return, Counted, CountInv, StackInv, TypeOK, LoopInv
  <2>2. IsFiniteSet(Counted') /\ Cardinality(Counted') = Cardinality(Counted) + 1
    BY <2>1, FS_AddElement DEF CountInv
  <2>. QED
    BY <1>1, <1>2, <1>3, <2>1, <2>2 DEF CountInv
<1>5. CASE SinkWrites
  <2>1. inserted' = inserted /\ Counted' = Counted
    BY <1>5 DEF SinkWrites, Return, Counted, CountInv, StackInv, TypeOK, LoopInv
  <2>. QED
    BY <1>1, <1>2, <1>3, <2>1 DEF CountInv
<1>6. CASE ~AttemptSucceeds /\ ~SinkWrites
  <2>1. \/ answer' = answer
        \/ current \in Items /\ answer[current] = "none"
             /\ answer' = [answer EXCEPT ![current] = "error"]
    BY <1>6 DEF Next, WriteStep, Call, AttemptFails, BackoffElapses, BackoffCancelled,
       SinkFails, Cancel, Finished, Exhausted, ShouldQuarantine, Return, vars, CountInv,
       StackInv, TypeOK, LoopInv
  <2>2. UNCHANGED <<inserted, sunk>>
    BY <1>6 DEF Next, WriteStep, Call, AttemptFails, BackoffElapses, BackoffCancelled,
       SinkFails, Cancel, Finished, vars
  <2>3. Counted' = Counted
    BY <2>1, <2>2 DEF Counted, CountInv, StackInv, TypeOK
  <2>. QED
    BY <1>1, <1>2, <1>3, <2>2, <2>3 DEF CountInv
<1>. QED
  BY <1>4, <1>5, <1>6

\* Task.IncrementInserted runs once per item that the database took, not per attempt.
THEOREM CountedOnce == Spec => []InsertedOnce
<1>1. Init => CountInv
  <2>. SUFFICES ASSUME Init PROVE CountInv
    OBVIOUS
  <2>1. Counted = {}
    BY DEF Init, Counted
  <2>2. IsFiniteSet(Counted) /\ Cardinality(Counted) = 0
    BY <2>1, FS_EmptySet
  <2>. QED
    BY <2>2, InitStackInv DEF CountInv, InsertedOnce, Counted, Init
<1>2. CountInv => InsertedOnce
  BY DEF CountInv
<1>. QED
  BY <1>1, <1>2, NextCountInv, PTL DEF Spec

-----------------------------------------------------------------------------
(***************************************************************************)
(* Refinement.                                                             *)
(***************************************************************************)
LEMMA StepImplementsItemWriter ==
  StackInv /\ [Next]_vars => [Abstract!Next]_(Abstract!vars)
<1>. SUFFICES ASSUME StackInv, [Next]_vars
              PROVE  Abstract!Next \/ UNCHANGED Abstract!vars
  OBVIOUS
<1>. USE DEF StackInv, TypeOK, LoopInv, Abstract!Next, Abstract!vars
<1>1. ASSUME NEW i \in Items, Call(i) PROVE Abstract!Next
  BY <1>1 DEF Call, Abstract!Call
<1>2. CASE AttemptSucceeds
  <2>1. Abstract!ReturnNil
    BY <1>2 DEF AttemptSucceeds, Return, Abstract!ReturnNil
  <2>. QED
    BY <2>1
<1>3. ASSUME NEW raw \in RawErrors, AttemptFails(raw)
      PROVE  Abstract!Next \/ UNCHANGED Abstract!vars
  <2>1. CASE UNCHANGED <<current, answer>>
    BY <1>3, <2>1 DEF AttemptFails, Abstract!Keep
  <2>2. CASE Return("error")
    <3>1. Abstract!ReturnError
      BY <1>3, <2>2 DEF AttemptFails, Return, Abstract!ReturnError
    <3>. QED
      BY <3>1
  <2>. QED
    BY <1>3, <2>1, <2>2 DEF AttemptFails, Exhausted
<1>4. CASE BackoffElapses \/ Cancel \/ UNCHANGED vars
  BY <1>4 DEF BackoffElapses, Cancel, vars
<1>5. CASE BackoffCancelled \/ SinkFails
  <2>1. Abstract!ReturnError
    BY <1>5 DEF BackoffCancelled, SinkFails, Exhausted, ShouldQuarantine, Return,
       Abstract!ReturnError
  <2>. QED
    BY <2>1
<1>6. CASE SinkWrites
  <2>1. Abstract!ReturnNil
    BY <1>6 DEF SinkWrites, Return, Abstract!ReturnNil
  <2>. QED
    BY <2>1
<1>. QED
  BY <1>1, <1>2, <1>3, <1>4, <1>5, <1>6 DEF Next, WriteStep, Finished

\* The three writers together keep the promise the pipeline relies on.
THEOREM StackImplementsItemWriter == Spec => ImplementsItemWriter
<1>1. Init => Abstract!Init
  BY DEF Init, Abstract!Init
<1>. QED
  BY <1>1, StepImplementsItemWriter, StackCorrect, PTL
     DEF Spec, ImplementsItemWriter, Abstract!Spec
=============================================================================
