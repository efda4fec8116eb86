-------------------------- MODULE JobStartupProofs --------------------------
(***************************************************************************)
(* Proofs about JobStartup, for every number of definitions and all sizes  *)
(* of the buffers.                                                         *)
(***************************************************************************)
EXTENDS JobStartup, SequenceTheorems, TLAPS

-----------------------------------------------------------------------------
(***************************************************************************)
(* Sequences: an event that moves from one place to the next leaves the    *)
(* stream of the places as it is.                                          *)
(***************************************************************************)
\* The first element of t is received from t.
LEMMA ReceiveMoves ==
  ASSUME NEW S, NEW s \in Seq(S), NEW t \in Seq(S), t # <<>>
  PROVE  /\ Head(t) \in S /\ Tail(t) \in Seq(S) /\ Len(Tail(t)) = Len(t) - 1
         /\ (s \o <<Head(t)>>) \o Tail(t) = (s \o <<>>) \o t
<1>1. Head(t) \in S /\ Tail(t) \in Seq(S) /\ Len(Tail(t)) = Len(t) - 1
  BY HeadTailProperties
<1>2. <<Head(t)>> \o Tail(t) = t
  <2>1. <<Head(t)>> \in Seq(S) /\ Len(<<Head(t)>>) = 1 /\ <<Head(t)>>[1] = Head(t)
    BY <1>1
  <2>2. \A i \in 1 .. Len(Tail(t)) : Tail(t)[i] = t[i + 1]
    BY HeadTailProperties
  <2> DEFINE u == <<Head(t)>> \o Tail(t)
  <2>3. u \in Seq(S) /\ Len(u) = Len(t)
    BY <1>1, <2>1, ConcatProperties, LenProperties
  <2>4. \A i \in 1 .. Len(t) : u[i] = IF i <= 1 THEN Head(t) ELSE Tail(t)[i - 1]
    BY <1>1, <2>1, ConcatProperties, LenProperties
  <2>5. Len(t) \in Nat /\ Head(t) = t[1]
    BY LenProperties, EmptySeq
  <2> HIDE DEF u
  <2>6. ASSUME NEW i \in 1 .. Len(t) PROVE u[i] = t[i]
    <3>1. CASE i = 1
      BY <2>4, <2>5, <3>1
    <3>2. CASE i # 1
      <4>1. i - 1 \in 1 .. Len(Tail(t)) /\ (i - 1) + 1 = i
        BY <1>1, <2>5, <3>2
      <4>2. Tail(t)[i - 1] = t[(i - 1) + 1]
        BY <2>2, <4>1
      <4> QED
        BY <2>4, <3>2, <4>1, <4>2
    <3> QED
      BY <3>1, <3>2
  <2>7. u = t
    BY <2>3, <2>6, SeqEqual
  <2> QED
    BY <2>7 DEF u
<1>3. <<Head(t)>> \in Seq(S)
  BY <1>1
<1>4. (s \o <<Head(t)>>) \o Tail(t) = s \o (<<Head(t)>> \o Tail(t))
  BY <1>1, <1>3, ConcatAssociative
<1>5. s \o <<>> = s
  BY ConcatEmptySeq
<1> QED
  BY <1>1, <1>2, <1>4, <1>5

LEMMA LengthsAdd ==
  ASSUME NEW S, NEW s \in Seq(S), NEW t \in Seq(S)
  PROVE  Len(s \o t) = Len(s) + Len(t)
BY ConcatProperties

\* What is held in h is sent to the end of s.
LEMMA SendMoves ==
  ASSUME NEW S, NEW r \in Seq(S), NEW s \in Seq(S), NEW h \in Seq(S)
  PROVE  (r \o (s \o h)) \o <<>> = (r \o s) \o h
<1>1. s \o h \in Seq(S)
  BY ConcatProperties
<1>2. r \o (s \o h) \in Seq(S)
  BY <1>1, ConcatProperties
<1>3. (r \o (s \o h)) \o <<>> = r \o (s \o h)
  BY <1>2, ConcatEmptySeq
<1>4. (r \o s) \o h = r \o (s \o h)
  BY ConcatAssociative
<1> QED
  BY <1>3, <1>4, Zenon

-----------------------------------------------------------------------------
(***************************************************************************)
(* Types.                                                                  *)
(***************************************************************************)
\* What the cache publishes ends with CacheFinished, and nobody hears of it before the
\* subscription.
PlaceInv ==
  /\ main = "warming" => published < CacheFinished
  /\ fwd = "done" => globalDone
  /\ fwd = "start" => sub = <<>> /\ eventsCh = <<>> /\ seen = <<>> /\ pubHeld = <<>>

StartInv == TypeOK /\ PlaceInv

LEMMA InitStartInv == Init => StartInv
<1> SUFFICES ASSUME Init PROVE StartInv
  OBVIOUS
<1>1. <<>> \in Seq(Event) /\ Len(<<>>) = 0
  BY EmptySeq
<1>2. /\ 0 \in 0 .. CacheFinished /\ 0 < CacheFinished
      /\ 0 <= BrokerBuffer /\ 0 <= EventsBuffer
  BY DefinitionsAssumption, BuffersAssumption DEF CacheFinished
<1>3. /\ sub = <<>> /\ eventsCh = <<>> /\ fwdHeld = <<>> /\ pubHeld = <<>> /\ seen = <<>>
      /\ fwd = "start" /\ pub = "receive" /\ main = "warming" /\ published = 0
      /\ globalDone = FALSE /\ groupErr = FALSE /\ ui = "running" /\ screen = "cacheWarming"
  BY DEF Init
<1>4. TypeOK
  <2>1. sub \in Seq(Event) /\ Len(sub) <= BrokerBuffer
    BY <1>1, <1>2, <1>3
  <2>2. eventsCh \in Seq(Event) /\ Len(eventsCh) <= EventsBuffer
    BY <1>1, <1>2, <1>3
  <2>3. fwdHeld \in Seq(Event) /\ Len(fwdHeld) = (IF fwd = "send" THEN 1 ELSE 0)
    BY <1>1, <1>3
  <2>4. pubHeld \in Seq(Event) /\ Len(pubHeld) = (IF pub = "send" THEN 1 ELSE 0)
    BY <1>1, <1>3
  <2>5. seen \in Seq(Event) /\ published \in 0 .. CacheFinished
    BY <1>1, <1>2, <1>3
  <2> QED
    BY <1>3, <2>1, <2>2, <2>3, <2>4, <2>5 DEF TypeOK
<1>5. PlaceInv
  BY <1>2, <1>3 DEF PlaceInv
<1> QED
  BY <1>4, <1>5 DEF StartInv

LEMMA NextStartInv == StartInv /\ [Next]_vars => StartInv'
<1> SUFFICES ASSUME StartInv, [Next]_vars PROVE StartInv'
  OBVIOUS
<1> USE DefinitionsAssumption, BuffersAssumption DEF StartInv, TypeOK, PlaceInv
<1>1. CASE Publish
  <2>1. published + 1 \in Event /\ published + 1 \in 0 .. CacheFinished
    BY <1>1 DEF Publish, Event, CacheFinished
  <2>2. Append(sub, published + 1) \in Seq(Event) /\ Len(Append(sub, published + 1)) = Len(sub) + 1
    BY <2>1
  <2>3. Len(sub) < BrokerBuffer => Len(sub) + 1 <= BrokerBuffer
    BY LenProperties
  <2>4. sub' \in Seq(Event) /\ Len(sub') <= BrokerBuffer
    BY <1>1, <2>2, <2>3 DEF Publish
  <2>5. main' \in {"warming", "connecting"} /\ (main' = "warming" => published' # CacheFinished)
    BY <1>1 DEF Publish
  <2>6. published' = published + 1 /\ published' \in 0 .. CacheFinished
    BY <1>1, <2>1 DEF Publish
  <2>7. main' = "warming" => published' < CacheFinished
    BY <2>5, <2>6 DEF CacheFinished
  <2>8. TypeOK'
    BY <1>1, <2>4, <2>5, <2>6 DEF Publish, fwdVars, pubVars, uiVars
  <2>9. PlaceInv'
    BY <1>1, <2>7 DEF Publish, fwdVars, pubVars, uiVars
  <2> QED
    BY <2>8, <2>9
<1>2. CASE StartFails \/ StartJob \/ JobEnds \/ WaitReturns \/ Cancel \/ Join
  <2>1. CASE StartFails
    BY <2>1 DEF StartFails, fwdVars, pubVars, uiVars
  <2>2. CASE StartJob
    BY <2>2 DEF StartJob, fwdVars, pubVars, uiVars
  <2>3. CASE JobEnds
    BY <2>3 DEF JobEnds, fwdVars, pubVars, uiVars
  <2>4. CASE WaitReturns
    BY <2>4 DEF WaitReturns, fwdVars, pubVars, uiVars
  <2>5. CASE Cancel
    BY <2>5 DEF Cancel, fwdVars, pubVars, uiVars
  <2>6. CASE Join
    BY <2>6 DEF Join, fwdVars, pubVars, uiVars
  <2> QED
    BY <1>2, <2>1, <2>2, <2>3, <2>4, <2>5, <2>6
<1>3. CASE Subscribe
  BY <1>3 DEF Subscribe, mainVars, pubVars, uiVars
<1>4. CASE FwdReceive
  <2>1. Head(sub) \in Event /\ Tail(sub) \in Seq(Event) /\ Len(Tail(sub)) = Len(sub) - 1
    BY <1>4, HeadTailProperties DEF FwdReceive
  <2>2. <<Head(sub)>> \in Seq(Event) /\ Len(<<Head(sub)>>) = 1
    BY <2>1
  <2>3. Len(sub) - 1 <= BrokerBuffer
    BY LenProperties
  <2>5. TypeOK'
    BY <1>4, <2>1, <2>2, <2>3 DEF FwdReceive, mainVars, pubVars, uiVars
  <2>6. PlaceInv'
    BY <1>4, <2>1, <2>2, <2>3 DEF FwdReceive, mainVars, pubVars, uiVars
  <2> QED
    BY <2>5, <2>6
<1>5. CASE FwdSend
  <2>1. Len(fwdHeld) = 1 /\ eventsCh \o fwdHeld \in Seq(Event)
    BY <1>5, ConcatProperties DEF FwdSend
  <2>2. Len(eventsCh \o fwdHeld) <= EventsBuffer
    <3>1. eventsCh \in Seq(Event) /\ fwdHeld \in Seq(Event)
      OBVIOUS
    <3>2. Len(eventsCh \o fwdHeld) = Len(eventsCh) + Len(fwdHeld)
      BY <3>1, LengthsAdd
    <3>3. Len(eventsCh) \in Nat /\ Len(eventsCh) < EventsBuffer
      BY <1>5, <3>1, LenProperties DEF FwdSend
    <3> QED
      BY <2>1, <3>2, <3>3
  <2>3. <<>> \in Seq(Event) /\ Len(<<>>) = 0
    BY EmptySeq
  <2>5. TypeOK'
    BY <1>5, <2>1, <2>2, <2>3 DEF FwdSend, mainVars, pubVars, uiVars
  <2>6. PlaceInv'
    BY <1>5, <2>1, <2>2, <2>3 DEF FwdSend, mainVars, pubVars, uiVars
  <2> QED
    BY <2>5, <2>6
<1>6. CASE FwdCancelled
  <2>1. <<>> \in Seq(Event) /\ Len(<<>>) = 0
    BY EmptySeq
  <2> QED
    BY <1>6, <2>1 DEF FwdCancelled, mainVars, pubVars, uiVars
<1>7. CASE PubReceive
  <2>1. Head(eventsCh) \in Event /\ Tail(eventsCh) \in Seq(Event)
        /\ Len(Tail(eventsCh)) = Len(eventsCh) - 1
    BY <1>7, HeadTailProperties DEF PubReceive
  <2>2. <<Head(eventsCh)>> \in Seq(Event) /\ Len(<<Head(eventsCh)>>) = 1
    BY <2>1
  <2>3. Len(eventsCh) - 1 <= EventsBuffer
    BY LenProperties
  <2>5. TypeOK'
    BY <1>7, <2>1, <2>2, <2>3 DEF PubReceive, mainVars, fwdVars, uiVars
  <2>6. PlaceInv'
    BY <1>7, <2>1, <2>2, <2>3 DEF PubReceive, mainVars, fwdVars, uiVars
  <2> QED
    BY <2>5, <2>6
<1>8. CASE PubCancelled
  BY <1>8 DEF PubCancelled, mainVars, fwdVars, uiVars
<1>9. CASE Update
  <2>1. <<>> \in Seq(Event) /\ Len(<<>>) = 0
    BY EmptySeq
  <2>2. seen \o pubHeld \in Seq(Event)
    BY ConcatProperties
  <2>3. screen' \in {"cacheWarming", "datasetProcessing"}
    BY <1>9 DEF Update, ScreenAfter
  <2>8. Len(pubHeld) = 1
    BY <1>9 DEF Update
  <2>4. fwd # "start"
    BY <2>1, <2>8
  <2>7. /\ pub' = "receive" /\ pubHeld' = <<>> /\ seen' = seen \o pubHeld
        /\ UNCHANGED <<globalDone, groupErr, main, published, fwd, fwdHeld, sub, eventsCh, ui>>
    BY <1>9 DEF Update, mainVars, fwdVars
  <2>5. TypeOK'
    BY <2>1, <2>2, <2>3, <2>7
  <2>6. PlaceInv'
    BY <1>9, <2>1, <2>2, <2>3, <2>4 DEF Update, mainVars, fwdVars
  <2> QED
    BY <2>5, <2>6
<1>10. CASE SendDiscards
  <2>1. <<>> \in Seq(Event) /\ Len(<<>>) = 0
    BY EmptySeq
  <2> QED
    BY <1>10, <2>1 DEF SendDiscards, mainVars, fwdVars, uiVars
<1>11. CASE Signal
  BY <1>11 DEF Signal, mainVars, fwdVars, pubVars, uiVars
<1>13. CASE PressQuit \/ UiKilled \/ UiFails
  <2>1. CASE PressQuit
    BY <2>1 DEF PressQuit, mainVars, fwdVars, pubVars
  <2>2. CASE UiKilled
    BY <2>2 DEF UiKilled, mainVars, fwdVars, pubVars
  <2>3. CASE UiFails
    BY <2>3 DEF UiFails, mainVars, fwdVars, pubVars
  <2> QED
    BY <1>13, <2>1, <2>2, <2>3
<1>12. CASE UNCHANGED vars
  BY <1>12 DEF vars
<1> QED
  BY <1>1, <1>2, <1>3, <1>4, <1>5, <1>6, <1>7, <1>8, <1>9, <1>10, <1>11, <1>12, <1>13
     DEF Next, MainNext, FwdNext, PubNext, Exited

-----------------------------------------------------------------------------
(***************************************************************************)
(* The order of the events.                                                *)
(***************************************************************************)
\* Every event handled or on its way.
Stream == seen \o pubHeld \o eventsCh \o fwdHeld \o sub

\* They are the last ones published.
Latest == \A i \in 1 .. Len(Stream) : Stream[i] = published - Len(Stream) + i

\* While the UI is there and nobody has cancelled, nothing is discarded.
Flowing == ~globalDone /\ ui = "running" /\ BrokerBuffer >= CacheFinished

LEMMA StreamType ==
  ASSUME StartInv
  PROVE  /\ Stream \in Seq(Event)
         /\ Len(Stream) \in Nat /\ Len(sub) <= Len(Stream)
         /\ seen \o pubHeld \in Seq(Event)
         /\ seen \o pubHeld \o eventsCh \in Seq(Event)
         /\ seen \o pubHeld \o eventsCh \o fwdHeld \in Seq(Event)
<1>1. /\ seen \in Seq(Event) /\ pubHeld \in Seq(Event) /\ eventsCh \in Seq(Event)
      /\ fwdHeld \in Seq(Event) /\ sub \in Seq(Event)
  BY DEF StartInv, TypeOK
<1>2. seen \o pubHeld \in Seq(Event)
  BY <1>1, ConcatProperties
<1>3. seen \o pubHeld \o eventsCh \in Seq(Event)
  BY <1>1, <1>2, ConcatProperties
<1>4. seen \o pubHeld \o eventsCh \o fwdHeld \in Seq(Event)
  BY <1>1, <1>3, ConcatProperties
<1>5. /\ Stream \in Seq(Event)
      /\ Len(Stream) = Len(seen \o pubHeld \o eventsCh \o fwdHeld) + Len(sub)
  BY <1>1, <1>4, ConcatProperties DEF Stream
<1>6. /\ Len(Stream) \in Nat /\ Len(sub) \in Nat
      /\ Len(seen \o pubHeld \o eventsCh \o fwdHeld) \in Nat
  BY <1>1, <1>4, <1>5, LenProperties
<1> QED
  BY <1>2, <1>3, <1>4, <1>5, <1>6

\* A subscriber's buffer of that size never overflows.
LEMMA PublishArrives ==
  ASSUME StartInv, Flowing, Latest, Publish, fwd # "start"
  PROVE  Stream' = Append(Stream, published + 1)
<1>1. published \in Nat /\ published < CacheFinished /\ CacheFinished \in Nat
  BY DefinitionsAssumption DEF StartInv, TypeOK, PlaceInv, Publish, CacheFinished
<1>2. Len(Stream) <= published
  <2>1. CASE Len(Stream) = 0
    BY <2>1, <1>1
  <2>2. CASE Len(Stream) # 0
    <3>1. 1 \in 1 .. Len(Stream) /\ Len(Stream) \in Nat
      BY <2>2, StreamType
    <3>2. Stream[1] \in Event /\ Stream[1] = published - Len(Stream) + 1
      BY <3>1, StreamType, ElementOfSeq DEF Latest
    <3> QED
      BY <3>1, <3>2, <1>1 DEF Event
  <2> QED
    BY <2>1, <2>2
<1>3. Len(sub) < BrokerBuffer
  <2>1. Len(sub) <= Len(Stream) /\ Len(sub) \in Nat /\ Len(Stream) \in Nat
    BY StreamType, LenProperties DEF StartInv, TypeOK
  <2> QED
    BY <2>1, <1>1, <1>2, BuffersAssumption DEF Flowing
<1>4. sub' = Append(sub, published + 1)
  BY <1>3 DEF Publish
<1>5. /\ seen' = seen /\ pubHeld' = pubHeld /\ eventsCh' = eventsCh /\ fwdHeld' = fwdHeld
  BY DEF Publish, fwdVars, pubVars, uiVars
<1> DEFINE s == seen \o pubHeld \o eventsCh \o fwdHeld
<1>6. s \in Seq(Event) /\ sub \in Seq(Event) /\ published + 1 \in Event
  BY StreamType, <1>1 DEF StartInv, TypeOK, Event, CacheFinished
<1>7. Stream = s \o sub /\ Stream' = s \o Append(sub, published + 1)
  BY <1>4, <1>5 DEF Stream
<1> HIDE DEF s
<1> QED
  BY <1>6, <1>7, AppendProperties, ConcatProperties, AppendIsConcat, ConcatAssociative

OrderInv ==
  /\ StartInv
  /\ Flowing => Latest

LEMMA NextOrderInv == OrderInv /\ [Next]_vars => OrderInv'
<1> SUFFICES ASSUME OrderInv, [Next]_vars, Flowing' PROVE Latest'
  BY NextStartInv DEF OrderInv
<1>0. Flowing
  <2>1. globalDone => globalDone'
    BY DEF Next, MainNext, FwdNext, PubNext, Exited, vars, Publish, StartFails, StartJob, JobEnds,
           WaitReturns, Cancel, Join, Subscribe, FwdReceive, FwdSend, FwdCancelled, PubReceive,
           PubCancelled, Update, SendDiscards, Signal, PressQuit, UiKilled, UiFails
  <2>2. ui = "done" => ui' = "done"
    BY DEF Next, MainNext, FwdNext, PubNext, Exited, vars, Publish, StartFails, StartJob, JobEnds,
           WaitReturns, Cancel, Join, Subscribe, FwdReceive, FwdSend, FwdCancelled, PubReceive,
           PubCancelled, Update, SendDiscards, Signal, PressQuit, UiKilled, UiFails, uiVars
  <2> QED
    BY <2>1, <2>2 DEF Flowing, OrderInv, StartInv, TypeOK
<1>1. StartInv /\ Latest
  BY <1>0 DEF OrderInv
<1> DEFINE Still == Stream' = Stream /\ published' = published
<1>2. Still => Latest'
  BY <1>1 DEF Latest
<1>3. CASE Publish
  <2>1. published' = published + 1 /\ published \in Nat
    BY <1>1, <1>3 DEF Publish, StartInv, TypeOK
  <2>2. CASE fwd = "start"
    <3>1. sub = <<>> /\ eventsCh = <<>> /\ seen = <<>> /\ pubHeld = <<>> /\ Len(fwdHeld) = 0
      BY <1>1, <2>2 DEF StartInv, TypeOK, PlaceInv
    <3>2. fwdHeld = <<>>
      BY <1>1, <3>1, EmptySeq DEF StartInv, TypeOK
    <3>3. sub' = <<>> /\ eventsCh' = <<>> /\ seen' = <<>> /\ pubHeld' = <<>> /\ fwdHeld' = <<>>
      BY <1>3, <2>2, <3>1, <3>2 DEF Publish, fwdVars, pubVars, uiVars
    <3>4. Stream' = <<>>
      BY <3>3, ConcatEmptySeq, EmptySeq DEF Stream
    <3> QED
      BY <3>4, EmptySeq DEF Latest
  <2>3. CASE fwd # "start"
    <3>1. Stream' = Append(Stream, published + 1)
      BY <1>0, <1>1, <1>3, <2>3, PublishArrives
    <3>2. Stream \in Seq(Event) /\ Len(Stream) \in Nat
      BY <1>1, StreamType
    <3>3. /\ Len(Stream') = Len(Stream) + 1
          /\ \A i \in 1 .. Len(Stream) : Stream'[i] = Stream[i]
          /\ Stream'[Len(Stream) + 1] = published + 1
      BY <3>1, <3>2
    <3>4. ASSUME NEW i \in 1 .. Len(Stream') PROVE Stream'[i] = published' - Len(Stream') + i
      <4>1. CASE i \in 1 .. Len(Stream)
        BY <1>1, <2>1, <3>2, <3>3, <4>1 DEF Latest
      <4>2. CASE i = Len(Stream) + 1
        BY <2>1, <3>2, <3>3, <4>2
      <4> QED
        BY <3>2, <3>3, <4>1, <4>2
    <3> QED
      BY <3>4 DEF Latest
  <2> QED
    BY <2>2, <2>3
<1>4. CASE StartFails \/ StartJob \/ JobEnds \/ WaitReturns \/ Cancel \/ Join
  <2>1. Still
    BY <1>4 DEF StartFails, StartJob, JobEnds, WaitReturns, Cancel, Join, fwdVars, pubVars,
                uiVars, Stream
  <2> QED
    BY <1>2, <2>1
<1>5. CASE Subscribe \/ PubCancelled \/ Signal \/ PressQuit \/ UiKilled \/ UiFails \/ UNCHANGED vars
  <2>1. Still
    BY <1>5 DEF Subscribe, PubCancelled, Signal, PressQuit, UiKilled, UiFails, vars, mainVars,
                fwdVars, pubVars, uiVars, Stream
  <2> QED
    BY <1>2, <2>1
<1>6. CASE FwdReceive
  <2>1. fwdHeld = <<>>
    BY <1>1, <1>6, EmptySeq DEF FwdReceive, StartInv, TypeOK
  <2>2. /\ sub \in Seq(Event) /\ sub # <<>> /\ fwdHeld' = <<Head(sub)>> /\ sub' = Tail(sub)
        /\ UNCHANGED <<seen, pubHeld, eventsCh, published>>
    BY <1>1, <1>6 DEF FwdReceive, StartInv, TypeOK, mainVars, pubVars, uiVars
  <2> DEFINE s == seen \o pubHeld \o eventsCh
  <2>3. s \in Seq(Event)
    BY <1>1, StreamType
  <2>4. Stream = (s \o <<>>) \o sub
    BY <2>1, Zenon DEF Stream
  <2>6. s' = s
    BY <2>2
  <2> HIDE DEF s
  <2>7. Stream' = (s \o <<Head(sub)>>) \o Tail(sub)
    BY <2>2, <2>6, Zenon DEF Stream, s
  <2>8. (s \o <<Head(sub)>>) \o Tail(sub) = (s \o <<>>) \o sub
    BY <2>2, <2>3, ReceiveMoves
  <2>5. Still
    BY <2>2, <2>4, <2>7, <2>8
  <2> QED
    BY <1>2, <2>5
<1>7. CASE FwdSend
  <2>1. /\ eventsCh \in Seq(Event) /\ fwdHeld \in Seq(Event)
        /\ eventsCh' = eventsCh \o fwdHeld /\ fwdHeld' = <<>>
        /\ UNCHANGED <<seen, pubHeld, sub, published>>
    BY <1>1, <1>7 DEF FwdSend, StartInv, TypeOK, mainVars, pubVars, uiVars
  <2> DEFINE s == seen \o pubHeld
  <2>2. s \in Seq(Event)
    BY <1>1, StreamType
  <2>3. Stream = ((s \o eventsCh) \o fwdHeld) \o sub
    BY Zenon DEF Stream
  <2>4. s' = s
    BY <2>1
  <2> HIDE DEF s
  <2>5. Stream' = ((s \o (eventsCh \o fwdHeld)) \o <<>>) \o sub
    BY <2>1, <2>4, Zenon DEF Stream, s
  <2>8. eventsCh \in Seq(Event) /\ fwdHeld \in Seq(Event)
    BY <2>1
  <2>6. (s \o (eventsCh \o fwdHeld)) \o <<>> = (s \o eventsCh) \o fwdHeld
    BY <2>2, <2>8, SendMoves
  <2>7. Still
    BY <2>1, <2>3, <2>5, <2>6
  <2> QED
    BY <1>2, <2>7
<1>8. CASE PubReceive
  <2>1. pubHeld = <<>>
    BY <1>1, <1>8, EmptySeq DEF PubReceive, StartInv, TypeOK
  <2>2. /\ eventsCh \in Seq(Event) /\ eventsCh # <<>> /\ seen \in Seq(Event)
        /\ pubHeld' = <<Head(eventsCh)>> /\ eventsCh' = Tail(eventsCh)
        /\ UNCHANGED <<seen, fwdHeld, sub, published>>
    BY <1>1, <1>8 DEF PubReceive, StartInv, TypeOK, mainVars, fwdVars, uiVars
  <2>3. Stream = (((seen \o <<>>) \o eventsCh) \o fwdHeld) \o sub
    BY <2>1, Zenon DEF Stream
  <2>4. Stream' = (((seen \o <<Head(eventsCh)>>) \o Tail(eventsCh)) \o fwdHeld) \o sub
    BY <2>2, Zenon DEF Stream
  <2>5. (seen \o <<Head(eventsCh)>>) \o Tail(eventsCh) = (seen \o <<>>) \o eventsCh
    BY <2>2, ReceiveMoves
  <2>6. Still
    BY <2>2, <2>3, <2>4, <2>5
  <2> QED
    BY <1>2, <2>6
<1>9. CASE Update
  <2>1. /\ seen \in Seq(Event) /\ pubHeld \in Seq(Event)
        /\ seen' = seen \o pubHeld /\ pubHeld' = <<>>
        /\ UNCHANGED <<eventsCh, fwdHeld, sub, published>>
    BY <1>1, <1>9 DEF Update, StartInv, TypeOK, mainVars, fwdVars
  <2>2. (seen \o pubHeld) \o <<>> = seen \o pubHeld
    BY <2>1, ConcatProperties, ConcatEmptySeq
  <2>3. Still
    BY <2>1, <2>2 DEF Stream
  <2> QED
    BY <1>2, <2>3
<1>10. CASE FwdCancelled \/ SendDiscards
  BY <1>0, <1>10 DEF FwdCancelled, SendDiscards, Flowing
<1> QED
  BY <1>3, <1>4, <1>5, <1>6, <1>7, <1>8, <1>9, <1>10 DEF Next, MainNext, FwdNext, PubNext, Exited

LEMMA InitOrderInv == Init => OrderInv
<1> SUFFICES ASSUME Init PROVE OrderInv
  OBVIOUS
<1>1. Stream = <<>>
  BY ConcatEmptySeq, EmptySeq DEF Init, Stream
<1> QED
  BY <1>1, InitStartInv, EmptySeq DEF OrderInv, Latest

-----------------------------------------------------------------------------
(***************************************************************************)
(* The screen is what the last event handled makes of it.                  *)
(***************************************************************************)
LastShown ==
  seen # <<>> /\ seen[Len(seen)] = CacheFinished => screen = "datasetProcessing"

LEMMA NextLastShown == StartInv /\ LastShown /\ [Next]_vars => LastShown'
<1> SUFFICES ASSUME StartInv, LastShown, [Next]_vars PROVE LastShown'
  OBVIOUS
<1>1. CASE Update
  <2>1. /\ seen \in Seq(Event) /\ pubHeld \in Seq(Event) /\ Len(pubHeld) = 1
        /\ seen' = seen \o pubHeld /\ screen' = ScreenAfter(pubHeld[1])
    BY <1>1 DEF Update, StartInv, TypeOK
  <2>2. Len(seen') = Len(seen) + 1 /\ seen'[Len(seen')] = pubHeld[1]
    <3>1. /\ Len(seen \o pubHeld) = Len(seen) + Len(pubHeld)
          /\ \A i \in 1 .. Len(seen) + Len(pubHeld) :
               (seen \o pubHeld)[i] = IF i <= Len(seen) THEN seen[i] ELSE pubHeld[i - Len(seen)]
      BY <2>1, ConcatProperties, Zenon
    <3>2. Len(seen) \in Nat
      BY <2>1, LenProperties, Zenon
    <3>3. Len(seen') = Len(seen) + 1
      BY <2>1, <3>1, Zenon
    <3>4. /\ Len(seen) + 1 \in 1 .. Len(seen) + Len(pubHeld)
          /\ ~(Len(seen) + 1 <= Len(seen)) /\ (Len(seen) + 1) - Len(seen) = 1
      <4>1. Len(pubHeld) = 1
        BY <2>1
      <4> QED
        BY <3>2, <4>1
    <3>5. (seen \o pubHeld)[Len(seen) + 1] = pubHeld[1]
      BY <3>1, <3>4, Zenon
    <3> QED
      BY <2>1, <3>3, <3>5, Zenon
  <2>3. CacheFinished # CacheStarted
    BY DefinitionsAssumption DEF CacheFinished, CacheStarted
  <2> QED
    BY <2>1, <2>2, <2>3 DEF LastShown, ScreenAfter
<1>2. CASE UNCHANGED <<screen, seen>>
  BY <1>2 DEF LastShown
<1>3. CASE UNCHANGED vars
  BY <1>2, <1>3 DEF vars
<1>4. CASE MainNext \/ FwdNext \/ JobEnds \/ Signal \/ PressQuit \/ UiKilled \/ UiFails
  BY <1>2, <1>4 DEF MainNext, Publish, StartFails, StartJob, WaitReturns, Cancel, Join, FwdNext,
     Subscribe, FwdReceive, FwdSend, FwdCancelled, JobEnds, Signal, PressQuit, UiKilled, UiFails,
     uiVars
<1>5. CASE PubReceive \/ PubCancelled \/ SendDiscards
  BY <1>2, <1>5 DEF PubReceive, PubCancelled, SendDiscards, uiVars
<1> QED
  BY <1>1, <1>3, <1>4, <1>5 DEF Next, PubNext, Exited

SettledInv == OrderInv /\ LastShown

LEMMA InvSettled == SettledInv => ScreenSettled
<1> SUFFICES ASSUME SettledInv, Flowing, published = CacheFinished, seen # <<>>,
                    pubHeld = <<>>, eventsCh = <<>>, fwdHeld = <<>>, sub = <<>>
             PROVE  screen = "datasetProcessing"
  BY DEF ScreenSettled, Flowing
<1>1. seen \in Seq(Event) /\ Latest
  BY DEF SettledInv, OrderInv, StartInv, TypeOK
<1>2. Stream = seen
  BY <1>1, ConcatEmptySeq DEF Stream
<1>3. Len(seen) \in 1 .. Len(seen)
  BY <1>1, LenProperties, EmptySeq
<1>4. seen[Len(seen)] = published - Len(seen) + Len(seen)
  BY <1>1, <1>2, <1>3 DEF Latest
<1>5. published \in Int
  BY DefinitionsAssumption DEF SettledInv, OrderInv, StartInv, TypeOK, CacheFinished
<1>6. seen[Len(seen)] = CacheFinished
  BY <1>3, <1>4, <1>5
<1> QED
  BY <1>6 DEF SettledInv, LastShown

-----------------------------------------------------------------------------
(***************************************************************************)
(* Theorems.                                                               *)
(***************************************************************************)
\* Types of the start-up: RunE's goroutine, the forwarders, the channels and the UI.
THEOREM StartupTypeSafety == Spec => []TypeOK
<1>1. StartInv => TypeOK
  BY DEF StartInv
<1> QED
  BY <1>1, InitStartInv, NextStartInv, PTL DEF Spec

\* Until the job is cancelled or the UI ends, the UI gets the events of the warm-up in
\* the order in which the cache publishes them and without a gap, from the first one
\* after the subscription on, whatever the sizes of eventsCh and of the cache: if only
\* the subscription's buffer can hold them all.
THEOREM EventsArriveInOrder == Spec => []EventsInOrder
<1>1. OrderInv => EventsInOrder
  BY DEF OrderInv, Flowing, Latest, Stream, EventsInOrder
<1> QED
  BY <1>1, InitOrderInv, NextOrderInv, PTL DEF Spec

\* No event after the subscription is lost, so the last one is CacheFinished: the UI leaves the
\* loading screen even when it has missed the first events.
THEOREM ScreenSettles == Spec => []ScreenSettled
<1>1. Init => SettledInv
  BY InitOrderInv DEF SettledInv, LastShown, Init
<1>2. SettledInv /\ [Next]_vars => SettledInv'
  BY NextOrderInv, NextLastShown DEF SettledInv, OrderInv
<1> QED
  BY <1>1, <1>2, InvSettled, PTL DEF Spec
=============================================================================
