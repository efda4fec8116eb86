--------------------------- MODULE ReportFeedProofs ---------------------------
(***************************************************************************)
(* Proofs about ReportFeed: for every number of crawler goroutines and     *)
(* ids, every capacity of the channel, with and without a tracker.         *)
(***************************************************************************)
EXTENDS ReportFeed, SequenceTheorems, FiniteSetTheorems, TLAPS

-----------------------------------------------------------------------------
(***************************************************************************)
(* The crawler.  The ids from low on are still to be taken: those up to    *)
(* next wait in the channel, in order.                                     *)
(***************************************************************************)
low == next - Len(in)

ChannelInOrder == low >= Offset /\ \A k \in 1 .. Len(in) : in[k] = low + k - 1

TakenOnce ==
  /\ \A c \in Crawlers : id[c] # NoId => id[c] < low /\ fate[id[c]] = "none"
  /\ \A c, d \in Crawlers : id[c] # NoId /\ id[c] = id[d] => c = d
  /\ \A i \in C!Id : fate[i] = "done" => i < low
  /\ \A i \in C!Id : i < low => fate[i] = "done" \/ \E c \in Crawlers : id[c] = i

\* What can be published, and what was, is the answer to a request that succeeded.
PublishedOk ==
  /\ \A c \in Crawlers : cpc[c] = "produce" /\ body[c] = "json" => status[id[c]] = "ok"
  /\ \A i \in accepted : fate[i] = "done" /\ status[i] = "ok"

CrawlInv == C!TypeOK /\ ChannelInOrder /\ TakenOnce /\ PublishedOk

\* The bookkeeping that a step may leave as it is.
counters == <<gen, next, in, inClosed, ctxDone>>

LEMMA ChannelTypes ==
  ASSUME CrawlInv
  PROVE  /\ Len(in) \in Nat /\ next \in Nat /\ low \in Int
         /\ \A k \in 1 .. Len(in) : in[k] \in C!Id
         /\ \A i \in C!Id : i \in Nat
<1>1. in \in Seq(C!Id)
  BY DEF CrawlInv, C!TypeOK
<1>2. Len(in) \in Nat /\ next \in Nat
  BY <1>1, IdsAssumption DEF CrawlInv, C!TypeOK
<1>3. \A i \in C!Id : i \in Nat
  BY IdsAssumption DEF C!Id
<1> QED
  BY <1>1, <1>2, <1>3 DEF low

LEMMA CrawlStarts == C!Init => CrawlInv
<1> SUFFICES ASSUME C!Init PROVE CrawlInv
  OBVIOUS
<1>1. in = <<>> /\ Len(in) = 0 /\ in \in Seq(C!Id)
  BY DEF C!Init
<1>2. next = Offset /\ low = Offset
  BY <1>1, IdsAssumption DEF C!Init, low
<1>3. C!TypeOK
  <2>1. next \in Offset .. MaxId + 1 /\ Len(in) <= InCap
    BY <1>1, <1>2, IdsAssumption, InCapAssumption
  <2>2. /\ fate \in [C!Id -> {"none", "done"}] /\ status \in [C!Id -> {"none", "ok", "error"}]
        /\ accepted \subseteq C!Id
    BY DEF C!Init
  <2>3. /\ cpc \in [Crawlers -> {"open", "take", "get", "produce", "returned"}]
        /\ id \in [Crawlers -> C!Id \union {NoId}]
        /\ body \in [Crawlers -> {"none", "json", "notJson"}]
        /\ \A c \in Crawlers : id[c] = NoId <=> cpc[c] \notin {"get", "produce"}
    BY DEF C!Init
  <2>4. /\ ctxDone \in BOOLEAN /\ connUp \in BOOLEAN /\ inClosed \in BOOLEAN
        /\ gen \in {"running", "done"}
    BY DEF C!Init
  <2> QED
    BY <1>1, <2>1, <2>2, <2>3, <2>4 DEF C!TypeOK
<1>4. ChannelInOrder
  BY <1>1, <1>2, IdsAssumption DEF ChannelInOrder
<1>5. TakenOnce
  BY <1>2, IdsAssumption DEF C!Init, TakenOnce, C!Id
<1>6. PublishedOk
  BY DEF C!Init, PublishedOk
<1> QED
  BY <1>3, <1>4, <1>5, <1>6 DEF CrawlInv

\* Goroutine c drops or publishes its id.
LEMMA FinishKeeps ==
  ASSUME CrawlInv, NEW c \in Crawlers, cpc[c] \in {"get", "produce"}, C!Finish(c),
         UNCHANGED counters, connUp' \in BOOLEAN,
         status' \in [C!Id -> {"none", "ok", "error"}],
         \A i \in C!Id : i # id[c] => status'[i] = status[i],
         accepted' \subseteq accepted \union {id[c]},
         id[c] \in accepted' => status'[id[c]] = "ok"
  PROVE  CrawlInv'
<1>1. /\ id[c] \in C!Id /\ id[c] # NoId /\ id[c] < low /\ fate[id[c]] = "none"
      /\ id \in [Crawlers -> C!Id \union {NoId}] /\ fate \in [C!Id -> {"none", "done"}]
      /\ accepted \subseteq C!Id /\ NoId \notin C!Id
  BY DistinctAssumption DEF CrawlInv, C!TypeOK, TakenOnce, C!Id
<1>2. /\ fate' = [fate EXCEPT ![id[c]] = "done"]
      /\ id' = [id EXCEPT ![c] = NoId]
      /\ body' = [body EXCEPT ![c] = "none"]
      /\ cpc' = [cpc EXCEPT ![c] = "take"]
  BY DEF C!Finish
<1>3. /\ \A d \in Crawlers : id'[d] = IF d = c THEN NoId ELSE id[d]
      /\ \A i \in C!Id : fate'[i] = IF i = id[c] THEN "done" ELSE fate[i]
  BY <1>1, <1>2
<1>4. low' = low /\ in' = in /\ next' = next
  BY DEF counters, low
<1>5. C!TypeOK'
  BY <1>1, <1>2 DEF CrawlInv, C!TypeOK, counters
<1>6. ChannelInOrder'
  BY <1>4 DEF CrawlInv, ChannelInOrder
<1>7. TakenOnce'
  <2>1. \A d \in Crawlers : id'[d] # NoId => id'[d] = id[d] /\ d # c /\ id[d] # id[c]
    BY <1>1, <1>3 DEF CrawlInv, TakenOnce
  <2>2. ASSUME NEW d \in Crawlers, id'[d] # NoId PROVE id'[d] < low' /\ fate'[id'[d]] = "none"
    <3>1. id'[d] = id[d] /\ id[d] # id[c] /\ id[d] # NoId /\ id[d] \in C!Id
      BY <1>1, <2>1, <2>2
    <3> QED
      BY <1>3, <1>4, <3>1 DEF CrawlInv, TakenOnce
  <2>3. \A d, e \in Crawlers : id'[d] # NoId /\ id'[d] = id'[e] => d = e
    BY <2>1 DEF CrawlInv, TakenOnce
  <2>4. \A i \in C!Id : fate'[i] = "done" => i < low'
    BY <1>1, <1>3, <1>4 DEF CrawlInv, TakenOnce
  <2>5. ASSUME NEW i \in C!Id, i < low'
        PROVE  fate'[i] = "done" \/ \E d \in Crawlers : id'[d] = i
    <3>1. fate[i] = "done" \/ \E d \in Crawlers : id[d] = i
      BY <1>4, <2>5 DEF CrawlInv, TakenOnce
    <3>2. CASE i = id[c]
      BY <1>3, <3>2
    <3>3. CASE i # id[c]
      BY <1>3, <3>1, <3>3
    <3> QED
      BY <3>2, <3>3
  <2> QED
    BY <2>2, <2>3, <2>4, <2>5 DEF TakenOnce
<1>8. PublishedOk'
  <2>1. ASSUME NEW d \in Crawlers, cpc'[d] = "produce", body'[d] = "json"
        PROVE  status'[id'[d]] = "ok"
    <3>1. d # c /\ cpc[d] = "produce" /\ body[d] = "json" /\ id'[d] = id[d]
      BY <1>2, <1>3, <2>1 DEF CrawlInv, C!TypeOK
    <3>2. id[d] # NoId /\ id[d] \in C!Id /\ id[d] # id[c]
      BY <1>1, <3>1 DEF CrawlInv, C!TypeOK, TakenOnce
    <3> QED
      BY <3>1, <3>2 DEF CrawlInv, PublishedOk
  <2>2. ASSUME NEW i \in accepted' PROVE fate'[i] = "done" /\ status'[i] = "ok"
    <3>1. CASE i = id[c]
      BY <1>1, <1>3, <2>2, <3>1
    <3>2. CASE i # id[c]
      BY <1>1, <1>3, <2>2, <3>2 DEF CrawlInv, PublishedOk
    <3> QED
      BY <3>1, <3>2
  <2> QED
    BY <2>1, <2>2 DEF PublishedOk
<1> QED
  BY <1>5, <1>6, <1>7, <1>8 DEF CrawlInv

\* Goroutine c moves on with the id that it has, or without one.
LEMMA MoveKeeps ==
  ASSUME CrawlInv, NEW c \in Crawlers,
         NEW place \in {"take", "produce", "returned"},
         cpc' = [cpc EXCEPT ![c] = place],
         cpc[c] \in {"open", "take", "get"},
         cpc[c] = "get" <=> place = "produce",
         UNCHANGED <<counters, connUp, id, fate, accepted>>,
         body' \in [Crawlers -> {"none", "json", "notJson"}],
         status' \in [C!Id -> {"none", "ok", "error"}],
         \A d \in Crawlers : d # c => body'[d] = body[d],
         place = "produce" /\ body'[c] = "json" => status'[id[c]] = "ok",
         \A i \in C!Id : i # id[c] => status'[i] = status[i]
  PROVE  CrawlInv'
<1>1. cpc \in [Crawlers -> {"open", "take", "get", "produce", "returned"}]
  BY DEF CrawlInv, C!TypeOK
<1>2. \A d \in Crawlers : cpc'[d] = IF d = c THEN place ELSE cpc[d]
  BY <1>1
<1>3. low' = low /\ in' = in /\ next' = next
  BY DEF counters, low
<1>4. C!TypeOK'
  BY <1>1, <1>2 DEF CrawlInv, C!TypeOK, counters
<1>5. ChannelInOrder'
  BY <1>3 DEF CrawlInv, ChannelInOrder
<1>6. TakenOnce'
  BY <1>3 DEF CrawlInv, TakenOnce
<1>7. PublishedOk'
  <2>1. ASSUME NEW d \in Crawlers, cpc'[d] = "produce", body'[d] = "json"
        PROVE  status'[id[d]] = "ok"
    <3>1. CASE d = c
      BY <1>2, <2>1, <3>1
    <3>2. CASE d # c
      <4>1. cpc[d] = "produce" /\ body[d] = "json"
        BY <1>2, <2>1, <3>2
      <4>2. id[d] # NoId /\ id[d] \in C!Id /\ id[d] # id[c] /\ status[id[d]] = "ok"
        BY <3>2, <4>1 DEF CrawlInv, C!TypeOK, TakenOnce, PublishedOk
      <4> QED
        BY <4>2
    <3> QED
      BY <3>1, <3>2
  <2>2. ASSUME NEW i \in accepted PROVE fate[i] = "done" /\ status'[i] = "ok"
    <3>1. fate[i] = "done" /\ status[i] = "ok" /\ i \in C!Id
      BY <2>2 DEF CrawlInv, PublishedOk, C!TypeOK
    <3>2. i # id[c]
      BY <3>1, DistinctAssumption DEF CrawlInv, TakenOnce, C!Id
    <3> QED
      BY <3>1, <3>2
  <2> QED
    BY <2>1, <2>2 DEF PublishedOk
<1> QED
  BY <1>4, <1>5, <1>6, <1>7 DEF CrawlInv

LEMMA GenerateKeeps == ASSUME CrawlInv, C!Generate PROVE CrawlInv'
<1>1. /\ in \in Seq(C!Id) /\ next \in C!Id /\ Len(in) < InCap /\ Len(in) \in Nat
      /\ in' = Append(in, next) /\ next' = next + 1
      /\ UNCHANGED <<ctxDone, gen, inClosed, cpc, id, body, status, fate, connUp, accepted>>
  BY ChannelTypes DEF CrawlInv, C!TypeOK, C!Generate, C!crawlVars
<1>2. /\ in' \in Seq(C!Id) /\ Len(in') = Len(in) + 1 /\ in'[Len(in) + 1] = next
      /\ \A k \in 1 .. Len(in) : in'[k] = in[k]
  BY <1>1, AppendProperties
<1>3. next \in Nat /\ next \in Offset .. MaxId
  BY <1>1, IdsAssumption DEF C!Id
<1>4. low' = low
  BY <1>1, <1>2, <1>3 DEF low
<1>5. Len(in') <= InCap /\ next' \in Offset .. MaxId + 1
  BY <1>1, <1>2, <1>3, IdsAssumption, InCapAssumption
<1>6. C!TypeOK'
  BY <1>1, <1>2, <1>5 DEF CrawlInv, C!TypeOK
<1>7. ChannelInOrder'
  <2>1. ASSUME NEW k \in 1 .. Len(in') PROVE in'[k] = low + k - 1
    <3>1. CASE k = Len(in) + 1
      BY <1>1, <1>2, <1>3, <3>1 DEF low
    <3>2. CASE k \in 1 .. Len(in)
      BY <1>2, <3>2 DEF CrawlInv, ChannelInOrder
    <3> QED
      BY <1>1, <1>2, <3>1, <3>2
  <2> QED
    BY <1>4, <2>1 DEF CrawlInv, ChannelInOrder
<1>8. TakenOnce' /\ PublishedOk'
  BY <1>1, <1>4 DEF CrawlInv, TakenOnce, PublishedOk
<1> QED
  BY <1>6, <1>7, <1>8 DEF CrawlInv

LEMMA TakeKeeps == ASSUME CrawlInv, NEW c \in Crawlers, C!Take(c) PROVE CrawlInv'
<1>1. /\ in \in Seq(C!Id) /\ in # <<>> /\ cpc[c] = "take"
      /\ id' = [id EXCEPT ![c] = Head(in)] /\ in' = Tail(in) /\ cpc' = [cpc EXCEPT ![c] = "get"]
      /\ UNCHANGED <<ctxDone, gen, next, inClosed, body, status, fate, connUp, accepted>>
  BY DEF CrawlInv, C!TypeOK, C!Take
<1>2. /\ Head(in) \in C!Id /\ in' \in Seq(C!Id) /\ Len(in') = Len(in) - 1
      /\ \A k \in 1 .. Len(in') : in'[k] = in[k + 1]
      /\ Head(in) = in[1] /\ Len(in) \in Nat \ {0}
  BY <1>1, HeadTailProperties, EmptySeq
<1>3. next \in Nat /\ low \in Int /\ low >= Offset
  BY ChannelTypes DEF CrawlInv, ChannelInOrder
<1>4. low' = low + 1 /\ Head(in) = low
  BY <1>1, <1>2, <1>3 DEF low, CrawlInv, ChannelInOrder
<1>5. Head(in) # NoId /\ id[c] = NoId
  BY <1>1, <1>2, DistinctAssumption DEF CrawlInv, C!TypeOK, C!Id
<1>6. \A d \in Crawlers : id'[d] = IF d = c THEN low ELSE id[d]
  BY <1>1, <1>4 DEF CrawlInv, C!TypeOK
<1>7. fate[low] = "none"
  BY <1>2, <1>3, <1>4 DEF CrawlInv, C!TypeOK, TakenOnce
<1>8. C!TypeOK'
  <2>1. Len(in') <= InCap
    BY <1>2, InCapAssumption DEF CrawlInv, C!TypeOK
  <2> QED
    BY <1>1, <1>2, <1>5, <2>1 DEF CrawlInv, C!TypeOK
<1>9. ChannelInOrder'
  <2>1. ASSUME NEW k \in 1 .. Len(in') PROVE in'[k] = low' + k - 1
    <3>1. in'[k] = in[k + 1] /\ k + 1 \in 1 .. Len(in)
      BY <1>2
    <3>2. in[k + 1] = low + (k + 1) - 1
      BY <3>1 DEF CrawlInv, ChannelInOrder
    <3> QED
      BY <1>3, <1>4, <3>1, <3>2
  <2> QED
    BY <1>3, <1>4, <2>1, IdsAssumption DEF ChannelInOrder
<1>10. TakenOnce'
  <2>1. \A i \in C!Id : i \in Int
    BY ChannelTypes
  <2>2. \A d \in Crawlers : id[d] # NoId => id[d] < low /\ id[d] \in Int
    BY <2>1 DEF CrawlInv, C!TypeOK, TakenOnce
  <2>3. ASSUME NEW d \in Crawlers, id'[d] # NoId PROVE id'[d] < low' /\ fate'[id'[d]] = "none"
    <3>1. CASE d = c
      BY <1>1, <1>3, <1>4, <1>6, <1>7, <3>1
    <3>2. CASE d # c
      BY <1>1, <1>3, <1>4, <1>6, <2>2, <2>3, <3>2 DEF CrawlInv, TakenOnce
    <3> QED
      BY <3>1, <3>2
  <2>4. \A d, e \in Crawlers : id'[d] # NoId /\ id'[d] = id'[e] => d = e
    <3>1. \A d \in Crawlers : id[d] # NoId => id[d] # low
      BY <1>3, <2>2
    <3> QED
      BY <1>4, <1>5, <1>6, <3>1 DEF CrawlInv, TakenOnce
  <2>5. \A i \in C!Id : fate'[i] = "done" => i < low'
    BY <1>1, <1>3, <1>4, <2>1 DEF CrawlInv, TakenOnce
  <2>6. ASSUME NEW i \in C!Id, i < low'
        PROVE  fate'[i] = "done" \/ \E d \in Crawlers : id'[d] = i
    <3>1. CASE i = low
      BY <1>6, <3>1
    <3>2. CASE i # low
      <4>1. fate[i] = "done" \/ \E d \in Crawlers : id[d] = i
        BY <1>3, <1>4, <2>1, <2>6, <3>2 DEF CrawlInv, TakenOnce
      <4>2. i # NoId
        BY DistinctAssumption DEF C!Id
      <4> QED
        BY <1>1, <1>5, <1>6, <4>1, <4>2
    <3> QED
      BY <3>1, <3>2
  <2> QED
    BY <2>3, <2>4, <2>5, <2>6 DEF TakenOnce
<1>11. PublishedOk'
  BY <1>1 DEF CrawlInv, C!TypeOK, PublishedOk
<1> QED
  BY <1>8, <1>9, <1>10, <1>11 DEF CrawlInv

LEMMA CrawlNextKeeps == ASSUME CrawlInv, NEW c \in Crawlers, C!CrawlNext(c) PROVE CrawlInv'
<1> USE DEF counters
<1>0. C!TypeOK
  BY DEF CrawlInv
<1>1. CASE C!Open(c) \/ C!CrawlReturns(c)
  BY <1>0, <1>1, MoveKeeps DEF C!Open, C!CrawlReturns, C!TypeOK
<1>2. CASE C!Take(c)
  BY <1>2, TakeKeeps
<1>3. ASSUME NEW s \in {"ok", "error"}, NEW b \in {"json", "notJson"},
             cpc[c] = "get", C!Got(c, s, b), b = "json" => s = "ok"
      PROVE  CrawlInv'
  <2>1. id[c] \in C!Id
    BY <1>0, <1>3 DEF C!TypeOK
  <2>2. status'[id[c]] = s /\ body'[c] = b
    BY <1>0, <1>3, <2>1 DEF C!Got, C!TypeOK
  <2> QED
    BY <1>0, <1>3, <2>1, <2>2, MoveKeeps DEF C!Got, C!TypeOK
<1>4. CASE C!GetOk(c)
  BY <1>3, <1>4 DEF C!GetOk
<1>5. CASE C!GetNotJson(c) \/ C!GetErrorStatus(c)
  BY <1>3, <1>5 DEF C!GetNotJson, C!GetErrorStatus
<1>6. CASE C!GetFails(c)
  <2>1. id[c] \in C!Id /\ id[c] \notin accepted
    BY <1>0, <1>6, DistinctAssumption DEF C!TypeOK, C!GetFails, CrawlInv, TakenOnce, PublishedOk, C!Id
  <2> QED
    BY <1>0, <1>6, <2>1, FinishKeeps DEF C!GetFails, C!TypeOK
<1>7. CASE C!Produce(c)
  <2>1. id[c] \in C!Id /\ status[id[c]] = "ok"
    BY <1>0, <1>7 DEF C!TypeOK, C!Produce, C!Marshals, CrawlInv, PublishedOk
  <2> QED
    BY <1>0, <1>7, <2>1, FinishKeeps DEF C!Produce, C!TypeOK
<1>8. CASE C!ProduceIntoBrokenConn(c) \/ C!ProduceFails(c)
  <2>1. id[c] \in C!Id /\ id[c] \notin accepted
    BY <1>0, <1>8, DistinctAssumption
    DEF C!TypeOK, C!ProduceIntoBrokenConn, C!ProduceFails, CrawlInv, TakenOnce, PublishedOk, C!Id
  <2>2. CASE C!ProduceFails(c)
    BY <1>0, <2>1, <2>2, FinishKeeps DEF C!ProduceFails, C!TypeOK
  <2>3. CASE C!ProduceIntoBrokenConn(c)
    BY <1>0, <2>1, <2>3, FinishKeeps DEF C!ProduceIntoBrokenConn, C!TypeOK
  <2> QED
    BY <1>8, <2>2, <2>3
<1> QED
  BY <1>1, <1>2, <1>4, <1>5, <1>6, <1>7, <1>8 DEF C!CrawlNext

LEMMA CrawlerKeeps == CrawlInv /\ (C!Next \/ UNCHANGED crawler) => CrawlInv'
<1> SUFFICES ASSUME CrawlInv, C!Next \/ UNCHANGED crawler PROVE CrawlInv'
  OBVIOUS
<1>1. CASE C!Generate
  BY <1>1, GenerateKeeps
<1>2. ASSUME gen' \in {"running", "done"}, inClosed' \in BOOLEAN, ctxDone' \in BOOLEAN,
             connUp' \in BOOLEAN, UNCHANGED <<next, in, cpc, id, body, status, fate, accepted>>
      PROVE  CrawlInv'
  <2>1. C!TypeOK'
    BY <1>2 DEF CrawlInv, C!TypeOK
  <2>2. ChannelInOrder' /\ TakenOnce' /\ PublishedOk'
    BY <1>2 DEF CrawlInv, ChannelInOrder, TakenOnce, PublishedOk, low
  <2> QED
    BY <2>1, <2>2 DEF CrawlInv
<1>3. CASE C!GeneratorStops \/ C!Signal \/ C!ConnBreaks \/ UNCHANGED crawler
  BY <1>2, <1>3
  DEF C!GeneratorStops, C!Signal, C!ConnBreaks, C!crawlVars, crawler, CrawlInv, C!TypeOK
<1>4. ASSUME NEW c \in Crawlers, C!CrawlNext(c) PROVE CrawlInv'
  BY <1>4, CrawlNextKeeps
<1> QED
  BY <1>1, <1>3, <1>4 DEF C!Next

\* Every id below low is in one hand or finished, every other one in the channel or not
\* yet generated.
LEMMA CrawlInvImpliesIdsOnce == CrawlInv => IdsOnce
<1> SUFFICES ASSUME CrawlInv PROVE IdsOnce
  OBVIOUS
<1>1. /\ Len(in) \in Nat /\ next \in Nat /\ low \in Int /\ low = next - Len(in)
      /\ low >= Offset /\ \A k \in 1 .. Len(in) : in[k] = low + k - 1
      /\ fate \in [C!Id -> {"none", "done"}]
  BY ChannelTypes DEF CrawlInv, ChannelInOrder, low, C!TypeOK
<1> SUFFICES ASSUME NEW i \in C!Id
             PROVE  LET inCh   == {k \in 1 .. Len(in) : in[k] = i}
                        inHand == {c \in Crawlers : id[c] = i}
                        done   == IF fate[i] = "none" THEN {} ELSE {i}
                    IN  /\ i < next => \/ inHand = {} /\ done = {} /\ \E k \in inCh : inCh = {k}
                                       \/ inCh = {} /\ done = {} /\ \E c \in inHand : inHand = {c}
                                       \/ inCh = {} /\ inHand = {} /\ done = {i}
                        /\ i >= next => inCh = {} /\ inHand = {} /\ done = {}
  BY DEF IdsOnce, C!IdsOnce
<1> DEFINE inCh   == {k \in 1 .. Len(in) : in[k] = i}
           inHand == {c \in Crawlers : id[c] = i}
           done   == IF fate[i] = "none" THEN {} ELSE {i}
<1>2. i \in Nat /\ i # NoId
  BY ChannelTypes, DistinctAssumption DEF C!Id
<1>3. CASE i >= low
  <2>1. inHand = {}
    BY <1>1, <1>2, <1>3 DEF CrawlInv, TakenOnce
  <2>2. done = {}
    BY <1>1, <1>2, <1>3 DEF CrawlInv, TakenOnce
  <2>3. CASE i < next
    <3>1. i - low + 1 \in 1 .. Len(in) /\ inCh = {i - low + 1}
      BY <1>1, <1>2, <1>3, <2>3
    <3> QED
      BY <1>1, <1>2, <2>1, <2>2, <2>3, <3>1
  <2>4. CASE i >= next
    <3>1. inCh = {}
      BY <1>1, <1>2, <2>4
    <3> QED
      BY <1>1, <1>2, <2>1, <2>2, <2>4, <3>1
  <2> QED
    BY <1>1, <1>2, <2>3, <2>4
<1>4. CASE i < low
  <2>1. inCh = {}
    BY <1>1, <1>2, <1>4
  <2>2. i < next
    BY <1>1, <1>2, <1>4
  <2>3. CASE fate[i] = "done"
    <3>1. inHand = {} /\ done = {i}
      BY <1>2, <2>3 DEF CrawlInv, TakenOnce
    <3> QED
      BY <1>1, <1>2, <2>1, <2>2, <3>1
  <2>4. CASE fate[i] # "done"
    <3>1. PICK c \in Crawlers : id[c] = i
      BY <1>4, <2>4 DEF CrawlInv, TakenOnce
    <3>2. inHand = {c}
      BY <1>2, <3>1 DEF CrawlInv, TakenOnce
    <3>3. done = {}
      BY <1>1, <2>4
    <3> QED
      BY <1>1, <1>2, <2>1, <2>2, <3>2, <3>3
  <2> QED
    BY <2>3, <2>4
<1>5. i >= low \/ i < low
  BY <1>1, <1>2
<1> HIDE DEF inCh, inHand, done
<1> QED
  BY <1>3, <1>4, <1>5

-----------------------------------------------------------------------------
(***************************************************************************)
(* The queue.  What RabbitMQ holds, first the unacknowledged deliveries,   *)
(* then the ready messages, is one line: deliveries and requeueing move    *)
(* the border and change nothing else.                                     *)
(***************************************************************************)
Once(s, i) == \E k \in 1 .. Len(s) : s[k] = i /\ \A j \in 1 .. Len(s) : s[j] = i => j = k
Never(s, i) == \A j \in 1 .. Len(s) : s[j] # i

\* Each id that RabbitMQ has accepted is in the line once, any other is not.
AcceptedOnce ==
  \A i \in C!Id : /\ i \in accepted => Once(Line, i)
                  /\ i \notin accepted => Never(Line, i)

FeedInv == CrawlInv /\ P!TypeOK /\ AcceptedOnce

LEMMA PushMoves ==
  ASSUME NEW S, NEW s \in Seq(S), NEW t \in Seq(S), t # <<>>
  PROVE  Append(s, Head(t)) \o Tail(t) = s \o t
<1> DEFINE u == Append(s, Head(t)) \o Tail(t)
           v == s \o t
<1>1. /\ Head(t) \in S /\ Tail(t) \in Seq(S) /\ Len(Tail(t)) = Len(t) - 1
      /\ \A k \in 1 .. Len(Tail(t)) : Tail(t)[k] = t[k + 1]
      /\ Head(t) = t[1] /\ Len(t) \in Nat \ {0} /\ Len(s) \in Nat
  BY HeadTailProperties, EmptySeq, LenProperties
<1>2. /\ Append(s, Head(t)) \in Seq(S) /\ Len(Append(s, Head(t))) = Len(s) + 1
      /\ \A k \in 1 .. Len(s) : Append(s, Head(t))[k] = s[k]
      /\ Append(s, Head(t))[Len(s) + 1] = Head(t)
  BY <1>1, AppendProperties
<1>3. /\ v \in Seq(S) /\ Len(v) = Len(s) + Len(t)
      /\ \A k \in 1 .. Len(s) + Len(t) : v[k] = IF k <= Len(s) THEN s[k] ELSE t[k - Len(s)]
  BY ConcatProperties
<1>4. /\ u \in Seq(S) /\ Len(u) = Len(s) + Len(t)
      /\ \A k \in 1 .. Len(s) + Len(t) :
           u[k] = IF k <= Len(s) + 1 THEN Append(s, Head(t))[k] ELSE Tail(t)[k - (Len(s) + 1)]
  <2>1. /\ u \in Seq(S) /\ Len(u) = Len(Append(s, Head(t))) + Len(Tail(t))
        /\ \A k \in 1 .. Len(Append(s, Head(t))) + Len(Tail(t)) :
             u[k] = IF k <= Len(Append(s, Head(t))) THEN Append(s, Head(t))[k]
                    ELSE Tail(t)[k - Len(Append(s, Head(t)))]
    BY <1>1, <1>2, ConcatProperties
  <2>2. Len(Append(s, Head(t))) + Len(Tail(t)) = Len(s) + Len(t)
    BY <1>1, <1>2
  <2> HIDE DEF u
  <2> QED
    BY <1>2, <2>1, <2>2
<1> HIDE DEF u, v
<1>5. ASSUME NEW k \in 1 .. Len(u) PROVE u[k] = v[k]
  <2>1. CASE k <= Len(s)
    <3>1. k \in 1 .. Len(s) /\ k \in 1 .. Len(s) + Len(t) /\ k <= Len(s) + 1
      BY <1>1, <1>4, <2>1
    <3>2. u[k] = Append(s, Head(t))[k]
      BY <1>4, <3>1
    <3>3. v[k] = s[k]
      BY <1>3, <2>1, <3>1
    <3> QED
      BY <1>2, <3>1, <3>2, <3>3
  <2>2. CASE k = Len(s) + 1
    BY <1>1, <1>2, <1>3, <1>4, <2>2
  <2>3. CASE k > Len(s) + 1
    <3> DEFINE m == k - (Len(s) + 1)
    <3>0. /\ Len(s) \in Nat /\ Len(t) \in Nat /\ k \in 1 .. Len(s) + Len(t)
          /\ ~(k <= Len(s) + 1) /\ ~(k <= Len(s))
      BY <1>1, <1>4, <2>3
    <3>1. m \in 1 .. Len(Tail(t)) /\ m + 1 = k - Len(s)
      BY <1>1, <3>0
    <3>2. u[k] = Tail(t)[k - (Len(s) + 1)]
      BY <1>4, <3>0
    <3>3. v[k] = t[k - Len(s)]
      BY <1>3, <3>0
    <3> HIDE DEF m
    <3>4. Tail(t)[m] = t[m + 1]
      BY <1>1, <3>1
    <3> QED
      BY <3>1, <3>2, <3>3, <3>4
  <2> QED
    BY <1>1, <1>4, <2>1, <2>2, <2>3
<1>6. u = v
  BY <1>3, <1>4, <1>5, SeqEqual
<1> QED
  BY <1>6 DEF u, v

\* Append at the end of the ready messages is Append at the end of the line.
LEMMA PublishMoves ==
  ASSUME NEW S, NEW s \in Seq(S), NEW t \in Seq(S), NEW x \in S
  PROVE  s \o Append(t, x) = Append(s \o t, x)
<1>1. <<x>> \in Seq(S) /\ s \o t \in Seq(S)
  BY ConcatProperties
<1> QED
  BY <1>1, AppendIsConcat, ConcatAssociative

LEMMA RemoveAtProperties ==
  ASSUME NEW S, NEW s \in Seq(S), NEW n \in 1 .. Len(s)
  PROVE  /\ P!RemoveAt(s, n) \in Seq(S) /\ Len(P!RemoveAt(s, n)) = Len(s) - 1
         /\ \A k \in 1 .. Len(s) - 1 : P!RemoveAt(s, n)[k] = IF k < n THEN s[k] ELSE s[k + 1]
<1> DEFINE a == SubSeq(s, 1, n - 1)
           b == SubSeq(s, n + 1, Len(s))
<1>1. Len(s) \in Nat /\ n \in Nat /\ 1 <= n /\ n <= Len(s)
  BY LenProperties
<1>2. /\ a \in Seq(S) /\ Len(a) = n - 1 /\ \A k \in 1 .. n - 1 : a[k] = s[k]
  <2>1. \A k \in 1 .. n - 1 : s[k] \in S
    BY <1>1, ElementOfSeq
  <2> QED
    BY <1>1, <2>1, SubSeqProperties
<1>3. /\ b \in Seq(S) /\ Len(b) = Len(s) - n /\ \A k \in 1 .. Len(s) - n : b[k] = s[n + k]
  <2>1. \A k \in n + 1 .. Len(s) : s[k] \in S
    BY <1>1, ElementOfSeq
  <2> QED
    BY <1>1, <2>1, SubSeqProperties
<1> HIDE DEF a, b
<1>4. /\ a \o b \in Seq(S) /\ Len(a \o b) = Len(a) + Len(b)
      /\ \A k \in 1 .. Len(a) + Len(b) : (a \o b)[k] = IF k <= Len(a) THEN a[k] ELSE b[k - Len(a)]
  BY <1>2, <1>3, ConcatProperties
<1>5. Len(a) + Len(b) = Len(s) - 1
  BY <1>1, <1>2, <1>3
<1>6. ASSUME NEW k \in 1 .. Len(s) - 1
      PROVE  (a \o b)[k] = IF k < n THEN s[k] ELSE s[k + 1]
  <2>1. CASE k < n
    BY <1>1, <1>2, <1>4, <1>5, <2>1
  <2>2. CASE k >= n
    <3>1. k - (n - 1) \in 1 .. Len(s) - n /\ n + (k - (n - 1)) = k + 1
      BY <1>1, <2>2
    <3>2. (a \o b)[k] = b[k - (n - 1)]
      BY <1>1, <1>2, <1>4, <1>5, <2>2
    <3> QED
      BY <1>1, <1>3, <2>2, <3>1, <3>2
  <2>3. k < n \/ k >= n
    BY <1>1
  <2> QED
    BY <2>1, <2>2, <2>3
<1> QED
  BY <1>4, <1>5, <1>6 DEF P!RemoveAt, a, b

LEMMA OnceAppends ==
  ASSUME NEW S, NEW s \in Seq(S), NEW x \in S, NEW i
  PROVE  /\ Once(s, i) /\ x # i => Once(Append(s, x), i)
         /\ Never(s, i) /\ x # i => Never(Append(s, x), i)
         /\ Never(s, i) /\ x = i => Once(Append(s, x), i)
<1>1. /\ Len(s) \in Nat /\ Len(Append(s, x)) = Len(s) + 1
      /\ \A k \in 1 .. Len(s) : Append(s, x)[k] = s[k]
      /\ Append(s, x)[Len(s) + 1] = x
  BY AppendProperties, LenProperties
<1>2. ASSUME Once(s, i), x # i PROVE Once(Append(s, x), i)
  <2>1. PICK k \in 1 .. Len(s) : s[k] = i /\ \A j \in 1 .. Len(s) : s[j] = i => j = k
    BY <1>2 DEF Once
  <2>2. k \in 1 .. Len(s) + 1 /\ Append(s, x)[k] = i
    BY <1>1, <2>1
  <2>3. ASSUME NEW j \in 1 .. Len(s) + 1, Append(s, x)[j] = i PROVE j = k
    <3>1. j # Len(s) + 1
      BY <1>1, <1>2, <2>3
    <3>2. j \in 1 .. Len(s)
      BY <1>1, <3>1
    <3> QED
      BY <1>1, <2>1, <2>3, <3>2
  <2> QED
    BY <1>1, <2>2, <2>3 DEF Once
<1>3. ASSUME Never(s, i), NEW j \in 1 .. Len(s) + 1 PROVE Append(s, x)[j] = i => j = Len(s) + 1 /\ x = i
  <2>1. CASE j \in 1 .. Len(s)
    BY <1>1, <1>3, <2>1 DEF Never
  <2>2. CASE j = Len(s) + 1
    BY <1>1, <2>2
  <2> QED
    BY <1>1, <2>1, <2>2
<1>4. Len(s) + 1 \in 1 .. Len(s) + 1
  BY <1>1
<1> QED
  BY <1>1, <1>2, <1>3, <1>4 DEF Once, Never

\* s without its n-th element, which is not i.
LEMMA OnceRemoves ==
  ASSUME NEW S, NEW s \in Seq(S), NEW t \in Seq(S), NEW n \in 1 .. Len(s), NEW i, s[n] # i,
         Len(t) = Len(s) - 1,
         \A k \in 1 .. Len(s) - 1 : t[k] = IF k < n THEN s[k] ELSE s[k + 1]
  PROVE  /\ Once(s, i) => Once(t, i)
         /\ Never(s, i) => Never(t, i)
<1>1. Len(s) \in Nat /\ n \in Nat
  BY LenProperties
<1>2. ASSUME Once(s, i) PROVE Once(t, i)
  <2>1. PICK k \in 1 .. Len(s) : s[k] = i /\ \A j \in 1 .. Len(s) : s[j] = i => j = k
    BY <1>2 DEF Once
  <2>2. k # n
    BY <2>1
  <2> DEFINE m == IF k < n THEN k ELSE k - 1
  <2>3. m \in 1 .. Len(s) - 1 /\ (IF m < n THEN m ELSE m + 1) = k
    BY <1>1, <2>2
  <2> HIDE DEF m
  <2>4. t[m] = i
    BY <2>1, <2>3
  <2>5. ASSUME NEW j \in 1 .. Len(s) - 1, t[j] = i PROVE j = m
    <3>1. CASE j < n
      <4>1. j = k
        BY <1>1, <2>1, <2>5, <3>1
      <4> QED
        BY <1>1, <2>3, <3>1, <4>1
    <3>2. CASE j >= n
      <4>1. j + 1 = k
        BY <1>1, <2>1, <2>5, <3>2
      <4> QED
        BY <1>1, <2>3, <3>2, <4>1
    <3> QED
      BY <1>1, <3>1, <3>2
  <2> QED
    BY <2>3, <2>4, <2>5 DEF Once
<1>3. ASSUME Never(s, i), NEW j \in 1 .. Len(s) - 1 PROVE t[j] # i
  BY <1>1, <1>3 DEF Never
<1> QED
  BY <1>2, <1>3 DEF Never

-----------------------------------------------------------------------------
LEMMA MessageTypes ==
  ASSUME FeedInv
  PROVE  /\ unacked \in Seq(P!Message) /\ queue \in Seq(P!Message) /\ Line \in Seq(P!Message)
         /\ C!Id \subseteq P!Message /\ NoMsg \notin P!Message
         /\ P!Foreign \intersect C!Id = {} /\ NotJson \in P!Foreign
<1>1. unacked \in Seq(P!Message) /\ queue \in Seq(P!Message)
  BY DEF FeedInv, P!TypeOK
<1>2. Line \in Seq(P!Message)
  BY <1>1, ConcatProperties DEF Line
<1> QED
  BY <1>1, <1>2, DistinctAssumption DEF C!Id, P!Message, P!Foreign, P!Broken

LEMMA FeedStarts == Init => FeedInv
<1> SUFFICES ASSUME Init PROVE FeedInv
  OBVIOUS
<1>1. CrawlInv
  BY CrawlStarts DEF Init
<1>2. queue = <<>> /\ unacked = <<>> /\ <<>> \in Seq(P!Message) /\ Len(<<>>) = 0 /\ 0 \in 0 .. 0
  BY DEF Init, P!Init
<1>3. P!TypeOK
  BY <1>2 DEF Init, P!Init, P!TypeOK
<1>4. Line = <<>>
  BY <1>2, ConcatEmptySeq DEF Line
<1>5. accepted = {}
  BY DEF Init, C!Init
<1>6. AcceptedOnce
  BY <1>2, <1>4, <1>5 DEF AcceptedOnce, Never
<1> QED
  BY <1>1, <1>3, <1>6 DEF FeedInv

\* RabbitMQ takes back what was not acknowledged.
LEMMA RequeueKeepsLine ==
  ASSUME FeedInv, P!Requeue
  PROVE  /\ Line' = Line /\ queue' \in Seq(P!Message)
         /\ unacked' = <<>> /\ unacked' \in Seq(P!Message) /\ taken' \in 0 .. Len(unacked')
<1>1. queue' = Line /\ unacked' = <<>> /\ taken' = 0 /\ Line \in Seq(P!Message)
  BY MessageTypes DEF P!Requeue, Line
<1>2. Line' = Line
  BY <1>1, ConcatEmptySeq DEF Line
<1>3. <<>> \in Seq(P!Message) /\ Len(<<>>) = 0
  BY EmptySeq
<1> QED
  BY <1>1, <1>2, <1>3

\* A crawler's step: the line grows by an id at most.
LEMMA CrawlerLine ==
  ASSUME FeedInv, C!Next, UNCHANGED processor
  PROVE  P!TypeOK' /\ AcceptedOnce'
<1>0. P!TypeOK /\ CrawlInv /\ AcceptedOnce
  BY DEF FeedInv
<1>1. CASE UNCHANGED <<queue, accepted>>
  BY <1>0, <1>1 DEF processor, P!TypeOK, AcceptedOnce, Line
<1>2. ASSUME NEW c \in Crawlers, C!Produce(c) PROVE P!TypeOK' /\ AcceptedOnce'
  <2>1. /\ id[c] \in C!Id /\ id[c] \notin accepted
        /\ queue' = Append(queue, id[c]) /\ accepted' = accepted \union {id[c]}
    BY <1>0, <1>2, DistinctAssumption
    DEF C!Produce, CrawlInv, C!TypeOK, TakenOnce, PublishedOk, C!Id
  <2>2. id[c] \in P!Message
    BY <2>1, MessageTypes
  <2>3. queue' \in Seq(P!Message)
    BY <2>1, <2>2, MessageTypes, AppendProperties
  <2>4. P!TypeOK'
    BY <1>0, <2>3 DEF processor, P!TypeOK
  <2>5. Line' = Append(Line, id[c])
    BY <2>1, <2>2, MessageTypes, PublishMoves DEF Line, processor
  <2>6. ASSUME NEW i \in C!Id
        PROVE  /\ i \in accepted' => Once(Line', i)
               /\ i \notin accepted' => Never(Line', i)
    <3>1. Line \in Seq(P!Message)
      BY MessageTypes
    <3>2. /\ Once(Line, i) /\ id[c] # i => Once(Line', i)
          /\ Never(Line, i) /\ id[c] # i => Never(Line', i)
          /\ Never(Line, i) /\ id[c] = i => Once(Line', i)
      BY <2>2, <2>5, <3>1, OnceAppends
    <3>3. (i \in accepted => Once(Line, i)) /\ (i \notin accepted => Never(Line, i))
      BY <1>0, Zenon DEF AcceptedOnce
    <3> QED
      BY <2>1, <3>2, <3>3
  <2> QED
    BY <2>4, <2>6 DEF AcceptedOnce
<1>3. ASSUME NEW c \in Crawlers, C!CrawlNext(c), ~C!Produce(c) PROVE UNCHANGED <<queue, accepted>>
  BY <1>3 DEF C!CrawlNext, C!Open, C!Take, C!CrawlReturns, C!GetOk, C!GetNotJson, C!GetErrorStatus, C!Got,
     C!GetFails, C!ProduceIntoBrokenConn, C!ProduceFails
<1>4. CASE C!Generate \/ C!GeneratorStops \/ C!Signal \/ C!ConnBreaks
  BY <1>1, <1>4 DEF C!Generate, C!GeneratorStops, C!Signal, C!ConnBreaks
<1> QED
  BY <1>1, <1>2, <1>3, <1>4 DEF C!Next

\* The processor's steps without those that change what RabbitMQ holds.
LEMMA ProcessorTypes ==
  ASSUME FeedInv, UNCHANGED crawler,
         \/ P!Start \/ P!HandOver \/ P!Map \/ P!Write
         \/ P!MapFails \/ P!WriteFails \/ P!EmptyReportFails \/ P!ConnectionLost \/ P!EndOfStream
         \/ P!Killed \/ P!Receive
  PROVE  P!TypeOK' /\ Line' = Line
<1>0. /\ P!TypeOK /\ unacked \in Seq(P!Message) /\ queue \in Seq(P!Message)
      /\ Len(unacked) \in Nat /\ NoMsg \notin P!Message
  BY MessageTypes, LenProperties DEF FeedInv
<1>1. ASSUME NEW cause \in {"panic", "mapError", "emptyReport", "outside"}, P!Exit(cause),
             saved' \subseteq {Bare}
      PROVE  P!TypeOK' /\ Line' = Line
  <2>1. P!Requeue
    BY <1>1 DEF P!Exit
  <2>2. /\ Line' = Line /\ queue' \in Seq(P!Message)
        /\ unacked' = <<>> /\ unacked' \in Seq(P!Message) /\ taken' \in 0 .. Len(unacked')
    BY <2>1, RequeueKeepsLine
  <2>3. proc' = "down" /\ exit' = cause /\ carried' = NoMsg /\ held' = NoMsg /\ stage' = "read"
    BY <1>1 DEF P!Exit
  <2> QED
    BY <1>1, <2>2, <2>3 DEF P!TypeOK
<1>2. CASE P!Start
  BY <1>0, <1>2 DEF P!Start, P!TypeOK, Line
<1>3. CASE P!HandOver
  BY <1>0, <1>3 DEF P!HandOver, P!TypeOK, Line
<1>4. CASE P!Map
  BY <1>0, <1>4 DEF P!Map, P!TypeOK, Line
<1>5. CASE P!Write
  BY <1>0, <1>5 DEF P!Write, P!TypeOK, Line
<1>6. CASE P!MapFails
  <2>1. saved' \subseteq {Bare}
    BY <1>0, <1>6 DEF P!MapFails, P!TypeOK
  <2>2. CASE P!Exit("mapError")
    BY <1>1, <1>6, <2>1, <2>2 DEF P!MapFails
  <2>3. CASE ~P!Exit("mapError")
    BY <1>0, <1>6, <2>1, <2>3 DEF P!MapFails, P!TypeOK, Line
  <2> QED
    BY <2>2, <2>3
<1>7. CASE P!WriteFails \/ P!EmptyReportFails \/ P!EndOfStream \/ P!Killed
  <2>1. saved' \subseteq {Bare}
    BY <1>0, <1>7 DEF P!WriteFails, P!EmptyReportFails, P!EndOfStream, P!Killed, P!TypeOK
  <2> QED
    BY <1>1, <1>7, <2>1 DEF P!WriteFails, P!EmptyReportFails, P!EndOfStream, P!Killed
<1>8. CASE P!ConnectionLost
  <2>1. P!Requeue /\ proc' = "draining" /\ UNCHANGED <<exit, carried, held, stage, saved>>
    BY <1>8 DEF P!ConnectionLost
  <2>2. /\ Line' = Line /\ queue' \in Seq(P!Message)
        /\ unacked' = <<>> /\ unacked' \in Seq(P!Message) /\ taken' \in 0 .. Len(unacked')
    BY <2>1, RequeueKeepsLine
  <2> QED
    BY <1>0, <2>1, <2>2 DEF P!TypeOK
<1>9. CASE P!Receive
  <2>1. saved' \subseteq {Bare}
    BY <1>0, <1>9 DEF P!Receive, P!TypeOK
  <2>2. CASE ~HasTracker
    BY <1>1, <1>9, <2>1, <2>2 DEF P!Receive
  <2>3. CASE HasTracker
    <3>1. /\ proc = "up" /\ taken < Len(unacked) /\ carried' = unacked[taken + 1]
          /\ taken' = taken + 1 /\ UNCHANGED <<queue, proc, exit, unacked, held, stage, saved>>
      BY <1>9, <2>3 DEF P!Receive, P!CanReceive, P!Delivery
    <3>2. taken + 1 \in 1 .. Len(unacked) /\ taken + 1 \in 0 .. Len(unacked)
      BY <1>0, <3>1 DEF P!TypeOK
    <3>3. carried' \in P!Message
      BY <1>0, <3>1, <3>2, ElementOfSeq
    <3> QED
      BY <1>0, <3>1, <3>2, <3>3 DEF P!TypeOK, Line
  <2> QED
    BY <2>2, <2>3
<1> QED
  BY <1>2, <1>3, <1>4, <1>5, <1>6, <1>7, <1>8, <1>9

\* A rejection takes one unreadable message out of the line.
LEMMA RejectLine ==
  ASSUME FeedInv, P!Reject
  PROVE  /\ P!TypeOK'
         /\ \E n \in 1 .. Len(Line) :
              /\ Line[n] = NotJson /\ Line' \in Seq(P!Message) /\ Len(Line') = Len(Line) - 1
              /\ \A k \in 1 .. Len(Line) - 1 :
                   Line'[k] = IF k < n THEN Line[k] ELSE Line[k + 1]
<1>0. /\ P!TypeOK /\ unacked \in Seq(P!Message) /\ queue \in Seq(P!Message)
      /\ Line \in Seq(P!Message)
  BY MessageTypes DEF FeedInv
<1>1. /\ proc = "up" /\ taken < Len(unacked) /\ unacked[taken + 1] = NotJson
      /\ unacked' = P!RemoveAt(unacked, taken + 1)
      /\ UNCHANGED <<queue, proc, exit, taken, carried, held, stage, saved>>
  BY DEF P!Reject, P!CanReceive, P!Delivery
<1> DEFINE n == taken + 1
<1>2. n \in 1 .. Len(unacked) /\ Len(unacked) \in Nat /\ Len(queue) \in Nat /\ taken \in Nat
  BY <1>0, <1>1, LenProperties DEF P!TypeOK
<1>3. /\ unacked' \in Seq(P!Message) /\ Len(unacked') = Len(unacked) - 1
      /\ \A k \in 1 .. Len(unacked) - 1 :
           unacked'[k] = IF k < n THEN unacked[k] ELSE unacked[k + 1]
  BY <1>0, <1>1, <1>2, RemoveAtProperties
<1>4. taken' \in 0 .. Len(unacked')
  BY <1>1, <1>2, <1>3
<1>5. P!TypeOK'
  BY <1>0, <1>1, <1>3, <1>4 DEF P!TypeOK
<1>6. /\ Len(Line) = Len(unacked) + Len(queue)
      /\ \A k \in 1 .. Len(unacked) + Len(queue) :
           Line[k] = IF k <= Len(unacked) THEN unacked[k] ELSE queue[k - Len(unacked)]
  BY <1>0, ConcatProperties DEF Line
<1>7. /\ Line' \in Seq(P!Message) /\ Len(Line') = Len(unacked') + Len(queue)
      /\ \A k \in 1 .. Len(unacked') + Len(queue) :
           Line'[k] = IF k <= Len(unacked') THEN unacked'[k] ELSE queue[k - Len(unacked')]
  BY <1>0, <1>1, <1>3, ConcatProperties DEF Line
<1>8. n \in 1 .. Len(Line) /\ Line[n] = NotJson /\ Len(Line') = Len(Line) - 1
  BY <1>1, <1>2, <1>3, <1>6, <1>7
<1> HIDE DEF n
<1>9. ASSUME NEW k \in 1 .. Len(Line) - 1
      PROVE  Line'[k] = IF k < n THEN Line[k] ELSE Line[k + 1]
  <2>1. k \in 1 .. Len(unacked') + Len(queue) /\ k + 1 \in 1 .. Len(unacked) + Len(queue)
    BY <1>2, <1>3, <1>6
  <2>2. CASE k <= Len(unacked')
    <3>1. k \in 1 .. Len(unacked) - 1 /\ k <= Len(unacked) /\ k + 1 <= Len(unacked)
      BY <1>2, <1>3, <2>1, <2>2
    <3>2. Line'[k] = unacked'[k]
      BY <1>7, <2>1, <2>2
    <3>3. Line[k] = unacked[k] /\ Line[k + 1] = unacked[k + 1]
      BY <1>2, <1>6, <2>1, <3>1
    <3> QED
      BY <1>3, <3>1, <3>2, <3>3
  <2>3. CASE k > Len(unacked')
    <3>1. ~(k < n) /\ ~(k + 1 <= Len(unacked)) /\ k - Len(unacked') = (k + 1) - Len(unacked)
      BY <1>2, <1>3, <2>1, <2>3
    <3>2. Line'[k] = queue[k - Len(unacked')]
      BY <1>2, <1>3, <1>7, <2>1, <2>3
    <3>3. Line[k + 1] = queue[(k + 1) - Len(unacked)]
      BY <1>6, <2>1, <3>1
    <3> QED
      BY <3>1, <3>2, <3>3
  <2>4. k <= Len(unacked') \/ k > Len(unacked')
    BY <1>2, <1>3, <2>1
  <2> QED
    BY <2>2, <2>3, <2>4
<1> QED
  BY <1>5, <1>7, <1>8, <1>9

LEMMA ProcessorLine ==
  ASSUME FeedInv, P!Next, UNCHANGED crawler
  PROVE  P!TypeOK' /\ AcceptedOnce'
<1>0. /\ P!TypeOK /\ AcceptedOnce /\ unacked \in Seq(P!Message) /\ queue \in Seq(P!Message)
      /\ Line \in Seq(P!Message) /\ accepted' = accepted
  BY MessageTypes DEF FeedInv, crawler
<1>1. ASSUME Line' = Line PROVE AcceptedOnce'
  BY <1>0, <1>1 DEF AcceptedOnce
<1>2. CASE \/ P!Start \/ P!HandOver \/ P!Map \/ P!Write
           \/ P!MapFails \/ P!WriteFails \/ P!EmptyReportFails \/ P!ConnectionLost
           \/ P!EndOfStream \/ P!Killed \/ P!Receive
  BY <1>1, <1>2, ProcessorTypes
<1>3. CASE P!Push
  <2>1. /\ proc = "up" /\ queue # <<>>
        /\ unacked' = Append(unacked, Head(queue)) /\ queue' = Tail(queue)
        /\ UNCHANGED <<proc, exit, taken, carried, held, stage, saved>>
    BY <1>3 DEF P!Push
  <2>2. Line' = Line
    BY <1>0, <2>1, PushMoves DEF Line
  <2>3. Head(queue) \in P!Message /\ queue' \in Seq(P!Message)
    BY <1>0, <2>1, HeadTailProperties
  <2>4. unacked' \in Seq(P!Message) /\ Len(unacked') = Len(unacked) + 1 /\ Len(unacked) \in Nat
    BY <1>0, <2>1, <2>3, AppendProperties, LenProperties
  <2>5. taken' \in 0 .. Len(unacked')
    BY <1>0, <2>1, <2>4 DEF P!TypeOK
  <2>6. P!TypeOK'
    BY <1>0, <2>1, <2>3, <2>4, <2>5 DEF P!TypeOK
  <2> QED
    BY <1>1, <2>2, <2>6
<1>4. CASE P!Reject
  <2>1. P!TypeOK'
    BY <1>4, RejectLine
  <2>2. PICK n \in 1 .. Len(Line) :
          /\ Line[n] = NotJson /\ Line' \in Seq(P!Message) /\ Len(Line') = Len(Line) - 1
          /\ \A k \in 1 .. Len(Line) - 1 : Line'[k] = IF k < n THEN Line[k] ELSE Line[k + 1]
    BY <1>4, RejectLine
  <2>3. ASSUME NEW i \in C!Id
        PROVE  (i \in accepted => Once(Line', i)) /\ (i \notin accepted => Never(Line', i))
    <3>1. NotJson # i
      BY MessageTypes
    <3>2. (Once(Line, i) => Once(Line', i)) /\ (Never(Line, i) => Never(Line', i))
      BY <1>0, <2>2, <3>1, OnceRemoves
    <3>3. (i \in accepted => Once(Line, i)) /\ (i \notin accepted => Never(Line, i))
      BY <1>0, Zenon DEF AcceptedOnce
    <3> QED
      BY <1>0, <3>2, <3>3
  <2> QED
    BY <1>0, <2>1, <2>3 DEF AcceptedOnce
<1>5. ASSUME NEW m \in P!Foreign, P!ForeignPublish(m) PROVE P!TypeOK' /\ AcceptedOnce'
  <2>1. queue' = Append(queue, m) /\ UNCHANGED <<proc, exit, unacked, taken, carried, held, stage, saved>>
    BY <1>5 DEF P!ForeignPublish, P!pvars
  <2>2. m \in P!Message
    BY DEF P!Message
  <2>3. queue' \in Seq(P!Message)
    BY <1>0, <2>1, <2>2, AppendProperties
  <2>4. P!TypeOK'
    BY <1>0, <2>1, <2>3 DEF P!TypeOK
  <2>5. Line' = Append(Line, m)
    BY <1>0, <2>1, <2>2, PublishMoves DEF Line
  <2>6. ASSUME NEW i \in C!Id
        PROVE  (i \in accepted => Once(Line', i)) /\ (i \notin accepted => Never(Line', i))
    <3>1. m # i
      BY MessageTypes
    <3>2. (Once(Line, i) => Once(Line', i)) /\ (Never(Line, i) => Never(Line', i))
      BY <1>0, <2>2, <2>5, <3>1, OnceAppends
    <3>3. (i \in accepted => Once(Line, i)) /\ (i \notin accepted => Never(Line, i))
      BY <1>0, Zenon DEF AcceptedOnce
    <3> QED
      BY <1>0, <3>2, <3>3
  <2> QED
    BY <1>0, <2>4, <2>6 DEF AcceptedOnce
<1> QED
  BY <1>2, <1>3, <1>4, <1>5 DEF P!Next, P!ConsumeNext, P!PipelineNext

LEMMA FeedKeeps == FeedInv /\ [Next]_vars => FeedInv'
<1> SUFFICES ASSUME FeedInv, [Next]_vars PROVE FeedInv'
  OBVIOUS
<1>0. CrawlInv
  BY DEF FeedInv
<1>1. CASE C!Next /\ UNCHANGED processor
  BY <1>0, <1>1, CrawlerKeeps, CrawlerLine DEF FeedInv
<1>2. CASE P!Next /\ UNCHANGED crawler
  BY <1>0, <1>2, CrawlerKeeps, ProcessorLine DEF FeedInv
<1>3. CASE UNCHANGED vars
  <2>1. UNCHANGED crawler /\ UNCHANGED processor /\ UNCHANGED queue
    BY <1>3 DEF vars
  <2>2. CrawlInv'
    BY <1>0, <2>1, CrawlerKeeps
  <2>3. P!TypeOK' /\ AcceptedOnce'
    BY <2>1 DEF FeedInv, P!TypeOK, AcceptedOnce, Line, crawler, processor
  <2> QED
    BY <2>2, <2>3 DEF FeedInv
<1> QED
  BY <1>1, <1>2, <1>3 DEF Next

-----------------------------------------------------------------------------
(***************************************************************************)
(* The line as a durable queue.  What the processor has in its hands is in *)
(* the line as well, since nothing is acknowledged.                        *)
(***************************************************************************)
There(m) == m # NoMsg => m # NotJson /\ \E k \in 1 .. Len(Line) : Line[k] = m

HeldThere == There(carried) /\ There(held)

\* What a step does to the line.
Grows == \E m \in P!Message : Line' = Append(Line, m)

Shrinks ==
  \E n \in 1 .. Len(Line) :
    /\ Line[n] = NotJson /\ Line' \in Seq(P!Message) /\ Len(Line') = Len(Line) - 1
    /\ \A k \in 1 .. Len(Line) - 1 : Line'[k] = IF k < n THEN Line[k] ELSE Line[k + 1]

\* With the line as it was, the processor may receive from it, pass on, save, or let go.
Works ==
  /\ Line' = Line
  /\ carried' \in {carried, NoMsg} \/ There(carried')
  /\ held' \in {held, carried, NoMsg}
  /\ saved' = saved \/ (held # NoMsg /\ saved' = saved \union {held})

LEMMA CrawlerMoves ==
  ASSUME FeedInv, C!Next, UNCHANGED processor
  PROVE  Works \/ (Grows /\ UNCHANGED <<carried, held, saved>>)
<1>1. CASE UNCHANGED queue
  BY <1>1 DEF processor, Works, Line
<1>2. ASSUME NEW c \in Crawlers, C!Produce(c) PROVE Grows
  <2>1. id[c] \in C!Id /\ queue' = Append(queue, id[c])
    BY <1>2, DistinctAssumption DEF C!Produce, FeedInv, CrawlInv, C!TypeOK, C!Id
  <2>2. id[c] \in P!Message /\ unacked \in Seq(P!Message) /\ queue \in Seq(P!Message)
    BY <2>1, MessageTypes
  <2> QED
    BY <2>1, <2>2, PublishMoves DEF Line, processor, Grows
<1>3. ASSUME NEW c \in Crawlers, C!CrawlNext(c), ~C!Produce(c) PROVE UNCHANGED queue
  BY <1>3 DEF C!CrawlNext, C!Open, C!Take, C!CrawlReturns, C!GetOk, C!GetNotJson, C!GetErrorStatus, C!Got,
     C!GetFails, C!ProduceIntoBrokenConn, C!ProduceFails
<1>4. CASE C!Generate \/ C!GeneratorStops \/ C!Signal \/ C!ConnBreaks
  BY <1>1, <1>4 DEF C!Generate, C!GeneratorStops, C!Signal, C!ConnBreaks
<1>5. UNCHANGED <<carried, held, saved>>
  BY DEF processor
<1> QED
  BY <1>1, <1>2, <1>3, <1>4, <1>5 DEF C!Next

LEMMA ProcessorMoves ==
  ASSUME FeedInv, P!Next, UNCHANGED crawler
  PROVE  Works \/ ((Grows \/ Shrinks) /\ UNCHANGED <<carried, held, saved>>)
<1>0. /\ P!TypeOK /\ unacked \in Seq(P!Message) /\ queue \in Seq(P!Message)
      /\ Line \in Seq(P!Message)
  BY MessageTypes DEF FeedInv
<1>1. CASE P!Start \/ P!HandOver \/ P!Map \/ P!Write
  <2>1. Line' = Line
    BY <1>1, ProcessorTypes
  <2> QED
    BY <1>0, <1>1, <2>1 DEF P!Start, P!HandOver, P!Map, P!Write, Works, P!TypeOK
<1>2. CASE P!MapFails \/ P!WriteFails \/ P!EmptyReportFails \/ P!EndOfStream \/ P!Killed
           \/ P!ConnectionLost
  <2>1. Line' = Line
    BY <1>2, ProcessorTypes
  <2> QED
    BY <1>0, <1>2, <2>1 DEF P!MapFails, P!WriteFails, P!EmptyReportFails, P!EndOfStream, P!Killed,
       P!ConnectionLost, P!Exit, Works, P!TypeOK
<1>3. CASE P!Receive
  <2>1. Line' = Line
    BY <1>3, ProcessorTypes
  <2>2. CASE ~HasTracker
    BY <1>3, <2>1, <2>2 DEF P!Receive, P!Exit, Works
  <2>3. CASE HasTracker
    <3>1. /\ taken < Len(unacked) /\ unacked[taken + 1] # NotJson
          /\ carried' = unacked[taken + 1] /\ UNCHANGED <<held, saved>>
      BY <1>3, <2>3 DEF P!Receive, P!CanReceive, P!Delivery
    <3>2. taken + 1 \in 1 .. Len(unacked) /\ Len(unacked) \in Nat /\ Len(queue) \in Nat
      BY <1>0, <3>1, LenProperties DEF P!TypeOK
    <3>3. taken + 1 \in 1 .. Len(Line) /\ Line[taken + 1] = unacked[taken + 1]
      BY <1>0, <3>2, ConcatProperties DEF Line
    <3>4. There(carried')
      BY <3>1, <3>3 DEF There
    <3> QED
      BY <2>1, <3>1, <3>4 DEF Works
  <2> QED
    BY <2>2, <2>3
<1>4. CASE P!Push
  <2>1. /\ queue # <<>> /\ unacked' = Append(unacked, Head(queue)) /\ queue' = Tail(queue)
        /\ UNCHANGED <<carried, held, saved>>
    BY <1>4 DEF P!Push
  <2>2. Line' = Line
    BY <1>0, <2>1, PushMoves DEF Line
  <2> QED
    BY <2>1, <2>2 DEF Works
<1>5. CASE P!Reject
  BY <1>5, RejectLine DEF P!Reject, Shrinks
<1>6. ASSUME NEW m \in P!Foreign, P!ForeignPublish(m)
      PROVE  Grows /\ UNCHANGED <<carried, held, saved>>
  <2>1. m \in P!Message /\ queue' = Append(queue, m) /\ UNCHANGED <<unacked, carried, held, saved>>
    BY <1>6 DEF P!ForeignPublish, P!pvars, P!Message
  <2>2. Line' = Append(Line, m)
    BY <1>0, <2>1, PublishMoves DEF Line
  <2> QED
    BY <2>1, <2>2 DEF Grows
<1> QED
  BY <1>1, <1>2, <1>3, <1>4, <1>5, <1>6 DEF P!Next, P!ConsumeNext, P!PipelineNext

LEMMA LineMoves ==
  ASSUME FeedInv, [Next]_vars
  PROVE  Works \/ ((Grows \/ Shrinks) /\ UNCHANGED <<carried, held, saved>>)
<1>1. CASE UNCHANGED vars
  BY <1>1 DEF vars, processor, Works, Line
<1> QED
  BY <1>1, CrawlerMoves, ProcessorMoves DEF Next

\* A readable message stays when another is added, or an unreadable one is taken out.
LEMMA StaysThere ==
  ASSUME FeedInv, Grows \/ Shrinks, NEW m, There(m)
  PROVE  m # NoMsg => m # NotJson /\ \E k \in 1 .. Len(Line') : Line'[k] = m
<1> SUFFICES ASSUME m # NoMsg PROVE \E k \in 1 .. Len(Line') : Line'[k] = m
  BY DEF There
<1>1. Line \in Seq(P!Message) /\ Len(Line) \in Nat
  BY MessageTypes, LenProperties
<1>2. PICK k \in 1 .. Len(Line) : Line[k] = m /\ m # NotJson
  BY DEF There
<1>3. CASE Grows
  <2>1. PICK x \in P!Message : Line' = Append(Line, x)
    BY <1>3 DEF Grows
  <2>2. Len(Line') = Len(Line) + 1 /\ Line'[k] = Line[k]
    BY <1>1, <2>1, AppendProperties
  <2> QED
    BY <1>1, <1>2, <2>2
<1>4. CASE Shrinks
  <2>1. PICK n \in 1 .. Len(Line) :
          /\ Line[n] = NotJson /\ Len(Line') = Len(Line) - 1
          /\ \A j \in 1 .. Len(Line) - 1 : Line'[j] = IF j < n THEN Line[j] ELSE Line[j + 1]
    BY <1>4 DEF Shrinks
  <2>2. CASE k < n
    BY <1>1, <1>2, <2>1, <2>2
  <2>3. CASE k > n
    <3>1. k - 1 \in 1 .. Len(Line) - 1 /\ ~(k - 1 < n) /\ (k - 1) + 1 = k
      BY <1>1, <2>1, <2>3
    <3>2. Line'[k - 1] = Line[k]
      BY <2>1, <3>1
    <3> QED
      BY <1>2, <2>1, <3>1, <3>2
  <2> QED
    BY <1>1, <1>2, <2>1, <2>2, <2>3
<1> QED
  BY <1>3, <1>4

QueueInv == FeedInv /\ HeldThere

LEMMA QueueStarts == Init => QueueInv
BY FeedStarts DEF Init, P!Init, QueueInv, HeldThere, There

LEMMA QueueKeeps == QueueInv /\ [Next]_vars => QueueInv'
<1> SUFFICES ASSUME QueueInv, [Next]_vars PROVE HeldThere'
  BY FeedKeeps DEF QueueInv
<1>1. CASE Works
  BY <1>1 DEF Works, QueueInv, HeldThere, There
<1>2. CASE (Grows \/ Shrinks) /\ UNCHANGED <<carried, held, saved>>
  BY <1>2, StaysThere DEF QueueInv, HeldThere, There
<1> QED
  BY <1>1, <1>2, LineMoves DEF QueueInv

LEMMA QueueSteps ==
  ASSUME QueueInv, [Next]_vars
  PROVE  [Queue!Next]_(Queue!vars)
<1>1. CASE Works
  <2>1. CASE saved' = saved
    BY <1>1, <2>1 DEF Works, Queue!vars, Line
  <2>2. CASE held # NoMsg /\ saved' = saved \union {held}
    <3>1. PICK k \in 1 .. Len(Line) : Line[k] = held /\ held # NotJson
      BY <2>2 DEF QueueInv, HeldThere, There
    <3>2. Queue!Save(k)
      BY <1>1, <2>2, <3>1 DEF Works, Queue!Save, Line
    <3> QED
      BY <3>1, <3>2 DEF Queue!Next, Line
  <2> QED
    BY <1>1, <2>1, <2>2 DEF Works
<1>2. CASE Grows /\ UNCHANGED saved
  BY <1>2 DEF Grows, Queue!Accept, Queue!Next, Line
<1>3. CASE Shrinks /\ UNCHANGED saved
  <2>1. PICK n \in 1 .. Len(Line) :
          /\ Line[n] = NotJson /\ Line' \in Seq(P!Message) /\ Len(Line') = Len(Line) - 1
          /\ \A j \in 1 .. Len(Line) - 1 : Line'[j] = IF j < n THEN Line[j] ELSE Line[j + 1]
    BY <1>3 DEF Shrinks
  <2>2. /\ P!RemoveAt(Line, n) \in Seq(P!Message) /\ Len(P!RemoveAt(Line, n)) = Len(Line) - 1
        /\ \A j \in 1 .. Len(Line) - 1 :
             P!RemoveAt(Line, n)[j] = IF j < n THEN Line[j] ELSE Line[j + 1]
    BY MessageTypes, RemoveAtProperties DEF QueueInv
  <2>3. Line' = P!RemoveAt(Line, n)
    BY <2>1, <2>2, SeqEqual
  <2>4. Queue!Reject(n)
    BY <1>3, <2>1, <2>3 DEF Queue!Reject, Queue!RemoveAt, P!RemoveAt, Line
  <2> QED
    BY <2>1, <2>4 DEF Queue!Next, Line
<1> QED
  BY <1>1, <1>2, <1>3, LineMoves DEF QueueInv

-----------------------------------------------------------------------------
(***************************************************************************)
(* Theorems.                                                               *)
(***************************************************************************)
\* Types of crawler and processor; a process that is down holds nothing.
THEOREM FeedTypeSafety == Spec => []TypeOK
<1>1. FeedInv => TypeOK
  BY DEF FeedInv, CrawlInv, TypeOK
<1> QED
  BY <1>1, FeedStarts, FeedKeeps, PTL DEF Spec

\* However many goroutines share the channel, each id that the generator has counted is
\* in the channel, in one hand or finished, and in one of these places only.
THEOREM EachIdOnce == Spec => []IdsOnce
<1>1. FeedInv => IdsOnce
  BY CrawlInvImpliesIdsOnce DEF FeedInv
<1> QED
  BY <1>1, FeedStarts, FeedKeeps, PTL DEF Spec

\* Nothing that RabbitMQ has accepted is the answer to a request that failed.
THEOREM OnlyAnswersPublished == Spec => []ErrorsNotPublished
<1>1. FeedInv => ErrorsNotPublished
  BY DEF FeedInv, CrawlInv, PublishedOk, ErrorsNotPublished
<1> QED
  BY <1>1, FeedStarts, FeedKeeps, PTL DEF Spec

\* Through all deliveries, rejections, requeueings and restarts of the processor, an
\* accepted report that is not saved stays with RabbitMQ, once.
THEOREM AcceptedStays == Spec => []NotLostUnsaved
<1>1. FeedInv => NotLostUnsaved
  <2> SUFFICES ASSUME FeedInv, NEW i \in accepted
               PROVE  Cardinality({k \in 1 .. Len(Line) : Line[k] = i}) = 1
    BY DEF NotLostUnsaved, Line
  <2>1. i \in C!Id
    BY DEF FeedInv, CrawlInv, C!TypeOK
  <2>2. Once(Line, i)
    BY <2>1, Zenon DEF FeedInv, AcceptedOnce
  <2>3. PICK k \in 1 .. Len(Line) : Line[k] = i /\ \A j \in 1 .. Len(Line) : Line[j] = i => j = k
    BY <2>2, Zenon DEF Once
  <2>4. {j \in 1 .. Len(Line) : Line[j] = i} = {k}
    BY <2>3
  <2> QED
    BY <2>4, FS_Singleton
<1> QED
  BY <1>1, FeedStarts, FeedKeeps, PTL DEF Spec

\* The feed is a durable queue: the messages that RabbitMQ has accepted stand in one line,
\* which only unreadable ones leave, and what is saved is in it.
THEOREM FeedImplementsQueue == Spec => ImplementsQueue
<1>1. Init => Queue!Init
  <2>1. ASSUME Init PROVE unacked \o queue = <<>> /\ saved = {}
    BY <2>1, EmptySeq, ConcatEmptySeq DEF Init, P!Init
  <2> QED
    BY <2>1 DEF Queue!Init, Line
<1>2. QueueInv /\ [Next]_vars => [Queue!Next]_(Queue!vars)
  BY QueueSteps
<1> QED
  BY <1>1, <1>2, QueueStarts, QueueKeeps, PTL DEF Spec, ImplementsQueue, Queue!Spec
=============================================================================
