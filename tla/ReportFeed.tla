----------------------------- MODULE ReportFeed -----------------------------
(***************************************************************************)
(* The way of a report from Bungie to the database: cmd/crawler, RabbitMQ  *)
(* and cmd/processor.  The two processes share nothing but the queue.      *)
(***************************************************************************)
EXTENDS Integers, Sequences, FiniteSets, SequencesExt

CONSTANTS Crawlers, Offset, MaxId, InCap, NoId,
          Bare, NotJson, NotReport, HasTracker, MaxBroken, NoMsg

ASSUME IdsAssumption == Offset \in Nat /\ MaxId \in Nat /\ Offset <= MaxId
ASSUME InCapAssumption == InCap \in Nat
ASSUME TrackerAssumption == HasTracker \in BOOLEAN
ASSUME DistinctAssumption ==
  LET Id == Offset .. MaxId IN
    /\ NoId \notin Id
    /\ NoMsg \notin Id \union {Bare, NotJson, NotReport}
    /\ {Bare, NotJson, NotReport} \intersect Id = {}
    /\ Cardinality({Bare, NotJson, NotReport}) = 3

VARIABLES ctxDone, gen, next, in, inClosed, cpc, id, body, status, fate, connUp, accepted,
          queue,
          proc, exit, unacked, taken, carried, held, stage, saved

C == INSTANCE Crawler
P == INSTANCE Processor WITH Envelope <- Offset .. MaxId

crawler   == <<ctxDone, gen, next, in, inClosed, cpc, id, body, status, fate, connUp, accepted>>
processor == <<proc, exit, unacked, taken, carried, held, stage, saved>>
vars == <<crawler, queue, processor>>

Init == C!Init /\ queue = <<>> /\ P!Init

Next ==
  \/ C!Next /\ UNCHANGED processor
  \/ P!Next /\ UNCHANGED crawler

Spec == Init /\ [][Next]_vars

\* The crawler's goroutines run, its HTTP client gives up after ten seconds; the
\* processor is started again when it has ended, and its goroutines run.
FairSpec ==
  /\ Spec
  /\ WF_vars((C!Generate \/ C!GeneratorStops) /\ UNCHANGED processor)
  /\ \A c \in Crawlers : WF_vars(C!CrawlNext(c) /\ UNCHANGED processor)
  /\ WF_vars(P!Start /\ UNCHANGED crawler)
  /\ WF_vars(P!Push /\ UNCHANGED crawler)
  /\ WF_vars(P!ConsumeNext /\ UNCHANGED crawler)
  /\ WF_vars(P!PipelineNext /\ UNCHANGED crawler)

-----------------------------------------------------------------------------
(***************************************************************************)
(* Properties.                                                             *)
(***************************************************************************)
\* Crawler and processor are type correct.
TypeOK == C!TypeOK /\ P!TypeOK

\* No id is skipped or fetched twice by the crawler goroutines.
IdsOnce == C!IdsOnce

\* An answer with an error status never reaches the queue, although Get returns it
\* without an error: its body has been drained by then, and json.Marshal rejects it.
ErrorsNotPublished == \A i \in accepted : status[i] = "ok"

\* What RabbitMQ holds is one line: the deliveries that are not acknowledged come first.
Line == unacked \o queue

\* Whatever happens to the processor, a report that RabbitMQ has accepted is in the
\* queue or among its unacknowledged deliveries, once, until it is saved.
NotLostUnsaved ==
  \A i \in accepted \ saved :
    LET places == {k \in 1 .. Len(Line) : Line[k] = i}
    IN  Cardinality(places) = 1

\* That line is a durable queue.
Queue == INSTANCE DurableQueue WITH
           Message <- P!Message, Unreadable <- NotJson, line <- Line

\* Deliveries, broken connections, failures and restarts do not show in the line: nothing
\* in it is overtaken or repeated, only what is not JSON leaves it, and what is written to
\* the database is still there to be delivered again.
ImplementsQueue == Queue!Spec

\* A signal stops the crawler, wherever its goroutines are.
CrawlerStops == ctxDone ~> C!Stopped

\* From some time on, nothing outside the processor disturbs it.
Undisturbed ==
  <>[](proc # "draining" /\ exit # "outside")

\* Whatever is before the report in the line is rejected on the way, and so does not end
\* the process.
NothingBefore(m) ==
  \E k \in 1 .. Len(Line) : Line[k] = m /\ \A j \in 1 .. k - 1 : Line[j] = NotJson

\* A report that the processor can decode is saved, however many messages nobody ever
\* acknowledges, unless connections, kills and the database prevent it for ever, or
\* messages before it in the line end one process after the other, because they cannot
\* be mapped or written.  Nothing behind it stands in its way, nor what is before it if
\* the process survives that.
BareIsSaved ==
  Undisturbed /\ <>[](exit # "none" => NothingBefore(Bare)) =>
    (Contains(Line, Bare) ~> Bare \in saved)

\* cmd/processor/cmd/root.go:50-51 says that the processor fetches what the crawler has
\* published and saves it to a database: what is in the queue is saved, unless
\* connections, kills and the database prevent it for ever.
PublishedIsSaved ==
  Undisturbed => \A i \in Offset .. MaxId : (i \in accepted) ~> (i \in saved)
=============================================================================
