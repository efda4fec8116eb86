------------------------------- MODULE Crawler -------------------------------
(***************************************************************************)
(* cmd/crawler: a generator goroutine counts instance ids upwards into a   *)
(* channel; the crawler goroutines fetch each id's report from Bungie      *)
(* (internal/crawler) and publish the answer's body to RabbitMQ            *)
(* (internal/rabbitmq), all of them over one connection.                   *)
(*                                                                         *)
(* An answer's body is its kind, JSON or not: nothing, which is what is    *)
(* left of a body that has been read before, is not JSON either.           *)
(***************************************************************************)
EXTENDS Integers, Sequences

CONSTANTS Crawlers,   \* the crawler goroutines (flag --goroutines)
          Offset,     \* flag --offset: the first id
          MaxId,      \* bound: the generator stops counting here
          InCap,      \* capacity of the id channel, 100 in the code
          NoId

Id == Offset .. MaxId

VARIABLES
  ctxDone,        \* the context of runCrawler is cancelled
  gen, next,      \* the generator goroutine, and the id it offers
  in, inClosed,   \* the channel of ids
  cpc, id, body,  \* per goroutine: where it is, the id it carries, the body it got
  status,         \* per id: Bungie's answer, "none" before there is one, "error" also for
                  \* one that is not JSON or never came
  fate,           \* per id: "none", or "done" when its crawler is finished with it
  connUp,         \* the connection to RabbitMQ; nothing reopens it
  queue,          \* the queue's ready messages: a report is its id
  accepted        \* the ids whose messages RabbitMQ has taken

crawlVars == <<cpc, id, body, status, fate>>
cvars == <<ctxDone, gen, next, in, inClosed, crawlVars, connUp, accepted>>

Init ==
  /\ ctxDone = FALSE
  /\ gen = "running" /\ next = Offset
  /\ in = <<>> /\ inClosed = FALSE
  /\ cpc = [c \in Crawlers |-> "open"]
  /\ id = [c \in Crawlers |-> NoId]
  /\ body = [c \in Crawlers |-> "none"]
  /\ status = [i \in Id |-> "none"]
  /\ fate = [i \in Id |-> "none"]
  /\ connUp = TRUE
  /\ accepted = {}

-----------------------------------------------------------------------------
\* Mutant: start++ is forgotten.
BugGenerate ==
  /\ gen = "running" /\ next \in Id /\ Len(in) < InCap
  /\ in' = Append(in, next)
  /\ UNCHANGED <<ctxDone, gen, next, inClosed, crawlVars, connUp, queue, accepted>>

Generate ==
  /\ gen = "running" /\ next \in Id /\ Len(in) < InCap
  /\ in' = Append(in, next)
  /\ next' = next + 1
  /\ UNCHANGED <<ctxDone, gen, inClosed, crawlVars, connUp, queue, accepted>>

\* Mutant: the context is looked at between two sends only.
BugGeneratorStops ==
  /\ gen = "running" /\ ctxDone /\ Len(in) < InCap
  /\ inClosed' = TRUE
  /\ gen' = "done"
  /\ UNCHANGED <<ctxDone, next, in, crawlVars, connUp, queue, accepted>>

GeneratorStops ==
  /\ gen = "running" /\ ctxDone
  /\ inClosed' = TRUE
  /\ gen' = "done"
  /\ UNCHANGED <<ctxDone, next, in, crawlVars, connUp, queue, accepted>>

\* NewProducer opens a channel on the connection; without one, Crawl returns.
Open(c) ==
  /\ cpc[c] = "open"
  /\ \/ connUp /\ cpc' = [cpc EXCEPT ![c] = "take"]
     \/ cpc' = [cpc EXCEPT ![c] = "returned"]
  /\ UNCHANGED <<ctxDone, gen, next, in, inClosed, id, body, status, fate, connUp, queue,
                 accepted>>

Take(c) ==
  /\ cpc[c] = "take" /\ in # <<>>
  /\ id' = [id EXCEPT ![c] = Head(in)]
  /\ in' = Tail(in)
  /\ cpc' = [cpc EXCEPT ![c] = "get"]
  /\ UNCHANGED <<ctxDone, gen, next, inClosed, body, status, fate, connUp, queue, accepted>>

\* <-ctx.Done(), or the closed and drained channel.
CrawlReturns(c) ==
  /\ cpc[c] = "take"
  /\ ctxDone \/ (inClosed /\ in = <<>>)
  /\ cpc' = [cpc EXCEPT ![c] = "returned"]
  /\ UNCHANGED <<ctxDone, gen, next, in, inClosed, id, body, status, fate, connUp, queue,
                 accepted>>

\* Get returns a body to publish.
Got(c, s, b) ==
  /\ status' = [status EXCEPT ![id[c]] = s]
  /\ body' = [body EXCEPT ![c] = b]
  /\ cpc' = [cpc EXCEPT ![c] = "produce"]
  /\ UNCHANGED <<ctxDone, gen, next, in, inClosed, id, fate, connUp, queue, accepted>>

GetOk(c) == cpc[c] = "get" /\ Got(c, "ok", "json")

\* Status 200 with something else: Get does not look at it.
GetNotJson(c) == cpc[c] = "get" /\ Got(c, "error", "notJson")

\* Mutant: the error's body is not read for the log.
BugGetErrorStatus(c) == cpc[c] = "get" /\ Got(c, "error", "json")

\* Another status is logged with its body, and Get goes on: a second ReadAll of the
\* same body yields nothing, without an error.
GetErrorStatus(c) == cpc[c] = "get" /\ Got(c, "error", "notJson")

\* The crawler is finished with its id.
Finish(c) ==
  /\ fate' = [fate EXCEPT ![id[c]] = "done"]
  /\ id' = [id EXCEPT ![c] = NoId]
  /\ body' = [body EXCEPT ![c] = "none"]
  /\ cpc' = [cpc EXCEPT ![c] = "take"]

\* No answer (timeout, cancelled context), a broken or too large body: the id is dropped.
GetFails(c) ==
  /\ cpc[c] = "get"
  /\ Finish(c)
  /\ status' = [status EXCEPT ![id[c]] = "error"]
  /\ UNCHANGED <<ctxDone, gen, next, in, inClosed, connUp, queue, accepted>>

\* json.Marshal accepts a RawMessage only if it is JSON.
Marshals(b) == b = "json"

Produce(c) ==
  /\ cpc[c] = "produce" /\ Marshals(body[c]) /\ connUp
  /\ queue' = Append(queue, id[c])
  /\ accepted' = accepted \union {id[c]}
  /\ Finish(c)
  /\ UNCHANGED <<ctxDone, gen, next, in, inClosed, status, connUp>>

\* The frames are written but the connection breaks before RabbitMQ has them; the
\* channel is not in confirm mode, so PublishWithContext returns nil.
ProduceIntoBrokenConn(c) ==
  /\ cpc[c] = "produce" /\ Marshals(body[c]) /\ connUp
  /\ connUp' = FALSE
  /\ Finish(c)
  /\ UNCHANGED <<ctxDone, gen, next, in, inClosed, status, queue, accepted>>

ProduceFails(c) ==
  /\ cpc[c] = "produce"
  /\ ~Marshals(body[c]) \/ ~connUp
  /\ Finish(c)
  /\ UNCHANGED <<ctxDone, gen, next, in, inClosed, status, connUp, queue, accepted>>

CrawlNext(c) ==
  \/ Open(c) \/ Take(c) \/ CrawlReturns(c)
  \/ GetOk(c) \/ GetNotJson(c) \/ GetErrorStatus(c) \/ GetFails(c)
  \/ Produce(c) \/ ProduceIntoBrokenConn(c) \/ ProduceFails(c)

\* SIGTERM or SIGQUIT.
Signal ==
  /\ ~ctxDone
  /\ ctxDone' = TRUE
  /\ UNCHANGED <<gen, next, in, inClosed, crawlVars, connUp, queue, accepted>>

ConnBreaks ==
  /\ connUp
  /\ connUp' = FALSE
  /\ UNCHANGED <<ctxDone, gen, next, in, inClosed, crawlVars, queue, accepted>>

Next ==
  \/ Generate \/ GeneratorStops \/ Signal \/ ConnBreaks
  \/ \E c \in Crawlers : CrawlNext(c)

-----------------------------------------------------------------------------
\* wg.Wait in runCrawler has returned.
Stopped == gen = "done" /\ \A c \in Crawlers : cpc[c] = "returned"

\* Every variable of the crawler has its type; a goroutine carries an id exactly between
\* its receive and the end of its turn.
TypeOK ==
  /\ ctxDone \in BOOLEAN /\ connUp \in BOOLEAN /\ inClosed \in BOOLEAN
  /\ gen \in {"running", "done"}
  /\ next \in Offset .. MaxId + 1
  /\ in \in Seq(Id) /\ Len(in) <= InCap
  /\ cpc \in [Crawlers -> {"open", "take", "get", "produce", "returned"}]
  /\ id \in [Crawlers -> Id \union {NoId}]
  /\ \A c \in Crawlers : id[c] = NoId <=> cpc[c] \notin {"get", "produce"}
  /\ body \in [Crawlers -> {"none", "json", "notJson"}]
  /\ status \in [Id -> {"none", "ok", "error"}]
  /\ fate \in [Id -> {"none", "done"}]
  /\ accepted \subseteq Id

\* The ids below the generator's are each in the channel, with one goroutine or
\* finished, and in one of these places only: no id is skipped or fetched twice.
IdsOnce ==
  \A i \in Id :
    LET inCh   == {k \in 1 .. Len(in) : in[k] = i}
        inHand == {c \in Crawlers : id[c] = i}
        done   == IF fate[i] = "none" THEN {} ELSE {i}
    IN  /\ i < next => \/ inHand = {} /\ done = {} /\ \E k \in inCh : inCh = {k}
                       \/ inCh = {} /\ done = {} /\ \E c \in inHand : inHand = {c}
                       \/ inCh = {} /\ inHand = {} /\ done = {i}
        /\ i >= next => inCh = {} /\ inHand = {} /\ done = {}
=============================================================================
