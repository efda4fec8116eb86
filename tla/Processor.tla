------------------------------ MODULE Processor ------------------------------
(***************************************************************************)
(* cmd/processor on its queue: RabbitMQ pushes messages to the process;    *)
(* the goroutine of Consume (internal/rabbitmq) decodes them and hands     *)
(* them over an unbuffered channel to one pipeline, which maps and writes  *)
(* them.  The deliveries that have not been acknowledged when the          *)
(* connection ends go back to the front of the queue.  Nothing in the      *)
(* process calls Ack.                                                      *)
(***************************************************************************)
EXTENDS Integers, Sequences, SequencesExt, FiniteSets

CONSTANTS Envelope,       \* the crawler's messages: API answers, the report in "Response"
          Bare,           \* a report itself, as the processor decodes it
          NotJson,        \* a message that json.Unmarshal rejects
          NotReport,      \* JSON that MapRawPgcr rejects
          HasTracker,     \* is the field RabbitMQ.Tracker set?  New leaves it nil
          MaxBroken,      \* bound on the other publishers' broken messages
          NoMsg

Broken  == {NotJson, NotReport}
Foreign == {Bare} \union Broken
Message == Envelope \union Foreign

VARIABLES
  queue,     \* the ready messages
  proc,      \* the process: "down", "up", or "draining" after its connection broke
  exit,      \* why the process last went down, "none" while it runs; "outside" stands
             \* for kills, the connection and the database
  unacked,   \* the messages pushed to the process, in order
  taken,     \* how many of them the goroutine of Consume has received
  carried,   \* the delivery it is sending, or NoMsg
  held,      \* the delivery in the pipeline, or NoMsg
  stage,     \* where the pipeline is
  saved      \* the reports in the database

pvars == <<proc, exit, unacked, taken, carried, held, stage, saved>>

Init ==
  /\ proc = "down" /\ exit = "none"
  /\ unacked = <<>> /\ taken = 0
  /\ carried = NoMsg /\ held = NoMsg /\ stage = "read"
  /\ saved = {}

-----------------------------------------------------------------------------
Start ==
  /\ proc = "down"
  /\ proc' = "up"
  /\ exit' = "none"
  /\ UNCHANGED <<queue, unacked, taken, carried, held, stage, saved>>

\* RabbitMQ takes back what was not acknowledged.
Requeue ==
  /\ queue' = unacked \o queue
  /\ unacked' = <<>>
  /\ taken' = 0

\* The process ends, and its connection with it.
Exit(cause) ==
  /\ proc' = "down"
  /\ exit' = cause
  /\ Requeue
  /\ carried' = NoMsg /\ held' = NoMsg /\ stage' = "read"

\* Mutant: a prefetch count of one.
BugPushOne ==
  /\ proc = "up" /\ queue # <<>> /\ unacked = <<>>
  /\ unacked' = Append(unacked, Head(queue))
  /\ queue' = Tail(queue)
  /\ UNCHANGED <<proc, exit, taken, carried, held, stage, saved>>

\* The channel has no prefetch limit, and autoAck is false.
Push ==
  /\ proc = "up" /\ queue # <<>>
  /\ unacked' = Append(unacked, Head(queue))
  /\ queue' = Tail(queue)
  /\ UNCHANGED <<proc, exit, taken, carried, held, stage, saved>>

\* The next delivery for the goroutine of Consume.
CanReceive == proc = "up" /\ carried = NoMsg /\ taken < Len(unacked)
Delivery == unacked[taken + 1]

\* Mutant: Nack(false, true), which requeues.
BugReject ==
  /\ CanReceive /\ Delivery = NotJson
  /\ unacked' = RemoveAt(unacked, taken + 1)
  /\ queue' = <<Delivery>> \o queue
  /\ UNCHANGED <<proc, exit, taken, carried, held, stage, saved>>

\* What is not JSON is rejected without being requeued.
Reject ==
  /\ CanReceive /\ Delivery = NotJson
  /\ unacked' = RemoveAt(unacked, taken + 1)
  /\ UNCHANGED <<queue, proc, exit, taken, carried, held, stage, saved>>

\* AddTask locks the tracker's mutex: through a nil pointer that is a panic, in a
\* goroutine that recovers nothing.
Receive ==
  /\ CanReceive /\ Delivery # NotJson
  /\ IF HasTracker
       THEN /\ carried' = Delivery
            /\ taken' = taken + 1
            /\ UNCHANGED <<queue, proc, exit, unacked, held, stage>>
       ELSE Exit("panic")
  /\ UNCHANGED saved

\* out <- job meets the pipeline's ReadFrom.
HandOver ==
  /\ proc # "down" /\ carried # NoMsg /\ stage = "read"
  /\ held' = carried
  /\ carried' = NoMsg
  /\ stage' = "map"
  /\ UNCHANGED <<queue, proc, exit, unacked, taken, saved>>

\* Mutant: the message is acknowledged before it is written.
BugMap ==
  /\ stage = "map" /\ held # NotReport
  /\ stage' = "write"
  /\ unacked' = SelectSeq(unacked, LAMBDA m : m # held)
  /\ taken' = IF Contains(unacked, held) THEN taken - 1 ELSE taken
  /\ UNCHANGED <<queue, proc, exit, carried, held, saved>>

\* Only payload and task go on: the delivery's Ack and Nack stay behind.
Map ==
  /\ stage = "map" /\ held # NotReport
  /\ stage' = "write"
  /\ UNCHANGED <<queue, proc, exit, unacked, taken, carried, held, saved>>

\* MapRawPgcr's error.  The source does not show what chainmorph makes of it: it ends
\* WriteTo, and RunE with it, or drops the message and reads on.
MapFails ==
  /\ stage = "map" /\ held = NotReport
  /\ \/ Exit("mapError")
     \/ /\ held' = NoMsg /\ stage' = "read"
        /\ UNCHANGED <<queue, proc, exit, unacked, taken, carried>>
  /\ UNCHANGED saved

\* What was decoded from an envelope has no period: it is not written.
Write ==
  /\ stage = "write" /\ held = Bare
  /\ saved' = saved \union {held}
  /\ held' = NoMsg /\ stage' = "read"
  /\ UNCHANGED <<queue, proc, exit, unacked, taken, carried>>

\* No RetryWriter here: WriteTo ends at the first error, stored or not, and RunE with it.
WriteFails ==
  /\ stage = "write" /\ held = Bare
  /\ saved' \in {saved, saved \union {held}}
  /\ Exit("outside")

\* MapRawPgcr has made an empty report of the envelope, and MapToDBInstance cannot parse
\* its period.
EmptyReportFails ==
  /\ stage = "write" /\ held \in Envelope
  /\ Exit("emptyReport")
  /\ UNCHANGED saved

\* The connection ends: what the client has not passed on is gone from the process.
ConnectionLost ==
  /\ proc = "up"
  /\ proc' = "draining"
  /\ Requeue
  /\ UNCHANGED <<exit, carried, held, stage, saved>>

\* Consume closes its channel, the pipeline finds it drained, RunE returns nil.
EndOfStream ==
  /\ proc = "draining" /\ carried = NoMsg /\ stage = "read"
  /\ Exit("outside")
  /\ UNCHANGED saved

\* The process is killed.
Killed ==
  /\ proc # "down"
  /\ Exit("outside")
  /\ UNCHANGED saved

\* Another publisher: the queue is durable, and anyone may publish to it by its name.
\* Bound: each once at a time, and MaxBroken of the broken ones.
ForeignPublish(m) ==
  /\ LET waiting == ToSet(queue \o unacked)
     IN  /\ m \notin waiting \union saved
         /\ m \in Broken => Cardinality(waiting \intersect Broken) < MaxBroken
  /\ queue' = Append(queue, m)
  /\ UNCHANGED pvars

ConsumeNext == Reject \/ Receive
PipelineNext == HandOver \/ Map \/ MapFails \/ Write \/ WriteFails \/ EmptyReportFails \/ EndOfStream

Next ==
  \/ Start \/ Push \/ ConsumeNext \/ PipelineNext
  \/ ConnectionLost \/ Killed
  \/ \E m \in Foreign : ForeignPublish(m)

-----------------------------------------------------------------------------
\* Every variable of the processor has its type, and a process that is down has
\* nothing in its hands.
TypeOK ==
  /\ queue \in Seq(Message)
  /\ unacked \in Seq(Message)
  /\ taken \in 0 .. Len(unacked)
  /\ proc \in {"down", "up", "draining"}
  /\ exit \in {"none", "panic", "mapError", "emptyReport", "outside"}
  /\ carried \in Message \union {NoMsg}
  /\ held \in Message \union {NoMsg}
  /\ stage \in {"read", "map", "write"}
  /\ held = NoMsg <=> stage = "read"
  /\ saved \subseteq {Bare}
  /\ proc = "down" => unacked = <<>> /\ carried = NoMsg /\ held = NoMsg
=============================================================================
