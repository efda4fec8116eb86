----------------------------- MODULE JobStartup -----------------------------
(***************************************************************************)
(* The start and the end of RunE in cmd/dataset: the manifest cache warms  *)
(* up in the main goroutine and publishes its progress on a Broker         *)
(* (internal/pubsub); a goroutine subscribes and forwards the events to a  *)
(* channel; another sends them from there to the terminal UI, which leaves *)
(* its loading screen at CacheFinished.  A failure on the way makes RunE   *)
(* return, its deferred functions cancel the context and wait for the      *)
(* forwarder.  The backfill itself is one step here: see DatasetJob.       *)
(***************************************************************************)
EXTENDS Integers, Sequences

CONSTANTS Definitions,    \* number of manifest definitions to load, 5 in the code
          BrokerBuffer,   \* buffer of a subscription, 10 in the code
          EventsBuffer    \* capacity of eventsCh, 20000 in the code

ASSUME DefinitionsAssumption == Definitions \in Nat
ASSUME BuffersAssumption == BrokerBuffer \in Nat /\ EventsBuffer \in Nat

\* What Init of the cache publishes: CacheStarted, one CacheLoading for each
\* definition, CacheFinished.  The position tells the events apart.
Event == 1 .. Definitions + 2
CacheStarted  == 1
CacheFinished == Definitions + 2

VARIABLES
  globalDone,   \* globalCtx is cancelled
  groupErr,     \* groupCtx is cancelled by an error or by eg.Wait's return
  main,         \* where RunE is
  published,    \* number of events published
  fwd,          \* the goroutine of setupEvents
  sub,          \* its subscription's channel
  fwdHeld,      \* the event it carries, as a sequence of at most one
  eventsCh,
  pub, pubHeld, \* publishEventsToTea
  ui,           \* the goroutine of program.Run
  screen,       \* Model.state
  seen          \* the events Model.Update has handled

vars == <<globalDone, groupErr, main, published, fwd, sub, fwdHeld, eventsCh, pub,
          pubHeld, ui, screen, seen>>

mainVars == <<main, published>>
fwdVars  == <<fwd, fwdHeld>>
pubVars  == <<pub, pubHeld>>
uiVars   == <<ui, screen, seen>>

\* groupCtx: cancelled with globalCtx, by the first error and by eg.Wait's return.
groupDone == globalDone \/ groupErr

Init ==
  /\ globalDone = FALSE /\ groupErr = FALSE
  /\ main = "warming" /\ published = 0
  /\ fwd = "start" /\ sub = <<>> /\ fwdHeld = <<>>
  /\ eventsCh = <<>>
  /\ pub = "receive" /\ pubHeld = <<>>
  /\ ui = "running" /\ screen = "cacheWarming" /\ seen = <<>>

-----------------------------------------------------------------------------
(***************************************************************************)
(* RunE's goroutine.                                                       *)
(***************************************************************************)
\* The broker delivers only to those who have subscribed, and drops when full.
Publish ==
  /\ main = "warming"
  /\ published' = published + 1
  /\ sub' = IF fwd # "start" /\ Len(sub) < BrokerBuffer THEN Append(sub, published + 1) ELSE sub
  /\ main' = IF published' = CacheFinished THEN "connecting" ELSE "warming"
  /\ UNCHANGED <<globalDone, groupErr, fwdVars, eventsCh, pubVars, uiVars>>

\* A manifest request fails (groupCtx may be what ends it), or the database cannot be
\* reached: RunE returns.
StartFails ==
  /\ \/ main = "warming" /\ published > 0
     \/ main = "connecting"
  /\ main' = "cleanup"
  /\ UNCHANGED <<globalDone, groupErr, published, fwdVars, sub, eventsCh, pubVars, uiVars>>

\* The database is there, consumer and workers are started.
StartJob ==
  /\ main = "connecting"
  /\ main' = "running"
  /\ UNCHANGED <<globalDone, groupErr, published, fwdVars, sub, eventsCh, pubVars, uiVars>>

\* Consumer and workers have returned, with or without an error.
JobEnds ==
  /\ main = "running"
  /\ main' = "waiting"
  /\ groupErr' \in {groupErr, TRUE}
  /\ UNCHANGED <<globalDone, published, fwdVars, sub, eventsCh, pubVars, uiVars>>

\* eg.Wait also waits for the UI; it cancels groupCtx.
WaitReturns ==
  /\ main = "waiting" /\ ui = "done"
  /\ groupErr' = TRUE
  /\ main' = "cleanup"
  /\ UNCHANGED <<globalDone, published, fwdVars, sub, eventsCh, pubVars, uiVars>>

\* Mutant: the clean-up waits without cancelling the context.
BugCancel ==
  /\ main = "cleanup"
  /\ main' = "join"
  /\ UNCHANGED <<globalDone, groupErr, published, fwdVars, sub, eventsCh, pubVars, uiVars>>

\* The deferred globalCancel, before the clean-up functions.
Cancel ==
  /\ main = "cleanup"
  /\ globalDone' = TRUE
  /\ main' = "join"
  /\ UNCHANGED <<groupErr, published, fwdVars, sub, eventsCh, pubVars, uiVars>>

\* eventsWg.Wait, and RunE returns: the process exits.
Join ==
  /\ main = "join" /\ fwd = "done"
  /\ main' = "returned"
  /\ UNCHANGED <<globalDone, groupErr, published, fwdVars, sub, eventsCh, pubVars, uiVars>>

MainNext == Publish \/ StartFails \/ StartJob \/ WaitReturns \/ Cancel \/ Join

-----------------------------------------------------------------------------
(***************************************************************************)
(* setupEvents: Subscribe happens in the goroutine.                        *)
(***************************************************************************)
Subscribe ==
  /\ fwd = "start"
  /\ fwd' = "receive"
  /\ UNCHANGED <<globalDone, groupErr, mainVars, sub, fwdHeld, eventsCh, pubVars, uiVars>>

FwdReceive ==
  /\ fwd = "receive" /\ sub # <<>>
  /\ fwdHeld' = <<Head(sub)>>
  /\ sub' = Tail(sub)
  /\ fwd' = "send"
  /\ UNCHANGED <<globalDone, groupErr, mainVars, eventsCh, pubVars, uiVars>>

\* Mutant: the event is put aside when the channel is full.
BugFwdSend ==
  /\ fwd = "send"
  /\ eventsCh' = IF Len(eventsCh) < EventsBuffer THEN eventsCh \o fwdHeld ELSE eventsCh
  /\ fwdHeld' = <<>>
  /\ fwd' = "receive"
  /\ UNCHANGED <<globalDone, groupErr, mainVars, sub, pubVars, uiVars>>

FwdSend ==
  /\ fwd = "send" /\ Len(eventsCh) < EventsBuffer
  /\ eventsCh' = eventsCh \o fwdHeld
  /\ fwdHeld' = <<>>
  /\ fwd' = "receive"
  /\ UNCHANGED <<globalDone, groupErr, mainVars, sub, pubVars, uiVars>>

\* Either select takes <-globalCtx.Done().
FwdCancelled ==
  /\ fwd \in {"receive", "send"} /\ globalDone
  /\ fwd' = "done"
  /\ fwdHeld' = <<>>
  /\ UNCHANGED <<globalDone, groupErr, mainVars, sub, eventsCh, pubVars, uiVars>>

FwdNext == Subscribe \/ FwdReceive \/ FwdSend \/ FwdCancelled

-----------------------------------------------------------------------------
(***************************************************************************)
(* publishEventsToTea and the UI.                                          *)
(***************************************************************************)
PubReceive ==
  /\ pub = "receive" /\ eventsCh # <<>>
  /\ pubHeld' = <<Head(eventsCh)>>
  /\ eventsCh' = Tail(eventsCh)
  /\ pub' = "send"
  /\ UNCHANGED <<globalDone, groupErr, mainVars, fwdVars, sub, uiVars>>

PubCancelled ==
  /\ pub = "receive" /\ groupDone
  /\ pub' = "done"
  /\ UNCHANGED <<globalDone, groupErr, mainVars, fwdVars, sub, eventsCh, pubHeld, uiVars>>

\* The events' cases in Model.Update.
ScreenAfter(e) ==
  CASE e = CacheStarted  -> "cacheWarming"
    [] e = CacheFinished -> "datasetProcessing"
    [] OTHER -> screen

\* Mutant: publishEventsToTea sends one message and returns.
BugUpdate ==
  /\ pub = "send" /\ ui = "running"
  /\ seen' = seen \o pubHeld
  /\ screen' = ScreenAfter(pubHeld[1])
  /\ pubHeld' = <<>>
  /\ pub' = "done"
  /\ UNCHANGED <<globalDone, groupErr, mainVars, fwdVars, sub, eventsCh, ui>>

\* program.Send hands the message over to the event loop, which calls Update.
Update ==
  /\ pub = "send" /\ ui = "running"
  /\ seen' = seen \o pubHeld
  /\ screen' = ScreenAfter(pubHeld[1])
  /\ pubHeld' = <<>>
  /\ pub' = "receive"
  /\ UNCHANGED <<globalDone, groupErr, mainVars, fwdVars, sub, eventsCh, ui>>

\* program.Send to a program that has ended returns at once.
SendDiscards ==
  /\ pub = "send" /\ ui = "done"
  /\ pubHeld' = <<>>
  /\ pub' = "receive"
  /\ UNCHANGED <<globalDone, groupErr, mainVars, fwdVars, sub, eventsCh, uiVars>>

PubNext == PubReceive \/ PubCancelled \/ Update \/ SendDiscards

\* A signal, or the quit key, which also ends the program.
Signal ==
  /\ ~globalDone /\ main # "returned"
  /\ globalDone' = TRUE
  /\ UNCHANGED <<groupErr, mainVars, fwdVars, sub, eventsCh, pubVars, uiVars>>

PressQuit ==
  /\ ui = "running" /\ main # "returned"
  /\ globalDone' = TRUE
  /\ ui' = "done"
  /\ UNCHANGED <<groupErr, mainVars, fwdVars, sub, eventsCh, pubVars, screen, seen>>

\* program.Run returns because groupCtx is done: ErrProgramKilled.
UiKilled ==
  /\ ui = "running" /\ groupDone /\ main # "returned"
  /\ ui' = "done"
  /\ groupErr' = TRUE
  /\ UNCHANGED <<globalDone, mainVars, fwdVars, sub, eventsCh, pubVars, screen, seen>>

\* program.Run fails by itself.
UiFails ==
  /\ ui = "running" /\ main # "returned"
  /\ ui' = "done"
  /\ groupErr' = TRUE
  /\ UNCHANGED <<globalDone, mainVars, fwdVars, sub, eventsCh, pubVars, screen, seen>>

Exited == main = "returned" /\ UNCHANGED vars

Next ==
  \/ MainNext
  \/ main # "returned" /\ (FwdNext \/ PubNext)
  \/ JobEnds \/ Signal \/ PressQuit \/ UiKilled \/ UiFails
  \/ Exited

Spec == Init /\ [][Next]_vars

(***************************************************************************)
(* Goroutines run and requests are answered, one way or the other; nothing *)
(* forces the backfill to end, a signal, a key or a failure of the UI.     *)
(***************************************************************************)
FairSpec ==
  /\ Spec
  /\ WF_vars(MainNext)
  /\ WF_vars(main # "returned" /\ FwdNext)
  /\ WF_vars(main # "returned" /\ PubNext)
  /\ WF_vars(UiKilled)

-----------------------------------------------------------------------------
(***************************************************************************)
(* Properties.                                                             *)
(***************************************************************************)
\* Every variable has its type; a goroutine carries an event exactly in its send.
TypeOK ==
  /\ globalDone \in BOOLEAN /\ groupErr \in BOOLEAN
  /\ main \in {"warming", "connecting", "running", "waiting", "cleanup", "join", "returned"}
  /\ published \in 0 .. CacheFinished
  /\ fwd \in {"start", "receive", "send", "done"}
  /\ pub \in {"receive", "send", "done"}
  /\ sub \in Seq(Event) /\ Len(sub) <= BrokerBuffer
  /\ eventsCh \in Seq(Event) /\ Len(eventsCh) <= EventsBuffer
  /\ fwdHeld \in Seq(Event) /\ Len(fwdHeld) = (IF fwd = "send" THEN 1 ELSE 0)
  /\ pubHeld \in Seq(Event) /\ Len(pubHeld) = (IF pub = "send" THEN 1 ELSE 0)
  /\ ui \in {"running", "done"}
  /\ screen \in {"cacheWarming", "datasetProcessing"}
  /\ seen \in Seq(Event)

\* From the subscription on, the UI gets every event once and in the order in which
\* the cache published it, as long as the job is not being cancelled and the
\* subscription's buffer is as large as the code makes it: what the UI has handled and
\* what is on its way are the last events published, without a gap.
EventsInOrder ==
  (~globalDone /\ ui = "running" /\ BrokerBuffer >= CacheFinished) =>
    LET stream == seen \o pubHeld \o eventsCh \o fwdHeld \o sub IN
      \A i \in 1 .. Len(stream) : stream[i] = published - Len(stream) + i

\* A subscription that was not too late for all of the events is not too late at all: once
\* the cache is warm and nothing is on its way any more, the UI has left the loading
\* screen, as long as it has handled any event.
ScreenSettled ==
  /\ ~globalDone /\ ui = "running" /\ BrokerBuffer >= CacheFinished
  /\ published = CacheFinished /\ seen # <<>>
  /\ pubHeld = <<>> /\ eventsCh = <<>> /\ fwdHeld = <<>> /\ sub = <<>>
  => screen = "datasetProcessing"

\* If the forwarder has subscribed before the cache starts, the UI leaves the loading
\* screen, unless the job is stopped first.
TimelySubscriberSeesJob ==
  (fwd = "receive" /\ published = 0)
    ~> (screen = "datasetProcessing" \/ groupDone \/ ui = "done")

\* Whatever goes wrong during the start, RunE's deferred functions come to an end: the
\* wait for the forwarder cannot block.
CleanupEnds == (main = "cleanup") ~> (main = "returned")

\* cmd/dataset/cmd/root.go:135 starts the program before the cache "so we can capture
\* events": once the cache has warmed up, the UI leaves the loading screen.
WarmUpCaptured ==
  (published = CacheFinished)
    ~> (screen = "datasetProcessing" \/ groupDone \/ ui = "done")
=============================================================================
