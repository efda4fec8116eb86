------------------------------ MODULE Dashboard ------------------------------
(***************************************************************************)
(* The screen of the backfill job: internal/tui polls the tracker of       *)
(* internal/telemetry while the job's goroutines move its counters.  A     *)
(* snapshot copies the list of tasks under the lock, and then loads each   *)
(* task's atomics one by one, without any lock.                            *)
(*                                                                         *)
(* How the counters may move is TaskProgress.  Of the log's entries those  *)
(* of the consumer are here.                                               *)
(***************************************************************************)
EXTENDS TaskProgress, Sums, Sequences, SequencesExt

CONSTANTS LogSize, ZeroEntry

ASSUME LogSizeAssumption == LogSize \in Nat \ {0}

VARIABLES
  buf, total, written,   \* the log
  screen, armed,         \* the UI's state, and its pending MainPaneTickMsg
  ui,                    \* "idle", which snapshot it takes ("table" or "header"), or "done"
  entries, at, view,     \* tasks copied, the one being read, its fields loaded so far
  sums,                  \* what the snapshot adds up
  tableRead, header      \* lines read in the table shown; the header shown

Log == INSTANCE RingBuffer WITH
         Size <- LogSize, Zero <- ZeroEntry, Entry <- {"start", "error", "stopped"} \X File

ringVars == <<buf, total, written>>
uiVars == <<screen, armed, ui, entries, at, view, sums, tableRead, header>>
vars == <<progressVars, ringVars, uiVars>>

Shown == {"done", "read", "inserted", "skipped", "errored"}
Nothing == [k \in Shown |-> 0]
NoFields == [k \in {} |-> 0]

DashboardInit ==
  /\ Init
  /\ Log!Init
  /\ screen = "warming" /\ armed = TRUE
  /\ ui = "idle" /\ entries = 0 /\ at = 1 /\ view = NoFields
  /\ sums = Nothing /\ tableRead = 0 /\ header = Nothing

-----------------------------------------------------------------------------
\* A step of the job, with what the consumer logs.  A signal cancels it, or the q key
\* of a UI that runs.
JobStep ==
  /\ UNCHANGED uiVars
  /\ \/ \E f \in File : \/ StartTask(f) /\ Log!Push(<<"start", f>>)
                        \/ SetErrored(f) /\ Log!Push(<<"error", f>>)
                        \/ SetFinished(f) /\ cancelled /\ Log!Push(<<"stopped", f>>)
     \/ /\ \/ \E f \in File : \/ SetFinished(f) /\ ~cancelled
                              \/ IncrementLinesRead(f) \/ IncrementInserted(f)
                              \/ IncrementSkipped(f) \/ IncrementErrors(f)
           \/ Cancel
        /\ UNCHANGED ringVars

\* The event CacheFinished reaches the UI.
WarmUpEnds ==
  /\ ui = "idle" /\ screen = "warming"
  /\ screen' = "dataset"
  /\ UNCHANGED <<progressVars, ringVars, armed, ui, entries, at, view, sums, tableRead, header>>

-----------------------------------------------------------------------------
\* tracker.tasks: AddTask appends, and files are started in order.
Tasks == Cardinality({f \in File : taskState[f] # "absent"})

\* slices.Clone under the lock.
CloneTasks == entries' = Tasks /\ at' = 1 /\ view' = NoFields /\ sums' = Nothing

\* Mutant: the next tick is asked for only when there is something to draw.
BugTick ==
  /\ ui = "idle" /\ armed
  /\ armed' = (screen = "dataset")
  /\ IF screen = "dataset"
       THEN ui' = "table" /\ CloneTasks
       ELSE UNCHANGED <<ui, entries, at, view, sums>>
  /\ UNCHANGED <<progressVars, ringVars, screen, tableRead, header>>

\* MainPaneTickMsg; the next one is asked for whatever is on the screen.
Tick ==
  /\ ui = "idle" /\ armed
  /\ armed' = TRUE
  /\ IF screen = "dataset"
       THEN ui' = "table" /\ CloneTasks
       ELSE UNCHANGED <<ui, entries, at, view, sums>>
  /\ UNCHANGED <<progressVars, ringVars, screen, tableRead, header>>

\* Mutant: the state is loaded last.
BugFields == <<"read", "inserted", "skipped", "errored", "state">>

\* The order in which View loads a task's atomics.
Fields == <<"state", "read", "inserted", "skipped", "errored">>

Load(f, field) ==
  CASE field = "state"    -> taskState[f]
    [] field = "read"     -> linesRead[f]
    [] field = "inserted" -> inserted[f]
    [] field = "skipped"  -> skipped[f]
    [] field = "errored"  -> errored[f]

\* One atomic load.
LoadField ==
  /\ ui \in {"table", "header"} /\ at <= entries /\ Cardinality(DOMAIN view) < Len(Fields)
  /\ LET field == Fields[Cardinality(DOMAIN view) + 1]
     IN  view' = [k \in DOMAIN view \union {field} |->
                    IF k = field THEN Load(at, field) ELSE view[k]]
  /\ UNCHANGED <<progressVars, ringVars, screen, armed, ui, entries, at, sums, tableRead, header>>

\* What a task, seen as v, adds to the sum k.
Part(v, k) == IF k = "done" THEN (IF v["state"] = "finished" THEN 1 ELSE 0) ELSE v[k]

Added(old, v) == [k \in Shown |-> old[k] + Part(v, k)]

\* The task has been viewed; on to the next.
TaskViewed ==
  /\ ui \in {"table", "header"} /\ at <= entries /\ Cardinality(DOMAIN view) = Len(Fields)
  /\ sums' = Added(sums, view)
  /\ at' = at + 1
  /\ view' = NoFields
  /\ UNCHANGED <<progressVars, ringVars, screen, armed, ui, entries, tableRead, header>>

\* Mutant: the summary goes on with the sums of the table.
BugTableDone ==
  /\ ui = "table" /\ at > entries
  /\ tableRead' = sums["read"]
  /\ ui' = "header"
  /\ entries' = Tasks /\ at' = 1
  /\ UNCHANGED <<progressVars, ringVars, screen, armed, view, sums, header>>

\* SnapshotTasks has returned, SnapshotSummary copies the list again.
TableDone ==
  /\ ui = "table" /\ at > entries
  /\ tableRead' = sums["read"]
  /\ ui' = "header"
  /\ CloneTasks
  /\ UNCHANGED <<progressVars, ringVars, screen, armed, header>>

\* Mutant: the task that has just been started is left out.
BugHeaderDone ==
  /\ ui = "header" /\ at >= entries
  /\ header' = sums
  /\ ui' = "idle"
  /\ entries' = 0 /\ at' = 1 /\ view' = NoFields /\ sums' = Nothing /\ tableRead' = 0
  /\ UNCHANGED <<progressVars, ringVars, screen, armed>>

\* SnapshotSummary has returned.
HeaderDone ==
  /\ ui = "header" /\ at > entries
  /\ header' = sums
  /\ ui' = "idle"
  /\ entries' = 0 /\ at' = 1 /\ view' = NoFields /\ sums' = Nothing /\ tableRead' = 0
  /\ UNCHANGED <<progressVars, ringVars, screen, armed>>

\* program.Run returns, between two messages: tea.Quit after q, groupCtx is over because
\* of a signal or because some goroutine of the group has failed, or the terminal fails.
\* The job's goroutines go on meanwhile.
UiEnds ==
  /\ ui = "idle"
  /\ ui' = "done"
  /\ UNCHANGED <<progressVars, ringVars, screen, armed, entries, at, view, sums, tableRead, header>>

UiNext == Tick \/ LoadField \/ TaskViewed \/ TableDone \/ HeaderDone

DashboardNext == JobStep \/ WarmUpEnds \/ UiNext \/ UiEnds

\* While the UI runs, its event loop does, and tea.Tick's timer fires.  Nothing else is
\* fair: neither the job nor the end of the UI.
DashboardSpec == DashboardInit /\ [][DashboardNext]_vars /\ WF_vars(UiNext)

-----------------------------------------------------------------------------
(***************************************************************************)
(* Properties.                                                             *)
(***************************************************************************)
\* Every variable of the screen has its type, and the log's have theirs.
DashboardTypeOK ==
  /\ Log!TypeOK
  /\ screen \in {"warming", "dataset"} /\ armed \in BOOLEAN
  /\ ui \in {"idle", "table", "header", "done"}
  /\ entries \in 0 .. NFiles /\ at \in 1 .. NFiles + 1
  /\ DOMAIN view \subseteq ToSet(Fields)
  /\ sums \in [Shown -> Nat] /\ header \in [Shown -> Nat]
  /\ tableRead \in Nat

\* The screen's log is the end of what was logged.
LogShowsTail == Log!LogShowsTail

\* What the tasks add to the sum k now.
Now(k) == [f \in File |-> Part([field \in ToSet(Fields) |-> Load(f, field)], k)]

\* What the header would show if it were read in an instant.
Totals == [k \in Shown |-> SumOver(File, Now(k))]

\* The header is never ahead of the job, although the job moves on while it is read.
HeaderNotAhead == \A k \in Shown : header[k] <= Totals[k]

\* A row that says Finished shows the line count of a file that was handed over whole:
\* the state is loaded before the counter.  (Start marks cancelled files too.)
FinishedRowIsFull ==
  {"state", "read"} \subseteq DOMAIN view /\ view["state"] = "finished" /\ ~cancelled
    => view["read"] = LinesOf[at]

\* The header moves forward only: from tick to tick no number of it falls, and it has
\* every line that the table beside it shows, although the two are read apart.
HeaderForward ==
  [][/\ \A k \in Shown : header'[k] >= header[k]
     /\ ui = "header" /\ ui' = "idle" => header'["read"] >= tableRead]_vars

\* Once the warm-up is over, the screen catches up with the job, unless the UI ends: as
\* long as it runs, each tick brings the next.
ScreenCatchesUp ==
  <>(screen = "dataset") /\ [](ui # "done") => <>[](header = Totals)
=============================================================================
