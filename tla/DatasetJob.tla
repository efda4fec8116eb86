----------------------------- MODULE DatasetJob -----------------------------
(***************************************************************************)
(* The backfill job of cmd/dataset: one file consumer                      *)
(* (internal/consumer/dataset.go) feeds the lines of the discovered files, *)
(* in order, into a bounded Go channel; a group of workers reads, maps,    *)
(* filters and writes them (internal/pipeline, chainmorph); a terminal UI  *)
(* shows the progress and owns the quit key.  All of them run in one       *)
(* errgroup, which the command waits for (cmd/dataset/cmd/root.go).        *)
(*                                                                         *)
(* Two contexts exist.  globalCtx is cancelled by a signal or by the quit  *)
(* key; groupCtx is derived from it and is also cancelled by the first     *)
(* error of the errgroup.  The consumer and the workers watch globalCtx,   *)
(* the UI watches groupCtx.                                                *)
(*                                                                         *)
(* A line is the pair <<file, offset>>.  What the writers make of a line   *)
(* is one nondeterministic step here; module WriterStack opens it up.      *)
(***************************************************************************)
EXTENDS Integers, Sequences, FiniteSets

CONSTANTS NFiles,         \* number of discovered files, len(fileIndex)
          FileLines,      \* FileLines[f]: number of lines of file f
          ChanCap,        \* capacity of the channel (2048 in the code)
          Workers,        \* the pipeline goroutines (flag --goroutines)
          NumFiles,       \* flag --files, 0: no limit
          NumLines,       \* flag --lines, 0: no limit
          NoLine          \* "no line held"

Files == 1 .. NFiles

Line == UNION { {f} \X (0 .. FileLines[f] - 1) : f \in Files }

ASSUME FilesAssumption == NFiles \in Nat /\ FileLines \in [Files -> Nat]
ASSUME FlagsAssumption == NumFiles \in Int /\ NumLines \in Int
ASSUME WorkersAssumption == Workers # {}
ASSUME ChanAssumption == ChanCap \in Nat \ {0}
ASSUME NoLineAssumption == NoLine \notin Line

VARIABLES
  globalDone,   \* globalCtx.Done() is closed
  groupErr,     \* first error recorded by the errgroup
  cpc,          \* where the consumer goroutine is
  cErr,         \* what Start is about to return
  file,         \* index of the file being consumed
  lineCount,    \* offset of the next line of that file
  ch, chClosed, \* the channel
  taskState,    \* Task.State per file
  linesRead, inserted, skipped, errored,   \* Task counters per file
  wpc, held,    \* per worker: where it is, the line it carries
  outcome,      \* per line: what became of it (database, dead letters, lost)
  tui,          \* the terminal UI's goroutine
  result        \* what RunE returned

consumerVars == <<cpc, cErr, file, lineCount, taskState, linesRead>>
workerVars   == <<wpc, held, outcome, inserted, skipped, errored>>
chanVars     == <<ch, chClosed>>
vars == <<globalDone, groupErr, consumerVars, chanVars, workerVars, tui, result>>

Errors == {"none", "canceled", "killed", "fileError", "fatal", "uiError"}
ConsumerPcs == {"nextFile", "open", "scan", "send", "count", "close", "return", "done"}
WorkerPcs == {"read", "map", "filter", "write", "stopped"}
Outcomes == {"pending", "inserted", "skipped", "malformed", "quarantined",
             "failed", "abandoned"}

(***************************************************************************)
(* groupCtx, and the errgroup's rule that the first error wins.            *)
(***************************************************************************)
groupDone == globalDone \/ groupErr # "none"

\* Mutant: the last error wins.
BugRecord(e) == groupErr' = IF e = "none" THEN groupErr ELSE e

Record(e) == groupErr' = IF groupErr = "none" THEN e ELSE groupErr

Init ==
  /\ globalDone = FALSE
  /\ groupErr = "none"
  /\ cpc = "nextFile" /\ cErr = "none" /\ file = 1 /\ lineCount = 0
  /\ ch = <<>> /\ chClosed = FALSE
  /\ taskState = [f \in Files |-> "absent"]
  /\ linesRead = [f \in Files |-> 0]
  /\ inserted = [f \in Files |-> 0]
  /\ skipped = [f \in Files |-> 0]
  /\ errored = [f \in Files |-> 0]
  /\ wpc = [w \in Workers |-> "read"]
  /\ held = [w \in Workers |-> NoLine]
  /\ outcome = [x \in Line |-> "pending"]
  /\ tui = "running"
  /\ result = "none"

-----------------------------------------------------------------------------
(***************************************************************************)
(* The consumer.                                                           *)
(***************************************************************************)

\* fileCount is set to 0 before the loop and never assigned again.
fileCount == 0

FileLimitReached == NumFiles > 0 /\ fileCount >= NumFiles
LineLimitReached == NumLines > 0 /\ lineCount >= NumLines

\* SetFinished / SetErrored and what Start does next: the deferred close.
LeaveStart(state, e) ==
  /\ taskState' = [taskState EXCEPT ![file] = state]
  /\ cErr' = e
  /\ cpc' = "close"

\* SetFinished and the next turn of the file loop.
FileDone ==
  /\ taskState' = [taskState EXCEPT ![file] = "finished"]
  /\ file' = file + 1
  /\ cpc' = "nextFile"
  /\ UNCHANGED cErr

StartFile ==
  /\ cpc = "nextFile"
  /\ file \in Files /\ ~FileLimitReached
  /\ taskState' = [taskState EXCEPT ![file] = "started"]
  /\ cpc' = "open"
  /\ UNCHANGED <<globalDone, groupErr, cErr, file, lineCount, linesRead, chanVars,
                 workerVars, tui, result>>

NoMoreFiles ==
  /\ cpc = "nextFile"
  /\ file \notin Files \/ FileLimitReached
  /\ cpc' = "close"
  /\ UNCHANGED <<globalDone, groupErr, cErr, file, lineCount, taskState, linesRead,
                 chanVars, workerVars, tui, result>>

\* Mutant: the line offset of the previous file is kept.
BugOpenFile ==
  /\ cpc = "open"
  /\ cpc' = "scan"
  /\ UNCHANGED <<globalDone, groupErr, cErr, file, lineCount, taskState, linesRead,
                 chanVars, workerVars, tui, result>>

\* prepareFile up to consumeLines.
OpenFile ==
  /\ cpc = "open"
  /\ cpc' = "scan"
  /\ lineCount' = 0
  /\ UNCHANGED <<globalDone, groupErr, cErr, file, taskState, linesRead, chanVars,
                 workerVars, tui, result>>

\* Mutant: a broken file is marked as errored and the next file is tried.
BugFileFails ==
  /\ \/ cpc = "open"
     \/ cpc = "scan"
  /\ taskState' = [taskState EXCEPT ![file] = "errored"]
  /\ file' = file + 1
  /\ cpc' = "nextFile"
  /\ UNCHANGED <<globalDone, groupErr, cErr, lineCount, linesRead, chanVars,
                 workerVars, tui, result>>

\* The file cannot be opened, or a later Scan fails (corrupt or too long a line).
FileFails ==
  /\ \/ cpc = "open"
     \/ cpc = "scan"
  /\ LeaveStart("errored", "fileError")
  /\ UNCHANGED <<globalDone, groupErr, file, lineCount, linesRead, chanVars,
                 workerVars, tui, result>>

AtEOF == lineCount >= FileLines[file]

\* Scan returned a line, the context is alive, the line limit is not reached.
ScanLine ==
  /\ cpc = "scan" /\ ~AtEOF /\ ~globalDone /\ ~LineLimitReached
  /\ cpc' = "send"
  /\ UNCHANGED <<globalDone, groupErr, cErr, file, lineCount, taskState, linesRead,
                 chanVars, workerVars, tui, result>>

\* Scan returned false at the end of the file, or the limit breaks the loop.
ScanEnds ==
  /\ cpc = "scan"
  /\ AtEOF \/ (~globalDone /\ LineLimitReached)
  /\ FileDone
  /\ UNCHANGED <<globalDone, groupErr, lineCount, linesRead, chanVars, workerVars,
                 tui, result>>

SendLine ==
  /\ cpc = "send"
  /\ Len(ch) < ChanCap
  /\ ch' = Append(ch, <<file, lineCount>>)
  /\ cpc' = "count"
  /\ UNCHANGED <<globalDone, groupErr, cErr, file, lineCount, taskState, linesRead,
                 chClosed, workerVars, tui, result>>

\* Mutant: lineCount++ is forgotten.
BugCountLine ==
  /\ cpc = "count"
  /\ linesRead' = [linesRead EXCEPT ![file] = @ + 1]
  /\ cpc' = "scan"
  /\ UNCHANGED <<globalDone, groupErr, cErr, file, lineCount, taskState, chanVars,
                 workerVars, tui, result>>

\* The line counter moves only after the line is in the channel.
CountLine ==
  /\ cpc = "count"
  /\ linesRead' = [linesRead EXCEPT ![file] = @ + 1]
  /\ lineCount' = lineCount + 1
  /\ cpc' = "scan"
  /\ UNCHANGED <<globalDone, groupErr, cErr, file, taskState, chanVars, workerVars,
                 tui, result>>

\* Mutant: the send does not watch the context.
BugConsumerCancelled ==
  /\ globalDone
  /\ cpc = "scan" /\ ~AtEOF
  /\ LeaveStart("finished", "canceled")
  /\ UNCHANGED <<globalDone, groupErr, file, lineCount, linesRead, chanVars,
                 workerVars, tui, result>>

\* Either select of consumeLines takes <-ctx.Done(): Start marks the task
\* finished and returns the context's error.
ConsumerCancelled ==
  /\ globalDone
  /\ \/ cpc = "scan" /\ ~AtEOF
     \/ cpc = "send"
  /\ LeaveStart("finished", "canceled")
  /\ UNCHANGED <<globalDone, groupErr, file, lineCount, linesRead, chanVars,
                 workerVars, tui, result>>

\* Mutant: the channel is closed on the successful path only.
BugCloseChannel ==
  /\ cpc = "close"
  /\ chClosed' = (cErr = "none")
  /\ cpc' = "return"
  /\ UNCHANGED <<globalDone, groupErr, cErr, file, lineCount, taskState, linesRead,
                 ch, workerVars, tui, result>>

\* The deferred close(c.ch) runs before Start's error reaches the errgroup.
CloseChannel ==
  /\ cpc = "close"
  /\ chClosed' = TRUE
  /\ cpc' = "return"
  /\ UNCHANGED <<globalDone, groupErr, cErr, file, lineCount, taskState, linesRead,
                 ch, workerVars, tui, result>>

ConsumerReturns ==
  /\ cpc = "return"
  /\ Record(cErr)
  /\ cpc' = "done"
  /\ UNCHANGED <<globalDone, cErr, file, lineCount, taskState, linesRead, chanVars,
                 workerVars, tui, result>>

ConsumerNext ==
  \/ StartFile \/ NoMoreFiles \/ OpenFile \/ FileFails \/ ScanLine \/ ScanEnds
  \/ SendLine \/ CountLine \/ ConsumerCancelled \/ CloseChannel \/ ConsumerReturns

-----------------------------------------------------------------------------
(***************************************************************************)
(* The workers: From(reader).MapFunc(MapRawPgcr).If(FilterRaids).WriteTo.  *)
(***************************************************************************)

\* The worker is finished with its line and reads again.
NextRead(w) ==
  /\ wpc' = [wpc EXCEPT ![w] = "read"]
  /\ held' = [held EXCEPT ![w] = NoLine]

\* WriteTo returns error e to the errgroup.
Stop(w, e) ==
  /\ wpc' = [wpc EXCEPT ![w] = "stopped"]
  /\ held' = [held EXCEPT ![w] = NoLine]
  /\ Record(e)

Resolve(w, o) == outcome' = [outcome EXCEPT ![held[w]] = o]

\* One more of the counter of the file that the held line came from.
Bump(counter, w) == [counter EXCEPT ![held[w][1]] = @ + 1]

ReadLine(w) ==
  /\ wpc[w] = "read"
  /\ ch # <<>>
  /\ held' = [held EXCEPT ![w] = Head(ch)]
  /\ ch' = Tail(ch)
  /\ wpc' = [wpc EXCEPT ![w] = "map"]
  /\ UNCHANGED <<globalDone, groupErr, consumerVars, chClosed, outcome, inserted,
                 skipped, errored, tui, result>>

\* Mutant: the close ends the stream although lines are still buffered.
BugReadEndOfStream(w) ==
  /\ wpc[w] = "read"
  /\ chClosed
  /\ Stop(w, "none")
  /\ UNCHANGED <<globalDone, consumerVars, chanVars, outcome, inserted, skipped,
                 errored, tui, result>>

\* Mutant: the zero value of a closed channel is taken for a line.
BugReadIgnoresClose(w) ==
  /\ wpc[w] = "read"
  /\ chClosed /\ ch = <<>>
  /\ wpc' = [wpc EXCEPT ![w] = "map"]
  /\ UNCHANGED <<globalDone, groupErr, consumerVars, chanVars, held, outcome,
                 inserted, skipped, errored, tui, result>>

\* A closed and drained channel: ErrEndOfStream, WriteTo returns nil.
ReadEndOfStream(w) ==
  /\ wpc[w] = "read"
  /\ chClosed /\ ch = <<>>
  /\ Stop(w, "none")
  /\ UNCHANGED <<globalDone, consumerVars, chanVars, outcome, inserted, skipped,
                 errored, tui, result>>

\* ReadFrom's select takes <-ctx.Done(), even when lines are waiting.
ReadCancelled(w) ==
  /\ wpc[w] = "read"
  /\ globalDone
  /\ Stop(w, "canceled")
  /\ UNCHANGED <<globalDone, consumerVars, chanVars, outcome, inserted, skipped,
                 errored, tui, result>>

MapLine(w) ==
  /\ wpc[w] = "map"
  /\ wpc' = [wpc EXCEPT ![w] = "filter"]
  /\ UNCHANGED <<globalDone, groupErr, consumerVars, chanVars, held, outcome,
                 inserted, skipped, errored, tui, result>>

\* json.Unmarshal fails; the task counts the line as errored.  The source does not show
\* what chainmorph makes of the error: it ends WriteTo, or drops the line and reads on.
MapFails(w) ==
  /\ wpc[w] = "map"
  /\ Resolve(w, "malformed")
  /\ errored' = Bump(errored, w)
  /\ \/ Stop(w, "fatal")
     \/ NextRead(w) /\ UNCHANGED groupErr
  /\ UNCHANGED <<globalDone, consumerVars, chanVars, inserted, skipped, tui, result>>

FilterRaid(w) ==
  /\ wpc[w] = "filter"
  /\ wpc' = [wpc EXCEPT ![w] = "write"]
  /\ UNCHANGED <<globalDone, groupErr, consumerVars, chanVars, held, outcome,
                 inserted, skipped, errored, tui, result>>

FilterOther(w) ==
  /\ wpc[w] = "filter"
  /\ Resolve(w, "skipped")
  /\ skipped' = Bump(skipped, w)
  /\ NextRead(w)
  /\ UNCHANGED <<globalDone, groupErr, consumerVars, chanVars, inserted, errored,
                 tui, result>>

\* PgcrWriter stored the instance and counted it.
WriteInserted(w) ==
  /\ wpc[w] = "write"
  /\ Resolve(w, "inserted")
  /\ inserted' = Bump(inserted, w)
  /\ NextRead(w)
  /\ UNCHANGED <<globalDone, groupErr, consumerVars, chanVars, skipped, errored,
                 tui, result>>

\* The DeadLetterWriter put it in the sink and returned nil; no counter moves.
WriteQuarantined(w) ==
  /\ wpc[w] = "write"
  /\ Resolve(w, "quarantined")
  /\ NextRead(w)
  /\ UNCHANGED <<globalDone, groupErr, consumerVars, chanVars, inserted, skipped,
                 errored, tui, result>>

\* An error that is not quarantined ends WriteTo, and with it this worker.
\* A recovered panic (goSafe) ends here too.
WriteFails(w) ==
  /\ wpc[w] = "write"
  /\ Resolve(w, "failed")
  /\ Stop(w, "fatal")
  /\ UNCHANGED <<globalDone, consumerVars, chanVars, inserted, skipped, errored,
                 tui, result>>

\* The write was cut short by the cancelled context.
WriteCancelled(w) ==
  /\ wpc[w] = "write"
  /\ globalDone
  /\ Resolve(w, "abandoned")
  /\ Stop(w, "canceled")
  /\ UNCHANGED <<globalDone, consumerVars, chanVars, inserted, skipped, errored,
                 tui, result>>

WorkerNext(w) ==
  \/ ReadLine(w) \/ ReadEndOfStream(w) \/ ReadCancelled(w)
  \/ MapLine(w) \/ MapFails(w) \/ FilterRaid(w) \/ FilterOther(w)
  \/ WriteInserted(w) \/ WriteQuarantined(w) \/ WriteFails(w) \/ WriteCancelled(w)

-----------------------------------------------------------------------------
(***************************************************************************)
(* The terminal UI, the environment and the command itself.                *)
(***************************************************************************)

\* SIGINT or SIGTERM: signal.NotifyContext cancels globalCtx.
Signal ==
  /\ ~globalDone /\ result = "none"
  /\ globalDone' = TRUE
  /\ UNCHANGED <<groupErr, consumerVars, chanVars, workerVars, tui, result>>

\* 'q' or ctrl+c: cancelFunc, then tea.Quit is queued.
PressQuit ==
  /\ tui = "running"
  /\ globalDone' = TRUE
  /\ tui' = "quitting"
  /\ UNCHANGED <<groupErr, consumerVars, chanVars, workerVars, result>>

\* program.Run returns nil for the queued Quit.
TuiQuits ==
  /\ tui = "quitting"
  /\ tui' = "done"
  /\ Record("none")
  /\ UNCHANGED <<globalDone, consumerVars, chanVars, workerVars, result>>

\* program.Run sees groupCtx done and returns ErrProgramKilled.
TuiKilled ==
  /\ tui \in {"running", "quitting"}
  /\ groupDone
  /\ tui' = "done"
  /\ Record("killed")
  /\ UNCHANGED <<globalDone, consumerVars, chanVars, workerVars, result>>

\* program.Run fails by itself: no terminal, or ErrInterrupted.
TuiFails ==
  /\ tui = "running"
  /\ tui' = "done"
  /\ Record("uiError")
  /\ UNCHANGED <<globalDone, consumerVars, chanVars, workerVars, result>>

AllReturned == cpc = "done" /\ tui = "done" /\ \A w \in Workers : wpc[w] = "stopped"

\* eg.Wait, and the errors that RunE does not report.
MainReturns ==
  /\ result = "none"
  /\ AllReturned
  /\ result' = IF groupErr \in {"none", "canceled", "killed"} THEN "nil" ELSE "error"
  /\ UNCHANGED <<globalDone, groupErr, consumerVars, chanVars, workerVars, tui>>

\* The process has exited.
Exited == result # "none" /\ UNCHANGED vars

Next ==
  \/ ConsumerNext
  \/ \E w \in Workers : WorkerNext(w)
  \/ Signal \/ PressQuit \/ TuiQuits \/ TuiKilled \/ TuiFails
  \/ MainReturns
  \/ Exited

(***************************************************************************)
(* The Go scheduler runs every runnable goroutine, files end, and database *)
(* calls return: they carry globalCtx and the server's timeouts.  Nothing  *)
(* forces a signal, a key press or a failure.                              *)
(***************************************************************************)
Fairness ==
  /\ WF_vars(ConsumerNext)
  /\ \A w \in Workers : WF_vars(WorkerNext(w))
  /\ WF_vars(TuiQuits \/ TuiKilled)
  /\ WF_vars(MainReturns)

Spec == Init /\ [][Next]_vars

FairSpec == Spec /\ Fairness

-----------------------------------------------------------------------------
(***************************************************************************)
(* Properties.                                                             *)
(***************************************************************************)

\* Every variable has its type; a worker between read and write holds a line.
TypeOK ==
  /\ globalDone \in BOOLEAN
  /\ groupErr \in Errors
  /\ cpc \in ConsumerPcs
  /\ cErr \in {"none", "canceled", "fileError"}
  /\ file \in 1 .. NFiles + 1
  /\ lineCount \in Nat
  /\ ch \in Seq(Line)
  /\ chClosed \in BOOLEAN
  /\ taskState \in [Files -> {"absent", "started", "errored", "finished"}]
  /\ linesRead \in [Files -> Nat]
  /\ inserted \in [Files -> Nat]
  /\ skipped \in [Files -> Nat]
  /\ errored \in [Files -> Nat]
  /\ wpc \in [Workers -> WorkerPcs]
  /\ held \in [Workers -> Line \union {NoLine}]
  /\ \A w \in Workers : held[w] = NoLine <=> wpc[w] \in {"read", "stopped"}
  /\ outcome \in [Line -> Outcomes]
  /\ tui \in {"running", "quitting", "done"}
  /\ result \in {"none", "nil", "error"}

\* The lines of file f that the job has to read.
Limit(f) == IF NumLines > 0 /\ NumLines < FileLines[f] THEN NumLines ELSE FileLines[f]

\* The lines of file f put into the channel so far: those the task counted, and
\* the one between the send and IncrementLinesRead.
Sent(f) == linesRead[f] + (IF cpc = "count" /\ file = f THEN 1 ELSE 0)

InChannel(x) == \E i \in 1 .. Len(ch) : ch[i] = x
InHand(x) == \E w \in Workers : held[w] = x
Resolved(x) == outcome[x] # "pending"

\* Conservation.  The lines in the channel, in a worker's hand or resolved are
\* exactly the first Sent(f) lines of each file, each in one of these places and
\* once: no send, receive, failure or cancellation loses or repeats a line.
LinesAccounted ==
  /\ \A x \in Line : x[2] < Sent(x[1]) <=> InChannel(x) \/ InHand(x) \/ Resolved(x)
  /\ \A x \in Line : /\ ~(InChannel(x) /\ InHand(x))
                     /\ ~(InChannel(x) /\ Resolved(x))
                     /\ ~(InHand(x) /\ Resolved(x))
  /\ \A i, j \in 1 .. Len(ch) : ch[i] = ch[j] => i = j
  /\ \A v, w \in Workers : held[v] = held[w] /\ held[v] # NoLine => v = w

\* A task is shown as finished only when all its lines have been handed to the
\* workers, unless the job was cancelled (Start marks a cancelled task finished).
FinishedFileHandedOver ==
  \A f \in Files : taskState[f] = "finished" /\ ~globalDone => Sent(f) = Limit(f)

\* When consumer and workers have all returned and the errgroup has seen no error,
\* every line of every file has reached its verdict, and none was failed or dropped.
CleanGroupMeansComplete ==
  (cpc = "done" /\ groupErr = "none" /\ \A w \in Workers : wpc[w] = "stopped")
    => \A x \in Line : x[2] < Limit(x[1]) =>
         outcome[x] \in {"inserted", "skipped", "malformed", "quarantined"}

\* RunE hides context.Canceled and ErrProgramKilled: a failed write is nevertheless
\* reported, unless somebody had asked the job to stop.
NoSilentFailure ==
  (result = "nil" /\ \E x \in Line : outcome[x] = "failed") => globalDone

\* A signal or the quit key ends the job, wherever its goroutines are.
CancelEndsJob == globalDone ~> (result # "none")

\* As long as one worker lives to the end of the stream, the job drains the whole
\* stream without a cancellation, whatever happened to the other workers.
SurvivorDrains ==
  \A w \in Workers :
    [](~globalDone /\ (wpc[w] = "stopped" => chClosed /\ ch = <<>>))
      => <>(cpc = "done" /\ ch = <<>> /\ \A v \in Workers : wpc[v] = "stopped")

\* internal/errors/types.go:18-20 calls an error that is neither retried nor
\* quarantined fatal: a failed write ends the job.
FatalErrorEndsJob == (\E x \in Line : outcome[x] = "failed") ~> (result # "none")

\* The help of --files, "Number of files to process": no more files than that are
\* started.
FilesFlagRespected ==
  NumFiles > 0 => Cardinality({f \in Files : taskState[f] # "absent"}) <= NumFiles

(***************************************************************************)
(* The job implements the ledger of its lines.                             *)
(***************************************************************************)
Precedes ==
  { p \in Line \X Line :
      \/ p[1][1] < p[2][1] /\ p[1][2] < Limit(p[1][1])
      \/ p[1][1] = p[2][1] /\ p[1][2] < p[2][2] }

Stage == [x \in Line |->
            IF Resolved(x) THEN outcome[x]
            ELSE IF InChannel(x) \/ InHand(x) THEN "inflight" ELSE "unread"]

Ledger == INSTANCE LineLedger WITH
            Lines <- Line, Precedes <- Precedes,
            Verdicts <- Outcomes \ {"pending"}, stage <- Stage

\* Each line enters the pipeline in dataset order and leaves it once.
ImplementsLedger == Ledger!Spec

(***************************************************************************)
(* The job implements the progress that the screen relies on.              *)
(***************************************************************************)
Progress == INSTANCE TaskProgress WITH
              LinesOf <- [f \in Files |-> Limit(f)], cancelled <- globalDone

\* Counters move by one, a verdict is at most one line ahead of the lines read, files are
\* started in order and finished when they have been handed over or the job was
\* cancelled.
ImplementsProgress == Progress!Spec
=============================================================================
