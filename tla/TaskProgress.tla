---------------------------- MODULE TaskProgress ----------------------------
(***************************************************************************)
(* What the UI may rely on of the tasks of internal/telemetry: how their   *)
(* states and counters move, whoever moves them.  DatasetJob implements    *)
(* this; Dashboard reads it.                                               *)
(***************************************************************************)
EXTENDS Integers, FiniteSets

CONSTANTS NFiles,   \* the files of the job, in order
          LinesOf   \* LinesOf[f]: the lines of file f to hand over

File == 1 .. NFiles

ASSUME LinesAssumption == NFiles \in Nat /\ LinesOf \in [File -> Nat]

VARIABLES
  taskState,                               \* "absent" before AddTask
  linesRead, inserted, skipped, errored,   \* the counters
  cancelled                                \* the job has been told to stop

progressVars == <<taskState, linesRead, inserted, skipped, errored, cancelled>>

Init ==
  /\ taskState = [f \in File |-> "absent"]
  /\ linesRead = [f \in File |-> 0]
  /\ inserted = [f \in File |-> 0]
  /\ skipped = [f \in File |-> 0]
  /\ errored = [f \in File |-> 0]
  /\ cancelled = FALSE

\* AddTask and SetStarted, file by file.
StartTask(f) ==
  /\ taskState[f] = "absent"
  /\ \A g \in 1 .. f - 1 : taskState[g] = "finished"
  /\ taskState' = [taskState EXCEPT ![f] = "started"]
  /\ UNCHANGED <<linesRead, inserted, skipped, errored, cancelled>>

IncrementLinesRead(f) ==
  /\ taskState[f] = "started" /\ linesRead[f] < LinesOf[f]
  /\ linesRead' = [linesRead EXCEPT ![f] = @ + 1]
  /\ UNCHANGED <<taskState, inserted, skipped, errored, cancelled>>

\* A line that has been sent, and may not have been counted yet, has its verdict.
Verdict(f) ==
  /\ inserted[f] + skipped[f] + errored[f] <= linesRead[f]
  /\ inserted[f] + skipped[f] + errored[f] < LinesOf[f]
  /\ taskState[f] # "absent"

IncrementInserted(f) ==
  /\ Verdict(f)
  /\ inserted' = [inserted EXCEPT ![f] = @ + 1]
  /\ UNCHANGED <<taskState, linesRead, skipped, errored, cancelled>>

IncrementSkipped(f) ==
  /\ Verdict(f)
  /\ skipped' = [skipped EXCEPT ![f] = @ + 1]
  /\ UNCHANGED <<taskState, linesRead, inserted, errored, cancelled>>

IncrementErrors(f) ==
  /\ Verdict(f)
  /\ errored' = [errored EXCEPT ![f] = @ + 1]
  /\ UNCHANGED <<taskState, linesRead, inserted, skipped, cancelled>>

\* A task is finished when its lines are handed over, or the job was cancelled.
SetFinished(f) ==
  /\ taskState[f] = "started"
  /\ linesRead[f] = LinesOf[f] \/ cancelled
  /\ taskState' = [taskState EXCEPT ![f] = "finished"]
  /\ UNCHANGED <<linesRead, inserted, skipped, errored, cancelled>>

SetErrored(f) ==
  /\ taskState[f] = "started"
  /\ taskState' = [taskState EXCEPT ![f] = "errored"]
  /\ UNCHANGED <<linesRead, inserted, skipped, errored, cancelled>>

Cancel ==
  /\ cancelled' = TRUE
  /\ UNCHANGED <<taskState, linesRead, inserted, skipped, errored>>

TaskStep(f) ==
  \/ StartTask(f) \/ SetFinished(f) \/ SetErrored(f)
  \/ IncrementLinesRead(f) \/ IncrementInserted(f) \/ IncrementSkipped(f) \/ IncrementErrors(f)

Next == Cancel \/ \E f \in File : TaskStep(f)

Spec == Init /\ [][Next]_progressVars
=============================================================================
