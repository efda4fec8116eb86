-------------------------- MODULE DatasetJobProofs --------------------------
(***************************************************************************)
(* Proofs about DatasetJob, for every number and length of files, every    *)
(* channel capacity, every set of workers and every value of the flags;    *)
(* and about Walker, which finds these files, for every tree.              *)
(***************************************************************************)
EXTENDS DatasetJob, Walker, FiniteSetTheorems, SequenceTheorems, TLAPS

\* A line is a file and an offset below that file's length.
LEMMA LineMembers ==
  ASSUME NEW x \in Line
  PROVE  x[1] \in Files /\ x[2] \in Nat /\ x[2] < FileLines[x[1]] /\ x = <<x[1], x[2]>>
<1>1. PICK f \in Files : x \in {f} \X (0 .. FileLines[f] - 1)
  BY DEF Line
<1>2. FileLines[f] \in Nat
  BY FilesAssumption
<1>. QED
  BY <1>1, <1>2

LEMMA LineIntro ==
  ASSUME NEW f \in Files, NEW l \in Nat, l < FileLines[f]
  PROVE  <<f, l>> \in Line
<1>1. FileLines[f] \in Nat
  BY FilesAssumption
<1>2. <<f, l>> \in {f} \X (0 .. FileLines[f] - 1)
  BY <1>1
<1>. QED
  BY <1>2 DEF Line

-----------------------------------------------------------------------------
(***************************************************************************)
(* Type correctness.  It needs to know where the consumer stands: between  *)
(* open and count it works on a file of the index, and what it is about to *)
(* send is a line of that file.                                            *)
(***************************************************************************)
ConsumerInFile ==
  /\ cpc \in {"open", "scan", "send", "count"} => file \in Files
  /\ cpc \in {"send", "count"} => lineCount < FileLines[file]

TypeInv == TypeOK /\ ConsumerInFile

LEMMA InitTypeInv == Init => TypeInv
<1>. SUFFICES ASSUME Init PROVE TypeInv
  OBVIOUS
<1>. USE DEF Init
<1>1. 1 \in 1 .. NFiles + 1
  BY FilesAssumption
<1>2. /\ groupErr \in Errors /\ cpc \in ConsumerPcs /\ ch \in Seq(Line)
      /\ wpc \in [Workers -> WorkerPcs]
  BY DEF Errors, ConsumerPcs, WorkerPcs
<1>3. /\ outcome \in [Line -> Outcomes]
      /\ held \in [Workers -> Line \union {NoLine}]
      /\ \A w \in Workers : held[w] = NoLine <=> wpc[w] \in {"read", "stopped"}
  BY DEF Outcomes
<1>4. taskState \in [Files -> {"absent", "started", "errored", "finished"}]
  OBVIOUS
<1>5. /\ linesRead \in [Files -> Nat] /\ inserted \in [Files -> Nat]
      /\ skipped \in [Files -> Nat] /\ errored \in [Files -> Nat]
  OBVIOUS
<1>6. TypeOK
  BY <1>1, <1>2, <1>3, <1>4, <1>5 DEF TypeOK
<1>. QED
  BY <1>6 DEF TypeInv, ConsumerInFile

\* What the consumer's step never touches, and the variables that it may change.
LEMMA ConsumerFrame ==
  ASSUME TypeInv, UNCHANGED <<globalDone, workerVars, tui, result>>,
         groupErr' \in Errors, cpc' \in ConsumerPcs,
         cErr' \in {"none", "canceled", "fileError"}, file' \in 1 .. NFiles + 1,
         lineCount' \in Nat, ch' \in Seq(Line), chClosed' \in BOOLEAN,
         taskState' \in [Files -> {"absent", "started", "errored", "finished"}],
         linesRead' \in [Files -> Nat], ConsumerInFile'
  PROVE  TypeInv'
BY DEF TypeInv, TypeOK, workerVars

LEMMA ConsumerTypesNow ==
  ASSUME TypeInv
  PROVE  /\ groupErr \in Errors /\ cpc \in ConsumerPcs
         /\ cErr \in {"none", "canceled", "fileError"} /\ file \in 1 .. NFiles + 1
         /\ lineCount \in Nat /\ ch \in Seq(Line) /\ chClosed \in BOOLEAN
         /\ taskState \in [Files -> {"absent", "started", "errored", "finished"}]
         /\ linesRead \in [Files -> Nat]
         /\ ConsumerInFile
BY DEF TypeInv, TypeOK

\* A step of the consumer.
LEMMA ConsumerTypeInv == TypeInv /\ ConsumerNext => TypeInv'
<1>. SUFFICES ASSUME TypeInv, ConsumerNext PROVE TypeInv'
  OBVIOUS
<1>0. ConsumerPcs = {"nextFile", "open", "scan", "send", "count", "close", "return", "done"}
  BY DEF ConsumerPcs
<1>1. CASE StartFile
  <2>1. ConsumerInFile'
    BY <1>1 DEF StartFile, ConsumerInFile
  <2>2. taskState' \in [Files -> {"absent", "started", "errored", "finished"}]
    BY <1>1, ConsumerTypesNow DEF StartFile
  <2>. QED
    BY <1>0, <1>1, <2>1, <2>2, ConsumerFrame, ConsumerTypesNow DEF StartFile, chanVars
<1>2. CASE NoMoreFiles
  <2>1. ConsumerInFile'
    BY <1>2 DEF NoMoreFiles, ConsumerInFile
  <2>. QED
    BY <1>0, <1>2, <2>1, ConsumerFrame, ConsumerTypesNow DEF NoMoreFiles, chanVars
<1>3. CASE OpenFile
  <2>1. ConsumerInFile'
    BY <1>3, ConsumerTypesNow DEF OpenFile, ConsumerInFile
  <2>. QED
    BY <1>0, <1>3, <2>1, ConsumerFrame, ConsumerTypesNow DEF OpenFile, chanVars
<1>4. CASE FileFails
  <2>1. ConsumerInFile'
    BY <1>4 DEF FileFails, LeaveStart, ConsumerInFile
  <2>2. taskState' \in [Files -> {"absent", "started", "errored", "finished"}]
    BY <1>4, ConsumerTypesNow DEF FileFails, LeaveStart
  <2>. QED
    BY <1>0, <1>4, <2>1, <2>2, ConsumerFrame, ConsumerTypesNow
       DEF FileFails, LeaveStart, chanVars
<1>5. CASE ScanLine
  <2>1. file \in Files
    BY <1>5, ConsumerTypesNow DEF ScanLine, ConsumerInFile
  <2>2. FileLines[file] \in Nat /\ lineCount \in Nat /\ ~(lineCount >= FileLines[file])
    BY <1>5, <2>1, FilesAssumption, ConsumerTypesNow DEF ScanLine, AtEOF
  <2>3. lineCount < FileLines[file]
    BY <2>2
  <2>4. ConsumerInFile'
    BY <1>5, <2>1, <2>3 DEF ScanLine, ConsumerInFile
  <2>. QED
    BY <1>0, <1>5, <2>4, ConsumerFrame, ConsumerTypesNow DEF ScanLine, chanVars
<1>6. CASE ScanEnds
  <2>0. file \in Files
    BY <1>6, ConsumerTypesNow DEF ScanEnds, ConsumerInFile
  <2>1. file + 1 \in 1 .. NFiles + 1
    BY <2>0, FilesAssumption DEF Files
  <2>2. taskState' \in [Files -> {"absent", "started", "errored", "finished"}]
    BY <1>6, ConsumerTypesNow DEF ScanEnds, FileDone
  <2>3. ConsumerInFile'
    BY <1>6 DEF ScanEnds, FileDone, ConsumerInFile
  <2>. QED
    BY <1>0, <1>6, <2>1, <2>2, <2>3, ConsumerFrame, ConsumerTypesNow
       DEF ScanEnds, FileDone, chanVars
<1>7. CASE SendLine
  <2>1. <<file, lineCount>> \in Line
    BY <1>7, LineIntro, ConsumerTypesNow DEF SendLine, ConsumerInFile
  <2>2. ch' \in Seq(Line)
    BY <1>7, <2>1, ConsumerTypesNow DEF SendLine
  <2>3. ConsumerInFile'
    BY <1>7, ConsumerTypesNow DEF SendLine, ConsumerInFile
  <2>. QED
    BY <1>0, <1>7, <2>2, <2>3, ConsumerFrame, ConsumerTypesNow DEF SendLine
<1>8. CASE CountLine
  <2>1. file \in Files
    BY <1>8, ConsumerTypesNow DEF CountLine, ConsumerInFile
  <2>2. lineCount' \in Nat
    BY <1>8, ConsumerTypesNow DEF CountLine
  <2>4. linesRead' = [linesRead EXCEPT ![file] = linesRead[file] + 1]
    BY <1>8 DEF CountLine
  <2>5. linesRead' \in [Files -> Nat]
    BY <2>1, <2>4, ConsumerTypesNow
  <2>3. ConsumerInFile'
    BY <1>8, <2>1 DEF CountLine, ConsumerInFile
  <2>. QED
    BY <1>0, <1>8, <2>2, <2>3, <2>5, ConsumerFrame, ConsumerTypesNow DEF CountLine, chanVars
<1>9. CASE ConsumerCancelled
  <2>1. ConsumerInFile'
    BY <1>9 DEF ConsumerCancelled, LeaveStart, ConsumerInFile
  <2>2. taskState' \in [Files -> {"absent", "started", "errored", "finished"}]
    BY <1>9, ConsumerTypesNow DEF ConsumerCancelled, LeaveStart
  <2>. QED
    BY <1>0, <1>9, <2>1, <2>2, ConsumerFrame, ConsumerTypesNow
       DEF ConsumerCancelled, LeaveStart, chanVars
<1>10. CASE CloseChannel
  <2>1. ConsumerInFile'
    BY <1>10 DEF CloseChannel, ConsumerInFile
  <2>. QED
    BY <1>0, <1>10, <2>1, ConsumerFrame, ConsumerTypesNow DEF CloseChannel
<1>11. CASE ConsumerReturns
  <2>1. ConsumerInFile'
    BY <1>11 DEF ConsumerReturns, ConsumerInFile
  <2>2. groupErr' \in Errors
    BY <1>11, ConsumerTypesNow DEF ConsumerReturns, Record, Errors
  <2>. QED
    BY <1>0, <1>11, <2>1, <2>2, ConsumerFrame, ConsumerTypesNow
       DEF ConsumerReturns, chanVars
<1>. QED
  BY <1>1, <1>2, <1>3, <1>4, <1>5, <1>6, <1>7, <1>8, <1>9, <1>10, <1>11 DEF ConsumerNext

\* The line a worker carries once it is past the read.
LEMMA HeldIsLine ==
  ASSUME TypeInv, NEW w \in Workers, wpc[w] \notin {"read", "stopped"}
  PROVE  held[w] \in Line /\ held[w][1] \in Files
BY LineMembers DEF TypeInv, TypeOK

\* Where a worker stands and what it carries go together.
WorkerTypes ==
  /\ wpc \in [Workers -> WorkerPcs]
  /\ held \in [Workers -> Line \union {NoLine}]
  /\ \A w \in Workers : held[w] = NoLine <=> wpc[w] \in {"read", "stopped"}

LEMMA MoveTypes ==
  ASSUME TypeInv, NEW w \in Workers, NEW s \in WorkerPcs, NEW h \in Line \union {NoLine},
         h = NoLine <=> s \in {"read", "stopped"},
         wpc' = [wpc EXCEPT ![w] = s], held' = [held EXCEPT ![w] = h]
  PROVE  WorkerTypes'
<1>1. WorkerTypes
  BY DEF TypeInv, TypeOK, WorkerTypes
<1>2. wpc' \in [Workers -> WorkerPcs] /\ held' \in [Workers -> Line \union {NoLine}]
  BY <1>1 DEF WorkerTypes
<1>3. ASSUME NEW v \in Workers
      PROVE  held'[v] = NoLine <=> wpc'[v] \in {"read", "stopped"}
  <2>1. CASE v = w
    BY <1>1, <2>1 DEF WorkerTypes
  <2>2. CASE v # w
    BY <1>1, <2>2 DEF WorkerTypes
  <2>. QED
    BY <2>1, <2>2
<1>. QED
  BY <1>2, <1>3 DEF WorkerTypes

\* The three ways in which a step leaves its worker.
LEMMA NextReadTypes ==
  ASSUME TypeInv, NEW w \in Workers, NextRead(w)
  PROVE  WorkerTypes'
<1>1. "read" \in WorkerPcs
  BY DEF WorkerPcs
<1>. QED
  BY <1>1, MoveTypes DEF NextRead

LEMMA StopTypes ==
  ASSUME TypeInv, NEW w \in Workers, NEW e \in Errors, Stop(w, e)
  PROVE  WorkerTypes' /\ groupErr' \in Errors
<1>1. "stopped" \in WorkerPcs
  BY DEF WorkerPcs
<1>2. WorkerTypes'
  BY <1>1, MoveTypes DEF Stop
<1>3. groupErr' \in Errors
  BY DEF Stop, Record, TypeInv, TypeOK
<1>. QED
  BY <1>2, <1>3

LEMMA StageTypes ==
  ASSUME TypeInv, NEW w \in Workers, wpc[w] \notin {"read", "stopped"},
         NEW s \in WorkerPcs \ {"read", "stopped"},
         wpc' = [wpc EXCEPT ![w] = s], UNCHANGED held
  PROVE  WorkerTypes'
<1>1. held[w] \in Line \union {NoLine} /\ held[w] # NoLine
  BY DEF TypeInv, TypeOK
<1>2. held' = [held EXCEPT ![w] = held[w]]
  BY DEF TypeInv, TypeOK
<1>. QED
  BY <1>1, <1>2, MoveTypes

LEMMA ResolveType ==
  ASSUME TypeInv, NEW w \in Workers, held[w] \in Line, NEW o \in Outcomes, Resolve(w, o)
  PROVE  outcome' \in [Line -> Outcomes]
BY DEF Resolve, TypeInv, TypeOK

LEMMA BumpType ==
  ASSUME NEW w \in Workers, held[w][1] \in Files, NEW c \in [Files -> Nat]
  PROVE  Bump(c, w) \in [Files -> Nat]
BY DEF Bump

\* What a worker's step never touches, and the variables that it may change.
LEMMA WorkerFrame ==
  ASSUME TypeInv, UNCHANGED <<globalDone, consumerVars, chClosed, tui, result>>,
         ch' \in Seq(Line), groupErr' \in Errors, WorkerTypes',
         outcome' \in [Line -> Outcomes], inserted' \in [Files -> Nat],
         skipped' \in [Files -> Nat], errored' \in [Files -> Nat]
  PROVE  TypeInv'
<1>1. TypeOK'
  BY DEF TypeInv, TypeOK, WorkerTypes, consumerVars
<1>2. ConsumerInFile'
  BY DEF TypeInv, ConsumerInFile, consumerVars
<1>. QED
  BY <1>1, <1>2 DEF TypeInv

LEMMA WorkerTypesNow ==
  ASSUME TypeInv
  PROVE  /\ ch \in Seq(Line) /\ groupErr \in Errors /\ outcome \in [Line -> Outcomes]
         /\ inserted \in [Files -> Nat] /\ skipped \in [Files -> Nat]
         /\ errored \in [Files -> Nat]
BY DEF TypeInv, TypeOK

\* A step of a worker.
LEMMA WorkerTypeInv ==
  ASSUME TypeInv, NEW w \in Workers, WorkerNext(w)
  PROVE  TypeInv'
<1>0. /\ {"canceled", "fatal", "none"} \subseteq Errors
      /\ {"map", "filter", "write"} \subseteq WorkerPcs \ {"read", "stopped"}
      /\ Outcomes = {"pending", "inserted", "skipped", "malformed", "quarantined",
                     "failed", "abandoned"}
  BY DEF Errors, WorkerPcs, Outcomes
<1>1. CASE ReadLine(w)
  <2>1. ch \in Seq(Line) /\ ch # <<>>
    BY <1>1, WorkerTypesNow DEF ReadLine
  <2>2. Head(ch) \in Line /\ Tail(ch) \in Seq(Line)
    BY <2>1
  <2>3. Head(ch) # NoLine
    BY <2>2, NoLineAssumption
  <2>4. WorkerTypes'
    BY <1>0, <1>1, <2>2, <2>3, MoveTypes DEF ReadLine
  <2>. QED
    BY <1>1, <2>2, <2>4, WorkerFrame, WorkerTypesNow DEF ReadLine
<1>2. CASE ReadEndOfStream(w)
  <2>1. WorkerTypes' /\ groupErr' \in Errors
    BY <1>0, <1>2, StopTypes DEF ReadEndOfStream
  <2>. QED
    BY <1>2, <2>1, WorkerFrame, WorkerTypesNow DEF ReadEndOfStream, chanVars
<1>3. CASE ReadCancelled(w)
  <2>1. WorkerTypes' /\ groupErr' \in Errors
    BY <1>0, <1>3, StopTypes DEF ReadCancelled
  <2>. QED
    BY <1>3, <2>1, WorkerFrame, WorkerTypesNow DEF ReadCancelled, chanVars
<1>4. CASE MapLine(w)
  <2>1. WorkerTypes'
    BY <1>0, <1>4, StageTypes DEF MapLine
  <2>. QED
    BY <1>4, <2>1, WorkerFrame, WorkerTypesNow DEF MapLine, chanVars
<1>5. CASE MapFails(w)
  <2>1. held[w] \in Line /\ held[w][1] \in Files
    BY <1>5, HeldIsLine DEF MapFails
  <2>2. outcome' \in [Line -> Outcomes]
    BY <1>0, <1>5, <2>1, ResolveType DEF MapFails
  <2>3. errored' \in [Files -> Nat]
    BY <1>5, <2>1, BumpType, WorkerTypesNow DEF MapFails
  <2>4. WorkerTypes' /\ groupErr' \in Errors
    <3>1. CASE Stop(w, "fatal")
      BY <1>0, <3>1, StopTypes
    <3>2. CASE ~Stop(w, "fatal")
      BY <1>5, <3>2, NextReadTypes, WorkerTypesNow DEF MapFails
    <3>. QED
      BY <3>1, <3>2
  <2>. QED
    BY <1>5, <2>2, <2>3, <2>4, WorkerFrame, WorkerTypesNow DEF MapFails, chanVars
<1>6. CASE FilterRaid(w)
  <2>1. WorkerTypes'
    BY <1>0, <1>6, StageTypes DEF FilterRaid
  <2>. QED
    BY <1>6, <2>1, WorkerFrame, WorkerTypesNow DEF FilterRaid, chanVars
<1>7. CASE FilterOther(w)
  <2>1. held[w] \in Line /\ held[w][1] \in Files
    BY <1>7, HeldIsLine DEF FilterOther
  <2>2. outcome' \in [Line -> Outcomes]
    BY <1>0, <1>7, <2>1, ResolveType DEF FilterOther
  <2>3. skipped' \in [Files -> Nat]
    BY <1>7, <2>1, BumpType, WorkerTypesNow DEF FilterOther
  <2>4. WorkerTypes'
    BY <1>7, NextReadTypes DEF FilterOther
  <2>. QED
    BY <1>7, <2>2, <2>3, <2>4, WorkerFrame, WorkerTypesNow DEF FilterOther, chanVars
<1>8. CASE WriteInserted(w)
  <2>1. held[w] \in Line /\ held[w][1] \in Files
    BY <1>8, HeldIsLine DEF WriteInserted
  <2>2. outcome' \in [Line -> Outcomes]
    BY <1>0, <1>8, <2>1, ResolveType DEF WriteInserted
  <2>3. inserted' \in [Files -> Nat]
    BY <1>8, <2>1, BumpType, WorkerTypesNow DEF WriteInserted
  <2>4. WorkerTypes'
    BY <1>8, NextReadTypes DEF WriteInserted
  <2>. QED
    BY <1>8, <2>2, <2>3, <2>4, WorkerFrame, WorkerTypesNow DEF WriteInserted, chanVars
<1>9. CASE WriteQuarantined(w)
  <2>1. outcome' \in [Line -> Outcomes]
    BY <1>0, <1>9, HeldIsLine, ResolveType DEF WriteQuarantined
  <2>2. WorkerTypes'
    BY <1>9, NextReadTypes DEF WriteQuarantined
  <2>. QED
    BY <1>9, <2>1, <2>2, WorkerFrame, WorkerTypesNow DEF WriteQuarantined, chanVars
<1>10. CASE WriteFails(w)
  <2>1. outcome' \in [Line -> Outcomes]
    BY <1>0, <1>10, HeldIsLine, ResolveType DEF WriteFails
  <2>2. WorkerTypes' /\ groupErr' \in Errors
    BY <1>0, <1>10, StopTypes DEF WriteFails
  <2>. QED
    BY <1>10, <2>1, <2>2, WorkerFrame, WorkerTypesNow DEF WriteFails, chanVars
<1>11. CASE WriteCancelled(w)
  <2>1. outcome' \in [Line -> Outcomes]
    BY <1>0, <1>11, HeldIsLine, ResolveType DEF WriteCancelled
  <2>2. WorkerTypes' /\ groupErr' \in Errors
    BY <1>0, <1>11, StopTypes DEF WriteCancelled
  <2>. QED
    BY <1>11, <2>1, <2>2, WorkerFrame, WorkerTypesNow DEF WriteCancelled, chanVars
<1>. QED
  BY <1>1, <1>2, <1>3, <1>4, <1>5, <1>6, <1>7, <1>8, <1>9, <1>10, <1>11 DEF WorkerNext

\* A step of the environment, the UI or the command.
OtherNext ==
  Signal \/ PressQuit \/ TuiQuits \/ TuiKilled \/ TuiFails \/ MainReturns \/ Exited

LEMMA OtherTypeInv == TypeInv /\ (OtherNext \/ UNCHANGED vars) => TypeInv'
<1>. SUFFICES ASSUME TypeInv, OtherNext \/ UNCHANGED vars PROVE TypeInv'
  OBVIOUS
<1>. USE DEF TypeInv, TypeOK, ConsumerInFile, consumerVars, chanVars, workerVars
<1>1. CASE Signal
  BY <1>1 DEF Signal
<1>2. CASE PressQuit
  BY <1>2 DEF PressQuit
<1>3. CASE TuiQuits \/ TuiKilled \/ TuiFails
  BY <1>3 DEF TuiQuits, TuiKilled, TuiFails, Record, Errors
<1>4. CASE MainReturns
  BY <1>4 DEF MainReturns
<1>5. CASE UNCHANGED vars
  BY <1>5 DEF vars
<1>. QED
  BY <1>1, <1>2, <1>3, <1>4, <1>5 DEF OtherNext, Exited

LEMMA NextTypeInv == TypeInv /\ [Next]_vars => TypeInv'
BY ConsumerTypeInv, WorkerTypeInv, OtherTypeInv DEF Next, OtherNext

THEOREM TypeCorrect == Spec => []TypeInv
BY InitTypeInv, NextTypeInv, PTL DEF Spec

\* Every variable keeps its type, and a worker holds a line exactly between its read
\* and its write.
THEOREM TypeSafety == Spec => []TypeOK
BY TypeCorrect, PTL DEF TypeInv

-----------------------------------------------------------------------------
(***************************************************************************)
(* Conservation of lines.  What makes it inductive: the task's counter and *)
(* the scanner's offset agree while a file is open, and nothing has been   *)
(* counted of the files still to come.                                     *)
(***************************************************************************)
OffsetIsCount ==
  /\ cpc \in {"open", "scan", "send", "count"} => linesRead[file] =
       (IF cpc = "open" THEN 0 ELSE lineCount)
  /\ \A f \in Files : (f > file \/ (cpc = "nextFile" /\ f = file)) => linesRead[f] = 0

LineInv == TypeInv /\ OffsetIsCount /\ LinesAccounted

\* Only the consumer touches what OffsetIsCount is about.
LEMMA OffsetFrame ==
  OffsetIsCount /\ UNCHANGED <<cpc, file, lineCount, linesRead>> => OffsetIsCount'
BY DEF OffsetIsCount

LEMMA ConsumerOffset == TypeInv /\ OffsetIsCount /\ ConsumerNext => OffsetIsCount'
<1>. SUFFICES ASSUME TypeInv, OffsetIsCount, ConsumerNext PROVE OffsetIsCount'
  OBVIOUS
<1>. USE DEF TypeInv, TypeOK, ConsumerInFile, OffsetIsCount, Files
<1>1. CASE StartFile
  BY <1>1 DEF StartFile
<1>2. CASE NoMoreFiles
  BY <1>2 DEF NoMoreFiles
<1>3. CASE OpenFile
  BY <1>3 DEF OpenFile
<1>4. CASE FileFails
  BY <1>4 DEF FileFails, LeaveStart
<1>5. CASE ScanLine
  BY <1>5 DEF ScanLine
<1>6. CASE ScanEnds
  BY <1>6 DEF ScanEnds, FileDone
<1>7. CASE SendLine
  BY <1>7 DEF SendLine
<1>8. CASE CountLine
  <2>1. /\ cpc' = "scan" /\ file' = file /\ lineCount' = lineCount + 1
        /\ linesRead' = [linesRead EXCEPT ![file] = @ + 1]
        /\ file \in Files /\ linesRead[file] = lineCount
    BY <1>8 DEF CountLine
  <2>2. linesRead'[file] = lineCount + 1
    BY <2>1
  <2>3. \A f \in Files : f > file => linesRead'[f] = linesRead[f]
    BY <2>1
  <2>. QED
    BY <2>1, <2>2, <2>3
<1>9. CASE ConsumerCancelled
  BY <1>9 DEF ConsumerCancelled, LeaveStart
<1>10. CASE CloseChannel
  BY <1>10 DEF CloseChannel
<1>11. CASE ConsumerReturns
  BY <1>11 DEF ConsumerReturns
<1>. QED
  BY <1>1, <1>2, <1>3, <1>4, <1>5, <1>6, <1>7, <1>8, <1>9, <1>10, <1>11 DEF ConsumerNext

\* A step that moves no line keeps the lines accounted for.
LEMMA AccountFrame ==
  ASSUME LinesAccounted, UNCHANGED <<ch, held, outcome>>, \A f \in Files : Sent(f)' = Sent(f)
  PROVE  LinesAccounted'
BY LineMembers DEF LinesAccounted, InChannel, InHand, Resolved

\* A resolved line leaves its worker's hand.
LEMMA AccountResolve ==
  ASSUME TypeInv, LinesAccounted, NEW w \in Workers, held[w] \in Line,
         NEW o, o # "pending",
         outcome' = [outcome EXCEPT ![held[w]] = o],
         held' = [held EXCEPT ![w] = NoLine],
         ch' = ch, \A f \in Files : Sent(f)' = Sent(f)
  PROVE  LinesAccounted'
<1>1. held \in [Workers -> Line \union {NoLine}] /\ outcome \in [Line -> Outcomes]
  BY DEF TypeInv, TypeOK
<1>2. NoLine \notin Line
  BY NoLineAssumption
<1>3. \A x \in Line : InHand(x)' <=> InHand(x) /\ x # held[w]
  BY <1>1, <1>2 DEF InHand, LinesAccounted
<1>4. \A x \in Line : Resolved(x)' <=> Resolved(x) \/ x = held[w]
  BY <1>1 DEF Resolved
<1>5. \A x \in Line : InChannel(x)' <=> InChannel(x)
  BY DEF InChannel
<1>6. InHand(held[w])
  BY DEF InHand
<1>7. \A x \in Line : x[1] \in Files
  BY LineMembers
<1>8. \A u, v \in Workers : held'[u] = held'[v] /\ held'[u] # NoLine => u = v
  BY <1>1 DEF LinesAccounted
<1>. QED
  BY <1>3, <1>4, <1>5, <1>6, <1>7, <1>8 DEF LinesAccounted

\* The line that is sent was in none of the places, and is now in the channel.
LEMMA AccountSend ==
  ASSUME LineInv, SendLine
  PROVE  LinesAccounted'
<1>. DEFINE x0 == <<file, lineCount>>
<1>1. /\ file \in Files /\ lineCount \in Nat /\ lineCount < FileLines[file]
      /\ linesRead[file] = lineCount /\ linesRead \in [Files -> Nat]
      /\ ch \in Seq(Line) /\ ch' = Append(ch, x0)
      /\ cpc = "send" /\ cpc' = "count" /\ UNCHANGED <<file, linesRead, held, outcome>>
  BY DEF LineInv, TypeInv, TypeOK, ConsumerInFile, OffsetIsCount, SendLine, workerVars
<1>2. x0 \in Line
  BY <1>1, LineIntro
<1>3. Len(ch') = Len(ch) + 1 /\ Len(ch) \in Nat /\ ch'[Len(ch) + 1] = x0
      /\ \A i \in 1 .. Len(ch) : ch'[i] = ch[i]
  BY <1>1, <1>2
<1>4. \A x \in Line : InChannel(x)' <=> InChannel(x) \/ x = x0
  <2>. SUFFICES ASSUME NEW x \in Line PROVE InChannel(x)' <=> InChannel(x) \/ x = x0
    OBVIOUS
  <2>1. InChannel(x)' <=> \E i \in 1 .. Len(ch) + 1 : ch'[i] = x
    BY <1>3 DEF InChannel
  <2>2. InChannel(x) <=> \E i \in 1 .. Len(ch) : ch'[i] = x
    BY <1>3 DEF InChannel
  <2>3. 1 .. Len(ch) + 1 = 1 .. Len(ch) \union {Len(ch) + 1}
    BY <1>3
  <2>. QED
    BY <1>3, <2>1, <2>2, <2>3
<1>5. \A x \in Line : /\ InHand(x)' <=> InHand(x)
                      /\ Resolved(x)' <=> Resolved(x)
  BY <1>1 DEF InHand, Resolved
<1>6. \A x \in Line : x[1] \in Files /\ x[2] \in Nat /\ x = <<x[1], x[2]>>
  BY LineMembers
<1>7. \A f \in Files : /\ Sent(f) = linesRead[f]
                       /\ Sent(f)' = linesRead[f] + (IF f = file THEN 1 ELSE 0)
  BY <1>1 DEF Sent
<1>8. \A x \in Line : x[2] < Sent(x[1])' <=> x[2] < Sent(x[1]) \/ x = x0
  BY <1>1, <1>6, <1>7
<1>9. ~InChannel(x0) /\ ~InHand(x0) /\ ~Resolved(x0)
  <2>1. ~(x0[2] < Sent(x0[1]))
    BY <1>1, <1>7
  <2>. QED
    BY <1>2, <2>1 DEF LineInv, LinesAccounted
<1>10. \A i, j \in 1 .. Len(ch') : ch'[i] = ch'[j] => i = j
  BY <1>3, <1>9 DEF LineInv, LinesAccounted, InChannel
<1>11. \A u, v \in Workers : held'[u] = held'[v] /\ held'[u] # NoLine => u = v
  BY <1>1 DEF LineInv, LinesAccounted
<1>12. \A x \in Line : x[2] < Sent(x[1])' <=> InChannel(x)' \/ InHand(x)' \/ Resolved(x)'
  BY <1>4, <1>5, <1>8 DEF LineInv, LinesAccounted
<1>13. \A x \in Line : /\ ~(InChannel(x)' /\ InHand(x)')
                       /\ ~(InChannel(x)' /\ Resolved(x)')
                       /\ ~(InHand(x)' /\ Resolved(x)')
  BY <1>4, <1>5, <1>9 DEF LineInv, LinesAccounted
<1>. QED
  BY <1>10, <1>11, <1>12, <1>13 DEF LinesAccounted

\* The line that is received was at the head of the channel, and is now in one hand.
LEMMA AccountReceive ==
  ASSUME LineInv, NEW w \in Workers, ReadLine(w)
  PROVE  LinesAccounted'
<1>. DEFINE x0 == Head(ch)
<1>1. /\ ch \in Seq(Line) /\ ch # <<>> /\ ch' = Tail(ch)
      /\ held \in [Workers -> Line \union {NoLine}] /\ held[w] = NoLine
      /\ held' = [held EXCEPT ![w] = x0]
      /\ UNCHANGED <<cpc, file, linesRead, outcome>>
  BY DEF LineInv, TypeInv, TypeOK, ReadLine, consumerVars
<1>2. /\ x0 \in Line /\ x0 = ch[1] /\ Len(ch) \in Nat /\ Len(ch) >= 1
      /\ Len(ch') = Len(ch) - 1
      /\ \A i \in 1 .. Len(ch) - 1 : ch'[i] = ch[i + 1]
  BY <1>1
<1>3. \A x \in Line : x # NoLine
  BY NoLineAssumption
<1>4. \A x \in Line : InChannel(x)' <=> InChannel(x) /\ x # x0
  <2>. SUFFICES ASSUME NEW x \in Line PROVE InChannel(x)' <=> InChannel(x) /\ x # x0
    OBVIOUS
  <2>1. ASSUME InChannel(x)' PROVE InChannel(x) /\ x # x0
    <3>1. PICK i \in 1 .. Len(ch) - 1 : ch'[i] = x
      BY <1>2, <2>1 DEF InChannel
    <3>2. i + 1 \in 1 .. Len(ch) /\ ch[i + 1] = x /\ 1 \in 1 .. Len(ch) /\ i + 1 # 1
      BY <1>2, <3>1
    <3>. QED
      BY <1>2, <3>2 DEF InChannel, LineInv, LinesAccounted
  <2>2. ASSUME InChannel(x), x # x0 PROVE InChannel(x)'
    <3>1. PICK i \in 1 .. Len(ch) : ch[i] = x
      BY <2>2 DEF InChannel
    <3>2. i # 1
      BY <1>2, <2>2, <3>1
    <3>3. i - 1 \in 1 .. Len(ch') /\ ch'[i - 1] = x
      BY <1>2, <3>1, <3>2
    <3>. QED
      BY <3>3 DEF InChannel
  <2>. QED
    BY <2>1, <2>2
<1>5. \A x \in Line : InHand(x)' <=> InHand(x) \/ x = x0
  BY <1>1, <1>3 DEF InHand
<1>6. \A x \in Line : /\ Resolved(x)' <=> Resolved(x)
                      /\ x[2] < Sent(x[1])' <=> x[2] < Sent(x[1])
  BY <1>1 DEF Resolved, Sent
<1>7. InChannel(x0)
  BY <1>2 DEF InChannel
<1>8. \A i, j \in 1 .. Len(ch') : ch'[i] = ch'[j] => i = j
  <2>. SUFFICES ASSUME NEW i \in 1 .. Len(ch'), NEW j \in 1 .. Len(ch'), ch'[i] = ch'[j]
                PROVE  i = j
    OBVIOUS
  <2>1. i + 1 \in 1 .. Len(ch) /\ j + 1 \in 1 .. Len(ch) /\ ch[i + 1] = ch[j + 1]
    BY <1>2
  <2>2. i + 1 = j + 1
    BY <2>1 DEF LineInv, LinesAccounted
  <2>. QED
    BY <1>2, <2>2
<1>9. \A u, v \in Workers : held'[u] = held'[v] /\ held'[u] # NoLine => u = v
  <2>1. ~InHand(x0)
    BY <1>2, <1>7 DEF LineInv, LinesAccounted
  <2>. QED
    BY <1>1, <2>1 DEF InHand, LineInv, LinesAccounted
<1>10. \A x \in Line : x[2] < Sent(x[1])' <=> InChannel(x)' \/ InHand(x)' \/ Resolved(x)'
  BY <1>4, <1>5, <1>6, <1>7 DEF LineInv, LinesAccounted
<1>11. \A x \in Line : /\ ~(InChannel(x)' /\ InHand(x)')
                       /\ ~(InChannel(x)' /\ Resolved(x)')
                       /\ ~(InHand(x)' /\ Resolved(x)')
  BY <1>4, <1>5, <1>6, <1>7 DEF LineInv, LinesAccounted
<1>. QED
  BY <1>8, <1>9, <1>10, <1>11 DEF LinesAccounted

\* Every other step of the consumer moves no line.
LEMMA ConsumerAccount == LineInv /\ ConsumerNext => LinesAccounted'
<1>. SUFFICES ASSUME LineInv, ConsumerNext PROVE LinesAccounted'
  OBVIOUS
<1>1. CASE SendLine
  BY <1>1, AccountSend
<1>2. CASE CountLine
  <2>1. /\ cpc = "count" /\ cpc' = "scan" /\ file' = file /\ file \in Files
        /\ linesRead \in [Files -> Nat]
        /\ linesRead' = [linesRead EXCEPT ![file] = @ + 1]
        /\ UNCHANGED <<ch, held, outcome>>
    BY <1>2 DEF CountLine, chanVars, workerVars, LineInv, TypeInv, TypeOK, ConsumerInFile
  <2>2. \A f \in Files : Sent(f)' = Sent(f)
    BY <2>1 DEF Sent
  <2>. QED
    BY <2>1, <2>2, AccountFrame DEF LineInv
<1>3. CASE ~SendLine /\ ~CountLine
  <2>1. UNCHANGED <<ch, held, outcome, linesRead>> /\ cpc # "count" /\ cpc' # "count"
    BY <1>3 DEF ConsumerNext, StartFile, NoMoreFiles, OpenFile, FileFails, ScanLine,
       ScanEnds, ConsumerCancelled, CloseChannel, ConsumerReturns, LeaveStart, FileDone,
       chanVars, workerVars
  <2>2. \A f \in Files : Sent(f)' = Sent(f)
    BY <2>1 DEF Sent
  <2>. QED
    BY <2>1, <2>2, AccountFrame DEF LineInv
<1>. QED
  BY <1>1, <1>2, <1>3

LEMMA WorkerAccount ==
  ASSUME LineInv, NEW w \in Workers, WorkerNext(w)
  PROVE  LinesAccounted'
<1>1. CASE ReadLine(w)
  BY <1>1, AccountReceive
<1>2. CASE ReadEndOfStream(w) \/ ReadCancelled(w)
  <2>1. held' = held
    BY <1>2 DEF ReadEndOfStream, ReadCancelled, Stop, LineInv, TypeInv, TypeOK
  <2>2. UNCHANGED <<ch, outcome, cpc, file, linesRead>>
    BY <1>2 DEF ReadEndOfStream, ReadCancelled, consumerVars, chanVars
  <2>. QED
    BY <2>1, <2>2, AccountFrame DEF Sent, LineInv
<1>3. CASE MapLine(w) \/ FilterRaid(w)
  <2>1. UNCHANGED <<held, ch, outcome, cpc, file, linesRead>>
    BY <1>3 DEF MapLine, FilterRaid, consumerVars, chanVars
  <2>. QED
    BY <2>1, AccountFrame DEF Sent, LineInv
<1>4. CASE MapFails(w) \/ FilterOther(w) \/ WriteInserted(w) \/ WriteQuarantined(w)
             \/ WriteFails(w) \/ WriteCancelled(w)
  <2>1. held[w] \in Line
    BY <1>4, HeldIsLine DEF MapFails, FilterOther, WriteInserted, WriteQuarantined,
       WriteFails, WriteCancelled, LineInv
  <2>2. UNCHANGED <<ch, cpc, file, linesRead>>
    BY <1>4 DEF MapFails, FilterOther, WriteInserted, WriteQuarantined, WriteFails,
       WriteCancelled, consumerVars, chanVars
  <2>3. \A f \in Files : Sent(f)' = Sent(f)
    BY <2>2 DEF Sent
  <2>4. held' = [held EXCEPT ![w] = NoLine]
    BY <1>4 DEF MapFails, FilterOther, WriteInserted, WriteQuarantined, WriteFails,
       WriteCancelled, Stop, NextRead
  <2>5. \E o : o # "pending" /\ outcome' = [outcome EXCEPT ![held[w]] = o]
    BY <1>4 DEF MapFails, FilterOther, WriteInserted, WriteQuarantined, WriteFails,
       WriteCancelled, Resolve
  <2>. QED
    BY <2>1, <2>2, <2>3, <2>4, <2>5, AccountResolve DEF LineInv
<1>. QED
  BY <1>1, <1>2, <1>3, <1>4 DEF WorkerNext

LEMMA InitLineInv == Init => LineInv
<1>. SUFFICES ASSUME Init PROVE LineInv
  OBVIOUS
<1>1. OffsetIsCount
  BY DEF Init, OffsetIsCount
<1>2. LinesAccounted
  BY LineMembers, NoLineAssumption
     DEF Init, LinesAccounted, InChannel, InHand, Resolved, Sent
<1>. QED
  BY <1>1, <1>2, InitTypeInv DEF LineInv

LEMMA NextLineInv == LineInv /\ [Next]_vars => LineInv'
<1>. SUFFICES ASSUME LineInv, [Next]_vars PROVE LineInv'
  OBVIOUS
<1>1. TypeInv'
  BY NextTypeInv DEF LineInv
<1>2. CASE ConsumerNext
  BY <1>1, <1>2, ConsumerAccount, ConsumerOffset DEF LineInv
<1>3. ASSUME NEW w \in Workers, WorkerNext(w) PROVE LineInv'
  <2>1. UNCHANGED <<cpc, file, lineCount, linesRead>>
    BY <1>3 DEF WorkerNext, ReadLine, ReadEndOfStream, ReadCancelled, MapLine, MapFails,
       FilterRaid, FilterOther, WriteInserted, WriteQuarantined, WriteFails,
       WriteCancelled, consumerVars
  <2>. QED
    BY <1>1, <1>3, <2>1, OffsetFrame, WorkerAccount DEF LineInv
<1>4. CASE OtherNext \/ UNCHANGED vars
  <2>1. UNCHANGED <<cpc, file, lineCount, linesRead, ch, held, outcome>>
    BY <1>4 DEF OtherNext, Signal, PressQuit, TuiQuits, TuiKilled, TuiFails, MainReturns,
       Exited, vars, consumerVars, chanVars, workerVars
  <2>. QED
    BY <1>1, <2>1, OffsetFrame, AccountFrame DEF LineInv, Sent
<1>. QED
  BY <1>2, <1>3, <1>4 DEF Next, OtherNext

\* No send, receive, failure or cancellation loses or repeats a line: the consumer
\* (consumeLines) and the workers (ReadFrom, WriteTo) conserve the lines.
THEOREM Conservation == Spec => []LinesAccounted
<1>1. Spec => []LineInv
  BY InitLineInv, NextLineInv, PTL DEF Spec
<1>. QED
  BY <1>1, PTL DEF LineInv

-----------------------------------------------------------------------------
(***************************************************************************)
(* What the states of the tasks, the errgroup and the workers say about    *)
(* each other.  ReadInv is about the consumer, GroupInv about who has      *)
(* returned and what the errgroup has recorded of it.                      *)
(***************************************************************************)
Leaving == cpc \in {"close", "return", "done"}

ReadInv ==
  /\ \A f \in Files : f < file => taskState[f] = "finished" /\ linesRead[f] = Limit(f)
  /\ \A f \in Files : (f > file \/ (cpc = "nextFile" /\ f = file)) => taskState[f] = "absent"
  /\ cpc \in {"open", "scan", "send", "count"} => taskState[file] = "started"
  /\ cpc = "scan" => lineCount <= Limit(file)
  /\ cpc \in {"send", "count"} => lineCount < Limit(file)
  /\ Leaving /\ cErr = "none" => file \notin Files
  /\ Leaving /\ cErr # "none" =>
       file \in Files /\ (taskState[file] = "finished" => cErr = "canceled")
  /\ ~Leaving => cErr = "none"
  /\ cErr = "canceled" => globalDone
  /\ chClosed => cpc \in {"return", "done"}

GroupInv ==
  /\ groupErr \in {"canceled", "killed"} => globalDone
  /\ \A x \in Line : outcome[x] \in {"failed", "abandoned"} => groupErr # "none"
  /\ \A w \in Workers : wpc[w] = "stopped" => groupErr # "none" \/ (chClosed /\ ch = <<>>)
  /\ cpc = "done" /\ cErr # "none" => groupErr # "none"
  /\ result # "none" => AllReturned
  /\ result = "nil" => groupErr \in {"none", "canceled", "killed"}

JobInv == LineInv /\ ReadInv /\ GroupInv

LEMMA LimitType == \A f \in Files : Limit(f) \in Nat /\ Limit(f) <= FileLines[f]
BY FilesAssumption, FlagsAssumption DEF Limit

LEMMA ConsumerReadInv == LineInv /\ ReadInv /\ ConsumerNext => ReadInv'
<1>. SUFFICES ASSUME LineInv, ReadInv, ConsumerNext PROVE ReadInv'
  OBVIOUS
<1>. USE DEF LineInv, TypeInv, TypeOK, ConsumerInFile, OffsetIsCount, ReadInv, Leaving,
             Limit, Files
<1>1. CASE StartFile
  BY <1>1 DEF StartFile, chanVars
<1>2. CASE NoMoreFiles
  <2>1. file \notin Files
    BY <1>2, FlagsAssumption DEF NoMoreFiles, FileLimitReached, fileCount
  <2>. QED
    BY <1>2, <2>1 DEF NoMoreFiles, chanVars
<1>3. CASE OpenFile
  <2>1. 0 <= Limit(file)
    BY <1>3, LimitType DEF OpenFile
  <2>. QED
    BY <1>3, <2>1 DEF OpenFile, chanVars
<1>4. CASE FileFails
  BY <1>4 DEF FileFails, LeaveStart, chanVars
<1>5. CASE ScanLine
  <2>1. lineCount < Limit(file)
    BY <1>5, FilesAssumption, FlagsAssumption DEF ScanLine, AtEOF, LineLimitReached
  <2>. QED
    BY <1>5, <2>1 DEF ScanLine, chanVars
<1>6. CASE ScanEnds
  <2>1. lineCount = Limit(file) /\ linesRead[file] = lineCount
    BY <1>6, FilesAssumption, FlagsAssumption DEF ScanEnds, AtEOF, LineLimitReached
  <2>2. /\ file \in Files /\ file' = file + 1 /\ cpc' = "nextFile" /\ cErr' = "none"
        /\ taskState' = [taskState EXCEPT ![file] = "finished"]
        /\ UNCHANGED <<linesRead, globalDone, chClosed, lineCount>> /\ cpc = "scan"
    BY <1>6 DEF ScanEnds, FileDone, chanVars
  <2>3. \A f \in Files : f < file' =>
          taskState'[f] = "finished" /\ linesRead'[f] = Limit(f)
    BY <2>1, <2>2
  <2>4. \A f \in Files : (f > file' \/ f = file') => taskState'[f] = "absent"
    BY <2>2
  <2>. QED
    BY <2>2, <2>3, <2>4
<1>7. CASE SendLine
  BY <1>7 DEF SendLine
<1>8. CASE CountLine
  <2>1. /\ file \in Files /\ lineCount \in Nat /\ lineCount < Limit(file)
        /\ cpc' = "scan" /\ lineCount' = lineCount + 1 /\ UNCHANGED <<file, taskState, cErr, globalDone, chClosed>>
        /\ linesRead' = [linesRead EXCEPT ![file] = @ + 1]
    BY <1>8 DEF CountLine, chanVars
  <2>2. lineCount' <= Limit(file)
    BY <2>1, LimitType
  <2>3. \A f \in Files : f < file => linesRead'[f] = linesRead[f]
    BY <2>1
  <2>. QED
    BY <1>8, <2>1, <2>2, <2>3 DEF CountLine
<1>9. CASE ConsumerCancelled
  BY <1>9 DEF ConsumerCancelled, LeaveStart, chanVars
<1>10. CASE CloseChannel
  BY <1>10 DEF CloseChannel
<1>11. CASE ConsumerReturns
  BY <1>11 DEF ConsumerReturns, chanVars
<1>. QED
  BY <1>1, <1>2, <1>3, <1>4, <1>5, <1>6, <1>7, <1>8, <1>9, <1>10, <1>11 DEF ConsumerNext

\* Nobody else touches the consumer's variables, and a context stays cancelled.
LEMMA OthersReadInv ==
  ASSUME ReadInv, TypeInv, NEW w \in Workers, WorkerNext(w) \/ OtherNext \/ UNCHANGED vars
  PROVE  ReadInv'
<1>1. UNCHANGED <<consumerVars, chClosed>> /\ (globalDone => globalDone')
  <2>1. CASE WorkerNext(w)
    BY <2>1 DEF WorkerNext, ReadLine, ReadEndOfStream, ReadCancelled, MapLine, MapFails,
       FilterRaid, FilterOther, WriteInserted, WriteQuarantined, WriteFails,
       WriteCancelled, chanVars
  <2>2. CASE OtherNext
    BY <2>2 DEF OtherNext, Signal, PressQuit, TuiQuits, TuiKilled, TuiFails, MainReturns,
       Exited, vars, chanVars
  <2>3. CASE UNCHANGED vars
    BY <2>3 DEF vars, chanVars
  <2>. QED
    BY <2>1, <2>2, <2>3
<1>. QED
  BY <1>1 DEF ReadInv, Leaving, Limit, consumerVars

LEMMA ConsumerGroupInv == LineInv /\ ReadInv /\ GroupInv /\ ConsumerNext => GroupInv'
<1>. SUFFICES ASSUME LineInv, ReadInv, GroupInv, ConsumerNext PROVE GroupInv'
  OBVIOUS
<1>1. result = "none" /\ result' = "none"
  BY DEF GroupInv, AllReturned, LineInv, TypeInv, TypeOK, ConsumerNext, StartFile,
         NoMoreFiles, OpenFile, FileFails, ScanLine, ScanEnds, SendLine, CountLine,
         ConsumerCancelled, CloseChannel, ConsumerReturns
<1>2. UNCHANGED <<globalDone, outcome, wpc>>
  BY DEF ConsumerNext, StartFile, NoMoreFiles, OpenFile, FileFails, ScanLine, ScanEnds,
         SendLine, CountLine, ConsumerCancelled, CloseChannel, ConsumerReturns, workerVars
<1>3. CASE ConsumerReturns
  BY <1>1, <1>2, <1>3 DEF ConsumerReturns, Record, GroupInv, ReadInv, Leaving, chanVars,
     LineInv, TypeInv, TypeOK
<1>4. CASE ~ConsumerReturns
  <2>1. groupErr' = groupErr /\ cpc' # "done"
    BY <1>4 DEF ConsumerNext, StartFile, NoMoreFiles, OpenFile, FileFails, ScanLine,
       ScanEnds, SendLine, CountLine, ConsumerCancelled, CloseChannel, FileDone, LeaveStart
  <2>2. chClosed /\ ch = <<>> => chClosed' /\ ch' = <<>>
    BY <1>4 DEF ConsumerNext, StartFile, NoMoreFiles, OpenFile, FileFails, ScanLine,
       ScanEnds, SendLine, CountLine, ConsumerCancelled, CloseChannel, chanVars, ReadInv
  <2>. QED
    BY <1>1, <1>2, <2>1, <2>2 DEF GroupInv
<1>. QED
  BY <1>3, <1>4

LEMMA WorkerGroupInv ==
  ASSUME LineInv, ReadInv, GroupInv, NEW w \in Workers, WorkerNext(w)
  PROVE  GroupInv'
<1>. USE DEF LineInv, TypeInv, TypeOK, GroupInv
<1>1. wpc[w] # "stopped" /\ result = "none" /\ result' = "none"
  BY DEF AllReturned, WorkerNext, ReadLine, ReadEndOfStream, ReadCancelled, MapLine,
         MapFails, FilterRaid, FilterOther, WriteInserted, WriteQuarantined, WriteFails,
         WriteCancelled
<1>2. UNCHANGED <<globalDone, cpc, cErr, chClosed>> /\ (ch = <<>> => ch' = <<>>)
  BY DEF WorkerNext, ReadLine, ReadEndOfStream, ReadCancelled, MapLine,
         MapFails, FilterRaid, FilterOther, WriteInserted, WriteQuarantined, WriteFails,
         WriteCancelled, consumerVars, chanVars
<1>3. groupErr # "none" => groupErr' = groupErr
  BY DEF WorkerNext, ReadLine, ReadEndOfStream, ReadCancelled, MapLine,
         MapFails, FilterRaid, FilterOther, WriteInserted, WriteQuarantined, WriteFails,
         WriteCancelled, Stop, Record
<1>4. groupErr' \in {"canceled", "killed"} => globalDone
  BY DEF WorkerNext, ReadLine, ReadEndOfStream, ReadCancelled, MapLine,
         MapFails, FilterRaid, FilterOther, WriteInserted, WriteQuarantined, WriteFails,
         WriteCancelled, Stop, Record
<1>5. \A x \in Line : outcome'[x] \in {"failed", "abandoned"} => groupErr' # "none"
  <2>1. CASE WriteFails(w) \/ WriteCancelled(w)
    BY <2>1 DEF WriteFails, WriteCancelled, Stop, Record
  <2>2. CASE ~(WriteFails(w) \/ WriteCancelled(w))
    <3>1. \A x \in Line : outcome'[x] \in {"failed", "abandoned"} => outcome'[x] = outcome[x]
      BY <2>2 DEF WorkerNext, ReadLine, ReadEndOfStream, ReadCancelled, MapLine, MapFails,
         FilterRaid, FilterOther, WriteInserted, WriteQuarantined, Resolve
    <3>. QED
      BY <1>3, <3>1
  <2>. QED
    BY <2>1, <2>2
<1>6. \A v \in Workers : wpc'[v] = "stopped" =>
        groupErr' # "none" \/ (chClosed' /\ ch' = <<>>)
  <2>1. \A v \in Workers : v # w => wpc'[v] = wpc[v]
    BY DEF WorkerNext, ReadLine, ReadEndOfStream, ReadCancelled, MapLine,
       MapFails, FilterRaid, FilterOther, WriteInserted, WriteQuarantined, WriteFails,
       WriteCancelled, Stop, NextRead
  <2>2. wpc'[w] = "stopped" => groupErr' # "none" \/ (chClosed' /\ ch' = <<>>)
    BY DEF WorkerNext, ReadLine, ReadEndOfStream, ReadCancelled, MapLine, MapFails,
       FilterRaid, FilterOther, WriteInserted, WriteQuarantined, WriteFails,
       WriteCancelled, Stop, NextRead, Record, chanVars
  <2>. QED
    BY <1>2, <1>3, <2>1, <2>2
<1>. QED
  BY <1>1, <1>2, <1>3, <1>4, <1>5, <1>6

LEMMA OtherGroupInv ==
  ASSUME LineInv, GroupInv, OtherNext \/ UNCHANGED vars
  PROVE  GroupInv'
<1>. USE DEF GroupInv, AllReturned, consumerVars, chanVars, workerVars
<1>1. CASE Signal
  BY <1>1 DEF Signal
<1>2. CASE PressQuit
  BY <1>2 DEF PressQuit
<1>3. CASE TuiQuits \/ TuiKilled \/ TuiFails
  BY <1>3 DEF TuiQuits, TuiKilled, TuiFails, Record, groupDone
<1>4. CASE MainReturns
  BY <1>4 DEF MainReturns
<1>5. CASE UNCHANGED vars
  BY <1>5 DEF vars
<1>. QED
  BY <1>1, <1>2, <1>3, <1>4, <1>5 DEF OtherNext, Exited

LEMMA InitJobInv == Init => JobInv
<1>. SUFFICES ASSUME Init PROVE JobInv
  OBVIOUS
<1>1. ReadInv
  BY DEF Init, ReadInv, Leaving, Files
<1>2. GroupInv
  BY DEF Init, GroupInv
<1>. QED
  BY <1>1, <1>2, InitLineInv DEF JobInv

LEMMA NextJobInv == JobInv /\ [Next]_vars => JobInv'
<1>. SUFFICES ASSUME JobInv, [Next]_vars PROVE JobInv'
  OBVIOUS
<1>1. LineInv'
  BY NextLineInv DEF JobInv
<1>2. CASE ConsumerNext
  BY <1>1, <1>2, ConsumerReadInv, ConsumerGroupInv DEF JobInv
<1>3. ASSUME NEW w \in Workers, WorkerNext(w) PROVE JobInv'
  BY <1>1, <1>3, OthersReadInv, WorkerGroupInv DEF JobInv, LineInv
<1>4. CASE OtherNext \/ UNCHANGED vars
  BY <1>1, <1>4, WorkersAssumption, OthersReadInv, OtherGroupInv DEF JobInv, LineInv
<1>. QED
  BY <1>2, <1>3, <1>4 DEF Next, OtherNext

THEOREM JobCorrect == Spec => []JobInv
BY InitJobInv, NextJobInv, PTL DEF Spec

-----------------------------------------------------------------------------
(***************************************************************************)
(* What follows from the invariant.                                        *)
(***************************************************************************)

\* Start marks a task finished after its last line is in the channel, or because the
\* job was cancelled, and never otherwise.
THEOREM HandedOver == Spec => []FinishedFileHandedOver
<1>1. JobInv => FinishedFileHandedOver
  <2>. SUFFICES ASSUME JobInv, NEW f \in Files, taskState[f] = "finished", ~globalDone
                PROVE  Sent(f) = Limit(f)
    BY DEF FinishedFileHandedOver
  <2>. USE DEF JobInv, LineInv, TypeInv, TypeOK, ConsumerInFile, ReadInv, Leaving
  <2>1. f < file
    <3>1. f \in Int /\ file \in Int
      BY FilesAssumption DEF Files
    <3>2. f # file
      BY DEF ConsumerPcs
    <3>3. ~(f > file)
      OBVIOUS
    <3>. QED
      BY <3>1, <3>2, <3>3
  <2>2. linesRead[f] = Limit(f) /\ f # file
    BY <2>1, FilesAssumption DEF Files
  <2>. QED
    BY <2>2 DEF Sent
<1>. QED
  BY <1>1, JobCorrect, PTL

\* A failed write is reported by RunE unless the job had been cancelled: the errors
\* it hides are recorded first only after a cancellation.
THEOREM FailuresReported == Spec => []NoSilentFailure
<1>1. JobInv => NoSilentFailure
  BY DEF JobInv, GroupInv, NoSilentFailure
<1>. QED
  BY <1>1, JobCorrect, PTL

\* When all goroutines but the UI have returned without an error, no line is missing.
THEOREM CleanIsComplete == Spec => []CleanGroupMeansComplete
<1>1. JobInv => CleanGroupMeansComplete
  <2>. SUFFICES ASSUME JobInv, cpc = "done", groupErr = "none",
                       \A w \in Workers : wpc[w] = "stopped",
                       NEW x \in Line, x[2] < Limit(x[1])
                PROVE  outcome[x] \in {"inserted", "skipped", "malformed", "quarantined"}
    BY DEF CleanGroupMeansComplete
  <2>. USE DEF JobInv, LineInv, TypeInv, TypeOK
  <2>1. x[1] \in Files /\ x[1] < file
    <3>1. x[1] \in Files
      BY LineMembers
    <3>2. file \notin Files
      BY DEF GroupInv, ReadInv, Leaving
    <3>. QED
      BY <3>1, <3>2, FilesAssumption DEF Files
  <2>2. x[2] < Sent(x[1])
    BY <2>1 DEF ReadInv, Sent
  <2>3. ch = <<>>
    BY WorkersAssumption DEF GroupInv
  <2>4. ~InChannel(x)
    BY <2>3 DEF InChannel
  <2>5. ~InHand(x)
    BY NoLineAssumption DEF InHand
  <2>6. outcome[x] # "pending"
    BY <2>2, <2>4, <2>5 DEF LinesAccounted, Resolved
  <2>. QED
    BY <2>6 DEF GroupInv, Outcomes
<1>. QED
  BY <1>1, JobCorrect, PTL

-----------------------------------------------------------------------------
(***************************************************************************)
(* Where the job can come to rest.  Ready spells out the guards of a       *)
(* goroutine's actions.                                                    *)
(***************************************************************************)
ConsumerReady ==
  \/ cpc \in ConsumerPcs \ {"send", "done"}
  \/ cpc = "send" /\ (Len(ch) < ChanCap \/ globalDone)

WorkerReady(w) ==
  \/ wpc[w] \in {"map", "filter", "write"}
  \/ wpc[w] = "read" /\ (ch # <<>> \/ chClosed \/ globalDone)

UiReady == tui = "quitting" \/ (tui = "running" /\ groupDone)

AllStopped == \A w \in Workers : wpc[w] = "stopped"

\* The backfill is over and the UI waits for a key.
AwaitsUser == cpc = "done" /\ AllStopped /\ tui = "running" /\ ~groupDone

\* Every worker has gone, an error is recorded, and the consumer is left with a full channel.
Hangs ==
  /\ cpc = "send" /\ Len(ch) = ChanCap /\ ~globalDone
  /\ AllStopped /\ tui = "done" /\ groupErr # "none"

ChanInv ==
  /\ Len(ch) <= ChanCap
  /\ cpc \in {"return", "done"} => chClosed

LEMMA ChanStarts == Init => ChanInv
BY ChanAssumption DEF Init, ChanInv

LEMMA ChanKept == JobInv /\ ChanInv /\ [Next]_vars => ChanInv'
<1>. SUFFICES ASSUME JobInv, ChanInv, [Next]_vars PROVE ChanInv'
  OBVIOUS
<1>0. ch \in Seq(Line) /\ Len(ch) \in Nat
  BY LenProperties DEF JobInv, LineInv, TypeInv, TypeOK
<1>1. CASE UNCHANGED <<cpc, chClosed, ch>>
  BY <1>1 DEF ChanInv
<1>2. CASE ConsumerNext
  <2>1. CASE SendLine
    <3>1. Len(ch') = Len(ch) + 1
      BY <1>0, <2>1, AppendProperties DEF SendLine
    <3>. QED
      BY <1>0, <2>1, <3>1, ChanAssumption DEF ChanInv, SendLine
  <2>2. CASE CloseChannel \/ ConsumerReturns
    BY <2>2 DEF ChanInv, CloseChannel, ConsumerReturns, chanVars
  <2>3. CASE UNCHANGED chanVars /\ cpc' \notin {"return", "done"}
    BY <2>3 DEF ChanInv, chanVars
  <2>. QED
    BY <1>2, <2>1, <2>2, <2>3 DEF ConsumerNext, StartFile, NoMoreFiles, OpenFile, FileFails,
       ScanLine, ScanEnds, CountLine, ConsumerCancelled, LeaveStart, FileDone
<1>3. ASSUME NEW w \in Workers, WorkerNext(w) PROVE ChanInv'
  <2>1. CASE ReadLine(w)
    <3>1. Len(ch') = Len(ch) - 1
      BY <1>0, <2>1, HeadTailProperties DEF ReadLine
    <3>. QED
      BY <1>0, <2>1, <3>1, ChanAssumption DEF ChanInv, ReadLine, consumerVars
  <2>2. CASE ~ReadLine(w)
    BY <1>1, <1>3, <2>2 DEF WorkerNext, ReadEndOfStream, ReadCancelled, MapLine, MapFails,
       FilterRaid, FilterOther, WriteInserted, WriteQuarantined, WriteFails, WriteCancelled,
       consumerVars, chanVars
  <2>. QED
    BY <2>1, <2>2
<1>4. CASE OtherNext \/ UNCHANGED vars
  BY <1>1, <1>4 DEF OtherNext, Signal, PressQuit, TuiQuits, TuiKilled, TuiFails, MainReturns,
     Exited, vars, consumerVars, chanVars
<1>. QED
  BY <1>2, <1>3, <1>4 DEF Next, OtherNext

\* The consumer is stuck only behind workers that have all failed.
LEMMA StuckConsumer ==
  ASSUME JobInv, ChanInv, cpc = "send", ~ConsumerReady, \A w \in Workers : ~WorkerReady(w), ~UiReady
  PROVE  Hangs
<1>1. ~globalDone /\ Len(ch) = ChanCap /\ ch # <<>>
  <2>1. Len(ch) \in Nat /\ Len(ch) <= ChanCap
    BY LenProperties DEF ChanInv, JobInv, LineInv, TypeInv, TypeOK
  <2>. QED
    BY <2>1, ChanAssumption DEF ConsumerReady
<1>2. AllStopped
  BY <1>1 DEF AllStopped, WorkerReady, JobInv, LineInv, TypeInv, TypeOK, WorkerPcs
<1>3. groupErr # "none"
  BY <1>1, <1>2, WorkersAssumption DEF AllStopped, JobInv, GroupInv
<1>4. tui = "done"
  BY <1>3 DEF UiReady, groupDone, JobInv, LineInv, TypeInv, TypeOK
<1>. QED
  BY <1>1, <1>2, <1>3, <1>4 DEF Hangs

LEMMA DoneConsumer ==
  ASSUME JobInv, ChanInv, cpc = "done", \A w \in Workers : ~WorkerReady(w), ~UiReady
  PROVE  AwaitsUser \/ AllReturned
<1>1. AllStopped
  BY DEF ChanInv, AllStopped, WorkerReady, JobInv, LineInv, TypeInv, TypeOK, WorkerPcs
<1>2. tui = "done" \/ (tui = "running" /\ ~groupDone)
  BY DEF UiReady, JobInv, LineInv, TypeInv, TypeOK
<1>. QED
  BY <1>1, <1>2 DEF AwaitsUser, AllReturned, AllStopped

\* A job that has not returned has a goroutine that can go on, or waits for the user when
\* the backfill is over, or hangs in the one way that it can: it takes an error of every
\* single worker, and then only a signal helps.
THEOREM OneWayToHang ==
  Spec => [](\/ ConsumerReady \/ UiReady \/ \E w \in Workers : WorkerReady(w)
             \/ AllReturned \/ AwaitsUser \/ Hangs)
<1>1. JobInv /\ ChanInv =>
        \/ ConsumerReady \/ UiReady \/ \E w \in Workers : WorkerReady(w)
        \/ AllReturned \/ AwaitsUser \/ Hangs
  BY StuckConsumer, DoneConsumer DEF ConsumerReady, JobInv, LineInv, TypeInv, TypeOK
<1>. QED
  BY <1>1, JobCorrect, ChanStarts, ChanKept, PTL DEF Spec

-----------------------------------------------------------------------------
(***************************************************************************)
(* Refinement: every step of the job is a step of the ledger of its lines  *)
(* or leaves the ledger alone.                                             *)
(***************************************************************************)

\* A line is unread exactly when the consumer has not sent it yet.
LEMMA UnreadIsUnsent ==
  ASSUME LineInv, NEW x \in Line
  PROVE  Stage[x] = "unread" <=> ~(x[2] < Sent(x[1]))
<1>1. outcome[x] # "unread"
  BY DEF LineInv, TypeInv, TypeOK, Outcomes
<1>. QED
  BY <1>1 DEF Stage, LineInv, LinesAccounted

\* The stage of a line that the step does not move stays.
LEMMA StageFrame ==
  ASSUME UNCHANGED <<ch, held, outcome>>
  PROVE  Stage' = Stage
BY DEF Stage, InChannel, InHand, Resolved

LEMMA SendEnters ==
  ASSUME JobInv, SendLine, LineInv'
  PROVE  \E x \in Line : Ledger!Enter(x)
<1>. DEFINE x0 == <<file, lineCount>>
<1>1. /\ file \in Files /\ lineCount \in Nat /\ lineCount < FileLines[file]
      /\ linesRead[file] = lineCount /\ linesRead \in [Files -> Nat]
      /\ ch \in Seq(Line) /\ ch' = Append(ch, x0) /\ cpc = "send"
      /\ UNCHANGED <<file, lineCount, linesRead, held, outcome>>
  BY DEF JobInv, LineInv, TypeInv, TypeOK, ConsumerInFile, OffsetIsCount, SendLine, workerVars
<1>2. x0 \in Line
  BY <1>1, LineIntro
<1>3. Stage[x0] = "unread"
  <2>1. ~(x0[2] < Sent(x0[1]))
    BY <1>1 DEF Sent
  <2>. QED
    BY <1>2, <2>1, UnreadIsUnsent DEF JobInv
<1>4. \A y \in Line : <<y, x0>> \in Precedes => Stage[y] # "unread"
  <2>. SUFFICES ASSUME NEW y \in Line, <<y, x0>> \in Precedes PROVE y[2] < Sent(y[1])
    BY UnreadIsUnsent DEF JobInv
  <2>1. y[1] \in Files /\ y[2] \in Nat
    BY LineMembers
  <2>2. CASE y[1] < file /\ y[2] < Limit(y[1])
    BY <1>1, <2>1, <2>2 DEF Sent, JobInv, ReadInv
  <2>3. CASE y[1] = file /\ y[2] < lineCount
    BY <1>1, <2>1, <2>3 DEF Sent
  <2>. QED
    BY <2>2, <2>3 DEF Precedes
<1>5. /\ Len(ch) \in Nat /\ Len(ch') = Len(ch) + 1 /\ ch'[Len(ch) + 1] = x0
      /\ \A i \in 1 .. Len(ch) : ch'[i] = ch[i]
  BY <1>1, <1>2
<1>6. \A x \in Line : x # x0 => (InChannel(x)' <=> InChannel(x))
  <2>. SUFFICES ASSUME NEW x \in Line, x # x0 PROVE InChannel(x)' <=> InChannel(x)
    OBVIOUS
  <2>1. InChannel(x)' <=> \E i \in 1 .. Len(ch) + 1 : ch'[i] = x
    BY <1>5 DEF InChannel
  <2>2. 1 .. Len(ch) + 1 = 1 .. Len(ch) \union {Len(ch) + 1}
    BY <1>5
  <2>. QED
    BY <1>5, <2>1, <2>2 DEF InChannel
<1>7. \A x \in Line : x # x0 => Stage'[x] = Stage[x]
  BY <1>1, <1>6 DEF Stage, InHand, Resolved
<1>8. Stage'[x0] = "inflight"
  <2>1. InChannel(x0)'
    <3>1. Len(ch) + 1 \in 1 .. Len(ch')
      BY <1>5
    <3>2. \E i \in 1 .. Len(ch') : ch'[i] = x0
      BY <1>5, <3>1
    <3>3. InChannel(x0)' <=> \E i \in 1 .. Len(ch') : ch'[i] = x0'
      BY DEF InChannel
    <3>4. x0' = x0
      BY <1>1
    <3>. QED
      BY <3>2, <3>3, <3>4
  <2>2. ~Resolved(x0)
    <3>1. ~(x0[2] < Sent(x0[1]))
      BY <1>1 DEF Sent
    <3>. QED
      BY <1>2, <3>1 DEF JobInv, LineInv, LinesAccounted
  <2>3. ~Resolved(x0)'
    BY <1>1, <2>2 DEF Resolved
  <2>. QED
    BY <1>1, <1>2, <2>1, <2>3 DEF Stage
<1>9. Stage' = [Stage EXCEPT ![x0] = "inflight"]
  BY <1>2, <1>7, <1>8 DEF Stage
<1>. QED
  BY <1>2, <1>3, <1>4, <1>9 DEF Ledger!Enter

\* A worker's step receives a line that is in flight, or gives the line in its hand
\* a verdict, or moves no line.
LEMMA ReceiveStays ==
  ASSUME LineInv, LineInv', NEW w \in Workers, ReadLine(w)
  PROVE  Stage' = Stage
<1>1. /\ outcome' = outcome /\ UNCHANGED <<cpc, file, linesRead>>
      /\ outcome \in [Line -> Outcomes]
  BY DEF ReadLine, consumerVars, LineInv, TypeInv, TypeOK
<1>2. \A x \in Line : Resolved(x)' <=> Resolved(x)
  BY <1>1 DEF Resolved
<1>3. \A x \in Line : x[2] < Sent(x[1])' <=> x[2] < Sent(x[1])
  BY <1>1 DEF Sent
<1>4. \A x \in Line : Stage'[x] = Stage[x]
  <2>. SUFFICES ASSUME NEW x \in Line PROVE Stage'[x] = Stage[x]
    OBVIOUS
  <2>1. CASE Resolved(x)
    BY <1>1, <1>2, <2>1 DEF Stage
  <2>2. CASE ~Resolved(x)
    <3>1. InChannel(x) \/ InHand(x) <=> x[2] < Sent(x[1])
      BY <2>2 DEF LineInv, LinesAccounted
    <3>2. InChannel(x)' \/ InHand(x)' <=> x[2] < Sent(x[1])'
      BY <1>2, <2>2 DEF LineInv, LinesAccounted
    <3>. QED
      BY <1>2, <1>3, <2>2, <3>1, <3>2 DEF Stage
  <2>. QED
    BY <2>1, <2>2
<1>. QED
  BY <1>4 DEF Stage

LEMMA ResolveLeaves ==
  ASSUME LineInv, NEW w \in Workers, held[w] \in Line,
         NEW o \in Outcomes \ {"pending"},
         outcome' = [outcome EXCEPT ![held[w]] = o],
         held' = [held EXCEPT ![w] = NoLine], ch' = ch
  PROVE  \E x \in Line : \E v \in Outcomes \ {"pending"} : Ledger!Leave(x, v)
<1>. DEFINE x0 == held[w]
<1>1. held \in [Workers -> Line \union {NoLine}] /\ outcome \in [Line -> Outcomes]
  BY DEF LineInv, TypeInv, TypeOK
<1>2. Stage[x0] = "inflight"
  BY DEF Stage, InHand, LineInv, LinesAccounted
<1>3. \A x \in Line : x # x0 => Stage'[x] = Stage[x]
  <2>. SUFFICES ASSUME NEW x \in Line, x # x0 PROVE Stage'[x] = Stage[x]
    OBVIOUS
  <2>1. outcome'[x] = outcome[x]
    BY <1>1
  <2>2. (\E v \in Workers : held'[v] = x) <=> (\E v \in Workers : held[v] = x)
    BY <1>1, NoLineAssumption
  <2>. QED
    BY <2>1, <2>2 DEF Stage, InChannel, InHand, Resolved
<1>4. [x \in Line |-> Stage'[x]] = [Stage EXCEPT ![x0] = o]
  <2>1. outcome'[x0] = o
    BY <1>1
  <2>2. Stage'[x0] = o
    BY <2>1 DEF Stage, Resolved
  <2>. QED
    BY <1>3, <2>2 DEF Stage
<1>5. Stage' = [Stage EXCEPT ![x0] = o]
  BY <1>4 DEF Stage
<1>. QED
  BY <1>2, <1>5 DEF Ledger!Leave

LEMMA StepRefines == JobInv /\ LineInv' /\ [Next]_vars => [Ledger!Next]_Stage
<1>. SUFFICES ASSUME JobInv, LineInv', [Next]_vars PROVE Ledger!Next \/ Stage' = Stage
  OBVIOUS
<1>1. CASE SendLine
  BY <1>1, SendEnters DEF Ledger!Next
<1>2. CASE ConsumerNext /\ ~SendLine
  <2>1. UNCHANGED <<ch, held, outcome>>
    BY <1>2 DEF ConsumerNext, StartFile, NoMoreFiles, OpenFile, FileFails, ScanLine,
       ScanEnds, CountLine, ConsumerCancelled, CloseChannel, ConsumerReturns, chanVars,
       workerVars
  <2>. QED
    BY <2>1, StageFrame
<1>3. ASSUME NEW w \in Workers, WorkerNext(w) PROVE Ledger!Next \/ Stage' = Stage
  <2>1. CASE ReadLine(w)
    BY <2>1, ReceiveStays DEF JobInv
  <2>2. CASE ReadEndOfStream(w) \/ ReadCancelled(w)
    <3>1. UNCHANGED <<held, ch, outcome>>
      BY <2>2 DEF ReadEndOfStream, ReadCancelled, Stop, chanVars, JobInv, LineInv, TypeInv,
         TypeOK
    <3>. QED
      BY <3>1, StageFrame
  <2>3. CASE MapLine(w) \/ FilterRaid(w)
    <3>1. UNCHANGED <<held, ch, outcome>>
      BY <2>3 DEF MapLine, FilterRaid, chanVars
    <3>. QED
      BY <3>1, StageFrame
  <2>4. CASE MapFails(w) \/ FilterOther(w) \/ WriteInserted(w) \/ WriteQuarantined(w)
               \/ WriteFails(w) \/ WriteCancelled(w)
    <3>1. held[w] \in Line
      BY <2>4, HeldIsLine DEF MapFails, FilterOther, WriteInserted, WriteQuarantined,
         WriteFails, WriteCancelled, JobInv, LineInv
    <3>2. ch' = ch
      BY <2>4 DEF MapFails, FilterOther, WriteInserted, WriteQuarantined, WriteFails,
         WriteCancelled, chanVars
    <3>3. held' = [held EXCEPT ![w] = NoLine]
      BY <2>4 DEF MapFails, FilterOther, WriteInserted, WriteQuarantined, WriteFails,
         WriteCancelled, Stop, NextRead
    <3>4. \E o \in Outcomes \ {"pending"} : outcome' = [outcome EXCEPT ![held[w]] = o]
      BY <2>4 DEF MapFails, FilterOther, WriteInserted, WriteQuarantined, WriteFails,
         WriteCancelled, Resolve, Outcomes
    <3>. QED
      BY <3>1, <3>2, <3>3, <3>4, ResolveLeaves DEF JobInv, Ledger!Next
  <2>. QED
    BY <1>3, <2>1, <2>2, <2>3, <2>4 DEF WorkerNext
<1>4. CASE OtherNext \/ UNCHANGED vars
  <2>1. UNCHANGED <<ch, held, outcome>>
    BY <1>4 DEF OtherNext, Signal, PressQuit, TuiQuits, TuiKilled, TuiFails, MainReturns,
       Exited, vars, chanVars, workerVars
  <2>. QED
    BY <2>1, StageFrame
<1>. QED
  BY <1>1, <1>2, <1>3, <1>4 DEF Next, OtherNext

\* The job implements the ledger: each line enters the pipeline once, in dataset order
\* across the files, and leaves it once with a final verdict.
THEOREM JobImplementsLedger == Spec => ImplementsLedger
<1>1. Init => Ledger!Init
  <2>. SUFFICES ASSUME Init PROVE Stage = [x \in Line |-> "unread"]
    BY DEF Ledger!Init
  <2>1. \A x \in Line : ~InChannel(x) /\ ~InHand(x) /\ ~Resolved(x)
    BY NoLineAssumption DEF Init, InChannel, InHand, Resolved
  <2>. QED
    BY <2>1 DEF Stage
<1>2. JobInv => LineInv
  BY DEF JobInv
<1>. QED
  BY <1>1, <1>2, StepRefines, JobCorrect, PTL DEF Spec, ImplementsLedger, Ledger!Spec

-----------------------------------------------------------------------------
(***************************************************************************)
(* The tasks' counters.  A file has no more verdicts counted than it has   *)
(* lines resolved, the lines resolved and the one in a worker's hand have  *)
(* all been sent, and no file is read beyond its limit: so a verdict is at *)
(* most one line ahead of the lines read.                                  *)
(***************************************************************************)
Judged(f) == {k \in 0 .. FileLines[f] - 1 : outcome[<<f, k>>] # "pending"}

VerdictsCounted ==
  \A f \in Files : inserted[f] + skipped[f] + errored[f] <= Cardinality(Judged(f))

ReadInLimit ==
  \A f \in Files : /\ linesRead[f] <= Limit(f)
                   /\ f < file \/ (f = file /\ cpc # "nextFile") => taskState[f] # "absent"

ProgressInv == JobInv /\ VerdictsCounted /\ ReadInLimit

LEMMA IntervalSize ==
  ASSUME NEW n \in Nat
  PROVE  IsFiniteSet(0 .. n - 1) /\ Cardinality(0 .. n - 1) = n
<1>1. 0 \in Int /\ n - 1 \in Int
  OBVIOUS
<1>2. /\ IsFiniteSet(0 .. n - 1)
      /\ Cardinality(0 .. n - 1) = IF 0 > n - 1 THEN 0 ELSE (n - 1) - 0 + 1
  BY <1>1, FS_Interval
<1>. QED
  BY <1>2

LEMMA JudgedType ==
  ASSUME NEW f \in Files
  PROVE  IsFiniteSet(Judged(f)) /\ Cardinality(Judged(f)) \in Nat
<1>1. IsFiniteSet(0 .. FileLines[f] - 1)
  BY FilesAssumption, FS_Interval
<1>2. IsFiniteSet(Judged(f))
  BY <1>1, FS_Subset DEF Judged
<1>. QED
  BY <1>2, FS_CardinalityType

\* A worker that holds a line of f: there is room for one more verdict.
LEMMA HeldHasRoom ==
  ASSUME ProgressInv, NEW w \in Workers, held[w] \in Line
  PROVE  LET f == held[w][1]
         IN  /\ f \in Files /\ held[w] = <<f, held[w][2]>> /\ held[w][2] \in 0 .. FileLines[f] - 1
             /\ held[w][2] \notin Judged(f)
             /\ inserted[f] + skipped[f] + errored[f] <= linesRead[f]
             /\ inserted[f] + skipped[f] + errored[f] < Limit(f)
             /\ taskState[f] # "absent"
<1>. DEFINE f == held[w][1]
            k == held[w][2]
            seen == Cardinality(Judged(f))
<1>0. /\ TypeOK /\ ConsumerInFile /\ OffsetIsCount /\ LinesAccounted /\ ReadInv
      /\ VerdictsCounted /\ ReadInLimit
  BY DEF ProgressInv, JobInv, LineInv, TypeInv
<1>1. f \in Files /\ k \in Nat /\ k < FileLines[f] /\ held[w] = <<f, k>> /\ FileLines[f] \in Nat
  BY LineMembers, FilesAssumption
<1>2. ~Resolved(held[w]) /\ k < Sent(f)
  BY <1>0 DEF LinesAccounted, InHand
<1>3. k \notin Judged(f)
  BY <1>1, <1>2 DEF Judged, Resolved
<1>4. Sent(f) \in Nat
  BY <1>0, <1>1 DEF Sent, TypeOK
<1>. HIDE DEF f, k
<1>5. Judged(f) \union {k} \in SUBSET (0 .. Sent(f) - 1)
  <2>. SUFFICES ASSUME NEW j \in Judged(f) PROVE j \in 0 .. Sent(f) - 1
    BY <1>1, <1>2, <1>4
  <2>1. j \in Nat /\ j < FileLines[f] /\ outcome[<<f, j>>] # "pending"
    BY <1>1 DEF Judged
  <2>2. <<f, j>> \in Line /\ Resolved(<<f, j>>)
    BY <1>1, <2>1, LineIntro DEF Resolved
  <2>3. <<f, j>>[2] < Sent(<<f, j>>[1])
    BY <1>0, <2>2 DEF LinesAccounted
  <2>. QED
    BY <1>4, <2>1, <2>3
<1>6. seen + 1 <= Sent(f) /\ seen \in Nat
  <2>1. IsFiniteSet(0 .. Sent(f) - 1) /\ Cardinality(0 .. Sent(f) - 1) = Sent(f)
    BY <1>4, IntervalSize
  <2>2. Cardinality(Judged(f) \union {k}) <= Cardinality(0 .. Sent(f) - 1)
    BY <1>5, <2>1, FS_Subset, Zenon
  <2>3. Cardinality(Judged(f) \union {k}) = seen + 1 /\ seen \in Nat
    BY <1>1, <1>3, JudgedType, FS_AddElement
  <2>. HIDE DEF seen
  <2>. QED
    BY <2>1, <2>2, <2>3
<1>7. Sent(f) <= linesRead[f] + 1 /\ Sent(f) <= Limit(f)
  <2>1. linesRead[f] \in Nat /\ linesRead[f] <= Limit(f) /\ Limit(f) \in Nat
    BY <1>0, <1>1, LimitType DEF TypeOK, ReadInLimit
  <2>2. CASE cpc = "count" /\ file = f
    <3>1. linesRead[f] < Limit(f)
      BY <1>0, <2>2 DEF OffsetIsCount, ReadInv
    <3>. QED
      BY <2>1, <2>2, <3>1 DEF Sent
  <2>3. CASE ~(cpc = "count" /\ file = f)
    BY <2>1, <2>3 DEF Sent
  <2>. QED
    BY <2>2, <2>3
<1>8. taskState[f] # "absent"
  <2>1. Sent(f) > 0
    BY <1>1, <1>2, <1>4
  <2>2. f < file \/ (f = file /\ cpc # "nextFile")
    <3>1. f \in Int /\ file \in Int
      BY <1>0, <1>1, FilesAssumption DEF TypeOK, Files
    <3>2. CASE f > file \/ (cpc = "nextFile" /\ f = file)
      <4>1. linesRead[f] = 0 /\ ~(cpc = "count" /\ file = f)
        BY <1>0, <1>1, <3>1, <3>2 DEF OffsetIsCount
      <4>. QED
        BY <2>1, <4>1 DEF Sent
    <3>. QED
      BY <3>1, <3>2
  <2>. QED
    BY <1>0, <1>1, <2>2 DEF ReadInLimit
<1>9. inserted[f] + skipped[f] + errored[f] <= seen
  BY <1>0, <1>1 DEF VerdictsCounted
<1>10. inserted[f] \in Nat /\ skipped[f] \in Nat /\ errored[f] \in Nat /\ linesRead[f] \in Nat
       /\ Limit(f) \in Nat
  BY <1>0, <1>1, LimitType DEF TypeOK
<1>. HIDE DEF seen
<1>11. /\ inserted[f] + skipped[f] + errored[f] <= linesRead[f]
       /\ inserted[f] + skipped[f] + errored[f] < Limit(f)
  <2>. DEFINE verdicts == inserted[f] + skipped[f] + errored[f]
  <2>1. verdicts \in Nat /\ verdicts <= seen
    BY <1>9, <1>10
  <2>2. linesRead[f] \in Nat /\ Limit(f) \in Nat
    BY <1>10
  <2>. HIDE DEF verdicts
  <2>3. verdicts + 1 <= Sent(f)
    BY <1>4, <1>6, <2>1
  <2>4. verdicts <= linesRead[f] /\ verdicts < Limit(f)
    BY <1>4, <1>7, <2>1, <2>2, <2>3
  <2>. QED
    BY <2>4 DEF verdicts
<1>. QED
  BY <1>1, <1>3, <1>8, <1>11 DEF f, k

\* The consumer's steps: each is one of the tasks' steps, or leaves them alone.
LEMMA ConsumerProgress ==
  ASSUME ProgressInv, ConsumerNext
  PROVE  /\ Progress!Next \/ UNCHANGED Progress!progressVars
         /\ VerdictsCounted' /\ ReadInLimit'
<1>. USE DEF Progress!File, Files
<1>0. /\ TypeOK /\ ConsumerInFile /\ OffsetIsCount /\ ReadInv /\ ReadInLimit
      /\ file \in Int /\ \A f \in Files : Limit(f) \in Nat
  <2>1. TypeOK /\ ConsumerInFile /\ OffsetIsCount /\ ReadInv /\ ReadInLimit
    BY DEF ProgressInv, JobInv, LineInv, TypeInv
  <2>2. file \in Int
    BY <2>1, FilesAssumption DEF TypeOK
  <2>. QED
    BY <2>1, <2>2, LimitType
<1>1. UNCHANGED <<inserted, skipped, errored, outcome, globalDone>>
  BY DEF ConsumerNext, StartFile, NoMoreFiles, OpenFile, FileFails, ScanLine, ScanEnds,
     SendLine, CountLine, ConsumerCancelled, CloseChannel, ConsumerReturns, workerVars
<1>2. VerdictsCounted'
  BY <1>1 DEF ProgressInv, VerdictsCounted, Judged
<1>3. CASE StartFile
  <2>1. /\ file \in Files /\ taskState[file] = "absent" /\ cpc = "nextFile"
        /\ taskState' = [taskState EXCEPT ![file] = "started"] /\ cpc' = "open"
        /\ UNCHANGED <<file, linesRead>>
    BY <1>0, <1>3 DEF StartFile, ReadInv
  <2>2. ASSUME NEW g \in 1 .. file - 1 PROVE taskState[g] = "finished"
    <3>1. g \in 1 .. NFiles /\ g < file
      BY <2>1, FilesAssumption
    <3>. QED
      BY <1>0, <3>1 DEF ReadInv
  <2>3. Progress!StartTask(file)
    BY <1>1, <2>1, <2>2 DEF Progress!StartTask
  <2>4. ReadInLimit'
    BY <1>0, <2>1 DEF ReadInLimit, TypeOK, Limit
  <2>. QED
    BY <1>2, <2>1, <2>3, <2>4 DEF Progress!Next, Progress!TaskStep
<1>4. CASE FileFails
  <2>1. /\ file \in Files /\ taskState[file] = "started"
        /\ taskState' = [taskState EXCEPT ![file] = "errored"]
        /\ UNCHANGED <<file, linesRead>> /\ cpc # "nextFile"
    BY <1>0, <1>4 DEF FileFails, LeaveStart, ConsumerInFile, ReadInv
  <2>2. Progress!SetErrored(file)
    BY <1>1, <2>1 DEF Progress!SetErrored
  <2>3. ReadInLimit'
    BY <1>0, <2>1 DEF ReadInLimit, TypeOK, Limit
  <2>. QED
    BY <1>2, <2>1, <2>2, <2>3 DEF Progress!Next, Progress!TaskStep
<1>5. CASE ScanEnds \/ ConsumerCancelled
  <2>1. /\ file \in Files /\ taskState[file] = "started"
        /\ taskState' = [taskState EXCEPT ![file] = "finished"]
        /\ UNCHANGED linesRead /\ cpc # "nextFile"
        /\ file' = file \/ (file' = file + 1 /\ cpc' = "nextFile")
    BY <1>0, <1>5 DEF ScanEnds, FileDone, ConsumerCancelled, LeaveStart, ConsumerInFile, ReadInv
  <2>2. linesRead[file] = Limit(file) \/ globalDone
    BY <1>0, <1>5, FilesAssumption, FlagsAssumption
    DEF ScanEnds, ConsumerCancelled, ReadInv, OffsetIsCount, AtEOF, LineLimitReached, Limit,
        TypeOK, ConsumerInFile
  <2>3. Progress!SetFinished(file)
    BY <1>1, <2>1, <2>2 DEF Progress!SetFinished
  <2>4. ReadInLimit'
    BY <1>0, <2>1 DEF ReadInLimit, TypeOK, Limit
  <2>. QED
    BY <1>2, <2>1, <2>3, <2>4 DEF Progress!Next, Progress!TaskStep
<1>6. CASE CountLine
  <2>1. /\ file \in Files /\ taskState[file] = "started" /\ linesRead[file] < Limit(file)
        /\ linesRead' = [linesRead EXCEPT ![file] = @ + 1]
        /\ UNCHANGED <<file, taskState>> /\ cpc # "nextFile"
    BY <1>0, <1>6 DEF CountLine, ConsumerInFile, ReadInv, OffsetIsCount
  <2>2. Progress!IncrementLinesRead(file)
    BY <1>1, <2>1 DEF Progress!IncrementLinesRead
  <2>3. \A f \in Files : linesRead'[f] = IF f = file THEN linesRead[f] + 1 ELSE linesRead[f]
    BY <1>0, <2>1 DEF TypeOK
  <2>4. \A f \in Files : linesRead[f] \in Nat
    BY <1>0 DEF TypeOK
  <2>5. \A f \in Files : linesRead'[f] <= Limit(f)
    BY <1>0, <2>1, <2>3, <2>4 DEF ReadInLimit
  <2>6. ReadInLimit'
    BY <1>0, <2>1, <2>5 DEF ReadInLimit, Limit
  <2>. QED
    BY <1>2, <2>1, <2>2, <2>6 DEF Progress!Next, Progress!TaskStep
<1>7. CASE NoMoreFiles \/ OpenFile \/ ScanLine \/ SendLine \/ CloseChannel \/ ConsumerReturns
  <2>1. UNCHANGED <<file, taskState, linesRead>>
    BY <1>7 DEF NoMoreFiles, OpenFile, ScanLine, SendLine, CloseChannel, ConsumerReturns
  <2>2. cpc = "nextFile" => cpc' = "nextFile" \/ file \notin Files
    BY <1>7, FlagsAssumption DEF NoMoreFiles, OpenFile, ScanLine, SendLine, CloseChannel,
       ConsumerReturns, FileLimitReached, fileCount
  <2>3. ReadInLimit'
    BY <1>0, <2>1, <2>2 DEF ReadInLimit, Limit
  <2>. QED
    BY <1>1, <1>2, <2>1, <2>3 DEF Progress!progressVars
<1>. QED
  BY <1>3, <1>4, <1>5, <1>6, <1>7 DEF ConsumerNext

\* A verdict o on the line that w holds, counted in one of the three counters or in none.
LEMMA VerdictCounts ==
  ASSUME ProgressInv, NEW w \in Workers, held[w] \in Line,
         NEW o \in Outcomes \ {"pending"}, outcome' = [outcome EXCEPT ![held[w]] = o],
         \/ inserted' = Bump(inserted, w) /\ UNCHANGED <<skipped, errored>>
         \/ skipped' = Bump(skipped, w) /\ UNCHANGED <<inserted, errored>>
         \/ errored' = Bump(errored, w) /\ UNCHANGED <<inserted, skipped>>
         \/ UNCHANGED <<inserted, skipped, errored>>
  PROVE  VerdictsCounted'
<1>1. PICK f \in Files, k \in Nat :
        held[w] = <<f, k>> /\ k \in 0 .. FileLines[f] - 1 /\ k \notin Judged(f)
  BY HeldHasRoom
<1>2. /\ outcome \in [Line -> Outcomes] /\ inserted \in [Files -> Nat]
      /\ skipped \in [Files -> Nat] /\ errored \in [Files -> Nat] /\ VerdictsCounted
  BY DEF ProgressInv, JobInv, LineInv, TypeInv, TypeOK
<1>3. \/ inserted' = [inserted EXCEPT ![f] = @ + 1] /\ UNCHANGED <<skipped, errored>>
      \/ skipped' = [skipped EXCEPT ![f] = @ + 1] /\ UNCHANGED <<inserted, errored>>
      \/ errored' = [errored EXCEPT ![f] = @ + 1] /\ UNCHANGED <<inserted, skipped>>
      \/ UNCHANGED <<inserted, skipped, errored>>
  BY <1>1 DEF Bump
<1>4. /\ outcome'[<<f, k>>] = o /\ o # "pending"
      /\ \A x \in Line : x # <<f, k>> => outcome'[x] = outcome[x]
  BY <1>1, <1>2
<1>5. ASSUME NEW g \in Files, NEW j \in 0 .. FileLines[g] - 1 PROVE <<g, j>> \in Line
  <2>1. j \in Nat /\ j < FileLines[g]
    BY FilesAssumption
  <2>. QED
    BY <2>1, LineIntro
<1>6. ASSUME NEW j \in 0 .. FileLines[f] - 1
      PROVE  outcome'[<<f, j>>] # "pending" <=> j = k \/ outcome[<<f, j>>] # "pending"
  <2>1. <<f, j>> \in Line
    BY <1>1, <1>5
  <2>2. CASE j = k
    BY <1>4, <2>2
  <2>3. CASE j # k
    <3>1. <<f, j>> # <<f, k>>
      BY <2>3
    <3>. QED
      BY <1>4, <2>1, <2>3, <3>1
  <2>. QED
    BY <2>2, <2>3
<1>7. Judged(f)' = Judged(f) \union {k}
  BY <1>1, <1>6 DEF Judged
<1>8. ASSUME NEW g \in Files, g # f PROVE Judged(g)' = Judged(g)
  <2>1. ASSUME NEW j \in 0 .. FileLines[g] - 1 PROVE outcome'[<<g, j>>] = outcome[<<g, j>>]
    <3>1. <<g, j>> \in Line /\ <<g, j>> # <<f, k>>
      BY <1>5, <1>8
    <3>. QED
      BY <1>4, <3>1
  <2>. QED
    BY <2>1 DEF Judged
<1>9. Cardinality(Judged(f)') = Cardinality(Judged(f)) + 1 /\ Cardinality(Judged(f)) \in Nat
  BY <1>1, <1>7, JudgedType, FS_AddElement
<1>10. ASSUME NEW g \in Files
       PROVE  inserted'[g] + skipped'[g] + errored'[g] <= Cardinality(Judged(g)')
  <2>1. /\ inserted[g] \in Nat /\ skipped[g] \in Nat /\ errored[g] \in Nat
        /\ inserted[g] + skipped[g] + errored[g] <= Cardinality(Judged(g))
    BY <1>2 DEF VerdictsCounted
  <2>2. CASE g # f
    <3>1. inserted'[g] = inserted[g] /\ skipped'[g] = skipped[g] /\ errored'[g] = errored[g]
      BY <1>2, <1>3, <2>2
    <3>. QED
      BY <1>8, <2>1, <2>2, <3>1
  <2>3. CASE g = f
    <3>1. \/ inserted'[g] = inserted[g] + 1 /\ skipped'[g] = skipped[g] /\ errored'[g] = errored[g]
          \/ inserted'[g] = inserted[g] /\ skipped'[g] = skipped[g] + 1 /\ errored'[g] = errored[g]
          \/ inserted'[g] = inserted[g] /\ skipped'[g] = skipped[g] /\ errored'[g] = errored[g] + 1
          \/ inserted'[g] = inserted[g] /\ skipped'[g] = skipped[g] /\ errored'[g] = errored[g]
      BY <1>2, <1>3, <2>3
    <3>. DEFINE n == Cardinality(Judged(f))
                m == Cardinality(Judged(f)')
    <3>2. m = n + 1 /\ n \in Nat /\ inserted[g] + skipped[g] + errored[g] <= n
      BY <1>9, <2>1, <2>3
    <3>. HIDE DEF n, m
    <3>3. inserted'[g] + skipped'[g] + errored'[g] <= m
      BY <2>1, <3>1, <3>2
    <3>. QED
      BY <2>3, <3>3 DEF m
  <2>. QED
    BY <2>2, <2>3
<1>. QED
  BY <1>10 DEF VerdictsCounted

\* The workers' steps.
LEMMA WorkerProgress ==
  ASSUME ProgressInv, NEW w \in Workers, WorkerNext(w)
  PROVE  /\ Progress!Next \/ UNCHANGED Progress!progressVars
         /\ VerdictsCounted' /\ ReadInLimit'
<1>. USE DEF Progress!File, Files
<1>1. UNCHANGED <<globalDone, file, cpc, taskState, linesRead>>
  BY DEF WorkerNext, ReadLine, ReadEndOfStream, ReadCancelled, MapLine, MapFails, FilterRaid,
     FilterOther, WriteInserted, WriteQuarantined, WriteFails, WriteCancelled, consumerVars
<1>2. ReadInLimit'
  BY <1>1 DEF ProgressInv, ReadInLimit, Limit
<1>3. CASE ReadLine(w) \/ ReadEndOfStream(w) \/ ReadCancelled(w) \/ MapLine(w) \/ FilterRaid(w)
  <2>1. UNCHANGED <<inserted, skipped, errored, outcome>>
    BY <1>3 DEF ReadLine, ReadEndOfStream, ReadCancelled, MapLine, FilterRaid
  <2>2. VerdictsCounted'
    BY <2>1 DEF ProgressInv, VerdictsCounted, Judged
  <2>. QED
    BY <1>1, <1>2, <2>1, <2>2 DEF Progress!progressVars
<1>4. CASE MapFails(w) \/ FilterOther(w) \/ WriteInserted(w) \/ WriteQuarantined(w)
             \/ WriteFails(w) \/ WriteCancelled(w)
  <2>. DEFINE f == held[w][1]
  <2>1. held[w] \in Line
    BY <1>4, HeldIsLine DEF MapFails, FilterOther, WriteInserted, WriteQuarantined,
       WriteFails, WriteCancelled, ProgressInv, JobInv, LineInv
  <2>2. \E o \in Outcomes \ {"pending"} : outcome' = [outcome EXCEPT ![held[w]] = o]
    BY <1>4 DEF MapFails, FilterOther, WriteInserted, WriteQuarantined, WriteFails,
       WriteCancelled, Resolve, Outcomes
  <2>3. \/ WriteInserted(w) /\ inserted' = Bump(inserted, w) /\ UNCHANGED <<skipped, errored>>
        \/ FilterOther(w) /\ skipped' = Bump(skipped, w) /\ UNCHANGED <<inserted, errored>>
        \/ MapFails(w) /\ errored' = Bump(errored, w) /\ UNCHANGED <<inserted, skipped>>
        \/ UNCHANGED <<inserted, skipped, errored>>
    BY <1>4 DEF MapFails, FilterOther, WriteInserted, WriteQuarantined, WriteFails,
       WriteCancelled
  <2>4. VerdictsCounted'
    BY <2>1, <2>2, <2>3, VerdictCounts
  <2>5. f \in Files /\ f \in 1 .. NFiles
    BY <2>1, HeldHasRoom
  <2>6. Progress!Verdict(f)
    BY <2>1, HeldHasRoom DEF Progress!Verdict
  <2>7. CASE inserted' = Bump(inserted, w) /\ UNCHANGED <<skipped, errored>>
    <3>1. Progress!IncrementInserted(f)
      BY <1>1, <2>6, <2>7 DEF Progress!IncrementInserted, Bump
    <3>. QED
      BY <1>2, <2>4, <2>5, <3>1 DEF Progress!Next, Progress!TaskStep
  <2>8. CASE skipped' = Bump(skipped, w) /\ UNCHANGED <<inserted, errored>>
    <3>1. Progress!IncrementSkipped(f)
      BY <1>1, <2>6, <2>8 DEF Progress!IncrementSkipped, Bump
    <3>. QED
      BY <1>2, <2>4, <2>5, <3>1 DEF Progress!Next, Progress!TaskStep
  <2>9. CASE errored' = Bump(errored, w) /\ UNCHANGED <<inserted, skipped>>
    <3>1. Progress!IncrementErrors(f)
      BY <1>1, <2>6, <2>9 DEF Progress!IncrementErrors, Bump
    <3>. QED
      BY <1>2, <2>4, <2>5, <3>1 DEF Progress!Next, Progress!TaskStep
  <2>10. CASE UNCHANGED <<inserted, skipped, errored>>
    BY <1>1, <1>2, <2>4, <2>10 DEF Progress!progressVars
  <2>. QED
    BY <2>3, <2>7, <2>8, <2>9, <2>10
<1>. QED
  BY <1>3, <1>4 DEF WorkerNext

LEMMA OtherProgress ==
  ASSUME ProgressInv, OtherNext \/ UNCHANGED vars
  PROVE  /\ Progress!Next \/ UNCHANGED Progress!progressVars
         /\ VerdictsCounted' /\ ReadInLimit'
<1>1. /\ UNCHANGED <<consumerVars, workerVars>>
      /\ globalDone' = TRUE \/ globalDone' = globalDone
  BY DEF OtherNext, Signal, PressQuit, TuiQuits, TuiKilled, TuiFails, MainReturns, Exited, vars
<1>2. UNCHANGED <<taskState, linesRead, file, cpc, inserted, skipped, errored, outcome>>
  BY <1>1 DEF consumerVars, workerVars
<1>3. VerdictsCounted' /\ ReadInLimit'
  BY <1>2 DEF ProgressInv, VerdictsCounted, Judged, ReadInLimit, Limit
<1>. QED
  BY <1>1, <1>2, <1>3 DEF Progress!Next, Progress!Cancel, Progress!progressVars

LEMMA ProgressStarts == Init => ProgressInv /\ Progress!Init
<1>. SUFFICES ASSUME Init PROVE ProgressInv /\ Progress!Init
  OBVIOUS
<1>1. JobInv
  BY InitJobInv
<1>2. VerdictsCounted
  BY JudgedType DEF Init, VerdictsCounted
<1>3. ReadInLimit
  BY LimitType DEF Init, ReadInLimit, Files
<1>. QED
  BY <1>1, <1>2, <1>3 DEF ProgressInv, Init, Progress!Init, Progress!File, Files

LEMMA StepProgress ==
  ProgressInv /\ [Next]_vars =>
    /\ ProgressInv'
    /\ [Progress!Next]_(Progress!progressVars)
<1>. SUFFICES ASSUME ProgressInv, [Next]_vars
              PROVE  /\ Progress!Next \/ UNCHANGED Progress!progressVars
                     /\ ProgressInv'
  OBVIOUS
<1>1. JobInv'
  BY NextJobInv DEF ProgressInv
<1>2. CASE ConsumerNext
  BY <1>1, <1>2, ConsumerProgress DEF ProgressInv
<1>3. ASSUME NEW w \in Workers, WorkerNext(w)
      PROVE  (Progress!Next \/ UNCHANGED Progress!progressVars) /\ ProgressInv'
  BY <1>1, <1>3, WorkerProgress DEF ProgressInv
<1>4. CASE OtherNext \/ UNCHANGED vars
  BY <1>1, <1>4, OtherProgress DEF ProgressInv
<1>. QED
  BY <1>2, <1>3, <1>4 DEF Next, OtherNext

\* The job implements the progress of its tasks, for any files, workers and flags: what
\* the screen makes of the counters may rest on TaskProgress alone.
THEOREM JobImplementsProgress == Spec => ImplementsProgress
BY ProgressStarts, StepProgress, PTL DEF Spec, ImplementsProgress, Progress!Spec

-----------------------------------------------------------------------------
(***************************************************************************)
(* Paths.  A path and its proper prefixes.                                 *)
(***************************************************************************)
UpTo(p) == {SubSeq(p, 1, n) : n \in 0 .. Len(p)}

LEMMA UpToIs ==
  ASSUME NEW S, NEW p \in Seq(S)
  PROVE  UpTo(p) = Above(p) \union {p}
<1>1. SubSeq(p, 1, Len(p)) = p
  BY SubSeqFull
<1>2. Len(p) \in Nat /\ 0 .. Len(p) = (0 .. Len(p) - 1) \union {Len(p)}
  OBVIOUS
<1> QED
  BY <1>1, <1>2 DEF UpTo, Above

LEMMA PrefixOf ==
  ASSUME NEW S, NEW p \in Seq(S), NEW n \in 0 .. Len(p)
  PROVE  /\ SubSeq(p, 1, n) \in Seq(S) /\ Len(SubSeq(p, 1, n)) = n
         /\ \A i \in 1 .. n : SubSeq(p, 1, n)[i] = p[i]
<1>1. \A i \in 1 .. n : p[i] \in S
  OBVIOUS
<1>2. 1 \in Int /\ n \in Int /\ n - 1 + 1 = n
  OBVIOUS
<1> QED
  BY <1>1, <1>2, SubSeqProperties

\* A prefix of a prefix is a prefix.
LEMMA PrefixOfPrefix ==
  ASSUME NEW S, NEW p \in Seq(S), NEW n \in 0 .. Len(p), NEW k \in 0 .. n
  PROVE  SubSeq(SubSeq(p, 1, n), 1, k) = SubSeq(p, 1, k)
<1> DEFINE q == SubSeq(p, 1, n)
<1>1. q \in Seq(S) /\ Len(q) = n /\ \A i \in 1 .. n : q[i] = p[i]
  BY PrefixOf
<1>2. k \in 0 .. Len(p)
  OBVIOUS
<1> HIDE DEF q
<1>3. /\ SubSeq(q, 1, k) \in Seq(S) /\ Len(SubSeq(q, 1, k)) = k
      /\ \A i \in 1 .. k : SubSeq(q, 1, k)[i] = q[i]
  BY <1>1, PrefixOf
<1>4. /\ SubSeq(p, 1, k) \in Seq(S) /\ Len(SubSeq(p, 1, k)) = k
      /\ \A i \in 1 .. k : SubSeq(p, 1, k)[i] = p[i]
  BY <1>2, PrefixOf
<1>5. SubSeq(q, 1, k) = SubSeq(p, 1, k)
  BY <1>1, <1>3, <1>4
<1> QED
  BY <1>5 DEF q

LEMMA UpToTransitive ==
  ASSUME NEW S, NEW p \in Seq(S), NEW q \in UpTo(p)
  PROVE  q \in Seq(S) /\ UpTo(q) \subseteq UpTo(p) /\ Above(q) \subseteq Above(p)
<1>1. PICK n \in 0 .. Len(p) : q = SubSeq(p, 1, n)
  BY DEF UpTo
<1>2. q \in Seq(S) /\ Len(q) = n
  BY <1>1, PrefixOf
<1>3. \A k \in 0 .. n : SubSeq(q, 1, k) = SubSeq(p, 1, k)
  BY <1>1, PrefixOfPrefix
<1>4. n \in Nat /\ Len(p) \in Nat /\ n <= Len(p)
  OBVIOUS
<1> QED
  BY <1>2, <1>3, <1>4 DEF UpTo, Above

\* What is above a path is what its directory and those above it are.
LEMMA AboveChild ==
  ASSUME NEW S, NEW p \in Seq(S), p # <<>>
  PROVE  Front(p) \in Seq(S) /\ Above(p) = UpTo(Front(p)) /\ p \notin UpTo(Front(p))
<1>1. Len(p) \in Nat \ {0}
  OBVIOUS
<1> DEFINE m == Len(p) - 1
           f == SubSeq(p, 1, m)
<1>2. m \in 0 .. Len(p)
  BY <1>1
<1>3. f \in Seq(S) /\ Len(f) = m /\ Front(p) = f
  BY <1>2, PrefixOf DEF Front
<1>4. \A k \in 0 .. m : SubSeq(f, 1, k) = SubSeq(p, 1, k) /\ Len(SubSeq(f, 1, k)) = k
  BY <1>2, <1>3, PrefixOfPrefix, PrefixOf
<1> HIDE DEF f
<1>5. Above(p) = UpTo(f)
  BY <1>3, <1>4 DEF Above, UpTo
<1>6. p \notin UpTo(f)
  BY <1>1, <1>3, <1>4 DEF UpTo
<1> QED
  BY <1>3, <1>5, <1>6

\* The way down from a directory to what lies below it leads through one of its entries.
LEMMA WayDown ==
  ASSUME NEW S, NEW x \in Seq(S), NEW p \in Above(x)
  PROVE  \E q \in UpTo(x) : q # <<>> /\ Front(q) = p
<1>1. PICK n \in 0 .. Len(x) - 1 : p = SubSeq(x, 1, n)
  BY DEF Above
<1> DEFINE q == SubSeq(x, 1, n + 1)
<1>2. n + 1 \in 0 .. Len(x) /\ n \in 0 .. n + 1 /\ (n + 1) - 1 = n
  BY <1>1
<1>3. q \in Seq(S) /\ Len(q) = n + 1
  BY <1>2, PrefixOf
<1>4. SubSeq(q, 1, n) = p
  BY <1>1, <1>2, PrefixOfPrefix
<1>5. q \in UpTo(x)
  BY <1>2 DEF UpTo
<1> HIDE DEF q
<1>6. q # <<>> /\ Front(q) = p
  BY <1>2, <1>3, <1>4 DEF Front
<1> QED
  BY <1>5, <1>6

\* Nothing is above the root, and the root is above all else.
LEMMA RootAbove ==
  ASSUME NEW S, NEW x \in Seq(S)
  PROVE  <<>> \in UpTo(x) /\ Above(<<>>) = {}
<1>1. SubSeq(x, 1, 0) = <<>> /\ 0 \in 0 .. Len(x)
  BY SubSeqEmpty
<1>2. Len(<<>>) = 0 /\ 0 .. 0 - 1 = {}
  OBVIOUS
<1> QED
  BY <1>1, <1>2 DEF UpTo, Above

-----------------------------------------------------------------------------
(***************************************************************************)
(* The walk.  Of every file that is wanted, and of every directory that    *)
(* cannot be read, either the walk has had it or it still lies below a     *)
(* path that the walk will come to; and of no file both.                   *)
(***************************************************************************)
Due(x) == \E q \in todo : q \in UpTo(x)

Doomed == Unreadable # {} \/ (tree.pattern = "invalid" /\ Datasets # {})

Ahead ==
  /\ todo \subseteq tree.paths
  /\ \A p \in todo : Visible(p)
  /\ \A p, q \in todo : q \notin Above(p)

Had ==
  /\ found \in Seq(Wanted)
  /\ \A i, j \in DOMAIN found : found[i] = found[j] => i = j
  /\ \A x \in ToSet(found) : ~Due(x)

NotMissed ==
  /\ \A x \in Wanted : x \in ToSet(found) \/ Due(x)
  /\ \A x \in Unreadable : Due(x)
  /\ tree.pattern = "invalid" => \A x \in Datasets : Due(x)

WalkInv ==
  /\ tree \in Trees
  /\ walk \in {"walking", "ok", "error", "panic"}
  /\ walk = "walking" => Ahead /\ Had /\ NotMissed /\ index = <<>>
  /\ walk \in {"error", "panic"} => Doomed /\ index = <<>>
  /\ walk = "ok" => /\ ~Doomed
                    /\ Len(index) = Cardinality(Wanted) /\ ToSet(index) = Wanted /\ InOrder(index)

\* What the tree says of a path.
LEMMA PathsAre ==
  ASSUME tree \in Trees, NEW p \in tree.paths
  PROVE  /\ p \in Seq(ToSet(p))
         /\ UpTo(p) = Above(p) \union {p} /\ UpTo(p) \subseteq tree.paths
         /\ Above(p) \subseteq tree.dirs
<1>1. p \in Seq(ToSet(p)) /\ Above(p) \subseteq tree.dirs /\ tree.dirs \subseteq tree.paths
  BY TreesAssumption DEF IsTree
<1>2. UpTo(p) = Above(p) \union {p}
  BY <1>1, UpToIs
<1> QED
  BY <1>1, <1>2

\* The tree stays, and with it what is wanted of it.
LEMMA TreeStays ==
  ASSUME tree' = tree
  PROVE  /\ Wanted' = Wanted /\ Datasets' = Datasets /\ Unreadable' = Unreadable
         /\ Doomed' = Doomed
         /\ \A p : Visible(p)' = Visible(p) /\ Skipped(p)' = Skipped(p)
BY DEF Wanted, Datasets, Unreadable, Doomed, Visible, Skipped, WithPattern

LEMMA WalkStarts == ASSUME WalkInit PROVE WalkInv
<1>1. /\ tree \in Trees /\ todo = {<<>>} /\ found = <<>> /\ walk = "walking" /\ index = <<>>
  BY DEF WalkInit
<1>2. <<>> \in tree.paths
  BY <1>1, TreesAssumption DEF IsTree
<1>3. Above(<<>>) = {}
  BY <1>1, <1>2, PathsAre, RootAbove
<1>4. Ahead
  BY <1>1, <1>2, <1>3 DEF Ahead, Visible
<1>5. \A x \in tree.paths : Due(x)
  <2> SUFFICES ASSUME NEW x \in tree.paths PROVE <<>> \in UpTo(x)
    BY <1>1 DEF Due
  <2> QED
    BY <1>1, PathsAre, RootAbove
<1>6. found \in Seq(Wanted) /\ DOMAIN found = {} /\ ToSet(found) = {}
  BY <1>1 DEF ToSet
<1>7. Wanted \subseteq tree.paths /\ Datasets \subseteq tree.paths /\ Unreadable \subseteq tree.paths
  BY <1>1, TreesAssumption DEF Wanted, Datasets, Unreadable, IsTree
<1> QED
  BY <1>1, <1>4, <1>5, <1>6, <1>7 DEF WalkInv, Had, NotMissed

-----------------------------------------------------------------------------
\* A file: what lies ahead of the walk is less by that file.
LEMMA FileVisited ==
  ASSUME WalkInv, NEW p \in todo, VisitFile(p)
  PROVE  WalkInv'
<1>1. /\ tree \in Trees /\ walk = "walking" /\ Ahead /\ Had /\ NotMissed /\ index = <<>>
      /\ p \in tree.paths \ tree.dirs /\ Visible(p)
  BY DEF VisitFile, WalkInv, Ahead
<1>2. /\ todo' = todo \ {p} /\ tree' = tree /\ index' = index
  BY DEF VisitFile
<1>3. Wanted' = Wanted /\ Datasets' = Datasets /\ Unreadable' = Unreadable /\ Doomed' = Doomed
  BY <1>2, TreeStays
<1>4. Last(p).zst => p \in Datasets
  BY <1>1 DEF Datasets
<1>5. CASE Last(p).zst /\ tree.pattern = "invalid"
  <2>1. walk' = "panic"
    BY <1>5 DEF VisitFile
  <2>2. Doomed
    BY <1>4, <1>5 DEF Doomed
  <2> QED
    BY <1>1, <1>2, <1>3, <2>1, <2>2 DEF WalkInv
<1>6. Ahead'
  <2>1. \A q \in todo' : q \in tree.paths' /\ Visible(q)'
    BY <1>1, <1>2, TreeStays DEF Ahead
  <2>2. \A q, s \in todo' : s \notin Above(q)
    BY <1>1, <1>2 DEF Ahead
  <2> QED
    BY <2>1, <2>2 DEF Ahead
  \* Nothing but the file itself was due because of it.
<1>7. ASSUME NEW x \in tree.paths, x # p, Due(x) PROVE Due(x)'
  <2>1. PICK q \in todo : q \in UpTo(x)
    BY <1>7 DEF Due
  <2>2. q # p
    BY <1>1, <1>7, <2>1, PathsAre
  <2> QED
    BY <1>2, <2>1, <2>2 DEF Due
<1>8. ASSUME NEW x, Due(x)' PROVE Due(x)
  BY <1>2, <1>8 DEF Due
<1>9. Wanted \subseteq tree.paths /\ Datasets \subseteq tree.paths /\ Unreadable \subseteq tree.dirs
      /\ tree.dirs \subseteq tree.paths
  BY <1>1, TreesAssumption DEF Wanted, Datasets, Unreadable, IsTree
<1>10. \A x \in Unreadable : Due(x)'
  BY <1>1, <1>7, <1>9 DEF NotMissed
<1>11. CASE Last(p).zst /\ tree.pattern # "invalid" /\ WithPattern(Last(p))
  <2>1. walk' = walk /\ found' = Append(found, p)
    BY <1>11 DEF VisitFile
  <2>2. p \in Wanted
    BY <1>4, <1>11 DEF Wanted
  <2>3. found \in Seq(Wanted)
    BY <1>1 DEF Had
  <2>4. /\ found' \in Seq(Wanted) /\ DOMAIN found' = DOMAIN found \union {Len(found) + 1}
        /\ Len(found) + 1 \notin DOMAIN found
        /\ found'[Len(found) + 1] = p /\ \A i \in DOMAIN found : found'[i] = found[i]
    BY <2>1, <2>2, <2>3
  <2>5. ToSet(found') = ToSet(found) \union {p}
    BY <2>4 DEF ToSet
  <2>6. p \notin ToSet(found)
    <3>1. Due(p)
      BY <1>1, PathsAre DEF Due
    <3> QED
      BY <1>1, <3>1 DEF Had
  <2>7. \A i, j \in DOMAIN found' : found'[i] = found'[j] => i = j
    <3>1. \A i \in DOMAIN found : found[i] # p
      BY <2>6 DEF ToSet
    <3> QED
      BY <1>1, <2>4, <3>1 DEF Had
  <2>8. ~Due(p)'
    <3> SUFFICES ASSUME NEW q \in todo \ {p}, q \in UpTo(p) PROVE FALSE
      BY <1>2 DEF Due
    <3> QED
      BY <1>1, PathsAre DEF Ahead
  <2>9. Had'
    <3>1. \A x \in ToSet(found') : ~Due(x)'
      BY <1>1, <1>8, <2>5, <2>8 DEF Had
    <3>2. (found \in Seq(Wanted))'
      BY <1>3, <2>4
    <3>3. (\A i, j \in DOMAIN found : found[i] = found[j] => i = j)'
      BY <2>7
    <3>4. (\A x \in ToSet(found) : ~Due(x))'
      BY <3>1
    <3> QED
      BY <3>2, <3>3, <3>4 DEF Had
  <2>10. NotMissed'
    <3>1. \A x \in Wanted : x \in ToSet(found') \/ Due(x)'
      BY <1>1, <1>7, <1>9, <2>5 DEF NotMissed
    <3>2. (\A x \in Wanted : x \in ToSet(found) \/ Due(x))'
      BY <1>3, <3>1
    <3>3. (\A x \in Unreadable : Due(x))'
      BY <1>3, <1>10
    <3>4. tree'.pattern # "invalid"
      BY <1>2, <1>11
    <3> QED
      BY <3>2, <3>3, <3>4 DEF NotMissed
  <2> QED
    BY <1>1, <1>2, <1>6, <2>1, <2>9, <2>10 DEF WalkInv
<1>12. CASE ~Last(p).zst \/ (tree.pattern # "invalid" /\ ~WithPattern(Last(p)))
  <2>1. walk' = walk /\ found' = found
    BY <1>12 DEF VisitFile
  <2>2. p \notin Wanted /\ (tree.pattern = "invalid" => p \notin Datasets)
    BY <1>12 DEF Wanted, Datasets
  <2>3. Had'
    <3>1. \A x \in ToSet(found') : ~Due(x)'
      BY <1>1, <1>8, <2>1 DEF Had
    <3>2. (found \in Seq(Wanted))'
      BY <1>1, <1>3, <2>1 DEF Had
    <3>3. (\A i, j \in DOMAIN found : found[i] = found[j] => i = j)'
      BY <1>1, <2>1 DEF Had
    <3>4. (\A x \in ToSet(found) : ~Due(x))'
      BY <3>1
    <3> QED
      BY <3>2, <3>3, <3>4 DEF Had
  <2>4. NotMissed'
    <3>1. \A x \in Wanted : x \in ToSet(found') \/ Due(x)'
      BY <1>1, <1>7, <1>9, <2>1, <2>2 DEF NotMissed
    <3>2. (\A x \in Wanted : x \in ToSet(found) \/ Due(x))'
      BY <1>3, <3>1
    <3>3. (\A x \in Unreadable : Due(x))'
      BY <1>3, <1>10
    <3>4. tree.pattern = "invalid" => \A x \in Datasets : Due(x)'
      BY <1>1, <1>7, <1>9, <2>2 DEF NotMissed
    <3>5. (tree.pattern = "invalid" => \A x \in Datasets : Due(x))'
      BY <1>2, <1>3, <3>4
    <3> QED
      BY <3>2, <3>3, <3>5 DEF NotMissed
  <2> QED
    BY <1>1, <1>2, <1>6, <2>1, <2>3, <2>4 DEF WalkInv
<1>13. Last(p).zst \/ ~Last(p).zst
  OBVIOUS
<1> QED
  BY <1>5, <1>11, <1>12, <1>13

\* A directory: its entries take its place.
LEMMA DirVisited ==
  ASSUME WalkInv, NEW p \in todo, VisitDir(p)
  PROVE  WalkInv'
<1> DEFINE new == IF Skipped(p) \/ p \in tree.broken THEN {} ELSE Children(p)
<1>1. /\ tree \in Trees /\ walk = "walking" /\ Ahead /\ Had /\ NotMissed /\ index = <<>>
      /\ p \in tree.dirs /\ p \in tree.paths /\ Visible(p)
  BY DEF VisitDir, WalkInv, Ahead
<1>2. todo' = (todo \ {p}) \union new /\ tree' = tree /\ index' = index /\ found' = found
  BY DEF VisitDir
<1>3. Wanted' = Wanted /\ Datasets' = Datasets /\ Unreadable' = Unreadable /\ Doomed' = Doomed
  BY <1>2, TreeStays
<1>4. CASE ~Skipped(p) /\ p \in tree.broken
  <2>1. walk' = "error"
    BY <1>4 DEF VisitDir
  <2>2. p \in Unreadable
    BY <1>1, <1>4 DEF Unreadable
  <2> QED
    BY <1>1, <1>2, <1>3, <2>1, <2>2 DEF WalkInv, Doomed
<1>5. CASE Skipped(p) \/ p \notin tree.broken
  <2>1. walk' = walk
    BY <1>5 DEF VisitDir
  <2>2. Wanted \subseteq Datasets /\ Datasets \subseteq tree.paths \ tree.dirs /\ Unreadable \subseteq tree.paths
    BY <1>1, TreesAssumption DEF Wanted, Datasets, Unreadable, IsTree
  \* The entries lie below the directory, and the walk may come to them.
  <2>3. ASSUME NEW c \in new
        PROVE  /\ c \in tree.paths /\ Above(c) = UpTo(p) /\ c \notin UpTo(p)
               /\ UpTo(c) = UpTo(p) \union {c} /\ ~Skipped(p)
    <3>1. c \in tree.paths /\ c # <<>> /\ Front(c) = p /\ ~Skipped(p)
      BY DEF Children
    <3>2. c \in Seq(ToSet(c)) /\ UpTo(c) = Above(c) \union {c}
      BY <1>1, <3>1, PathsAre
    <3> QED
      BY <3>1, <3>2, AboveChild
  <2>4. UpTo(p) = Above(p) \union {p}
    BY <1>1, PathsAre
  <2> HIDE DEF new
  <2>5. Ahead'
    <3>1. ASSUME NEW q \in todo' PROVE q \in tree.paths /\ Visible(q)
      <4>1. CASE q \in todo
        BY <1>1, <4>1 DEF Ahead
      <4>2. CASE q \in new
        BY <1>1, <2>3, <2>4, <4>2 DEF Visible
      <4> QED
        BY <1>2, <4>1, <4>2
    <3>2. ASSUME NEW q \in todo', NEW s \in todo' PROVE s \notin Above(q)
      <4>1. CASE q \in todo \ {p} /\ s \in todo
        BY <1>1, <4>1 DEF Ahead
      <4>2. CASE q \in todo \ {p} /\ s \in new
        <5>1. s \in Above(q) => p \in Above(q)
          <6> SUFFICES ASSUME s \in Above(q) PROVE p \in Above(q)
            OBVIOUS
          <6>1. q \in Seq(ToSet(q)) /\ Above(q) \subseteq UpTo(q)
            BY <1>1, <4>2, PathsAre DEF Ahead
          <6>2. Above(s) \subseteq Above(q)
            BY <6>1, UpToTransitive
          <6> QED
            BY <2>3, <2>4, <4>2, <6>2
        <5> QED
          BY <1>1, <4>2, <5>1 DEF Ahead
      <4>3. CASE q \in new /\ s \in todo \ {p}
        BY <1>1, <2>3, <2>4, <4>3 DEF Ahead
      <4>4. CASE q \in new /\ s \in new
        BY <2>3, <4>4
      <4> QED
        BY <1>2, <4>1, <4>2, <4>3, <4>4
    <3>3. (todo \subseteq tree.paths)' /\ (\A q \in todo : Visible(q))'
      BY <1>2, <3>1, TreeStays
    <3>4. (\A q, s \in todo : s \notin Above(q))'
      BY <3>2
    <3> QED
      BY <3>3, <3>4 DEF Ahead
  \* What was due below the directory is due below an entry of it.
  <2>6. ASSUME NEW x \in tree.paths, Due(x), x # p,
               p \in Above(x) => ~Skipped(p)
        PROVE  Due(x)'
    <3>1. PICK q \in todo : q \in UpTo(x)
      BY <2>6 DEF Due
    <3>2. CASE q # p
      BY <1>2, <3>1, <3>2 DEF Due
    <3>3. CASE q = p
      <4>1. x \in Seq(ToSet(x)) /\ p \in Above(x) /\ UpTo(x) \subseteq tree.paths
        BY <1>1, <2>6, <3>1, <3>3, PathsAre
      <4>2. PICK c \in UpTo(x) : c # <<>> /\ Front(c) = p
        BY <4>1, WayDown
      <4>3. c \in new
        BY <1>5, <2>6, <4>1, <4>2 DEF new, Children
      <4> QED
        BY <1>2, <4>2, <4>3 DEF Due
    <3> QED
      BY <3>2, <3>3
  <2>7. ASSUME NEW x \in tree.paths, Due(x)' PROVE Due(x)
    <3>1. PICK q \in todo' : q \in UpTo(x)
      BY <2>7 DEF Due
    <3>2. CASE q \in todo
      BY <3>1, <3>2 DEF Due
    <3>3. CASE q \in new
      <4>1. x \in Seq(ToSet(x))
        BY <1>1, PathsAre
      <4>2. UpTo(q) \subseteq UpTo(x)
        BY <3>1, <4>1, UpToTransitive
      <4> QED
        BY <2>3, <2>4, <3>3, <4>2 DEF Due
    <3> QED
      BY <1>2, <3>1, <3>2, <3>3
  <2>8. Had'
    <3>1. \A x \in ToSet(found) : x \in tree.paths
      BY <1>1, <2>2 DEF Had, ToSet
    <3>2. \A x \in ToSet(found) : ~Due(x)'
      BY <1>1, <2>7, <3>1 DEF Had
    <3>3. (found \in Seq(Wanted))' /\ (\A i, j \in DOMAIN found : found[i] = found[j] => i = j)'
      BY <1>1, <1>2, <1>3 DEF Had
    <3>4. (\A x \in ToSet(found) : ~Due(x))'
      BY <1>2, <3>2
    <3> QED
      BY <3>3, <3>4 DEF Had
  \* No file is the directory, and what lies below a skipped one is not visible.
  <2>9. ASSUME NEW x \in tree.paths, Visible(x), Due(x), x # p PROVE Due(x)'
    <3>1. p \in Above(x) => ~Skipped(p)
      BY <2>9 DEF Visible
    <3> QED
      BY <2>6, <2>9, <3>1
  <2>10. NotMissed'
    <3>1. \A x \in Datasets : x \in tree.paths /\ Visible(x) /\ x # p
      BY <1>1 DEF Datasets
    <3>2. \A x \in Unreadable : x \in tree.paths /\ Visible(x) /\ x # p
      BY <1>5, <2>2 DEF Unreadable
    <3>3. \A x \in Wanted : x \in ToSet(found) \/ Due(x)'
      BY <1>1, <2>2, <2>9, <3>1 DEF NotMissed
    <3>4. \A x \in Unreadable : Due(x)'
      BY <1>1, <2>9, <3>2 DEF NotMissed
    <3>5. tree.pattern = "invalid" => \A x \in Datasets : Due(x)'
      BY <1>1, <2>9, <3>1 DEF NotMissed
    <3>6. (\A x \in Wanted : x \in ToSet(found) \/ Due(x))'
      BY <1>2, <1>3, <3>3
    <3>7. (\A x \in Unreadable : Due(x))'
      BY <1>3, <3>4
    <3>8. (tree.pattern = "invalid" => \A x \in Datasets : Due(x))'
      BY <1>2, <1>3, <3>5
    <3> QED
      BY <3>6, <3>7, <3>8 DEF NotMissed
  <2> QED
    BY <1>1, <1>2, <2>1, <2>5, <2>8, <2>10 DEF WalkInv
<1> QED
  BY <1>4, <1>5

\* The walk returns: nothing is due any more.
LEMMA WalkOver == ASSUME WalkInv, WalkReturns PROVE WalkInv'
<1>1. /\ tree \in Trees /\ walk = "walking" /\ todo = {} /\ Had /\ NotMissed
      /\ tree' = tree /\ walk' = "ok"
  BY DEF WalkReturns, WalkInv
<1>2. PICK s \in [DOMAIN found -> ToSet(found)] :
        ToSet(s) = ToSet(found) /\ InOrder(s) /\ index' = s
  BY DEF WalkReturns
<1>3. \A x : ~Due(x)
  BY <1>1 DEF Due
<1>4. ~Doomed /\ ToSet(found) = Wanted
  <2>1. found \in Seq(Wanted)
    BY <1>1 DEF Had
  <2>2. ToSet(found) \subseteq Wanted
    BY <2>1 DEF ToSet
  <2> QED
    BY <1>1, <1>3, <2>2 DEF NotMissed, Doomed
<1>5. Len(s) = Cardinality(Wanted)
  <2>1. found \in Seq(Wanted) /\ \A i, j \in DOMAIN found : found[i] = found[j] => i = j
    BY <1>1 DEF Had
  <2>2. DOMAIN found = 1 .. Len(found) /\ Len(found) \in Nat
    BY <2>1
  <2>3. Len(s) = Len(found)
    BY <1>2, <2>2
  <2>4. found \in Bijection(1 .. Len(found), Wanted)
    <3>1. found \in [1 .. Len(found) -> Wanted]
      BY <2>1
    <3>2. \A x \in Wanted : \E i \in 1 .. Len(found) : found[i] = x
      BY <1>4, <2>2 DEF ToSet
    <3> QED
      BY <2>1, <2>2, <3>1, <3>2 DEF Bijection, Injection, Surjection, IsInjective
  <2>5. IsFiniteSet(1 .. Len(found)) /\ Cardinality(1 .. Len(found)) = Len(found)
    <3>1. 1 \in Int /\ Len(found) \in Int
      BY <2>2
    <3>2. IsFiniteSet(1 .. Len(found))
          /\ Cardinality(1 .. Len(found)) = IF 1 > Len(found) THEN 0 ELSE Len(found) - 1 + 1
      BY <3>1, FS_Interval
    <3> QED
      BY <2>2, <3>2
  <2>6. Cardinality(Wanted) = Cardinality(1 .. Len(found))
    BY <2>4, <2>5, FS_Bijection DEF ExistsBijection
  <2> QED
    BY <2>3, <2>5, <2>6
<1>6. Wanted' = Wanted /\ Doomed' = Doomed
  BY <1>1, TreeStays
<1>7. InOrder(index)'
  BY <1>2 DEF InOrder
<1> QED
  BY <1>1, <1>2, <1>4, <1>5, <1>6, <1>7 DEF WalkInv

LEMMA WalkStays == ASSUME WalkInv, UNCHANGED walkVars PROVE WalkInv'
BY DEF walkVars, WalkInv, Ahead, Had, NotMissed, Due, Doomed, Unreadable, Datasets, Wanted,
       Visible, Skipped, WithPattern, InOrder

\* The index is complete for every tree of any depth: every visible dataset file that
\* matches is in it once, and if something could not be read there is no index.
THEOREM WalkIsComplete == WalkSpec => []IndexComplete
<1>1. WalkInv => IndexComplete
  BY DEF WalkInv, IndexComplete, Doomed
<1>2. WalkInv /\ [WalkNext]_walkVars => WalkInv'
  BY FileVisited, DirVisited, WalkOver, WalkStays DEF WalkNext
<1>3. WalkInit => WalkInv
  BY WalkStarts
<1> QED
  BY <1>1, <1>2, <1>3, PTL DEF WalkSpec
=============================================================================
