--------------------------- MODULE DashboardProofs ---------------------------
(***************************************************************************)
(* Proofs about Dashboard, for every number and length of files and every  *)
(* size of the log: the screen's log is the end of what was logged, and a  *)
(* row that says Finished is full although it is read field by field.      *)
(***************************************************************************)
EXTENDS Dashboard, FiniteSetTheorems, TLAPS

LogProofs == INSTANCE RingBufferProofs WITH
               Size <- LogSize, Zero <- ZeroEntry, Entry <- {"start", "error", "stopped"} \X File

-----------------------------------------------------------------------------
(***************************************************************************)
(* The tasks.  A finished task has all its lines unless the job was        *)
(* cancelled, and no step of the job takes that away.                      *)
(***************************************************************************)
TaskTypes ==
  /\ taskState \in [File -> {"absent", "started", "errored", "finished"}]
  /\ linesRead \in [File -> Nat]
  /\ inserted \in [File -> Nat] /\ skipped \in [File -> Nat] /\ errored \in [File -> Nat]

FinishedIsFull == \A f \in File : taskState[f] = "finished" => linesRead[f] = LinesOf[f] \/ cancelled

TaskInv == TaskTypes /\ FinishedIsFull

\* What a step of the job leaves: what is finished stays so, and so does a cancellation.
Kept ==
  /\ TaskInv'
  /\ \A f \in File : taskState[f] = "finished" => taskState'[f] = "finished"
  /\ cancelled => cancelled'

LEMMA TasksStart == ASSUME Init PROVE TaskInv
BY LinesAssumption DEF Init, TaskInv, TaskTypes, FinishedIsFull

LEMMA TasksKept == ASSUME TaskInv, [Next]_progressVars PROVE Kept
<1> USE DEF TaskInv, TaskTypes, FinishedIsFull, Kept
<1>1. CASE Cancel
  BY <1>1 DEF Cancel
<1>2. CASE UNCHANGED progressVars
  BY <1>2 DEF progressVars
<1>3. ASSUME NEW f \in File, TaskStep(f) PROVE Kept
  <2>1. CASE StartTask(f)
    BY <2>1 DEF StartTask
  <2>2. CASE SetFinished(f)
    BY <2>2 DEF SetFinished
  <2>3. CASE SetErrored(f)
    BY <2>3 DEF SetErrored
  <2>4. CASE IncrementLinesRead(f)
    BY <2>4 DEF IncrementLinesRead
  <2>5. CASE IncrementInserted(f) \/ IncrementSkipped(f) \/ IncrementErrors(f)
    BY <2>5 DEF IncrementInserted, IncrementSkipped, IncrementErrors
  <2> QED
    BY <1>3, <2>1, <2>2, <2>3, <2>4, <2>5 DEF TaskStep
<1> QED
  BY <1>1, <1>2, <1>3 DEF Next

LEMMA JobStepsAreTaskSteps == ASSUME JobStep PROVE [Next]_progressVars
BY DEF JobStep, Next, TaskStep

-----------------------------------------------------------------------------
(***************************************************************************)
(* The snapshot.  The number of fields that it has loaded says which they  *)
(* are, because they are loaded in a fixed order.                          *)
(***************************************************************************)
\* The fields loaded after n loads.
FirstFields(n) == {Fields[i] : i \in 1 .. n}

LEMMA FieldsCounted == ASSUME NEW n \in 0 .. 5 PROVE Cardinality(FirstFields(n)) = n
<1>1. FirstFields(0) = {}
  BY DEF FirstFields
<1>2. FirstFields(1) = FirstFields(0) \union {"state"}
  BY DEF FirstFields, Fields
<1>3. FirstFields(2) = FirstFields(1) \union {"read"}
  BY DEF FirstFields, Fields
<1>4. FirstFields(3) = FirstFields(2) \union {"inserted"}
  BY DEF FirstFields, Fields
<1>5. FirstFields(4) = FirstFields(3) \union {"skipped"}
  BY DEF FirstFields, Fields
<1>6. FirstFields(5) = FirstFields(4) \union {"errored"}
  BY DEF FirstFields, Fields
<1>7. IsFiniteSet(FirstFields(0)) /\ Cardinality(FirstFields(0)) = 0
  BY <1>1, FS_EmptySet
<1>8. IsFiniteSet(FirstFields(1)) /\ Cardinality(FirstFields(1)) = 1
  BY <1>1, <1>2, <1>7, FS_AddElement
<1>9. IsFiniteSet(FirstFields(2)) /\ Cardinality(FirstFields(2)) = 2
  BY <1>1, <1>2, <1>3, <1>8, FS_AddElement
<1>10. IsFiniteSet(FirstFields(3)) /\ Cardinality(FirstFields(3)) = 3
  BY <1>1, <1>2, <1>3, <1>4, <1>9, FS_AddElement
<1>11. IsFiniteSet(FirstFields(4)) /\ Cardinality(FirstFields(4)) = 4
  <2>1. "skipped" \notin FirstFields(3)
    BY <1>1, <1>2, <1>3, <1>4
  <2> QED
    BY <2>1, <1>5, <1>10, FS_AddElement
<1>12. IsFiniteSet(FirstFields(5)) /\ Cardinality(FirstFields(5)) = 5
  <2>1. "errored" \notin FirstFields(4)
    BY <1>1, <1>2, <1>3, <1>4, <1>5
  <2> QED
    BY <2>1, <1>6, <1>11, FS_AddElement
<1> QED
  BY <1>7, <1>8, <1>9, <1>10, <1>11, <1>12

LEMMA TasksBounded == Tasks \in 0 .. NFiles
<1> DEFINE S == {f \in File : taskState[f] # "absent"}
<1>1. IsFiniteSet(1 .. NFiles) /\ Cardinality(1 .. NFiles) = NFiles
  BY LinesAssumption, FS_Interval
<1>2. Cardinality(S) <= NFiles /\ IsFiniteSet(S)
  BY <1>1, FS_Subset DEF File
<1>3. Cardinality(S) \in Nat
  BY <1>2, FS_CardinalityType
<1> QED
  BY <1>2, <1>3, LinesAssumption DEF Tasks

\* What the snapshot has loaded of the task it is at.  A task seen finished is finished,
\* and the count loaded after its state is full.
Loaded ==
  /\ at \in Nat \ {0} /\ entries \in 0 .. NFiles
  /\ \E n \in 0 .. 5 : DOMAIN view = FirstFields(n)
  /\ "state" \in DOMAIN view /\ view["state"] = "finished" =>
       /\ at \in File /\ taskState[at] = "finished"
       /\ "read" \in DOMAIN view => view["read"] = LinesOf[at] \/ cancelled

LEMMA NothingLoaded ==
  ASSUME at \in Nat \ {0}, entries \in 0 .. NFiles, view = NoFields
  PROVE  Loaded
<1>1. DOMAIN view = {}
  BY DEF NoFields
<1>2. FirstFields(0) = {}
  BY DEF FirstFields
<1> QED
  BY <1>1, <1>2 DEF Loaded

LEMMA NothingLoadedNext ==
  ASSUME at' \in Nat \ {0}, entries' \in 0 .. NFiles, view' = NoFields
  PROVE  Loaded'
<1>1. DOMAIN view' = {}
  BY DEF NoFields
<1>2. FirstFields(0) = {}
  BY DEF FirstFields
<1> QED
  BY <1>1, <1>2 DEF Loaded

\* The next field is loaded into a view that has those before it.
LEMMA LoadKeepsLoaded == ASSUME TaskInv, Loaded, LoadField PROVE Loaded'
<1>1. PICK n \in 0 .. 5 : DOMAIN view = FirstFields(n)
  BY DEF Loaded
<1>2. Cardinality(DOMAIN view) = n /\ n \in 0 .. 4
  <2>1. Cardinality(DOMAIN view) = n
    BY <1>1, FieldsCounted
  <2>2. Len(Fields) = 5
    BY DEF Fields
  <2> QED
    BY <2>1, <2>2 DEF LoadField
<1> DEFINE field == Fields[n + 1]
<1>3. /\ DOMAIN view' = DOMAIN view \union {field}
      /\ view'[field] = Load(at, field)
      /\ \A k \in DOMAIN view \ {field} : view'[k] = view[k]
  BY <1>2 DEF LoadField
<1>4. DOMAIN view' = FirstFields(n + 1) /\ n + 1 \in 0 .. 5
  <2>1. FirstFields(n + 1) = FirstFields(n) \union {field}
    BY <1>2 DEF FirstFields
  <2> QED
    BY <2>1, <1>1, <1>2, <1>3
<1>5. at \in File /\ UNCHANGED <<at, entries, taskState, linesRead, cancelled>>
  BY LinesAssumption DEF LoadField, Loaded, progressVars, File
<1>6. CASE n = 0
  <2>1. field = "state" /\ DOMAIN view = {}
    BY <1>1, <1>6 DEF Fields, FirstFields
  <2>2. view'["state"] = taskState[at] /\ DOMAIN view' = {"state"}
    BY <2>1, <1>3 DEF Load
  <2> QED
    BY <2>2, <1>4, <1>5 DEF Loaded
<1>7. CASE n = 1
  <2>1. field = "read" /\ DOMAIN view = {"state"}
    BY <1>1, <1>7 DEF Fields, FirstFields
  <2>2. view'["read"] = linesRead[at] /\ view'["state"] = view["state"]
    BY <2>1, <1>3 DEF Load
  <2>3. view["state"] = "finished" => linesRead[at] = LinesOf[at] \/ cancelled
    BY <2>1, <1>5 DEF Loaded, TaskInv, FinishedIsFull
  <2> QED
    BY <2>1, <2>2, <2>3, <1>4, <1>5 DEF Loaded
<1>8. CASE n \in 2 .. 4
  <2>1. field \notin {"state", "read"}
    BY <1>8 DEF Fields
  <2>2. {"state", "read"} \subseteq DOMAIN view
    BY <1>1, <1>8 DEF Fields, FirstFields
  <2>3. view'["read"] = view["read"] /\ view'["state"] = view["state"]
    BY <2>1, <2>2, <1>3
  <2> QED
    BY <2>2, <2>3, <1>4, <1>5 DEF Loaded
<1> QED
  BY <1>2, <1>6, <1>7, <1>8

-----------------------------------------------------------------------------
\* The inductive invariant of the screen.
DashboardInv == TaskInv /\ Loaded /\ LogProofs!IInv

LEMMA SizeFits == LogProofs!SizeAssumption
BY LogSizeAssumption DEF LogProofs!SizeAssumption

LEMMA LogStarts == ASSUME Log!Init PROVE LogProofs!IInv
BY SizeFits, LogProofs!StartsInPlace
   DEF Log!Init, LogProofs!Init, Log!Slots, LogProofs!Slots

\* The consumer's entries are pushed, and nothing else touches the log.
LEMMA LogKept == ASSUME LogProofs!IInv, [DashboardNext]_vars PROVE LogProofs!IInv'
<1>1. [LogProofs!Next]_(LogProofs!ringVars)
  <2>1. CASE JobStep
    <3>1. ASSUME NEW f \in File, NEW kind \in {"start", "error", "stopped"}, Log!Push(<<kind, f>>)
          PROVE  LogProofs!Next
      BY <3>1 DEF Log!Push, LogProofs!Push, LogProofs!Next
    <3>2. CASE UNCHANGED ringVars
      BY <3>2 DEF ringVars, LogProofs!ringVars
    <3> QED
      BY <2>1, <3>1, <3>2 DEF JobStep
  <2>2. CASE WarmUpEnds \/ UiEnds \/ UiNext \/ UNCHANGED vars
    BY <2>2 DEF WarmUpEnds, UiEnds, UiNext, Tick, LoadField, TaskViewed, TableDone, HeaderDone,
                vars, ringVars, LogProofs!ringVars
  <2> QED
    BY <2>1, <2>2 DEF DashboardNext
<1> QED
  BY <1>1, SizeFits, LogProofs!PlacesKept

LEMMA SnapshotKept == ASSUME TaskInv, Loaded, [DashboardNext]_vars PROVE TaskInv' /\ Loaded'
<1>1. CASE JobStep
  <2>1. Kept
    BY <1>1, JobStepsAreTaskSteps, TasksKept
  <2>2. UNCHANGED <<at, entries, view>>
    BY <1>1 DEF JobStep, uiVars
  <2> QED
    BY <2>1, <2>2 DEF Kept, Loaded
<1>2. CASE WarmUpEnds \/ UiEnds \/ UNCHANGED vars
  BY <1>2 DEF WarmUpEnds, UiEnds, vars, uiVars, progressVars, Loaded, TaskInv, TaskTypes, FinishedIsFull
<1>3. CASE UiNext
  <2>1. UNCHANGED progressVars
    BY <1>3 DEF UiNext, Tick, LoadField, TaskViewed, TableDone, HeaderDone
  <2>2. TaskInv'
    BY <2>1 DEF progressVars, TaskInv, TaskTypes, FinishedIsFull
  <2> SUFFICES Loaded'
    BY <2>2
  <2>3. CASE Tick
    <3>1. CASE CloneTasks
      BY <3>1, TasksBounded, NothingLoadedNext DEF CloneTasks
    <3>2. CASE UNCHANGED <<at, entries, view>>
      BY <3>2, <2>1 DEF progressVars, Loaded
    <3> QED
      BY <2>3, <3>1, <3>2 DEF Tick
  <2>4. CASE LoadField
    BY <2>4, LoadKeepsLoaded
  <2>5. CASE TaskViewed
    <3>1. at' \in Nat \ {0} /\ entries' \in 0 .. NFiles /\ view' = NoFields
      BY <2>5 DEF TaskViewed, Loaded
    <3> QED
      BY <3>1, NothingLoadedNext
  <2>6. CASE TableDone
    BY <2>6, TasksBounded, NothingLoadedNext DEF TableDone, CloneTasks
  <2>7. CASE HeaderDone
    BY <2>7, LinesAssumption, NothingLoadedNext DEF HeaderDone
  <2> QED
    BY <1>3, <2>3, <2>4, <2>5, <2>6, <2>7 DEF UiNext
<1> QED
  BY <1>1, <1>2, <1>3 DEF DashboardNext

LEMMA DashboardStarts == ASSUME DashboardInit PROVE DashboardInv
<1>1. at \in Nat \ {0} /\ entries \in 0 .. NFiles /\ view = NoFields
  BY LinesAssumption DEF DashboardInit
<1> QED
  BY <1>1, NothingLoaded, TasksStart, LogStarts DEF DashboardInit, DashboardInv

LEMMA DashboardInductive == ASSUME DashboardInv, [DashboardNext]_vars PROVE DashboardInv'
BY SnapshotKept, LogKept DEF DashboardInv

-----------------------------------------------------------------------------
(***************************************************************************)
(* The types of the screen: what is loaded of a counter is a number, and   *)
(* so is what the snapshot adds up.                                        *)
(***************************************************************************)
ScreenTypes ==
  /\ screen \in {"warming", "dataset"} /\ armed \in BOOLEAN
  /\ ui \in {"idle", "table", "header", "done"}
  /\ at \in 1 .. NFiles + 1
  /\ \A k \in DOMAIN view \ {"state"} : view[k] \in Nat
  /\ sums \in [Shown -> Nat] /\ header \in [Shown -> Nat]
  /\ tableRead \in Nat

LEMMA NothingTyped == Nothing \in [Shown -> Nat]
BY DEF Nothing

LEMMA Viewed ==
  ASSUME Loaded, Cardinality(DOMAIN view) = Len(Fields)
  PROVE  DOMAIN view = {"state", "read", "inserted", "skipped", "errored"}
<1>1. PICK n \in 0 .. 5 : DOMAIN view = FirstFields(n)
  BY DEF Loaded
<1>2. n = 5
  BY <1>1, FieldsCounted DEF Fields
<1> QED
  BY <1>1, <1>2 DEF FirstFields, Fields

LEMMA ScreenTypesKept ==
  ASSUME TaskInv, Loaded, ScreenTypes, [DashboardNext]_vars
  PROVE  ScreenTypes'
<1>1. CASE JobStep
  BY <1>1 DEF JobStep, uiVars, ScreenTypes
<1>2. CASE WarmUpEnds \/ UiEnds
  BY <1>2 DEF WarmUpEnds, UiEnds, ScreenTypes
<1>3. CASE UNCHANGED vars
  BY <1>3 DEF vars, uiVars, ScreenTypes
<1>4. \A k \in DOMAIN NoFields \ {"state"} : NoFields[k] \in Nat
  BY DEF NoFields
<1>5. 1 \in 1 .. NFiles + 1
  BY LinesAssumption
<1>6. CASE Tick
  BY <1>4, <1>5, <1>6, NothingTyped DEF Tick, CloneTasks, ScreenTypes
<1>7. CASE LoadField
  <2> DEFINE field == Fields[Cardinality(DOMAIN view) + 1]
  <2>1. PICK n \in 0 .. 5 : DOMAIN view = FirstFields(n)
    BY DEF Loaded
  <2>2. Cardinality(DOMAIN view) \in 0 .. 4
    BY <1>7, <2>1, FieldsCounted DEF LoadField, Fields
  <2>3. field \in {"state", "read", "inserted", "skipped", "errored"}
    BY <2>2 DEF Fields
  <2>4. at \in File
    BY <1>7, LinesAssumption DEF LoadField, Loaded, File
  <2>5. field # "state" => Load(at, field) \in Nat
    BY <2>3, <2>4 DEF Load, TaskInv, TaskTypes
  <2>6. view' = [k \in DOMAIN view \union {field} |-> IF k = field THEN Load(at, field) ELSE view[k]]
    BY <1>7 DEF LoadField
  <2> HIDE DEF field
  <2>7. \A k \in DOMAIN view' \ {"state"} : view'[k] \in Nat
    BY <2>5, <2>6 DEF ScreenTypes
  <2> QED
    BY <1>7, <2>7 DEF LoadField, ScreenTypes
<1>8. CASE TaskViewed
  <2>1. DOMAIN view = {"state", "read", "inserted", "skipped", "errored"}
    BY <1>8, Viewed DEF TaskViewed
  <2>2. Added(sums, view) \in [Shown -> Nat]
    <3> SUFFICES ASSUME NEW k \in Shown PROVE Added(sums, view)[k] \in Nat
      BY DEF Added
    <3>1. CASE k = "done"
      BY <3>1 DEF Added, Part, ScreenTypes, Shown
    <3>2. CASE k # "done"
      <4>1. view[k] \in Nat /\ sums[k] \in Nat
        BY <3>2, <2>1 DEF ScreenTypes, Shown
      <4> QED
        BY <3>2, <4>1 DEF Added, Part
    <3> QED
      BY <3>1, <3>2
  <2>3. at + 1 \in 1 .. NFiles + 1
    BY <1>8, LinesAssumption DEF TaskViewed, Loaded
  <2> QED
    BY <1>4, <1>8, <2>2, <2>3 DEF TaskViewed, ScreenTypes
<1>9. CASE TableDone
  <2>1. sums["read"] \in Nat
    BY DEF ScreenTypes, Shown
  <2> QED
    BY <1>4, <1>5, <1>9, <2>1, NothingTyped DEF TableDone, CloneTasks, ScreenTypes
<1>10. CASE HeaderDone
  BY <1>4, <1>5, <1>10, NothingTyped DEF HeaderDone, ScreenTypes
<1> QED
  BY <1>1, <1>2, <1>3, <1>6, <1>7, <1>8, <1>9, <1>10 DEF DashboardNext, UiNext

LEMMA ScreenTypesStart == ASSUME DashboardInit PROVE ScreenTypes
BY NothingTyped, LinesAssumption DEF DashboardInit, ScreenTypes, NoFields

\* Every variable of the screen has its type, and the log's have theirs.
THEOREM ScreenTypeSafety == DashboardSpec => []DashboardTypeOK
<1>1. ASSUME DashboardInv, ScreenTypes PROVE DashboardTypeOK
  <2>1. Log!TypeOK
    BY <1>1 DEF DashboardInv, LogProofs!IInv, LogProofs!TypeOK, Log!TypeOK, Log!Slots, LogProofs!Slots
  <2>2. PICK n \in 0 .. 5 : DOMAIN view = FirstFields(n)
    BY <1>1 DEF DashboardInv, Loaded
  <2>3. FirstFields(n) \subseteq ToSet(Fields)
    BY DEF FirstFields, ToSet, Fields
  <2> QED
    BY <1>1, <2>1, <2>2, <2>3 DEF DashboardInv, Loaded, ScreenTypes, DashboardTypeOK
<1>2. DashboardInit => DashboardInv /\ ScreenTypes
  BY DashboardStarts, ScreenTypesStart
<1>3. DashboardInv /\ ScreenTypes /\ [DashboardNext]_vars => (DashboardInv /\ ScreenTypes)'
  BY DashboardInductive, ScreenTypesKept DEF DashboardInv
<1> QED
  BY <1>1, <1>2, <1>3, PTL DEF DashboardSpec

\* A row that says Finished shows the line count of a file handed over whole, however many
\* files there are and wherever the job moves while the row is read.
THEOREM FinishedRow == DashboardSpec => []FinishedRowIsFull
<1>1. DashboardInv => FinishedRowIsFull
  BY DEF DashboardInv, Loaded, FinishedRowIsFull
<1> QED
  BY <1>1, DashboardStarts, DashboardInductive, PTL DEF DashboardSpec

\* The log on the screen is the end of what the job logged, for a log of any size.
THEOREM LogTail == DashboardSpec => []LogShowsTail
<1>1. DashboardInv => LogShowsTail
  BY SizeFits, LogProofs!PlacesShowTail
     DEF DashboardInv, LogShowsTail, Log!LogShowsTail, LogProofs!LogShowsTail,
         Log!Count, LogProofs!Count, Log!Last, LogProofs!Last
<1> QED
  BY <1>1, DashboardStarts, DashboardInductive, PTL DEF DashboardSpec
-----------------------------------------------------------------------------
(***************************************************************************)
(* Sums.                                                                   *)
(***************************************************************************)
LEMMA UpToSize ==
  ASSUME NEW n \in Nat
  PROVE  IsFiniteSet(1 .. n) /\ Cardinality(1 .. n) = n
<1>1. 1 \in Int /\ n \in Int
  OBVIOUS
<1>2. IsFiniteSet(1 .. n) /\ Cardinality(1 .. n) = IF 1 > n THEN 0 ELSE n - 1 + 1
  BY <1>1, FS_Interval
<1> QED
  BY <1>2

LEMMA UnitsMember ==
  ASSUME NEW S, NEW c, NEW x, NEW i
  PROVE  <<x, i>> \in Units(S, c) <=> x \in S /\ i \in 1 .. c[x]
BY DEF Units

LEMMA UnitsArePairs ==
  ASSUME NEW S, NEW c, NEW u \in Units(S, c)
  PROVE  u = <<u[1], u[2]>> /\ u[1] \in S /\ u[2] \in 1 .. c[u[1]]
BY DEF Units

LEMMA UnitsFinite ==
  ASSUME NEW S, IsFiniteSet(S), NEW c, \A x \in S : c[x] \in Nat
  PROVE  IsFiniteSet(Units(S, c)) /\ SumOver(S, c) \in Nat
<1> DEFINE Slice(x) == {x} \X (1 .. c[x])
           Slices == {Slice(x) : x \in S}
<1>1. IsFiniteSet(Slices)
  <2> DEFINE sliced == [x \in S |-> Slice(x)]
  <2>1. sliced \in Surjection(S, Slices)
    BY DEF Surjection
  <2> HIDE DEF sliced
  <2> QED
    BY <2>1, FS_Surjection
<1>2. ASSUME NEW T \in Slices PROVE IsFiniteSet(T)
  <2>1. PICK x \in S : T = Slice(x)
    OBVIOUS
  <2>2. IsFiniteSet({x})
    BY FS_Singleton
  <2>3. IsFiniteSet(1 .. c[x])
    BY FS_Interval
  <2> QED
    BY <2>1, <2>2, <2>3, FS_Product
<1>3. IsFiniteSet(Units(S, c))
  BY <1>1, <1>2, FS_UNION DEF Units
<1> QED
  BY <1>3, FS_CardinalityType DEF SumOver

\* A sum grows with its terms and with the set of its terms.
LEMMA SumGrows ==
  ASSUME NEW T, IsFiniteSet(T), NEW S \in SUBSET T, NEW c, NEW d,
         \A x \in T : d[x] \in Nat, \A x \in S : c[x] \in Nat /\ c[x] <= d[x]
  PROVE  SumOver(S, c) <= SumOver(T, d)
<1>1. Units(S, c) \subseteq Units(T, d)
  <2> SUFFICES ASSUME NEW u \in Units(S, c) PROVE u \in Units(T, d)
    OBVIOUS
  <2>1. u = <<u[1], u[2]>> /\ u[1] \in S /\ u[2] \in 1 .. c[u[1]]
    BY UnitsArePairs
  <2>2. u[2] \in 1 .. d[u[1]]
    BY <2>1
  <2> QED
    BY <2>1, <2>2, UnitsMember
<1>2. IsFiniteSet(Units(T, d))
  BY UnitsFinite
<1> QED
  BY <1>1, <1>2, FS_Subset DEF SumOver

\* One more term.
LEMMA SumAdds ==
  ASSUME NEW S, IsFiniteSet(S), NEW x, x \notin S, NEW c, \A y \in S \union {x} : c[y] \in Nat
  PROVE  SumOver(S \union {x}, c) = SumOver(S, c) + c[x]
<1> DEFINE A == Units(S, c)
           B == {x} \X (1 .. c[x])
<1>1. Units(S \union {x}, c) = A \union B
  BY DEF Units
<1>2. A \cap B = {}
  <2> SUFFICES ASSUME NEW u \in A, u \in B PROVE FALSE
    OBVIOUS
  <2>1. u[1] \in S
    BY UnitsArePairs
  <2> QED
    BY <2>1
<1>3. IsFiniteSet(A) /\ Cardinality(A) \in Nat
  BY UnitsFinite, FS_CardinalityType
<1>4. IsFiniteSet(B) /\ Cardinality(B) = c[x]
  <2>1. IsFiniteSet({x}) /\ Cardinality({x}) = 1
    BY FS_Singleton
  <2>2. c[x] \in Nat
    OBVIOUS
  <2>3. IsFiniteSet(1 .. c[x]) /\ Cardinality(1 .. c[x]) = c[x]
    BY <2>2, UpToSize
  <2>4. IsFiniteSet(B) /\ Cardinality(B) = Cardinality({x}) * Cardinality(1 .. c[x])
    BY <2>1, <2>3, FS_Product
  <2>5. 1 * c[x] = c[x]
    BY <2>2
  <2> QED
    BY <2>1, <2>3, <2>4, <2>5
<1> HIDE DEF A, B
<1>5. Cardinality(A \union B) = Cardinality(A) + Cardinality(B) - Cardinality(A \cap B)
  BY <1>3, <1>4, FS_Union
<1>6. Cardinality(A \cap B) = 0
  BY <1>2, FS_EmptySet
<1>7. c[x] \in Nat
  OBVIOUS
<1>8. Cardinality(A \union B) = Cardinality(A) + c[x]
  BY <1>3, <1>4, <1>5, <1>6, <1>7
<1> QED
  BY <1>1, <1>8 DEF SumOver, A

LEMMA EmptySum == ASSUME NEW c PROVE SumOver({}, c) = 0
<1>1. Units({}, c) = {}
  BY DEF Units
<1> QED
  BY <1>1, FS_EmptySet DEF SumOver


-----------------------------------------------------------------------------
(***************************************************************************)
(* What the tasks add to the sums.  It grows only, and a task that has not *)
(* been started adds nothing: the files are started in order.              *)
(***************************************************************************)
LEMMA NowIs ==
  ASSUME NEW k \in Shown, NEW f \in File
  PROVE  Now(k)[f] = IF k = "done" THEN (IF taskState[f] = "finished" THEN 1 ELSE 0)
                     ELSE Load(f, k)
<1>1. {"state", "read", "inserted", "skipped", "errored"} = ToSet(Fields)
  BY DEF ToSet, Fields
<1>2. k # "done" => k \in ToSet(Fields)
  BY <1>1 DEF Shown
<1>3. "state" \in ToSet(Fields) /\ Load(f, "state") = taskState[f]
  BY <1>1 DEF Load
<1> DEFINE v == [field \in ToSet(Fields) |-> Load(f, field)]
<1>4. Now(k)[f] = Part(v, k)
  BY DEF Now
<1>5. v["state"] = taskState[f] /\ (k # "done" => v[k] = Load(f, k))
  BY <1>2, <1>3
<1> HIDE DEF v
<1> QED
  BY <1>4, <1>5 DEF Part

LEMMA NowType ==
  ASSUME TaskInv, NEW k \in Shown
  PROVE  \A f \in File : Now(k)[f] \in Nat
<1> SUFFICES ASSUME NEW f \in File PROVE Now(k)[f] \in Nat
  OBVIOUS
<1>1. k # "done" => Load(f, k) \in Nat
  BY DEF Load, Shown, TaskInv, TaskTypes
<1> QED
  BY <1>1, NowIs

\* Where the job has not been: no state, no counts.
StartedInOrder ==
  /\ \E m \in 0 .. NFiles : \A f \in File : taskState[f] # "absent" <=> f <= m
  /\ \A f \in File : taskState[f] = "absent" =>
       linesRead[f] = 0 /\ inserted[f] = 0 /\ skipped[f] = 0 /\ errored[f] = 0

LEMMA OrderStarts == ASSUME Init PROVE StartedInOrder
<1>1. 0 \in 0 .. NFiles /\ \A f \in File : taskState[f] # "absent" <=> f <= 0
  BY LinesAssumption DEF Init, File
<1>2. \A f \in File : linesRead[f] = 0 /\ inserted[f] = 0 /\ skipped[f] = 0 /\ errored[f] = 0
  BY DEF Init
<1> QED
  BY <1>1, <1>2 DEF StartedInOrder

LEMMA OrderKept == ASSUME TaskInv, StartedInOrder, [Next]_progressVars PROVE StartedInOrder'
<1>1. PICK m \in 0 .. NFiles : \A f \in File : taskState[f] # "absent" <=> f <= m
  BY DEF StartedInOrder
<1>2. CASE Cancel \/ UNCHANGED progressVars
  BY <1>2 DEF Cancel, progressVars, StartedInOrder
<1>3. ASSUME NEW f \in File, StartTask(f) PROVE StartedInOrder'
  <2>1. taskState' = [taskState EXCEPT ![f] = "started"] /\ taskState[f] = "absent"
    BY <1>3 DEF StartTask
  <2>2. f = m + 1
    <3>1. f \in Nat /\ m \in Nat /\ NFiles \in Nat /\ f > m /\ f <= NFiles
      BY <1>1, <2>1, LinesAssumption DEF File
    <3>2. f > m + 1 => FALSE
      <4> SUFFICES ASSUME f > m + 1 PROVE FALSE
        OBVIOUS
      <4>1. m + 1 \in 1 .. f - 1 /\ m + 1 \in File
        BY <3>1 DEF File
      <4>2. taskState[m + 1] = "finished"
        BY <4>1, <1>3 DEF StartTask
      <4>3. m + 1 <= m
        BY <4>1, <4>2, <1>1
      <4> QED
        BY <4>3, <3>1
    <3> QED
      BY <3>1, <3>2
  <2>3. \A g \in File : taskState'[g] # "absent" <=> g <= f
    <3> SUFFICES ASSUME NEW g \in File PROVE taskState'[g] # "absent" <=> g <= f
      OBVIOUS
    <3>1. g \in Nat /\ m \in Nat
      BY LinesAssumption DEF File
    <3>2. CASE g = f
      BY <2>1, <3>1, <3>2 DEF TaskInv, TaskTypes
    <3>3. CASE g # f
      <4>1. taskState'[g] = taskState[g]
        BY <2>1, <3>3 DEF TaskInv, TaskTypes
      <4> QED
        BY <1>1, <2>2, <3>1, <3>3, <4>1
    <3> QED
      BY <3>2, <3>3
  <2>4. f \in 0 .. NFiles
    BY LinesAssumption DEF File
  <2>5. \A g \in File : taskState'[g] = "absent" => taskState[g] = "absent"
    BY <2>1 DEF TaskInv, TaskTypes
  <2>6. UNCHANGED <<linesRead, inserted, skipped, errored>>
    BY <1>3 DEF StartTask
  <2> QED
    BY <2>3, <2>4, <2>5, <2>6 DEF StartedInOrder
<1>4. ASSUME NEW f \in File, SetFinished(f) \/ SetErrored(f) PROVE StartedInOrder'
  <2>1. taskState[f] = "started" /\ (taskState'[f] \in {"finished", "errored"})
        /\ \A g \in File \ {f} : taskState'[g] = taskState[g]
    BY <1>4 DEF SetFinished, SetErrored, TaskInv, TaskTypes
  <2>2. \A g \in File : taskState'[g] = "absent" <=> taskState[g] = "absent"
    BY <2>1
  <2>3. UNCHANGED <<linesRead, inserted, skipped, errored>>
    BY <1>4 DEF SetFinished, SetErrored
  <2> QED
    BY <1>1, <2>2, <2>3 DEF StartedInOrder
<1>5. ASSUME NEW f \in File,
             IncrementLinesRead(f) \/ IncrementInserted(f) \/ IncrementSkipped(f) \/ IncrementErrors(f)
      PROVE  StartedInOrder'
  <2>1. taskState' = taskState /\ taskState[f] # "absent"
    BY <1>5 DEF IncrementLinesRead, IncrementInserted, IncrementSkipped, IncrementErrors, Verdict
  <2>2. \A g \in File \ {f} : /\ linesRead'[g] = linesRead[g] /\ inserted'[g] = inserted[g]
                              /\ skipped'[g] = skipped[g] /\ errored'[g] = errored[g]
    BY <1>5 DEF IncrementLinesRead, IncrementInserted, IncrementSkipped, IncrementErrors,
                TaskInv, TaskTypes
  <2> QED
    BY <2>1, <2>2 DEF StartedInOrder
<1> QED
  BY <1>2, <1>3, <1>4, <1>5 DEF Next, TaskStep

LEMMA NowTypes == TaskInv => \A k \in Shown, f \in File : Now(k)[f] \in Nat
BY NowType

LEMMA NowIsAll ==
  \A k \in Shown, f \in File :
    Now(k)[f] = IF k = "done" THEN (IF taskState[f] = "finished" THEN 1 ELSE 0) ELSE Load(f, k)
BY NowIs

\* The job's steps let every one of them grow.
NowMoves == \A k \in Shown, f \in File :
  Now(k)[f] \in Nat /\ Now(k)'[f] \in Nat /\ Now(k)[f] <= Now(k)'[f]

LEMMA NowGrows == ASSUME TaskInv, [Next]_progressVars PROVE NowMoves
<1>1. Kept
  BY TasksKept
<1>2. \A k \in Shown, f \in File : Now(k)'[f] \in Nat
  <2>1. TaskInv' => (\A k \in Shown, f \in File : Now(k)[f] \in Nat)'
    BY NowTypes, PTL
  <2> QED
    BY <1>1, <2>1 DEF Kept
<1>3. \A k \in Shown, f \in File :
        Now(k)'[f] = IF k = "done" THEN (IF taskState'[f] = "finished" THEN 1 ELSE 0)
                     ELSE Load(f, k)'
  <2>1. (\A k \in Shown, f \in File :
           Now(k)[f] = IF k = "done" THEN (IF taskState[f] = "finished" THEN 1 ELSE 0)
                       ELSE Load(f, k))'
    BY NowIsAll, PTL
  <2> QED
    BY <2>1
<1>4. ASSUME NEW f \in File
      PROVE  /\ linesRead[f] <= linesRead'[f] /\ inserted[f] <= inserted'[f]
             /\ skipped[f] <= skipped'[f] /\ errored[f] <= errored'[f]
  <2>1. linesRead[f] \in Nat /\ inserted[f] \in Nat /\ skipped[f] \in Nat /\ errored[f] \in Nat
    BY DEF TaskInv, TaskTypes
  <2>2. CASE Cancel \/ UNCHANGED progressVars
    BY <2>1, <2>2 DEF Cancel, progressVars
  <2>3. ASSUME NEW g \in File, StartTask(g) \/ SetFinished(g) \/ SetErrored(g)
        PROVE  UNCHANGED <<linesRead, inserted, skipped, errored>>
    BY <2>3 DEF StartTask, SetFinished, SetErrored
  <2>4. ASSUME NEW g \in File, IncrementLinesRead(g)
        PROVE  linesRead[f] <= linesRead'[f] /\ UNCHANGED <<inserted, skipped, errored>>
    BY <2>1, <2>4 DEF IncrementLinesRead, TaskInv, TaskTypes
  <2>5. ASSUME NEW g \in File, IncrementInserted(g)
        PROVE  inserted[f] <= inserted'[f] /\ UNCHANGED <<linesRead, skipped, errored>>
    BY <2>1, <2>5 DEF IncrementInserted, TaskInv, TaskTypes
  <2>6. ASSUME NEW g \in File, IncrementSkipped(g)
        PROVE  skipped[f] <= skipped'[f] /\ UNCHANGED <<linesRead, inserted, errored>>
    BY <2>1, <2>6 DEF IncrementSkipped, TaskInv, TaskTypes
  <2>7. ASSUME NEW g \in File, IncrementErrors(g)
        PROVE  errored[f] <= errored'[f] /\ UNCHANGED <<linesRead, inserted, skipped>>
    BY <2>1, <2>7 DEF IncrementErrors, TaskInv, TaskTypes
  <2>8. CASE \E g \in File : TaskStep(g)
    BY <2>1, <2>3, <2>4, <2>5, <2>6, <2>7, <2>8 DEF TaskStep
  <2> QED
    BY <2>2, <2>8 DEF Next
<1>5. ASSUME NEW f \in File PROVE taskState[f] = "finished" => taskState'[f] = "finished"
  BY <1>1 DEF Kept
<1>6. ASSUME NEW k \in Shown, NEW f \in File PROVE Now(k)[f] <= Now(k)'[f]
  <2>1. CASE k = "done"
    BY <1>3, <1>5, <2>1, NowIs
  <2>2. CASE k # "done"
    <3>1. Now(k)[f] = Load(f, k) /\ Now(k)'[f] = Load(f, k)'
      BY <1>3, <2>2, NowIs
    <3>2. Load(f, k) <= Load(f, k)'
      BY <1>4, <2>2 DEF Load, Shown
    <3> QED
      BY <3>1, <3>2
  <2> QED
    BY <2>1, <2>2
<1> QED
  BY <1>2, <1>6, NowTypes DEF NowMoves

-----------------------------------------------------------------------------
(***************************************************************************)
(* The header.  What the snapshot has added up is behind what the tasks it *)
(* has viewed are worth now; and with what is still due from the tasks it  *)
(* has not finished viewing, it reaches the header shown and the table.    *)
(***************************************************************************)
\* The field that the sum k is made of.
FieldOf(k) == IF k = "done" THEN "state" ELSE k

\* What a task will add to the sum k if nothing moves any more: what has been loaded of
\* it, and what is there to be loaded.
Due(k) == [f \in File |-> IF f = at /\ FieldOf(k) \in DOMAIN view THEN Part(view, k)
                          ELSE Now(k)[f]]

Reaches(x, k) == x <= sums[k] + SumOver(at .. entries, Due(k))

Behind ==
  /\ \A k \in Shown : sums[k] <= SumOver(1 .. at - 1, Now(k))
  /\ \A k \in Shown : at \in File /\ FieldOf(k) \in DOMAIN view =>
       Part(view, k) \in Nat /\ Part(view, k) <= Now(k)[at]
  /\ \A k \in Shown : header[k] <= SumOver(File, Now(k))

Reached ==
  ui = "header" => /\ \A k \in Shown : Reaches(header[k], k)
                   /\ Reaches(tableRead, "read")

HeaderInv == DashboardInv /\ ScreenTypes /\ StartedInOrder /\ Behind /\ Reached

LEMMA FileFinite == IsFiniteSet(File) /\ \A m \in Nat : m <= NFiles => 1 .. m \subseteq File
BY LinesAssumption, FS_Interval DEF File

LEMMA DueType ==
  ASSUME TaskInv, Behind, NEW k \in Shown
  PROVE  \A f \in File : Due(k)[f] \in Nat /\ Now(k)[f] \in Nat
BY NowTypes DEF Due, Behind

\* The sum over the tasks in the list is the sum over all files.
LEMMA StartedAreAll ==
  ASSUME TaskInv, StartedInOrder, NEW k \in Shown
  PROVE  SumOver(1 .. Tasks, Now(k)) = SumOver(File, Now(k))
<1>1. PICK m \in 0 .. NFiles : \A f \in File : taskState[f] # "absent" <=> f <= m
  BY DEF StartedInOrder
<1>2. Tasks = m
  <2>1. {f \in File : taskState[f] # "absent"} = 1 .. m
    BY <1>1, LinesAssumption DEF File
  <2>2. m \in Nat
    BY LinesAssumption
  <2>3. Cardinality(1 .. m) = m
    BY <2>2, UpToSize
  <2> QED
    BY <2>1, <2>3 DEF Tasks
<1>3. \A f \in File : f > m => Now(k)[f] = 0
  <2> SUFFICES ASSUME NEW f \in File, f > m PROVE Now(k)[f] = 0
    OBVIOUS
  <2>1. taskState[f] = "absent"
    BY <1>1, LinesAssumption DEF File
  <2>2. linesRead[f] = 0 /\ inserted[f] = 0 /\ skipped[f] = 0 /\ errored[f] = 0
    BY <2>1 DEF StartedInOrder
  <2>3. k # "done" => Load(f, k) = 0
    BY <2>2 DEF Load, Shown
  <2> QED
    BY <2>1, <2>3, NowIs
<1>4. Units(1 .. m, Now(k)) = Units(File, Now(k))
  <2>1. Units(1 .. m, Now(k)) \subseteq Units(File, Now(k))
    BY LinesAssumption DEF Units, File
  <2>2. ASSUME NEW u \in Units(File, Now(k)) PROVE u \in Units(1 .. m, Now(k))
    <3>1. u = <<u[1], u[2]>> /\ u[1] \in File /\ u[2] \in 1 .. Now(k)[u[1]]
      BY UnitsArePairs
    <3>2. u[1] \in 1 .. m
      BY <1>3, <3>1, LinesAssumption DEF File
    <3> QED
      BY <3>1, <3>2, UnitsMember
  <2> QED
    BY <2>1, <2>2
<1> QED
  BY <1>2, <1>4 DEF SumOver

\* The job's steps raise both sides of what the snapshot has to reach.
LEMMA JobKeepsHeader ==
  ASSUME HeaderInv, [Next]_progressVars, UNCHANGED uiVars
  PROVE  Behind' /\ Reached'
<1>1. NowMoves
  BY NowGrows DEF HeaderInv, DashboardInv
<1>2. at \in 1 .. NFiles + 1 /\ entries \in 0 .. NFiles /\ NFiles \in Nat
  BY LinesAssumption DEF HeaderInv, DashboardInv, Loaded, ScreenTypes
<1>3. /\ at' = at /\ entries' = entries /\ view' = view /\ sums' = sums /\ header' = header
      /\ ui' = ui /\ tableRead' = tableRead
  BY DEF uiVars
<1>4. ASSUME NEW k \in Shown PROVE SumOver(1 .. at - 1, Now(k)) <= SumOver(1 .. at - 1, Now(k)')
  <2>1. 1 .. at - 1 \subseteq File
    BY <1>2 DEF File
  <2>2. IsFiniteSet(1 .. at - 1)
    BY <2>1, FileFinite, FS_Subset
  <2> QED
    BY <1>1, <2>1, <2>2, SumGrows DEF NowMoves
<1>5. ASSUME NEW k \in Shown PROVE SumOver(File, Now(k)) <= SumOver(File, Now(k)')
  BY <1>1, FileFinite, SumGrows DEF NowMoves
<1>6. ASSUME NEW k \in Shown
      PROVE  SumOver(at .. entries, Due(k)) <= SumOver(at .. entries, Due(k)')
  <2>1. at .. entries \subseteq File
    BY <1>2 DEF File
  <2>2. IsFiniteSet(at .. entries)
    BY <2>1, FileFinite, FS_Subset
  <2>3. \A f \in File : Due(k)[f] \in Nat /\ Due(k)'[f] \in Nat /\ Due(k)[f] <= Due(k)'[f]
    <3> SUFFICES ASSUME NEW f \in File
                 PROVE  Due(k)[f] \in Nat /\ Due(k)'[f] \in Nat /\ Due(k)[f] <= Due(k)'[f]
      OBVIOUS
    <3>1. CASE f = at /\ FieldOf(k) \in DOMAIN view
      <4>1. Due(k)[f] = Part(view, k) /\ Due(k)'[f] = Part(view, k) /\ Part(view, k) \in Nat
        BY <1>3, <3>1 DEF Due, HeaderInv, Behind
      <4> QED
        BY <4>1
    <3>2. CASE ~(f = at /\ FieldOf(k) \in DOMAIN view)
      <4>1. Due(k)[f] = Now(k)[f] /\ Due(k)'[f] = Now(k)'[f]
        BY <1>3, <3>2 DEF Due
      <4> QED
        BY <1>1, <4>1 DEF NowMoves
    <3> QED
      BY <3>1, <3>2
  <2> QED
    BY <2>1, <2>2, <2>3, SumGrows
<1>7. Behind'
  <2>1. ASSUME NEW k \in Shown PROVE sums'[k] <= SumOver(1 .. at' - 1, Now(k)')
    <3>1. sums[k] \in Nat /\ sums[k] <= SumOver(1 .. at - 1, Now(k))
      BY DEF HeaderInv, Behind, ScreenTypes
    <3>2. /\ SumOver(1 .. at - 1, Now(k)) \in Nat
          /\ SumOver(1 .. at - 1, Now(k)') \in Nat
      <4>1. 1 .. at - 1 \subseteq File
        BY <1>2 DEF File
      <4>2. IsFiniteSet(1 .. at - 1)
        BY <4>1, FileFinite, FS_Subset
      <4> QED
        BY <1>1, <4>1, <4>2, UnitsFinite DEF NowMoves
    <3> QED
      BY <1>3, <1>4, <3>1, <3>2
  <2>2. ASSUME NEW k \in Shown, at' \in File, FieldOf(k) \in DOMAIN view'
        PROVE  Part(view', k) \in Nat /\ Part(view', k) <= Now(k)'[at']
    <3>1. Part(view, k) \in Nat /\ Part(view, k) <= Now(k)[at]
      BY <1>3, <2>2 DEF HeaderInv, Behind
    <3>2. Now(k)[at] \in Nat /\ Now(k)'[at] \in Nat /\ Now(k)[at] <= Now(k)'[at]
      BY <1>1, <1>3, <2>2 DEF NowMoves
    <3> QED
      BY <1>3, <3>1, <3>2
  <2>3. ASSUME NEW k \in Shown PROVE header'[k] <= SumOver(File, Now(k)')
    <3>1. header[k] \in Nat /\ header[k] <= SumOver(File, Now(k))
      BY DEF HeaderInv, Behind, ScreenTypes
    <3>2. SumOver(File, Now(k)) \in Nat /\ SumOver(File, Now(k)') \in Nat
      BY <1>1, FileFinite, UnitsFinite DEF NowMoves
    <3> QED
      BY <1>3, <1>5, <3>1, <3>2
  <2>4. (\A k \in Shown : sums[k] <= SumOver(1 .. at - 1, Now(k)))'
    BY <2>1
  <2>5. (\A k \in Shown : at \in File /\ FieldOf(k) \in DOMAIN view =>
           Part(view, k) \in Nat /\ Part(view, k) <= Now(k)[at])'
    BY <2>2 DEF FieldOf, Part
  <2>6. (\A k \in Shown : header[k] <= SumOver(File, Now(k)))'
    BY <2>3
  <2> QED
    BY <2>4, <2>5, <2>6 DEF Behind
<1>8. ASSUME NEW k \in Shown, NEW x \in Nat, Reaches(x, k) PROVE Reaches(x, k)'
  <2>1. sums[k] \in Nat
    BY DEF HeaderInv, ScreenTypes
  <2>2. x <= sums[k] + SumOver(at .. entries, Due(k))
    BY <1>8 DEF Reaches
  <2>3. SumOver(at .. entries, Due(k)) \in Nat /\ SumOver(at .. entries, Due(k)') \in Nat
    <3>1. at .. entries \subseteq File
      BY <1>2 DEF File
    <3>2. IsFiniteSet(at .. entries)
      BY <3>1, FileFinite, FS_Subset
    <3>3. \A f \in File : Due(k)[f] \in Nat
      BY DueType DEF HeaderInv, DashboardInv
    <3>4. \A f \in File : Due(k)'[f] \in Nat
      BY <1>1, <1>3 DEF Due, NowMoves, HeaderInv, Behind, FieldOf, Part
    <3> QED
      BY <3>1, <3>2, <3>3, <3>4, UnitsFinite
  <2>4. x <= sums[k] + SumOver(at .. entries, Due(k)')
    BY <1>6, <2>1, <2>2, <2>3
  <2> QED
    BY <1>3, <2>4 DEF Reaches
<1>9. Reached'
  <2>1. "read" \in Shown /\ tableRead \in Nat /\ \A k \in Shown : header[k] \in Nat
    BY DEF HeaderInv, ScreenTypes, Shown
  <2> SUFFICES ASSUME ui = "header"
               PROVE  (\A k \in Shown : Reaches(header[k], k))' /\ Reaches(tableRead, "read")'
    BY <1>3 DEF Reached
  <2>2. ASSUME NEW k \in Shown PROVE Reaches(header[k], k)'
    <3>1. Reaches(header[k], k)
      BY DEF HeaderInv, Reached
    <3> DEFINE x == header[k]
    <3>2. x \in Nat /\ x' = x
      BY <1>3, <2>1
    <3>3. x <= sums[k] + SumOver(at .. entries, Due(k)')
      BY <1>3, <1>8, <2>1, <3>1 DEF Reaches
    <3> QED
      BY <1>3, <3>3 DEF Reaches
  <2>3. Reaches(tableRead, "read")'
    <3>1. Reaches(tableRead, "read")
      BY DEF HeaderInv, Reached
    <3>3. tableRead <= sums["read"] + SumOver(at .. entries, Due("read")')
      BY <1>3, <1>8, <2>1, <3>1 DEF Reaches
    <3> QED
      BY <1>3, <3>3 DEF Reaches
  <2> QED
    BY <2>2, <2>3
<1> QED
  BY <1>7, <1>9

\* The steps of the UI leave the tasks alone, and with them what they add to the sums.
LEMMA UiLeavesTasks ==
  ASSUME UNCHANGED progressVars, NEW k \in Shown
  PROVE  Now(k)' = Now(k)
<1>1. \A f, field : Load(f, field)' = Load(f, field)
  BY DEF Load, progressVars
<1> QED
  BY <1>1 DEF Now, Part

LEMMA SumsOfTasks ==
  ASSUME HeaderInv, NEW k \in Shown
  PROVE  /\ SumOver(File, Now(k)) \in Nat
         /\ SumOver(1 .. at - 1, Now(k)) \in Nat
         /\ SumOver(1 .. at - 1, Now(k)) <= SumOver(File, Now(k))
         /\ SumOver(at .. entries, Due(k)) \in Nat
<1>1. /\ at \in 1 .. NFiles + 1 /\ entries \in 0 .. NFiles /\ NFiles \in Nat
      /\ TaskInv /\ Behind
  BY LinesAssumption DEF HeaderInv, DashboardInv, Loaded, ScreenTypes
<1>2. \A f \in File : Due(k)[f] \in Nat /\ Now(k)[f] \in Nat
  BY <1>1, DueType
<1>3. 1 .. at - 1 \subseteq File /\ at .. entries \subseteq File
  BY <1>1 DEF File
<1>4. IsFiniteSet(File) /\ IsFiniteSet(1 .. at - 1) /\ IsFiniteSet(at .. entries)
  BY <1>3, FileFinite, FS_Subset
<1>5. SumOver(File, Now(k)) \in Nat
  BY <1>2, <1>4, UnitsFinite
<1>6. SumOver(1 .. at - 1, Now(k)) \in Nat
  BY <1>2, <1>3, <1>4, UnitsFinite
<1>7. SumOver(at .. entries, Due(k)) \in Nat
  BY <1>2, <1>3, <1>4, UnitsFinite
<1>8. SumOver(1 .. at - 1, Now(k)) <= SumOver(File, Now(k))
  <2>1. \A f \in File : Now(k)[f] \in Nat /\ Now(k)[f] <= Now(k)[f]
    BY <1>2
  <2> QED
    BY <1>3, <1>4, <2>1, SumGrows
<1> QED
  BY <1>5, <1>6, <1>7, <1>8

\* A new snapshot: nothing has been viewed, and all that the job has counted is due.
LEMMA CloneReaches ==
  ASSUME HeaderInv, UNCHANGED progressVars, CloneTasks
  PROVE  /\ \A k \in Shown : sums'[k] = 0 /\ FieldOf(k) \notin DOMAIN view'
         /\ \A k \in Shown : SumOver(1 .. at' - 1, Now(k)') = 0
         /\ \A k \in Shown : SumOver(at' .. entries', Due(k)') = SumOver(File, Now(k))
<1>1. entries' = Tasks /\ at' = 1 /\ view' = NoFields /\ sums' = Nothing
  BY DEF CloneTasks
<1>2. DOMAIN view' = {}
  BY <1>1 DEF NoFields
<1>3. ASSUME NEW k \in Shown PROVE sums'[k] = 0 /\ FieldOf(k) \notin DOMAIN view'
  BY <1>1, <1>2, <1>3 DEF Nothing
<1>4. ASSUME NEW k \in Shown PROVE SumOver(1 .. at' - 1, Now(k)') = 0
  <2>1. 1 .. at' - 1 = {}
    BY <1>1
  <2> QED
    BY <2>1, EmptySum
<1>5. ASSUME NEW k \in Shown PROVE SumOver(at' .. entries', Due(k)') = SumOver(File, Now(k))
  <2>1. Due(k)' = Now(k)
    <3>1. Now(k)' = Now(k)
      BY UiLeavesTasks
    <3>2. Due(k)' = [f \in File |-> Now(k)'[f]]
      BY <1>2 DEF Due
    <3>3. Now(k) = [f \in File |-> Now(k)[f]]
      BY DEF Now
    <3> QED
      BY <3>1, <3>2, <3>3
  <2>2. SumOver(1 .. Tasks, Now(k)) = SumOver(File, Now(k))
    BY StartedAreAll DEF HeaderInv, DashboardInv
  <2> QED
    BY <1>1, <2>1, <2>2
<1> QED
  BY <1>3, <1>4, <1>5

\* Behind needs to be shown in these terms after a step of the UI.
LEMMA UiBehind ==
  ASSUME UNCHANGED progressVars,
         \A k \in Shown : sums'[k] <= SumOver(1 .. at' - 1, Now(k)),
         \A k \in Shown : at' \in File /\ FieldOf(k) \in DOMAIN view' =>
           Part(view', k) \in Nat /\ Part(view', k) <= Now(k)[at'],
         \A k \in Shown : header'[k] <= SumOver(File, Now(k))
  PROVE  Behind'
<1>1. \A k \in Shown : Now(k)' = Now(k)
  BY UiLeavesTasks
<1>2. (\A k \in Shown : sums[k] <= SumOver(1 .. at - 1, Now(k)))'
  BY <1>1
<1>3. (\A k \in Shown : at \in File /\ FieldOf(k) \in DOMAIN view =>
         Part(view, k) \in Nat /\ Part(view, k) <= Now(k)[at])'
  BY <1>1 DEF FieldOf, Part
<1>4. (\A k \in Shown : header[k] <= SumOver(File, Now(k)))'
  BY <1>1
<1> QED
  BY <1>2, <1>3, <1>4 DEF Behind

LEMMA TickKeepsHeader == ASSUME HeaderInv, Tick PROVE Behind' /\ Reached'
<1>1. UNCHANGED progressVars /\ header' = header /\ ui = "idle" /\ (ui' = "idle" \/ ui' = "table")
  BY DEF Tick
<1>2. Reached'
  BY <1>1 DEF Reached
<1>3. \A k \in Shown : header'[k] <= SumOver(File, Now(k))
  BY <1>1 DEF HeaderInv, Behind
<1>4. CASE CloneTasks
  <2>1. \A k \in Shown : sums'[k] = 0 /\ FieldOf(k) \notin DOMAIN view'
    BY <1>1, <1>4, CloneReaches
  <2>2. ASSUME NEW k \in Shown PROVE sums'[k] <= SumOver(1 .. at' - 1, Now(k))
    <3>1. SumOver(1 .. at' - 1, Now(k)') = 0
      BY <1>1, <1>4, CloneReaches
    <3>2. Now(k)' = Now(k)
      BY <1>1, UiLeavesTasks
    <3> QED
      BY <2>1, <3>1, <3>2
  <2> QED
    BY <1>1, <1>2, <1>3, <2>1, <2>2, UiBehind
<1>5. CASE UNCHANGED <<ui, entries, at, view, sums>>
  <2>1. \A k \in Shown : sums'[k] <= SumOver(1 .. at' - 1, Now(k))
    BY <1>5 DEF HeaderInv, Behind
  <2>2. \A k \in Shown : at' \in File /\ FieldOf(k) \in DOMAIN view' =>
          Part(view', k) \in Nat /\ Part(view', k) <= Now(k)[at']
    BY <1>5 DEF HeaderInv, Behind
  <2> QED
    BY <1>1, <1>2, <1>3, <2>1, <2>2, UiBehind
<1>6. CloneTasks \/ UNCHANGED <<ui, entries, at, view, sums>>
  BY DEF Tick
<1> QED
  BY <1>2, <1>4, <1>5, <1>6

\* What is loaded is what was due: a load changes nothing.
LEMMA LoadKeepsHeader == ASSUME HeaderInv, LoadField PROVE Behind' /\ Reached'
<1>1. UNCHANGED <<progressVars, ui, entries, at, sums, tableRead, header>>
  BY DEF LoadField
<1>2. PICK n \in 0 .. 4 :
        /\ DOMAIN view = FirstFields(n)
        /\ view' = [k \in DOMAIN view \union {Fields[n + 1]} |->
                      IF k = Fields[n + 1] THEN Load(at, Fields[n + 1]) ELSE view[k]]
  <2>1. PICK n \in 0 .. 5 : DOMAIN view = FirstFields(n)
    BY DEF HeaderInv, DashboardInv, Loaded
  <2>2. Cardinality(DOMAIN view) = n /\ n \in 0 .. 4
    BY <2>1, FieldsCounted DEF LoadField, Fields
  <2> QED
    BY <2>1, <2>2 DEF LoadField
<1> DEFINE field == Fields[n + 1]
<1>3. /\ DOMAIN view' = DOMAIN view \union {field}
      /\ view'[field] = Load(at, field)
      /\ \A k \in DOMAIN view \ {field} : view'[k] = view[k]
  BY <1>2
<1>4. field \notin DOMAIN view /\ field \in ToSet(Fields)
  <2>1. CASE n = 0
    BY <1>2, <2>1 DEF Fields, FirstFields, ToSet
  <2>2. CASE n = 1
    BY <1>2, <2>2 DEF Fields, FirstFields, ToSet
  <2>3. CASE n = 2
    BY <1>2, <2>3 DEF Fields, FirstFields, ToSet
  <2>4. CASE n = 3
    BY <1>2, <2>4 DEF Fields, FirstFields, ToSet
  <2>5. CASE n = 4
    BY <1>2, <2>5 DEF Fields, FirstFields, ToSet
  <2> QED
    BY <2>1, <2>2, <2>3, <2>4, <2>5
<1>5. at \in File
  BY LinesAssumption DEF LoadField, HeaderInv, DashboardInv, Loaded, File
<1> HIDE DEF field
<1>6. ASSUME NEW k \in Shown, FieldOf(k) \in DOMAIN view'
      PROVE  Part(view', k) = IF FieldOf(k) \in DOMAIN view THEN Part(view, k) ELSE Now(k)[at]
  <2>1. CASE FieldOf(k) \in DOMAIN view
    <3>1. view'[FieldOf(k)] = view[FieldOf(k)]
      BY <1>3, <1>4, <2>1
    <3> QED
      BY <2>1, <3>1 DEF Part, FieldOf
  <2>2. CASE FieldOf(k) \notin DOMAIN view
    <3>1. FieldOf(k) = field
      BY <1>3, <1>6, <2>2
    <3>2. view'[FieldOf(k)] = Load(at, FieldOf(k))
      BY <1>3, <3>1
    <3>3. Load(at, "state") = taskState[at]
      BY DEF Load
    <3>4. Part(view', k) = IF k = "done" THEN (IF taskState[at] = "finished" THEN 1 ELSE 0)
                           ELSE Load(at, k)
      BY <3>2, <3>3 DEF Part, FieldOf
    <3> QED
      BY <1>5, <2>2, <3>4, NowIs
  <2> QED
    BY <2>1, <2>2
<1>7. ASSUME NEW k \in Shown PROVE Due(k)' = Due(k)
  <2>1. Now(k)' = Now(k)
    BY <1>1, UiLeavesTasks
  <2>2. ASSUME NEW f \in File PROVE Due(k)'[f] = Due(k)[f]
    <3>1. CASE f = at /\ FieldOf(k) \in DOMAIN view'
      BY <1>1, <1>6, <2>1, <3>1 DEF Due
    <3>2. CASE ~(f = at /\ FieldOf(k) \in DOMAIN view')
      BY <1>1, <1>3, <2>1, <3>2 DEF Due
    <3> QED
      BY <3>1, <3>2
  <2>3. Due(k)' = [f \in File |-> Due(k)'[f]] /\ Due(k) = [f \in File |-> Due(k)[f]]
    BY DEF Due
  <2> QED
    BY <2>2, <2>3
<1>8. Behind'
  <2>1. ASSUME NEW k \in Shown, at' \in File, FieldOf(k) \in DOMAIN view'
        PROVE  Part(view', k) \in Nat /\ Part(view', k) <= Now(k)[at']
    <3>1. Now(k)[at] \in Nat
      BY <1>5, NowTypes DEF HeaderInv, DashboardInv
    <3>2. FieldOf(k) \in DOMAIN view => Part(view, k) \in Nat /\ Part(view, k) <= Now(k)[at]
      BY <1>5 DEF HeaderInv, Behind
    <3> QED
      BY <1>1, <1>6, <2>1, <3>1, <3>2
  <2>2. \A k \in Shown : sums'[k] <= SumOver(1 .. at' - 1, Now(k))
    BY <1>1 DEF HeaderInv, Behind
  <2>3. \A k \in Shown : header'[k] <= SumOver(File, Now(k))
    BY <1>1 DEF HeaderInv, Behind
  <2> QED
    BY <1>1, <2>1, <2>2, <2>3, UiBehind
<1>9. Reached'
  <2>1. "read" \in Shown
    BY DEF Shown
  <2>2. \A k \in Shown : SumOver(at' .. entries', Due(k)') = SumOver(at .. entries, Due(k))
    BY <1>1, <1>7
  <2> QED
    BY <1>1, <2>1, <2>2 DEF HeaderInv, Reached, Reaches
<1> QED
  BY <1>8, <1>9

\* A task that has been viewed moves from what is due to what has been added up.
LEMMA TaskViewedKeepsHeader == ASSUME HeaderInv, TaskViewed PROVE Behind' /\ Reached'
<1>1. /\ UNCHANGED progressVars /\ ui' = ui /\ entries' = entries /\ tableRead' = tableRead
      /\ header' = header /\ at' = at + 1 /\ view' = NoFields /\ sums' = Added(sums, view)
  BY DEF TaskViewed
<1>2. at \in File /\ at \in Nat /\ entries \in Nat /\ at <= entries /\ entries <= NFiles
  BY LinesAssumption DEF TaskViewed, HeaderInv, DashboardInv, Loaded, File
<1>3. \A k \in Shown : FieldOf(k) \in DOMAIN view
  <2>1. DOMAIN view = {"state", "read", "inserted", "skipped", "errored"}
    BY Viewed DEF TaskViewed, HeaderInv, DashboardInv
  <2> QED
    BY <2>1 DEF FieldOf, Shown
<1>4. \A k \in Shown : FieldOf(k) \notin DOMAIN view'
  BY <1>1 DEF NoFields
<1>5. ASSUME NEW k \in Shown
      PROVE  /\ sums[k] \in Nat /\ Part(view, k) \in Nat /\ Part(view, k) <= Now(k)[at]
             /\ sums'[k] = sums[k] + Part(view, k)
  BY <1>1, <1>2, <1>3 DEF HeaderInv, ScreenTypes, Behind, Added
<1>6. ASSUME NEW k \in Shown PROVE \A f \in File : Now(k)[f] \in Nat /\ Due(k)[f] \in Nat
  BY DueType DEF HeaderInv, DashboardInv
<1>7. ASSUME NEW k \in Shown PROVE sums'[k] <= SumOver(1 .. at' - 1, Now(k))
  <2> DEFINE S == 1 .. at - 1
  <2>1. S \subseteq File /\ at \notin S /\ S \union {at} = 1 .. at' - 1
    BY <1>1, <1>2, LinesAssumption DEF File
  <2>2. IsFiniteSet(S)
    BY <2>1, FileFinite, FS_Subset
  <2>3. \A f \in S \union {at} : Now(k)[f] \in Nat
    BY <1>2, <1>6, <2>1
  <2>4. sums[k] <= SumOver(S, Now(k)) /\ SumOver(S, Now(k)) \in Nat
    BY SumsOfTasks DEF HeaderInv, Behind
  <2> HIDE DEF S
  <2>5. SumOver(S \union {at}, Now(k)) = SumOver(S, Now(k)) + Now(k)[at]
    BY <2>1, <2>2, <2>3, SumAdds
  <2>6. Now(k)[at] \in Nat
    BY <1>2, <1>6
  <2>7. sums[k] + Part(view, k) <= SumOver(S, Now(k)) + Now(k)[at]
    BY <1>5, <2>4, <2>6
  <2> QED
    BY <1>5, <2>1, <2>5, <2>7
<1>8. Behind'
  <2>1. \A k \in Shown : header'[k] <= SumOver(File, Now(k))
    BY <1>1 DEF HeaderInv, Behind
  <2> QED
    BY <1>1, <1>4, <1>7, <2>1, UiBehind
<1>9. ASSUME NEW k \in Shown
      PROVE  SumOver(at .. entries, Due(k)) <= Part(view, k) + SumOver(at' .. entries', Due(k)')
  <2> DEFINE S == at + 1 .. entries
  <2>1. S \subseteq File /\ at \notin S /\ S \union {at} = at .. entries /\ S = at' .. entries'
    BY <1>1, <1>2, LinesAssumption DEF File
  <2>2. IsFiniteSet(S)
    BY <2>1, FileFinite, FS_Subset
  <2>3. \A f \in S \union {at} : Due(k)[f] \in Nat
    BY <1>2, <1>6, <2>1
  <2> HIDE DEF S
  <2>4. SumOver(S \union {at}, Due(k)) = SumOver(S, Due(k)) + Due(k)[at]
    BY <2>1, <2>2, <2>3, SumAdds
  <2>5. Due(k)[at] = Part(view, k)
    BY <1>2, <1>3 DEF Due
  <2>6. \A f \in S : Due(k)[f] \in Nat /\ Due(k)'[f] \in Nat /\ Due(k)[f] <= Due(k)'[f]
    <3> SUFFICES ASSUME NEW f \in S
                 PROVE  Due(k)[f] \in Nat /\ Due(k)'[f] \in Nat /\ Due(k)[f] <= Due(k)'[f]
      OBVIOUS
    <3>1. f \in File /\ f # at
      BY <2>1
    <3>2. Now(k)' = Now(k)
      BY <1>1, UiLeavesTasks
    <3>3. Due(k)[f] = Now(k)[f] /\ Due(k)'[f] = Now(k)[f]
      BY <1>4, <3>1, <3>2 DEF Due
    <3>4. Now(k)[f] \in Nat
      BY <1>6, <3>1
    <3> QED
      BY <3>3, <3>4
  <2>7. SumOver(S, Due(k)) <= SumOver(S, Due(k)')
    BY <2>2, <2>6, SumGrows
  <2>8. SumOver(S, Due(k)) \in Nat /\ SumOver(S, Due(k)') \in Nat
    BY <2>2, <2>6, UnitsFinite
  <2> QED
    <3>1. SumOver(at .. entries, Due(k)) = SumOver(S, Due(k)) + Part(view, k)
      BY <2>1, <2>4, <2>5
    <3>2. SumOver(at' .. entries', Due(k)') = SumOver(S, Due(k)')
      BY <2>1
    <3> QED
      BY <1>5, <2>7, <2>8, <3>1, <3>2
<1>10. ASSUME NEW k \in Shown
       PROVE  SumOver(at .. entries, Due(k)) \in Nat /\ SumOver(at' .. entries', Due(k)') \in Nat
  <2>1. at' .. entries' \subseteq File
    BY <1>1, <1>2, LinesAssumption DEF File
  <2>2. IsFiniteSet(at' .. entries')
    BY <2>1, FileFinite, FS_Subset
  <2>3. ASSUME NEW f \in File PROVE Due(k)'[f] \in Nat
    <3>1. Now(k)' = Now(k)
      BY <1>1, UiLeavesTasks
    <3>2. Due(k)'[f] = Now(k)[f]
      BY <1>4, <3>1 DEF Due
    <3> QED
      BY <1>6, <3>2
  <2> QED
    BY <2>1, <2>2, <2>3, SumsOfTasks, UnitsFinite
<1>11. ASSUME NEW k \in Shown, NEW x \in Nat, Reaches(x, k)
       PROVE  x <= sums'[k] + SumOver(at' .. entries', Due(k)')
  BY <1>5, <1>9, <1>10, <1>11 DEF Reaches
<1>12. Reached'
  <2>1. "read" \in Shown /\ tableRead \in Nat /\ \A k \in Shown : header[k] \in Nat
    BY DEF HeaderInv, ScreenTypes, Shown
  <2>2. ui = "header" => (\A k \in Shown : Reaches(header[k], k)) /\ Reaches(tableRead, "read")
    BY DEF HeaderInv, Reached
  <2>3. ui' = "header" => \A k \in Shown : header'[k] <= sums'[k] + SumOver(at' .. entries', Due(k)')
    BY <1>1, <1>11, <2>1, <2>2
  <2>4. ui' = "header" => tableRead' <= sums'["read"] + SumOver(at' .. entries', Due("read")')
    BY <1>1, <1>11, <2>1, <2>2
  <2> QED
    BY <2>3, <2>4 DEF Reached, Reaches
<1> QED
  BY <1>8, <1>12

LEMMA TableDoneKeepsHeader == ASSUME HeaderInv, TableDone PROVE Behind' /\ Reached'
<1>1. UNCHANGED progressVars /\ header' = header /\ tableRead' = sums["read"] /\ CloneTasks
  BY DEF TableDone
<1>2. \A k \in Shown : sums'[k] = 0 /\ FieldOf(k) \notin DOMAIN view'
  BY <1>1, CloneReaches
<1>3. \A k \in Shown : header[k] <= SumOver(File, Now(k))
  BY DEF HeaderInv, Behind
<1>4. ASSUME NEW k \in Shown PROVE sums'[k] <= SumOver(1 .. at' - 1, Now(k))
  <2>1. SumOver(1 .. at' - 1, Now(k)') = 0
    BY <1>1, CloneReaches
  <2>2. Now(k)' = Now(k)
    BY <1>1, UiLeavesTasks
  <2> QED
    BY <1>2, <2>1, <2>2
<1>5. Behind'
  BY <1>1, <1>2, <1>3, <1>4, UiBehind
<1>6. ASSUME NEW k \in Shown, NEW x, x <= SumOver(File, Now(k))
      PROVE  x <= sums'[k] + SumOver(at' .. entries', Due(k)')
  <2>1. SumOver(at' .. entries', Due(k)') = SumOver(File, Now(k))
    BY <1>1, CloneReaches
  <2>2. SumOver(File, Now(k)) \in Nat
    BY SumsOfTasks
  <2> QED
    BY <1>2, <1>6, <2>1, <2>2
<1>7. "read" \in Shown
  BY DEF Shown
<1>8. tableRead' <= SumOver(File, Now("read"))
  <2>1. sums["read"] \in Nat /\ sums["read"] <= SumOver(1 .. at - 1, Now("read"))
    BY <1>7 DEF HeaderInv, Behind, ScreenTypes
  <2> QED
    BY <1>1, <1>7, <2>1, SumsOfTasks
<1>9. \A k \in Shown : header'[k] <= sums'[k] + SumOver(at' .. entries', Due(k)')
  BY <1>1, <1>3, <1>6
<1>10. tableRead' <= sums'["read"] + SumOver(at' .. entries', Due("read")')
  BY <1>6, <1>7, <1>8
<1>11. Reached'
  BY <1>9, <1>10 DEF Reached, Reaches
<1> QED
  BY <1>5, <1>11

LEMMA HeaderDoneKeepsHeader == ASSUME HeaderInv, HeaderDone PROVE Behind' /\ Reached'
<1>1. /\ UNCHANGED progressVars /\ header' = sums /\ ui' = "idle"
      /\ at' = 1 /\ view' = NoFields /\ sums' = Nothing
  BY DEF HeaderDone
<1>2. Reached'
  BY <1>1 DEF Reached
<1>3. ASSUME NEW k \in Shown PROVE sums'[k] <= SumOver(1 .. at' - 1, Now(k))
  <2>1. 1 .. at' - 1 = {} /\ sums'[k] = 0
    BY <1>1 DEF Nothing
  <2>2. SumOver(1 .. at' - 1, Now(k)) = SumOver({}, Now(k))
    BY <2>1
  <2>3. SumOver({}, Now(k)) = 0
    BY EmptySum
  <2> QED
    BY <2>1, <2>2, <2>3
<1>4. \A k \in Shown : FieldOf(k) \notin DOMAIN view'
  BY <1>1 DEF NoFields
<1>5. ASSUME NEW k \in Shown PROVE header'[k] <= SumOver(File, Now(k))
  <2>1. sums[k] \in Nat /\ sums[k] <= SumOver(1 .. at - 1, Now(k))
    BY DEF HeaderInv, Behind, ScreenTypes
  <2> QED
    BY <1>1, <2>1, SumsOfTasks
<1>6. Behind'
  BY <1>1, <1>3, <1>4, <1>5, UiBehind
<1> QED
  BY <1>2, <1>6

-----------------------------------------------------------------------------
\* The header's invariant holds at first and through every step.
LEMMA HeaderStarts == ASSUME DashboardInit PROVE HeaderInv
<1>1. /\ ui = "idle" /\ at = 1 /\ view = NoFields /\ sums = Nothing /\ header = Nothing
      /\ Init
  BY DEF DashboardInit
<1>2. DashboardInv /\ ScreenTypes /\ StartedInOrder
  BY <1>1, DashboardStarts, ScreenTypesStart, OrderStarts
<1>3. \A k \in Shown : sums[k] <= SumOver(1 .. at - 1, Now(k))
  <2>1. 1 .. at - 1 = {}
    BY <1>1
  <2> QED
    BY <1>1, <2>1, EmptySum DEF Nothing
<1>4. \A k \in Shown : FieldOf(k) \notin DOMAIN view
  BY <1>1 DEF NoFields
<1>5. ASSUME NEW k \in Shown PROVE header[k] <= SumOver(File, Now(k))
  <2>1. SumOver(File, Now(k)) \in Nat
    BY <1>2, FileFinite, NowTypes, UnitsFinite DEF DashboardInv
  <2> QED
    BY <1>1, <2>1 DEF Nothing
<1> QED
  BY <1>1, <1>2, <1>3, <1>4, <1>5 DEF HeaderInv, Behind, Reached

LEMMA HeaderKept == ASSUME HeaderInv, [DashboardNext]_vars PROVE HeaderInv'
<1>1. DashboardInv' /\ ScreenTypes'
  BY DashboardInductive, ScreenTypesKept DEF HeaderInv, DashboardInv
<1>2. [Next]_progressVars
  <2>1. CASE JobStep
    BY <2>1, JobStepsAreTaskSteps
  <2>2. CASE WarmUpEnds \/ UiEnds \/ UiNext \/ UNCHANGED vars
    BY <2>2 DEF WarmUpEnds, UiEnds, UiNext, Tick, LoadField, TaskViewed, TableDone, HeaderDone, vars
  <2> QED
    BY <2>1, <2>2 DEF DashboardNext
<1>3. StartedInOrder'
  BY <1>2, OrderKept DEF HeaderInv, DashboardInv
<1>4. CASE JobStep \/ UNCHANGED vars
  <2>1. UNCHANGED uiVars
    BY <1>4 DEF JobStep, vars
  <2> QED
    BY <1>1, <1>2, <1>3, <2>1, JobKeepsHeader DEF HeaderInv
<1>5. CASE WarmUpEnds \/ UiEnds
  <2>1. /\ UNCHANGED <<progressVars, entries, at, view, sums, tableRead, header>>
        /\ ui' = "header" => ui = "header"
    BY <1>5 DEF WarmUpEnds, UiEnds
  <2>2. \A k \in Shown : sums'[k] <= SumOver(1 .. at' - 1, Now(k))
    BY <2>1 DEF HeaderInv, Behind
  <2>3. \A k \in Shown : at' \in File /\ FieldOf(k) \in DOMAIN view' =>
          Part(view', k) \in Nat /\ Part(view', k) <= Now(k)[at']
    BY <2>1 DEF HeaderInv, Behind
  <2>4. \A k \in Shown : header'[k] <= SumOver(File, Now(k))
    BY <2>1 DEF HeaderInv, Behind
  <2>5. Behind'
    BY <2>1, <2>2, <2>3, <2>4, UiBehind
  <2>6. ASSUME NEW k \in Shown PROVE Due(k)' = Due(k)
    <3>1. Now(k)' = Now(k)
      BY <2>1, UiLeavesTasks
    <3> QED
      BY <2>1, <3>1 DEF Due, Part, FieldOf
  <2>7. \A k \in Shown : SumOver(at' .. entries', Due(k)') = SumOver(at .. entries, Due(k))
    BY <2>1, <2>6
  <2>8. "read" \in Shown
    BY DEF Shown
  <2>9. Reached'
    BY <2>1, <2>7, <2>8 DEF HeaderInv, Reached, Reaches
  <2> QED
    BY <1>1, <1>3, <2>5, <2>9 DEF HeaderInv
<1>6. CASE UiNext
  <2>1. Behind' /\ Reached'
    BY <1>6, TickKeepsHeader, LoadKeepsHeader, TaskViewedKeepsHeader, TableDoneKeepsHeader,
       HeaderDoneKeepsHeader DEF UiNext
  <2> QED
    BY <1>1, <1>3, <2>1 DEF HeaderInv
<1> QED
  BY <1>4, <1>5, <1>6 DEF DashboardNext

\* No number of the header is ahead of what the job has done, however many files there are
\* and wherever the job moves while the tasks are read one after the other.
THEOREM HeaderIsBehind == DashboardSpec => []HeaderNotAhead
<1>1. HeaderInv => HeaderNotAhead
  BY DEF HeaderInv, Behind, HeaderNotAhead, Totals
<1> QED
  BY <1>1, HeaderStarts, HeaderKept, PTL DEF DashboardSpec

\* From tick to tick no number of the header falls, and it has the lines of the table
\* read before it.
THEOREM HeaderMovesForward == DashboardSpec => HeaderForward
<1> DEFINE Forward == /\ \A k \in Shown : header'[k] >= header[k]
                      /\ ui = "header" /\ ui' = "idle" => header'["read"] >= tableRead
<1>1. HeaderInv /\ [DashboardNext]_vars => [Forward]_vars
  <2> SUFFICES ASSUME HeaderInv, DashboardNext PROVE Forward
    OBVIOUS
  <2>1. \A k \in Shown : header[k] \in Nat /\ sums[k] \in Nat
    BY DEF HeaderInv, ScreenTypes
  <2>2. tableRead \in Nat /\ "read" \in Shown
    BY DEF HeaderInv, ScreenTypes, Shown
  <2>3. CASE HeaderDone
    <3>1. header' = sums /\ ui = "header" /\ at > entries
      BY <2>3 DEF HeaderDone
    <3>2. at .. entries = {}
      BY <3>1 DEF HeaderInv, DashboardInv, Loaded
    <3>3. \A k \in Shown : SumOver(at .. entries, Due(k)) = 0
      BY <3>2, EmptySum
    <3>4. (\A k \in Shown : Reaches(header[k], k)) /\ Reaches(tableRead, "read")
      BY <3>1 DEF HeaderInv, Reached
    <3>5. \A k \in Shown : header[k] <= sums[k]
      BY <2>1, <3>3, <3>4 DEF Reaches
    <3>6. tableRead <= sums["read"]
      BY <2>1, <2>2, <3>3, <3>4 DEF Reaches
    <3> QED
      BY <2>1, <2>2, <3>1, <3>5, <3>6
  <2>4. CASE JobStep \/ WarmUpEnds \/ UiEnds \/ Tick \/ LoadField \/ TaskViewed \/ TableDone
    <3>1. header' = header /\ ~(ui = "header" /\ ui' = "idle")
      BY <2>4 DEF JobStep, WarmUpEnds, UiEnds, Tick, LoadField, TaskViewed, TableDone, uiVars
    <3> QED
      BY <2>1, <3>1
  <2> QED
    BY <2>3, <2>4 DEF DashboardNext, UiNext
<1> QED
  BY <1>1, HeaderStarts, HeaderKept, PTL DEF DashboardSpec, HeaderForward
=============================================================================
