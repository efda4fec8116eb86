-------------------------- MODULE PgcrWriterProofs --------------------------
(***************************************************************************)
(* Proofs about PgcrWriter, for every set of workers, reports and players, *)
(* every number of attempts and of crashes.                                *)
(*                                                                         *)
(* The argument: a write keeps the keys of the stages it has passed, in    *)
(* the tables or in its own transaction.  Hence a transaction that reaches *)
(* its commit holds, with what the tables already have, the whole          *)
(* instance; and a transaction that holds anything holds the instance's    *)
(* row, which no two transactions can, so that a worker beyond that row    *)
(* never meets another one's key.                                          *)
(*                                                                         *)
(* And about the rows that are written, MappedReports: they fit together   *)
(* for every report.                                                       *)
(***************************************************************************)
EXTENDS PgcrWriter, MappedReports, FiniteSetTheorems, WellFoundedInduction, TLAPS

\* Key k of stage s, inserted for worker w, is in the tables or in w's transaction.
Kept(w, s, k) ==
  CASE s = "blob"    -> k \in blobs
    [] s = "players" -> /\ names[k] # "absent"
                        /\ NameIn[report[w]][k] \in Names => names[k] \in Names
    [] s = "weapons" -> k \in weapons
    [] OTHER         -> k \in rows \union tx[w]

\* The stages that precede s.
Before(s) ==
  CASE s = "blob"            -> {}
    [] s = "players"         -> {"blob"}
    [] s = "weapons"         -> {"blob", "players"}
    [] s = "instance"        -> Autocommitted
    [] s = "instancePlayers" -> Autocommitted \union {"instance"}
    [] s = "toons"           -> Autocommitted \union {"instance", "instancePlayers"}
    [] s = "toonWeapons"     -> Autocommitted \union {"instance", "instancePlayers", "toons"}
    [] OTHER                 -> Autocommitted \union InTx

StagesKept(w) ==
  /\ \A s \in Before(pc[w]) : \A k \in Keys(Inst(w), s) : Kept(w, s, k)
  /\ \A k \in Keys(Inst(w), pc[w]) \ todo[w] : Kept(w, pc[w], k)

\* What holds of a worker's write.
WorkerInv(w) ==
  /\ pc[w] = "idle" => report[w] = NoReport /\ tx[w] = {} /\ todo[w] = {}
  /\ pc[w] # "idle" => /\ report[w] \in Reports
                       /\ todo[w] \subseteq Keys(Inst(w), pc[w])
                       /\ tx[w] \subseteq RowsOf(Inst(w))
                       /\ StagesKept(w)
  /\ tx[w] # {} => pc[w] \in InTx \union {"commit"} /\ <<"instance", Inst(w)>> \in tx[w]

\* Open transactions and the tables have no key in common.
Disjoint ==
  /\ \A v, w \in Workers : v # w => tx[v] \intersect tx[w] = {}
  /\ \A w \in Workers : tx[w] \intersect rows = {}

Types ==
  /\ pc \in [Workers -> Stages \union {"idle"}]
  /\ report \in [Workers -> Reports \union {NoReport}]
  /\ todo = [w \in Workers |-> todo[w]] /\ tx = [w \in Workers |-> tx[w]]
  /\ tries \in [Workers -> 0 .. Retries - 1]
  /\ blobs \subseteq Instances
  /\ names \in [Players -> Names \union {"null", "absent"}]
  /\ weapons \subseteq Weapons
  /\ rows \subseteq UNION {RowsOf(i) : i \in Instances}
  /\ answer \in [Reports -> {"none", "nil", "error"}]
  /\ crashes \in 0 .. MaxCrashes

WriterInv ==
  /\ Types
  /\ \A w \in Workers : WorkerInv(w)
  /\ Disjoint
  /\ InstanceAllOrNothing
  /\ WrittenMeansStored
  /\ NamedAfterWrite

-----------------------------------------------------------------------------
(***************************************************************************)
(* Keys and stages.                                                        *)
(***************************************************************************)

\* A key of the transaction tells the instance and the stage that it belongs to.
LEMMA KeyOfStage ==
  ASSUME NEW i, NEW s \in InTx, NEW k \in Keys(i, s)
  PROVE  /\ k[2] = i
         /\ s = "instance" => k = <<"instance", i>> /\ k[1] = "instance"
         /\ s = "instancePlayers" => k[1] = "player"
         /\ s = "toons" => k[1] = "toon" /\ k[3] \in Toons[i] /\ k = <<"toon", i, k[3]>>
         /\ s = "toonWeapons" => /\ k[1] = "weapon"
                                 /\ <<k[3], k[4]>> \in {<<u[1], u[2]>> : u \in Used[i]}
                                 /\ k = <<"weapon", i, k[3], k[4]>>
<1>1. CASE s = "instance"
  BY <1>1 DEF Keys
<1>2. CASE s = "instancePlayers"
  BY <1>2 DEF Keys
<1>3. CASE s = "toons"
  BY <1>3 DEF Keys
<1>4. CASE s = "toonWeapons"
  <2>1. PICK u \in Used[i] : k = <<"weapon", i, u[1], u[2]>>
    BY <1>4 DEF Keys
  <2>. QED
    BY <1>4, <2>1
<1>. QED
  BY <1>1, <1>2, <1>3, <1>4 DEF InTx

\* Rows of two instances differ.
LEMMA RowsApart ==
  ASSUME NEW i, NEW j, NEW k, k \in RowsOf(i), k \in RowsOf(j)
  PROVE  i = j
BY KeyOfStage DEF RowsOf

\* A stage is preceded by the stages that its predecessor's predecessors and itself are.
LEMMA AfterBefore ==
  ASSUME NEW s \in Stages \ {"commit"}
  PROVE  /\ After(s) \in Stages
         /\ Before(After(s)) = Before(s) \union {s}
         /\ s \in InTx => After(s) \in InTx \union {"commit"}
BY DEF After, Before, Stages, Autocommitted, InTx

LEMMA StagesDistinct ==
  /\ "idle" \notin Stages /\ InTx \subseteq Stages /\ "commit" \in Stages
  /\ "commit" \notin InTx /\ "blob" \in Stages /\ "blob" \notin InTx
  /\ Before("commit") = Autocommitted \union InTx /\ Before("blob") = {}
  /\ Autocommitted \intersect InTx = {}
  /\ \A s \in InTx : Autocommitted \subseteq Before(s)
  /\ \A s \in InTx \ {"instance"} : "instance" \in Before(s)
BY DEF Stages, Autocommitted, InTx, Before

-----------------------------------------------------------------------------
(***************************************************************************)
(* What the invariant says of a worker inside its transaction.             *)
(***************************************************************************)

\* Its instance is one of the instances, and its players are players.
LEMMA InstType ==
  ASSUME WriterInv, NEW w \in Workers, pc[w] # "idle"
  PROVE  Inst(w) \in Instances /\ PlayersIn(Inst(w)) \subseteq Players
BY ReportsAssumption, PlayersAssumption DEF WriterInv, WorkerInv, Inst

\* Beyond the instance's row, that row is in the tables or its own.
LEMMA InstanceKept ==
  ASSUME WriterInv, NEW w \in Workers, pc[w] \in InTx \ {"instance"} \/ pc[w] = "commit"
  PROVE  <<"instance", Inst(w)>> \in rows \union tx[w]
<1>1. "instance" \in Before(pc[w])
  BY StagesDistinct DEF InTx
<1>2. \A k \in Keys(Inst(w), "instance") : Kept(w, "instance", k)
  BY <1>1, StagesDistinct DEF WriterInv, WorkerInv, StagesKept, InTx
<1>. QED
  BY <1>2 DEF Keys, Kept

\* Within the transaction, blob, players and weapons are in their tables.
LEMMA AutocommittedKept ==
  ASSUME WriterInv, NEW w \in Workers, pc[w] \in InTx \union {"commit"}
  PROVE  /\ Inst(w) \in blobs
         /\ \A p \in PlayersIn(Inst(w)) : names[p] # "absent"
         /\ \A p \in PlayersIn(Inst(w)) : NameIn[report[w]][p] \in Names => names[p] \in Names
         /\ WeaponsIn(Inst(w)) \subseteq weapons
<1>1. \A s \in Autocommitted : \A k \in Keys(Inst(w), s) : Kept(w, s, k)
  BY StagesDistinct DEF WriterInv, WorkerInv, StagesKept
<1>2. \A k \in Keys(Inst(w), "blob") : Kept(w, "blob", k)
  BY <1>1 DEF Autocommitted
<1>3. \A k \in Keys(Inst(w), "players") : Kept(w, "players", k)
  BY <1>1 DEF Autocommitted
<1>4. \A k \in Keys(Inst(w), "weapons") : Kept(w, "weapons", k)
  BY <1>1 DEF Autocommitted
<1>. QED
  BY <1>2, <1>3, <1>4 DEF Keys, Kept

\* At the commit, the whole instance is in the tables or in the transaction.
LEMMA CommitReady ==
  ASSUME WriterInv, NEW w \in Workers, pc[w] = "commit"
  PROVE  RowsOf(Inst(w)) \subseteq rows \union tx[w]
<1>1. \A s \in InTx : \A k \in Keys(Inst(w), s) : Kept(w, s, k)
  BY StagesDistinct DEF WriterInv, WorkerInv, StagesKept
<1>2. \A s \in InTx : \A k : Kept(w, s, k) => k \in rows \union tx[w]
  BY DEF Kept, InTx
<1>. QED
  BY <1>1, <1>2 DEF RowsOf

LEMMA InvEmptyHanded == WriterInv => WaitsEmptyHanded
<1>. SUFFICES ASSUME WriterInv, NEW w \in Workers, pc[w] \in InTx,
                     NEW k \in todo[w], NEW v \in Workers \ {w}, k \in tx[v]
              PROVE  pc[w] = "instance" /\ tx[w] = {}
  BY DEF WaitsEmptyHanded, Waiting, Locked
<1>1. k \in RowsOf(Inst(w)) /\ k \in RowsOf(Inst(v))
  BY StagesDistinct DEF WriterInv, WorkerInv, RowsOf
<1>2. Inst(v) = Inst(w)
  BY <1>1, RowsApart
<1>3. <<"instance", Inst(w)>> \in tx[v]
  BY <1>2 DEF WriterInv, WorkerInv
<1>4. <<"instance", Inst(w)>> \notin rows \union tx[w]
  BY <1>3 DEF WriterInv, Disjoint
<1>5. pc[w] = "instance"
  BY <1>4, InstanceKept
<1>6. tx[w] = {}
  BY <1>4 DEF WriterInv, WorkerInv
<1>. QED
  BY <1>5, <1>6

LEMMA InvOnlyUnknown == WriterInv => OnlyUnknownActivityFails
<1>. SUFFICES ASSUME WriterInv, NEW w \in Workers, pc[w] \in InTx, NEW k \in todo[w]
              PROVE  ForeignKeys(w, k) \/ (pc[w] = "instance" /\ Inst(w) \notin Known)
  BY DEF OnlyUnknownActivityFails
<1>1. k \in Keys(Inst(w), pc[w]) /\ Inst(w) \in Instances
  BY StagesDistinct, InstType DEF WriterInv, WorkerInv
<1>2. k[2] = Inst(w)
  BY <1>1, KeyOfStage
<1>0. ASSUME NEW p \in PlayersIn(Inst(w)) PROVE names[p] # "absent"
  <2>1. pc[w] \in InTx \union {"commit"}
    OBVIOUS
  <2>. QED
    BY <2>1, AutocommittedKept, Zenon
<1>3. CASE pc[w] = "instance"
  <2>1. k[1] = "instance"
    BY <1>1, <1>3, KeyOfStage
  <2>. QED
    BY <1>2, <1>3, <2>1 DEF ForeignKeys
<1>4. CASE pc[w] = "instancePlayers"
  <2>1. k[1] = "player"
    BY <1>1, <1>4, KeyOfStage
  <2>. QED
    BY <2>1 DEF ForeignKeys
<1>5. CASE pc[w] = "toons"
  <2>1. k[1] = "toon" /\ k[3] \in Toons[Inst(w)]
    BY <1>1, <1>5, KeyOfStage
  <2>2. names[PlayerOf[k[3]]] # "absent"
    <3>1. PlayerOf[k[3]] \in PlayersIn(Inst(w))
      BY <2>1 DEF PlayersIn
    <3>. QED
      BY <3>1, <1>0
  <2>. QED
    BY <1>2, <1>5, <2>1, <2>2, InstanceKept DEF ForeignKeys
<1>6. CASE pc[w] = "toonWeapons"
  <2>1. PICK u \in Used[Inst(w)] : k = <<"weapon", Inst(w), u[1], u[2]>>
    BY <1>1, <1>6 DEF Keys
  <2>2. k[1] = "weapon" /\ k[3] = u[1] /\ k[4] = u[2] /\ u[1] \in Toons[Inst(w)]
    BY <1>1, <2>1, UsedAssumption
  <2>3. names[PlayerOf[k[3]]] # "absent" /\ k[4] \in weapons
    <3>1. PlayerOf[k[3]] \in PlayersIn(Inst(w))
      BY <2>2 DEF PlayersIn
    <3>2. k[4] \in WeaponsIn(Inst(w))
      BY <2>2 DEF WeaponsIn
    <3>3. WeaponsIn(Inst(w)) \subseteq weapons
      BY AutocommittedKept
    <3>. QED
      BY <3>1, <3>2, <3>3, <1>0
  <2>4. "toons" \in Before(pc[w])
    BY <1>6 DEF Before
  <2>5. \A x \in Keys(Inst(w), "toons") : Kept(w, "toons", x)
    BY <2>4, StagesDistinct DEF WriterInv, WorkerInv, StagesKept
  <2>6. <<"toon", Inst(w), u[1]>> \in rows \union tx[w]
    BY <2>2, <2>5 DEF Keys, Kept
  <2>. QED
    BY <1>2, <1>6, <2>2, <2>3, <2>6, InstanceKept DEF ForeignKeys
<1>. QED
  BY <1>3, <1>4, <1>5, <1>6 DEF InTx

LEMMA InvTypeOK == WriterInv => TypeOK
BY DEF WriterInv, WorkerInv, Types, TypeOK

-----------------------------------------------------------------------------
(***************************************************************************)
(* What a step of one worker leaves alone.                                 *)
(***************************************************************************)

\* The tables lose nothing, and no name.
Grow ==
  /\ blobs \subseteq blobs' /\ weapons \subseteq weapons' /\ rows \subseteq rows'
  /\ \A p \in Players : names[p] # "absent" => names'[p] # "absent"
  /\ \A p \in Players : names[p] \in Names => names'[p] \in Names

\* The step says nothing of worker v.
Idles(v) == /\ pc'[v] = pc[v] /\ report'[v] = report[v]
            /\ todo'[v] = todo[v] /\ tx'[v] = tx[v]

LEMMA KeptStays ==
  ASSUME Grow, NEW v, report'[v] = report[v], tx[v] \subseteq tx'[v] \union rows',
         NEW s, NEW k, s = "players" => k \in Players, Kept(v, s, k)
  PROVE  Kept(v, s, k)'
<1>1. CASE s = "players"
  BY <1>1 DEF Kept, Grow
<1>2. CASE s # "players"
  BY <1>2 DEF Kept, Grow
<1>. QED
  BY <1>1, <1>2

\* A worker's invariant survives the steps of the others.
LEMMA OthersInv ==
  ASSUME WriterInv, Grow, NEW v \in Workers, Idles(v)
  PROVE  WorkerInv(v)'
<1>1. CASE pc[v] = "idle"
  BY <1>1 DEF WriterInv, WorkerInv, Idles
<1>2. CASE pc[v] # "idle"
  <2>1. Inst(v)' = Inst(v) /\ pc'[v] = pc[v]
    BY DEF Inst, Idles
  <2>2. \A k \in Keys(Inst(v), "players") : k \in Players
    BY <1>2, InstType DEF Keys
  <2>3. \A s : \A k \in Keys(Inst(v), s) : Kept(v, s, k) => Kept(v, s, k)'
    <3>. SUFFICES ASSUME NEW s, NEW k \in Keys(Inst(v), s), Kept(v, s, k)
                  PROVE  Kept(v, s, k)'
      OBVIOUS
    <3>1. s = "players" => k \in Players
      BY <2>2
    <3>. QED
      BY <3>1, KeptStays DEF Idles
  <2>4. StagesKept(v)'
    <3>1. /\ \A s \in Before(pc[v]) : \A k \in Keys(Inst(v), s) : Kept(v, s, k)
          /\ \A k \in Keys(Inst(v), pc[v]) \ todo[v] : Kept(v, pc[v], k)
      BY <1>2 DEF WriterInv, WorkerInv, StagesKept
    <3>2. ASSUME NEW s \in Before(pc[v]), NEW k \in Keys(Inst(v), s)
          PROVE  Kept(v, s, k)'
      BY <2>3, <3>1
    <3>3. ASSUME NEW k \in Keys(Inst(v), pc[v]) \ todo[v]
          PROVE  Kept(v, pc[v], k)'
      <4>1. k \in Keys(Inst(v), pc[v]) /\ Kept(v, pc[v], k)
        BY <3>1
      <4>. QED
        BY <2>1, <2>3, <4>1
    <3>4. todo'[v] = todo[v]
      BY DEF Idles
    <3>. QED
      BY <2>1, <3>2, <3>3, <3>4 DEF StagesKept
  <2>. QED
    BY <1>2, <2>1, <2>4 DEF WriterInv, WorkerInv, Idles
<1>. QED
  BY <1>1, <1>2

LEMMA CompleteStays ==
  ASSUME Grow, NEW i \in Instances, Complete(i)
  PROVE  Complete(i)'
BY PlayersAssumption DEF Grow, Complete

\* A step that makes no row visible and answers no write with nil keeps the
\* invariant, if it keeps the types, the acting worker's part and disjointness.
LEMMA QuietStep ==
  ASSUME WriterInv, Grow, rows' = rows, NEW w \in Workers,
         \A v \in Workers \ {w} : Idles(v),
         \A r \in Reports : answer'[r] = "nil" => answer[r] = "nil",
         Types', WorkerInv(w)', Disjoint'
  PROVE  WriterInv'
<1>1. \A v \in Workers : WorkerInv(v)'
  BY OthersInv
<1>2. InstanceAllOrNothing'
  BY CompleteStays DEF WriterInv, InstanceAllOrNothing
<1>3. WrittenMeansStored'
  BY CompleteStays, ReportsAssumption DEF WriterInv, WrittenMeansStored
<1>4. NamedAfterWrite'
  BY ReportsAssumption, PlayersAssumption DEF WriterInv, NamedAfterWrite, Grow
<1>. QED
  BY <1>1, <1>2, <1>3, <1>4 DEF WriterInv

\* Disjointness survives when the acting worker's transaction does not grow.
LEMMA DisjointStays ==
  ASSUME Disjoint, rows' = rows, NEW w \in Workers, tx'[w] \subseteq tx[w],
         \A v \in Workers \ {w} : Idles(v)
  PROVE  Disjoint'
BY DEF Disjoint, Idles

-----------------------------------------------------------------------------
(***************************************************************************)
(* The acting worker, by what its step does.                               *)
(***************************************************************************)

\* A write that starts, or starts again.
LEMMA FreshStart ==
  ASSUME NEW w \in Workers, pc'[w] = "blob", report'[w] \in Reports,
         todo'[w] = {InstanceOf[report'[w]]}, tx'[w] = {}
  PROVE  WorkerInv(w)'
<1>1. Keys(Inst(w), "blob")' = todo'[w]
  BY DEF Keys, Inst
<1>2. StagesKept(w)'
  BY <1>1, StagesDistinct DEF StagesKept
<1>. QED
  BY <1>1, <1>2 DEF WorkerInv

\* A write that has returned.
LEMMA FreshIdle ==
  ASSUME NEW w \in Workers, pc'[w] = "idle", report'[w] = NoReport, todo'[w] = {}, tx'[w] = {}
  PROVE  WorkerInv(w)'
BY DEF WorkerInv

\* A key of the stage is in.
LEMMA KeyIn ==
  ASSUME WriterInv, Grow, NEW w \in Workers, pc[w] # "idle", NEW k \in todo[w],
         pc'[w] = pc[w], report'[w] = report[w], todo'[w] = todo[w] \ {k},
         tx[w] \subseteq tx'[w], Kept(w, pc[w], k)'
  PROVE  StagesKept(w)' /\ todo'[w] \subseteq Keys(Inst(w), pc[w])'
<1>1. Inst(w)' = Inst(w)
  BY DEF Inst
<1>2. \A x \in Keys(Inst(w), "players") : x \in Players
  BY InstType DEF Keys
<1>3. ASSUME NEW s, NEW x \in Keys(Inst(w), s), Kept(w, s, x)
      PROVE  Kept(w, s, x)'
  <2>1. s = "players" => x \in Players
    BY <1>2, <1>3
  <2>. QED
    BY <1>3, <2>1, KeptStays
<1>4. /\ \A s \in Before(pc[w]) : \A x \in Keys(Inst(w), s) : Kept(w, s, x)
      /\ \A x \in Keys(Inst(w), pc[w]) \ todo[w] : Kept(w, pc[w], x)
      /\ todo[w] \subseteq Keys(Inst(w), pc[w])
  BY DEF WriterInv, WorkerInv, StagesKept
<1>5. ASSUME NEW s \in Before(pc[w]), NEW x \in Keys(Inst(w), s)
      PROVE  Kept(w, s, x)'
  BY <1>3, <1>4
<1>6. ASSUME NEW x \in Keys(Inst(w), pc[w]) \ todo'[w]
      PROVE  Kept(w, pc[w], x)'
  <2>1. CASE x = k
    BY <2>1
  <2>2. CASE x # k
    <3>1. x \in Keys(Inst(w), pc[w]) /\ Kept(w, pc[w], x)
      BY <1>4, <2>2
    <3>. QED
      BY <1>3, <3>1
  <2>. QED
    BY <2>1, <2>2
<1>. QED
  BY <1>1, <1>4, <1>5, <1>6 DEF StagesKept

\* The loop of the stage is over.
LEMMA NextStage ==
  ASSUME WriterInv, Grow, NEW w \in Workers, pc[w] \in Stages \ {"commit"}, todo[w] = {},
         pc'[w] = After(pc[w]), todo'[w] = Keys(Inst(w), After(pc[w])),
         report'[w] = report[w], tx'[w] = tx[w]
  PROVE  WorkerInv(w)'
<1>1. Inst(w)' = Inst(w)
  BY DEF Inst
<1>2. \A x \in Keys(Inst(w), "players") : x \in Players
  BY InstType, StagesDistinct DEF Keys
<1>3. ASSUME NEW s, NEW x \in Keys(Inst(w), s), Kept(w, s, x)
      PROVE  Kept(w, s, x)'
  <2>1. s = "players" => x \in Players
    BY <1>2, <1>3
  <2>. QED
    BY <1>3, <2>1, KeptStays
<1>4. \A s \in Before(pc[w]) \union {pc[w]} : \A x \in Keys(Inst(w), s) : Kept(w, s, x)
  <2>1. pc[w] # "idle"
    BY StagesDistinct
  <2>. QED
    BY <2>1 DEF WriterInv, WorkerInv, StagesKept
<1>5. ASSUME NEW s \in Before(After(pc[w])), NEW x \in Keys(Inst(w), s)
      PROVE  Kept(w, s, x)'
  <2>1. s \in Before(pc[w]) \union {pc[w]}
    BY AfterBefore
  <2>2. Kept(w, s, x)
    BY <1>4, <2>1
  <2>. QED
    BY <1>3, <2>2
<1>6. StagesKept(w)'
  <2>1. Before(pc[w])' = Before(After(pc[w]))
    BY DEF Before
  <2>. QED
    BY <1>1, <1>5, <2>1 DEF StagesKept
<1>7. After(pc[w]) # "idle" /\ (pc[w] \in InTx => After(pc[w]) \in InTx \union {"commit"})
  BY AfterBefore, StagesDistinct
<1>8. pc[w] \in Autocommitted => tx[w] = {}
  BY StagesDistinct DEF WriterInv, WorkerInv, Autocommitted, InTx
<1>9. pc[w] \in Autocommitted \union InTx
  BY DEF Stages
<1>. QED
  BY <1>1, <1>6, <1>7, <1>8, <1>9, StagesDistinct DEF WriterInv, WorkerInv

-----------------------------------------------------------------------------
(***************************************************************************)
(* The actions.                                                            *)
(***************************************************************************)

LEMMA InitWriterInv == Init => WriterInv
BY BoundsAssumption DEF Init, WriterInv, Types, WorkerInv, Disjoint, InstanceAllOrNothing,
   WrittenMeansStored, NamedAfterWrite

LEMMA TakeInv ==
  ASSUME WriterInv, NEW w \in Workers, NEW r \in Reports, Take(w, r)
  PROVE  WriterInv'
<1>1. Grow /\ rows' = rows /\ \A v \in Workers \ {w} : Idles(v)
  BY DEF Take, tables, Grow, Idles
<1>2. Types'
  <2>1. 0 \in 0 .. Retries - 1 /\ "blob" \in Stages
    BY BoundsAssumption, StagesDistinct
  <2>. QED
    BY <2>1 DEF WriterInv, Types, Take, tables
<1>3. WorkerInv(w)'
  <2>1. /\ pc'[w] = "blob" /\ report'[w] = r
        /\ todo'[w] = {InstanceOf[r]} /\ tx'[w] = {}
    BY DEF WriterInv, Types, WorkerInv, Take
  <2>. QED
    BY <2>1, FreshStart
<1>4. Disjoint'
  BY DEF WriterInv, Disjoint, Take, tables
<1>5. \A x \in Reports : answer'[x] = "nil" => answer[x] = "nil"
  BY DEF Take
<1>. QED
  BY <1>1, <1>2, <1>3, <1>4, <1>5, QuietStep

LEMMA StageDoneInv ==
  ASSUME WriterInv, NEW w \in Workers, StageDone(w)
  PROVE  WriterInv'
<1>1. Grow /\ rows' = rows /\ \A v \in Workers \ {w} : Idles(v)
  BY DEF StageDone, tables, Grow, Idles
<1>2. Types'
  BY AfterBefore DEF WriterInv, Types, StageDone, tables
<1>3. WorkerInv(w)'
  <2>1. /\ pc[w] \in Stages \ {"commit"} /\ todo[w] = {}
        /\ pc'[w] = After(pc[w]) /\ todo'[w] = Keys(Inst(w), After(pc[w]))
        /\ report'[w] = report[w] /\ tx'[w] = tx[w]
    BY DEF WriterInv, Types, StageDone
  <2>. QED
    BY <1>1, <2>1, NextStage
<1>4. Disjoint'
  BY DEF WriterInv, Disjoint, StageDone, tables
<1>5. \A x \in Reports : answer'[x] = "nil" => answer[x] = "nil"
  BY DEF StageDone
<1>. QED
  BY <1>1, <1>2, <1>3, <1>4, <1>5, QuietStep

\* What the four inserts have in common: the worker's part follows from the key.
LEMMA InsertedInv ==
  ASSUME WriterInv, Grow, NEW w \in Workers, NEW k \in todo[w], pc[w] # "idle",
         Inserted(w, k), UNCHANGED answer, rows' = rows,
         \A v \in Workers \ {w} : tx'[v] = tx[v],
         tx[w] \subseteq tx'[w], tx'[w] \subseteq RowsOf(Inst(w)),
         tx'[w] # {} => /\ pc[w] \in InTx \union {"commit"}
                        /\ <<"instance", Inst(w)>> \in tx'[w],
         Kept(w, pc[w], k)', Types', Disjoint'
  PROVE  WriterInv'
<1>1. /\ pc'[w] = pc[w] /\ report'[w] = report[w] /\ todo'[w] = todo[w] \ {k}
      /\ Inst(w)' = Inst(w)
  BY DEF WriterInv, Types, Inserted, Inst
<1>2. \A v \in Workers \ {w} : Idles(v)
  BY DEF Idles, Inserted
<1>3. StagesKept(w)' /\ todo'[w] \subseteq Keys(Inst(w), pc[w])'
  BY <1>1, KeyIn
<1>4. WorkerInv(w)'
  BY <1>1, <1>3 DEF WriterInv, WorkerInv
<1>5. \A x \in Reports : answer'[x] = "nil" => answer[x] = "nil"
  OBVIOUS
<1>. QED
  BY <1>2, <1>4, <1>5, QuietStep

\* Outside the transaction there is none.
LEMMA NoTx ==
  ASSUME WriterInv, NEW w \in Workers, pc[w] \in Autocommitted
  PROVE  tx[w] = {} /\ pc[w] # "idle"
BY StagesDistinct DEF WriterInv, WorkerInv, Autocommitted, InTx

LEMMA SaveBlobInv ==
  ASSUME WriterInv, NEW w \in Workers, NEW k \in todo[w], SaveBlob(w, k)
  PROVE  WriterInv'
<1>1. pc[w] \in Autocommitted
  BY DEF SaveBlob, Autocommitted
<1>2. k \in Instances
  <2>1. k \in Keys(Inst(w), "blob")
    BY <1>1, NoTx DEF SaveBlob, WriterInv, WorkerInv
  <2>. QED
    BY <1>1, <2>1, NoTx, InstType DEF Keys
<1>3. Grow /\ rows' = rows
  BY DEF SaveBlob, Grow
<1>4. Types'
  BY <1>2 DEF WriterInv, Types, SaveBlob, Inserted
<1>5. Kept(w, pc[w], k)'
  BY DEF SaveBlob, Inserted, Kept
<1>6. Disjoint'
  BY DEF WriterInv, Disjoint, SaveBlob
<1>. QED
  BY <1>1, <1>3, <1>4, <1>5, <1>6, NoTx, InsertedInv DEF SaveBlob

LEMMA UpsertNames ==
  ASSUME NEW old \in Names \union {"null", "absent"}, NEW new \in Names \union {"null"}
  PROVE  /\ Upsert(old, new) \in Names \union {"null"} /\ Upsert(old, new) # "absent"
         /\ old \in Names => Upsert(old, new) = old
         /\ new \in Names => Upsert(old, new) \in Names
BY NamesAssumption DEF Upsert

LEMMA SavePlayerInv ==
  ASSUME WriterInv, NEW w \in Workers, NEW k \in todo[w], SavePlayer(w, k)
  PROVE  WriterInv'
<1>1. pc[w] \in Autocommitted
  BY DEF SavePlayer, Autocommitted
<1>2. k \in Players /\ report[w] \in Reports
  <2>1. k \in Keys(Inst(w), "players") /\ report[w] \in Reports
    BY <1>1, NoTx DEF SavePlayer, WriterInv, WorkerInv
  <2>. QED
    BY <1>1, <2>1, NoTx, InstType DEF Keys
<1>. DEFINE old == names[k]
            new == NameIn[report[w]][k]
<1>3. names'[k] = Upsert(old, new) /\ \A p \in Players \ {k} : names'[p] = names[p]
  BY <1>2 DEF SavePlayer, WriterInv, Types
<1>4. old \in Names \union {"null", "absent"} /\ new \in Names \union {"null"}
  BY <1>2, NamesAssumption DEF WriterInv, Types
<1>5. /\ names'[k] \in Names \union {"null"} /\ names'[k] # "absent"
      /\ names[k] \in Names => names'[k] = names[k]
      /\ NameIn[report[w]][k] \in Names => names'[k] \in Names
  BY <1>3, <1>4, UpsertNames
<1>6. Grow /\ rows' = rows
  <2>1. \A p \in Players : names[p] # "absent" => names'[p] # "absent"
    BY <1>3, <1>5
  <2>2. \A p \in Players : names[p] \in Names => names'[p] \in Names
    BY <1>3, <1>5
  <2>. QED
    BY <2>1, <2>2 DEF SavePlayer, Grow
<1>7. Types'
  <2>1. names' \in [Players -> Names \union {"null", "absent"}]
    BY <1>2, <1>3, <1>5 DEF SavePlayer, WriterInv, Types
  <2>. QED
    BY <2>1 DEF WriterInv, Types, SavePlayer, Inserted
<1>8. Kept(w, pc[w], k)'
  BY <1>5 DEF SavePlayer, Inserted, Kept
<1>9. Disjoint'
  BY DEF WriterInv, Disjoint, SavePlayer
<1>. QED
  BY <1>1, <1>6, <1>7, <1>8, <1>9, NoTx, InsertedInv DEF SavePlayer

LEMMA SaveWeaponInv ==
  ASSUME WriterInv, NEW w \in Workers, NEW k \in todo[w], SaveWeapon(w, k)
  PROVE  WriterInv'
<1>1. pc[w] \in Autocommitted
  BY DEF SaveWeapon, Autocommitted
<1>2. k \in Weapons
  <2>1. k \in Keys(Inst(w), "weapons")
    BY <1>1, NoTx DEF SaveWeapon, WriterInv, WorkerInv
  <2>. QED
    BY <1>1, <2>1, NoTx, InstType DEF Keys, Weapons
<1>3. Grow /\ rows' = rows
  BY DEF SaveWeapon, Grow
<1>4. Types'
  BY <1>2 DEF WriterInv, Types, SaveWeapon, Inserted
<1>5. Kept(w, pc[w], k)'
  BY DEF SaveWeapon, Inserted, Kept
<1>6. Disjoint'
  BY DEF WriterInv, Disjoint, SaveWeapon
<1>. QED
  BY <1>1, <1>3, <1>4, <1>5, <1>6, NoTx, InsertedInv DEF SaveWeapon

\* An insert of the transaction: the case that matters is a new key beyond the
\* instance's own row.  Were that row visible, the whole instance would be, with
\* this key; so the worker's transaction holds it.
LEMMA InsertInv ==
  ASSUME WriterInv, NEW w \in Workers, NEW k \in todo[w], Insert(w, k)
  PROVE  WriterInv'
<1>1. pc[w] \in InTx /\ pc[w] # "idle" /\ pc[w] \notin Autocommitted
  BY StagesDistinct DEF Insert
<1>2. k \in Keys(Inst(w), pc[w]) /\ k \in RowsOf(Inst(w)) /\ Inst(w) \in Instances
  BY <1>1, InstType DEF WriterInv, WorkerInv, RowsOf
<1>3. tx'[w] = IF k \in rows THEN tx[w] ELSE tx[w] \union {k}
  BY DEF Insert, WriterInv, Types
<1>4. Grow /\ rows' = rows
  BY DEF Insert, tables, Grow
<1>5. tx[w] \subseteq tx'[w] /\ tx'[w] \subseteq RowsOf(Inst(w)) /\ k \in rows \union tx'[w]
  BY <1>1, <1>2, <1>3 DEF WriterInv, WorkerInv
<1>6. Types'
  BY DEF WriterInv, Types, Insert, Inserted, tables
<1>7. Kept(w, pc[w], k)'
  <2>1. pc'[w] = pc[w] /\ pc[w] \notin {"blob", "players", "weapons"}
    BY <1>1 DEF Insert, Inserted, Autocommitted
  <2>2. k \in rows' \union tx'[w]
    BY <1>4, <1>5
  <2>. QED
    BY <2>1, <2>2 DEF Kept
<1>8. \A v \in Workers \ {w} : tx'[v] = tx[v]
  BY DEF Insert
<1>9. Disjoint'
  <2>1. k \in rows \/ (k \notin rows /\ \A v \in Workers \ {w} : k \notin tx[v])
    BY DEF Insert, Locked
  <2>. QED
    BY <1>3, <1>4, <1>8, <2>1 DEF WriterInv, Disjoint
<1>10. tx'[w] # {} => <<"instance", Inst(w)>> \in tx'[w]
  <2>1. CASE tx[w] # {}
    BY <1>5, <2>1 DEF WriterInv, WorkerInv
  <2>2. CASE k \in rows
    BY <1>3, <2>1, <2>2
  <2>3. CASE k \notin rows /\ pc[w] = "instance"
    BY <1>2, <1>3, <2>3 DEF Keys
  <2>4. CASE k \notin rows /\ pc[w] # "instance"
    <3>1. ~Complete(Inst(w))
      BY <1>2, <2>4 DEF Complete
    <3>2. RowsOf(Inst(w)) \intersect rows = {}
      BY <1>2, <3>1 DEF WriterInv, InstanceAllOrNothing
    <3>3. <<"instance", Inst(w)>> \in RowsOf(Inst(w))
      BY DEF RowsOf, Keys, InTx
    <3>4. <<"instance", Inst(w)>> \in rows \union tx[w]
      BY <1>1, <2>4, InstanceKept
    <3>. QED
      BY <1>5, <3>2, <3>3, <3>4
  <2>. QED
    BY <2>1, <2>2, <2>3, <2>4
<1>. QED
  BY <1>1, <1>4, <1>5, <1>6, <1>7, <1>8, <1>9, <1>10, InsertedInv DEF Insert

LEMMA FailOthers ==
  ASSUME WriterInv, NEW w \in Workers, Fail(w)
  PROVE  \A v \in Workers \ {w} : Idles(v)
<1>1. CASE tries[w] + 1 < Retries
  BY <1>1 DEF WriterInv, Types, Fail, Idles
<1>2. CASE ~(tries[w] + 1 < Retries)
  BY <1>2 DEF WriterInv, Types, Fail, Return, Idles
<1>. QED
  BY <1>1, <1>2

\* The acting worker, and the variables of the attempt, after a failure.
LEMMA FailWorker ==
  ASSUME WriterInv, NEW w \in Workers, pc[w] # "idle", Fail(w), UNCHANGED crashes,
         blobs' \subseteq Instances, weapons' \subseteq Weapons,
         names' \in [Players -> Names \union {"null", "absent"}],
         rows' \subseteq UNION {RowsOf(i) : i \in Instances}
  PROVE  /\ Types' /\ WorkerInv(w)' /\ tx'[w] = {}
         /\ \A x \in Reports : answer'[x] = "nil" => answer[x] = "nil"
<1>1. report[w] \in Reports
  BY DEF WriterInv, WorkerInv
<1>2. Types'
  <2>1. 0 \in 0 .. Retries - 1 /\ "blob" \in Stages
    BY BoundsAssumption, StagesDistinct
  <2>2. CASE tries[w] + 1 < Retries
    <3>1. tries[w] + 1 \in 0 .. Retries - 1
      BY <2>2, BoundsAssumption DEF WriterInv, Types
    <3>2. /\ tx' = [tx EXCEPT ![w] = {}] /\ tries' = [tries EXCEPT ![w] = @ + 1]
          /\ pc' = [pc EXCEPT ![w] = "blob"] /\ todo' = [todo EXCEPT ![w] = {Inst(w)}]
          /\ UNCHANGED <<report, answer>>
      BY <2>2 DEF Fail
    <3>3. /\ pc' \in [Workers -> Stages \union {"idle"}]
          /\ tries' \in [Workers -> 0 .. Retries - 1]
      BY <2>1, <3>1, <3>2 DEF WriterInv, Types
    <3>4. todo' = [v \in Workers |-> todo'[v]] /\ tx' = [v \in Workers |-> tx'[v]]
      BY <3>2 DEF WriterInv, Types
    <3>. QED
      BY <3>2, <3>3, <3>4 DEF WriterInv, Types
  <2>3. CASE ~(tries[w] + 1 < Retries)
    <3>1. Return(w, "error") /\ tx' = [tx EXCEPT ![w] = {}]
      BY <2>3 DEF Fail
    <3>2. pc' \in [Workers -> Stages \union {"idle"}]
      BY <3>1 DEF WriterInv, Types, Return
    <3>3. report' \in [Workers -> Reports \union {NoReport}]
      BY <3>1 DEF WriterInv, Types, Return
    <3>4. todo' = [v \in Workers |-> todo'[v]]
      BY <3>1 DEF WriterInv, Types, Return
    <3>5. tx' = [v \in Workers |-> tx'[v]]
      BY <3>1 DEF WriterInv, Types
    <3>6. tries' \in [Workers -> 0 .. Retries - 1]
      BY <3>1, <2>1 DEF WriterInv, Types, Return
    <3>7. answer' \in [Reports -> {"none", "nil", "error"}]
      BY <3>1, <1>1 DEF WriterInv, Types, Return
    <3>8. crashes' \in 0 .. MaxCrashes
      BY DEF WriterInv, Types
    <3>. QED
      BY <3>2, <3>3, <3>4, <3>5, <3>6, <3>7, <3>8 DEF Types
  <2>. QED
    BY <2>2, <2>3
<1>3. WorkerInv(w)'
  <2>1. CASE tries[w] + 1 < Retries
    <3>1. /\ pc'[w] = "blob" /\ report'[w] = report[w]
          /\ todo'[w] = {InstanceOf[report'[w]]} /\ tx'[w] = {}
      <4>1. pc'[w] = "blob" /\ report' = report /\ tx'[w] = {}
        BY <2>1 DEF WriterInv, Types, Fail
      <4>2. todo' = [todo EXCEPT ![w] = {Inst(w)}]
        BY <2>1 DEF Fail
      <4>3. todo'[w] = {Inst(w)}
        BY <4>2 DEF WriterInv, Types
      <4>. QED
        BY <4>1, <4>3 DEF Inst
    <3>. QED
      BY <1>1, <3>1, FreshStart
  <2>2. CASE ~(tries[w] + 1 < Retries)
    <3>1. pc'[w] = "idle" /\ report'[w] = NoReport /\ todo'[w] = {} /\ tx'[w] = {}
      BY <2>2 DEF WriterInv, Types, Fail, Return
    <3>. QED
      BY <3>1, FreshIdle
  <2>. QED
    BY <2>1, <2>2
<1>4. tx'[w] = {}
  BY DEF WriterInv, Types, Fail
<1>5. \A x \in Reports : answer'[x] = "nil" => answer[x] = "nil"
  BY DEF WriterInv, Types, Fail, Return
<1>. QED
  BY <1>2, <1>3, <1>4, <1>5

\* A failed attempt, with the tables as they were.
LEMMA FailInv ==
  ASSUME WriterInv, NEW w \in Workers, pc[w] # "idle", Fail(w), UNCHANGED <<tables, crashes>>
  PROVE  WriterInv'
<1>1. Grow /\ rows' = rows /\ \A v \in Workers \ {w} : Idles(v)
  <2>1. Grow /\ rows' = rows
    BY DEF tables, Grow
  <2>. QED
    BY <2>1, FailOthers
<1>2. Types' /\ WorkerInv(w)' /\ tx'[w] = {}
  BY FailWorker DEF WriterInv, Types, tables
<1>3. Disjoint'
  BY <1>1, <1>2, DisjointStays DEF WriterInv
<1>4. \A x \in Reports : answer'[x] = "nil" => answer[x] = "nil"
  BY FailWorker DEF WriterInv, Types, tables
<1>. QED
  BY <1>1, <1>2, <1>3, <1>4, QuietStep

\* The rows of a transaction become visible: the whole instance with them.
LEMMA CommitStep ==
  ASSUME WriterInv, NEW w \in Workers, pc[w] = "commit",
         rows' = rows \union tx[w], tx'[w] = {}, UNCHANGED <<blobs, names, weapons>>,
         \A v \in Workers \ {w} : Idles(v),
         \A r \in Reports : answer'[r] = "nil" => answer[r] = "nil" \/ r = report[w],
         Types', WorkerInv(w)'
  PROVE  WriterInv'
<1>1. Grow
  BY DEF Grow
<1>2. \A v \in Workers : WorkerInv(v)'
  BY <1>1, OthersInv
<1>3. Disjoint'
  BY DEF WriterInv, Disjoint, Idles
<1>4. PICK i : i = Inst(w)
  OBVIOUS
<1>5. Complete(i)'
  <2>1. /\ i \in blobs
        /\ \A p \in PlayersIn(i) : names[p] # "absent"
        /\ WeaponsIn(i) \subseteq weapons
    BY <1>4, AutocommittedKept
  <2>2. RowsOf(i) \subseteq rows'
    BY <1>4, CommitReady
  <2>. QED
    BY <2>1, <2>2 DEF Complete
<1>6. InstanceAllOrNothing'
  <2>. SUFFICES ASSUME NEW j \in Instances, NEW k \in RowsOf(j), k \in rows'
                PROVE  Complete(j)'
    BY DEF InstanceAllOrNothing
  <2>1. CASE k \in rows
    <3>1. Complete(j)
      BY <2>1 DEF WriterInv, InstanceAllOrNothing
    <3>. QED
      BY <1>1, <3>1, CompleteStays
  <2>2. CASE k \in tx[w]
    <3>1. k \in RowsOf(i)
      BY <1>4, <2>2 DEF WriterInv, WorkerInv
    <3>2. j = i
      BY <3>1, RowsApart
    <3>. QED
      BY <1>5, <3>2
  <2>. QED
    BY <2>1, <2>2
<1>7. WrittenMeansStored'
  <2>. SUFFICES ASSUME NEW r \in Reports, answer'[r] = "nil"
                PROVE  Complete(InstanceOf[r])'
    BY DEF WrittenMeansStored
  <2>1. CASE answer[r] = "nil"
    <3>1. Complete(InstanceOf[r]) /\ InstanceOf[r] \in Instances
      BY <2>1, ReportsAssumption DEF WriterInv, WrittenMeansStored
    <3>. QED
      BY <1>1, <3>1, CompleteStays
  <2>2. CASE r = report[w]
    BY <1>4, <1>5, <2>2 DEF Inst
  <2>. QED
    BY <2>1, <2>2
<1>8. NamedAfterWrite'
  <2>. SUFFICES ASSUME NEW r \in Reports, answer'[r] = "nil",
                       NEW p \in PlayersIn(InstanceOf[r]), NameIn[r][p] \in Names
                PROVE  names[p] \in Names
    BY DEF NamedAfterWrite
  <2>1. CASE answer[r] = "nil"
    BY <2>1 DEF WriterInv, NamedAfterWrite
  <2>2. CASE r = report[w]
    BY <2>2, AutocommittedKept DEF Inst
  <2>. QED
    BY <2>1, <2>2
<1>. QED
  BY <1>2, <1>3, <1>6, <1>7, <1>8 DEF WriterInv

LEMMA CommittedRows ==
  ASSUME WriterInv, NEW w \in Workers, pc[w] # "idle"
  PROVE  rows \union tx[w] \subseteq UNION {RowsOf(i) : i \in Instances}
<1>1. tx[w] \subseteq RowsOf(Inst(w)) /\ Inst(w) \in Instances
  BY InstType DEF WriterInv, WorkerInv
<1>2. rows \subseteq UNION {RowsOf(i) : i \in Instances}
  BY DEF WriterInv, Types
<1>3. RowsOf(Inst(w)) \subseteq UNION {RowsOf(i) : i \in Instances}
  BY <1>1
<1>. QED
  BY <1>1, <1>2, <1>3

\* Both kinds of commit: the one that is answered, and the one whose answer is lost.
LEMMA CommitInv ==
  ASSUME WriterInv, NEW w \in Workers, Commit(w)
  PROVE  WriterInv'
<1>1. /\ pc[w] = "commit" /\ pc[w] # "idle" /\ report[w] \in Reports
      /\ rows' = rows \union tx[w] /\ UNCHANGED <<blobs, names, weapons>>
  BY StagesDistinct DEF Commit, WriterInv, WorkerInv
<1>2. Types'
  <2>1. 0 \in 0 .. Retries - 1
    BY BoundsAssumption
  <2>2. rows' \subseteq UNION {RowsOf(i) : i \in Instances}
    BY <1>1, CommittedRows
  <2>. QED
    BY <1>1, <2>1, <2>2 DEF WriterInv, Types, Commit, Return
<1>3. pc'[w] = "idle" /\ report'[w] = NoReport /\ todo'[w] = {} /\ tx'[w] = {}
  BY DEF WriterInv, Types, Commit, Return
<1>4. \A v \in Workers \ {w} : Idles(v)
  BY DEF WriterInv, Types, Commit, Return, Idles
<1>5. \A r \in Reports : answer'[r] = "nil" => answer[r] = "nil" \/ r = report[w]
  BY DEF WriterInv, Types, Commit, Return
<1>. QED
  BY <1>1, <1>2, <1>3, <1>4, <1>5, FreshIdle, CommitStep

LEMMA CommitFailsInv ==
  ASSUME WriterInv, NEW w \in Workers, CommitFails(w)
  PROVE  WriterInv'
<1>1. /\ pc[w] = "commit" /\ pc[w] # "idle" /\ Fail(w)
      /\ UNCHANGED <<blobs, names, weapons, crashes>>
      /\ rows' = rows \/ rows' = rows \union tx[w]
  BY StagesDistinct DEF CommitFails
<1>2. CASE rows' = rows
  BY <1>1, <1>2, FailInv DEF tables
<1>3. CASE rows' = rows \union tx[w]
  <2>1. rows' \subseteq UNION {RowsOf(i) : i \in Instances}
    BY <1>1, <1>3, CommittedRows
  <2>2. /\ Types' /\ WorkerInv(w)' /\ tx'[w] = {}
        /\ \A x \in Reports : answer'[x] = "nil" => answer[x] = "nil"
    <3>1. /\ blobs' \subseteq Instances /\ weapons' \subseteq Weapons
          /\ names' \in [Players -> Names \union {"null", "absent"}]
      BY <1>1 DEF WriterInv, Types
    <3>. QED
      BY <1>1, <2>1, <3>1, FailWorker
  <2>3. \A v \in Workers \ {w} : Idles(v)
    BY <1>1, FailOthers
  <2>. QED
    BY <1>1, <1>3, <2>2, <2>3, CommitStep
<1>. QED
  BY <1>1, <1>2, <1>3

LEMMA CrashInv ==
  ASSUME WriterInv, Crash
  PROVE  WriterInv'
<1>1. Grow /\ rows' = rows /\ \A r \in Reports : answer'[r] # "nil"
  BY DEF Crash, tables, Grow
<1>2. Types'
  <2>1. 0 \in 0 .. Retries - 1 /\ crashes' \in 0 .. MaxCrashes
    BY BoundsAssumption DEF WriterInv, Types, Crash
  <2>. QED
    BY <2>1 DEF WriterInv, Types, Crash, tables
<1>3. ASSUME NEW w \in Workers PROVE WorkerInv(w)'
  <2>1. pc'[w] = "idle" /\ report'[w] = NoReport /\ todo'[w] = {} /\ tx'[w] = {}
    BY DEF Crash
  <2>. QED
    BY <2>1, FreshIdle
<1>4. Disjoint'
  BY DEF Crash, Disjoint
<1>5. InstanceAllOrNothing'
  BY <1>1, CompleteStays DEF WriterInv, InstanceAllOrNothing
<1>. QED
  BY <1>1, <1>2, <1>3, <1>4, <1>5 DEF WriterInv, WrittenMeansStored, NamedAfterWrite

LEMMA StutterInv ==
  ASSUME WriterInv, UNCHANGED vars
  PROVE  WriterInv'
<1>1. Grow /\ \A w \in Workers : Idles(w)
  BY DEF vars, tables, Grow, Idles
<1>2. \A w \in Workers : WorkerInv(w)'
  BY <1>1, OthersInv
<1>3. InstanceAllOrNothing' /\ WrittenMeansStored'
  BY <1>1, CompleteStays, ReportsAssumption
     DEF WriterInv, InstanceAllOrNothing, WrittenMeansStored, vars, tables
<1>. QED
  BY <1>2, <1>3 DEF WriterInv, Types, Disjoint, NamedAfterWrite, vars, tables

LEMMA NextWriterInv == WriterInv /\ [Next]_vars => WriterInv'
<1>. SUFFICES ASSUME WriterInv, [Next]_vars PROVE WriterInv'
  OBVIOUS
<1>1. ASSUME NEW w \in Workers, Progress(w) PROVE WriterInv'
  <2>1. CASE StageDone(w)
    BY <2>1, StageDoneInv
  <2>2. CASE Commit(w)
    BY <2>2, CommitInv
  <2>3. ASSUME NEW k \in todo[w], ForeignKeyFails(w, k) PROVE WriterInv'
    BY <2>3, FailInv, StagesDistinct DEF ForeignKeyFails
  <2>. QED
    BY <1>1, <2>1, <2>2, <2>3, SaveBlobInv, SavePlayerInv, SaveWeaponInv, InsertInv
       DEF Progress
<1>2. ASSUME NEW w \in Workers, StatementFails(w) PROVE WriterInv'
  BY <1>2, FailInv, StagesDistinct DEF StatementFails
<1>. QED
  BY <1>1, <1>2, CommitFailsInv, TakeInv, CrashInv, StutterInv DEF Next, WriteStep, AllAnswered

-----------------------------------------------------------------------------
(***************************************************************************)
(* The theorems.                                                           *)
(***************************************************************************)

\* The invariant holds in every reachable state.
THEOREM WriterCorrect == Spec => []WriterInv
BY InitWriterInv, NextWriterInv, PTL DEF Spec

\* Types; no transaction is open between two writes, and it holds rows of its instance.
THEOREM WriterTypeSafety == Spec => []TypeOK
BY WriterCorrect, InvTypeOK, PTL

\* A reader of the database sees an instance whole or not at all.
THEOREM AllOrNothing == Spec => []InstanceAllOrNothing
<1>1. WriterInv => InstanceAllOrNothing
  BY DEF WriterInv
<1>. QED
  BY <1>1, WriterCorrect, PTL

\* A Write that returned nil has stored its report, and no later failure undoes it.
THEOREM NilIsStored == Spec => []WrittenMeansStored
<1>1. WriterInv => WrittenMeansStored
  BY DEF WriterInv
<1>. QED
  BY <1>1, WriterCorrect, PTL

\* No worker waits while it holds a key: the workers cannot deadlock in the database.
THEOREM NoHoldAndWait == Spec => []WaitsEmptyHanded
BY WriterCorrect, InvEmptyHanded, PTL

\* Of the foreign keys only the instance's activity can be missing.
THEOREM ReferencesInOrder == Spec => []OnlyUnknownActivityFails
BY WriterCorrect, InvOnlyUnknown, PTL

\* A stored report leaves no name behind that it knows.
THEOREM NamesArrive == Spec => []NamedAfterWrite
<1>1. WriterInv => NamedAfterWrite
  BY DEF WriterInv
<1>. QED
  BY <1>1, WriterCorrect, PTL

\* A known name is never lost or replaced.
THEOREM NamesStay == Spec => NamesKept
<1>1. WriterInv /\ [Next]_vars
        => [\A p \in Players : names[p] \in Names => names'[p] = names[p]]_vars
  <2>. SUFFICES ASSUME WriterInv, [Next]_vars, NEW p \in Players, names[p] \in Names
                PROVE  names'[p] = names[p]
    OBVIOUS
  <2>1. ASSUME NEW w \in Workers, NEW k \in todo[w], SavePlayer(w, k)
        PROVE  names'[p] = names[p]
    BY <2>1, NamesAssumption DEF SavePlayer, Upsert, WriterInv, Types
  <2>2. CASE UNCHANGED names
    BY <2>2
  <2>3. ASSUME NEW w \in Workers, Progress(w) PROVE names'[p] = names[p]
    BY <2>1, <2>2, <2>3 DEF Progress, StageDone, SaveBlob, SaveWeapon, Insert,
       ForeignKeyFails, Commit, tables
  <2>. QED
    BY <2>2, <2>3 DEF Next, WriteStep, StatementFails, CommitFails, Take, Crash, AllAnswered,
       vars, tables
<1>. QED
  BY <1>1, WriterCorrect, PTL DEF Spec, NamesKept

-----------------------------------------------------------------------------
(***************************************************************************)
(* Deadlocks.                                                              *)
(***************************************************************************)
WaitsFor(v, w) ==
  v # w /\ pc[v] \in InTx /\ \E key \in todo[v] : key \notin rows /\ key \in tx[w]

\* The guards of Progress(w): w is in a write, and its next step need not wait.
Ready(w) ==
  \/ pc[w] = "commit"
  \/ pc[w] \in Stages \ {"commit"} /\ todo[w] = {}
  \/ pc[w] \in {"blob", "weapons"} /\ todo[w] # {}
  \/ pc[w] = "players" /\ \E p \in todo[w] : \A q \in todo[w] : p <= q
  \/ pc[w] \in InTx /\ \E key \in todo[w] : ~Locked(w, key)

Less == OpToRel(<, Nat)

LEMMA LessIs == \A a, b : <<a, b>> \in Less <=> a \in Nat /\ b \in Nat /\ a < b
BY DEF Less, OpToRel

LEMMA SmallestExists ==
  ASSUME NEW S \in SUBSET Nat, S # {}
  PROVE  \E x \in S : \A y \in S : x <= y
<1>1. IsWellFoundedOn(Less, Nat)
  BY NatLessThanWellFounded, Zenon DEF Less
<1>2. PICK x \in S : \A y \in S : <<y, x>> \notin Less
  BY <1>1, WFMin
<1>3. \A y \in S : x \in Nat /\ y \in Nat /\ ~(y < x)
  BY <1>2, LessIs
<1>. QED
  BY <1>3

\* Before the transaction nobody waits.
LEMMA ReadyBefore ==
  ASSUME WriterInv, NEW w \in Workers, pc[w] \in Stages \ InTx
  PROVE  Ready(w)
<1>1. CASE pc[w] = "players" /\ todo[w] # {}
  <2>1. todo[w] \subseteq Players
    BY <1>1, InstType DEF WriterInv, WorkerInv, Keys
  <2>2. \E p \in todo[w] : \A q \in todo[w] : p <= q
    BY <1>1, <2>1, SmallestExists, PlayersAssumption
  <2>. QED
    BY <1>1, <2>2 DEF Ready
<1>2. CASE ~(pc[w] = "players" /\ todo[w] # {})
  BY <1>2 DEF Ready, Stages, Autocommitted
<1>. QED
  BY <1>1, <1>2

\* Within it, whoever is not ready waits for another one.
LEMMA ReadyWithin ==
  ASSUME WriterInv, NEW w \in Workers, pc[w] \in InTx
  PROVE  Ready(w) \/ \E v \in Workers : WaitsFor(w, v)
<1>1. CASE todo[w] = {}
  BY <1>1, StagesDistinct DEF Ready
<1>2. CASE todo[w] # {}
  <2>1. PICK key \in todo[w] : TRUE
    BY <1>2
  <2>2. CASE Locked(w, key)
    <3>1. PICK v \in Workers \ {w} : key \in tx[v]
      BY <2>2 DEF Locked
    <3>2. key \notin rows
      BY <3>1 DEF WriterInv, Disjoint
    <3>. QED
      BY <3>1, <3>2 DEF WaitsFor
  <2>3. CASE ~Locked(w, key)
    BY <2>3 DEF Ready
  <2>. QED
    BY <2>2, <2>3
<1>. QED
  BY <1>1, <1>2

LEMMA WaitingIsWaiting ==
  ASSUME NEW v \in Workers, NEW w \in Workers, WaitsFor(v, w)
  PROVE  Waiting(v) /\ tx[w] # {}
BY DEF WaitsFor, Waiting, Locked

\* Whoever is waited for can go on: waits have the length one.
THEOREM NobodyWaitsForAWaiter ==
  Spec => [](\A u, v, w \in Workers : ~(WaitsFor(u, v) /\ WaitsFor(v, w)))
<1>1. WaitsEmptyHanded => \A u, v, w \in Workers : ~(WaitsFor(u, v) /\ WaitsFor(v, w))
  BY WaitingIsWaiting DEF WaitsEmptyHanded
<1>. QED
  BY <1>1, NoHoldAndWait, PTL

\* There is no deadlock in the database: a write that cannot go on waits for another one
\* that can.
THEOREM WritesCanGoOn ==
  Spec => [](\A w \in Workers : pc[w] # "idle" =>
               Ready(w) \/ \E v \in Workers : WaitsFor(w, v) /\ Ready(v))
<1>1. ASSUME WriterInv, NEW w \in Workers, pc[w] # "idle", ~Ready(w)
      PROVE  \E v \in Workers : WaitsFor(w, v) /\ Ready(v)
  <2>1. pc[w] \in InTx
    BY <1>1, ReadyBefore DEF WriterInv, Types
  <2>2. PICK v \in Workers : WaitsFor(w, v)
    BY <1>1, <2>1, ReadyWithin
  <2>3. pc[v] \in InTx \union {"commit"} /\ ~Waiting(v)
    BY <1>1, <2>2, WaitingIsWaiting, InvEmptyHanded DEF WriterInv, WorkerInv, WaitsEmptyHanded
  <2>4. Ready(v)
    BY <1>1, <2>3, ReadyWithin, WaitingIsWaiting DEF Ready
  <2>. QED
    BY <2>2, <2>4
<1>2. WriterInv => \A w \in Workers : pc[w] # "idle" =>
                     Ready(w) \/ \E v \in Workers : WaitsFor(w, v) /\ Ready(v)
  BY <1>1
<1>. QED
  BY <1>2, WriterCorrect, PTL

-----------------------------------------------------------------------------
(***************************************************************************)
(* The writers together implement ReportStore.  What is stored can be read *)
(* off the instances' rows: the other tables add nothing to an instance    *)
(* whose row is there, so that only a commit is a step of the store.       *)
(***************************************************************************)

Stored == {i \in Instances : Complete(i)}

ByRow == \A i \in Instances : Complete(i) <=> <<"instance", i>> \in rows

LEMMA StoredByRow == WriterInv => ByRow
<1>1. \A i \in Instances : <<"instance", i>> \in RowsOf(i)
  BY DEF RowsOf, Keys, InTx
<1>. QED
  BY <1>1 DEF ByRow, WriterInv, InstanceAllOrNothing, Complete

LEMMA StoredStays ==
  ASSUME WriterInv, WriterInv', rows' = rows
  PROVE  Stored' = Stored
<1>1. ByRow /\ ByRow'
  BY StoredByRow, PTL
<1>. QED
  BY <1>1 DEF ByRow, Stored

LEMMA CommitStores ==
  ASSUME WriterInv, WriterInv', NEW w \in Workers, pc[w] = "commit",
         rows' = rows \union tx[w]
  PROVE  Stored' = Stored \union {InstanceOf[report[w]]}
<1>1. ByRow /\ ByRow'
  BY StoredByRow, PTL
<1>2. PICK j : j = Inst(w)
  OBVIOUS
<1>3. j \in Instances /\ <<"instance", j>> \in rows'
  BY <1>2, InstType, InstanceKept, StagesDistinct
<1>4. \A i \in Instances : <<"instance", i>> \in tx[w] => i = j
  <2>1. \A i \in Instances : <<"instance", i>> \in RowsOf(i)
    BY DEF RowsOf, Keys, InTx
  <2>2. tx[w] \subseteq RowsOf(j)
    BY <1>2, StagesDistinct DEF WriterInv, WorkerInv
  <2>. QED
    BY <2>1, <2>2, RowsApart
<1>. QED
  BY <1>1, <1>2, <1>3, <1>4 DEF ByRow, Stored, Inst

\* A failed attempt, with what it stored: the write goes on, or returns the error.
LEMMA FailStores ==
  ASSUME WriterInv, NEW w \in Workers, pc[w] # "idle", Fail(w),
         Stored' \in {Stored, Stored \union {InstanceOf[report[w]]}}
  PROVE  [Store!Next]_Store!vars
<1>1. report[w] # NoReport
  BY ReportsAssumption DEF WriterInv, WorkerInv
<1>2. CASE tries[w] + 1 < Retries
  <2>1. UNCHANGED <<report, answer>>
    BY <1>2 DEF Fail
  <2>2. Store!Store(w) \/ UNCHANGED Store!vars
    BY <1>1, <2>1 DEF Store!Store, Store!With, Store!vars, Stored
  <2>. QED
    BY <2>2 DEF Store!Next
<1>3. CASE ~(tries[w] + 1 < Retries)
  <2>1. /\ answer' = [answer EXCEPT ![report[w]] = "error"]
        /\ report' = [report EXCEPT ![w] = NoReport]
    BY <1>3 DEF Fail, Return
  <2>2. Store!Return(w, "error")
    BY <1>1, <2>1 DEF Store!Return, Store!With, Stored
  <2>. QED
    BY <2>2 DEF Store!Next
<1>. QED
  BY <1>2, <1>3

LEMMA CommitIsReturn ==
  ASSUME WriterInv, WriterInv', NEW w \in Workers, Commit(w)
  PROVE  Store!Next
<1>1. report[w] # NoReport
  BY ReportsAssumption, StagesDistinct DEF WriterInv, WorkerInv, Commit
<1>2. Stored' = Stored \union {InstanceOf[report[w]]}
  BY CommitStores DEF Commit
<1>3. /\ answer' = [answer EXCEPT ![report[w]] = "nil"]
      /\ report' = [report EXCEPT ![w] = NoReport]
  BY DEF Commit, Return
<1>4. Store!Return(w, "nil")
  BY <1>1, <1>2, <1>3 DEF Store!Return, Store!With, Stored
<1>. QED
  BY <1>4 DEF Store!Next

LEMMA CommitFailsStores ==
  ASSUME WriterInv, WriterInv', NEW w \in Workers, CommitFails(w)
  PROVE  [Store!Next]_Store!vars
<1>1. pc[w] = "commit" /\ pc[w] # "idle" /\ Fail(w)
  BY StagesDistinct DEF CommitFails
<1>2. CASE rows' = rows
  <2>1. Stored' = Stored
    BY <1>2, StoredStays
  <2>. QED
    BY <1>1, <2>1, FailStores
<1>3. CASE rows' = rows \union tx[w]
  <2>1. Stored' = Stored \union {InstanceOf[report[w]]}
    BY <1>1, <1>3, CommitStores
  <2>. QED
    BY <1>1, <2>1, FailStores
<1>. QED
  BY <1>2, <1>3 DEF CommitFails

LEMMA TakeIsTake ==
  ASSUME WriterInv, WriterInv', NEW w \in Workers, NEW r \in Reports, Take(w, r)
  PROVE  Store!Next
<1>1. Stored' = Stored
  BY StoredStays DEF Take, tables
<1>2. report[w] = NoReport
  BY DEF Take, WriterInv, WorkerInv
<1>3. Store!Take(w, r)
  BY <1>1, <1>2 DEF Take, Store!Take, Stored
<1>. QED
  BY <1>3 DEF Store!Next

LEMMA CrashIsRestart ==
  ASSUME WriterInv, WriterInv', Crash
  PROVE  Store!Next
<1>1. Stored' = Stored
  BY StoredStays DEF Crash, tables
<1>2. report' = [w \in Workers |-> NoReport] /\ answer' = [r \in Reports |-> "none"]
  BY DEF Crash
<1>3. Store!Restart
  BY <1>1, <1>2 DEF Store!Restart, Store!Idle, Store!Unanswered, Stored
<1>. QED
  BY <1>3 DEF Store!Next

\* The other statements are no steps of the store.
LEMMA Unseen ==
  ASSUME WriterInv, WriterInv', UNCHANGED <<report, answer, rows>>
  PROVE  UNCHANGED Store!vars
<1>1. Stored' = Stored
  BY StoredStays
<1>. QED
  BY <1>1 DEF Store!vars, Stored

LEMMA StoreStarts == Init => Store!Init
<1>. SUFFICES ASSUME Init PROVE Store!Init
  OBVIOUS
<1>1. Stored = {}
  BY InitWriterInv, StoredByRow DEF ByRow, Init, Stored
<1>. QED
  BY <1>1 DEF Init, Store!Init, Store!Idle, Store!Unanswered, Stored

LEMMA StoreSteps == WriterInv /\ WriterInv' /\ [Next]_vars => [Store!Next]_Store!vars
<1>. SUFFICES ASSUME WriterInv, WriterInv', [Next]_vars PROVE [Store!Next]_Store!vars
  OBVIOUS
<1>1. ASSUME NEW w \in Workers, Progress(w) PROVE [Store!Next]_Store!vars
  <2>1. CASE Commit(w)
    BY <2>1, CommitIsReturn
  <2>2. ASSUME NEW k \in todo[w], ForeignKeyFails(w, k) PROVE [Store!Next]_Store!vars
    <3>1. Stored' = Stored
      BY <2>2, StoredStays DEF ForeignKeyFails, tables
    <3>2. pc[w] # "idle" /\ Fail(w)
      BY <2>2, StagesDistinct DEF ForeignKeyFails
    <3>. QED
      BY <3>1, <3>2, FailStores
  <2>3. CASE StageDone(w)
    BY <2>3, Unseen DEF StageDone, tables
  <2>4. ASSUME NEW k \in todo[w],
               SaveBlob(w, k) \/ SavePlayer(w, k) \/ SaveWeapon(w, k) \/ Insert(w, k)
        PROVE  UNCHANGED Store!vars
    <3>1. UNCHANGED <<report, answer, rows>>
      BY <2>4 DEF SaveBlob, SavePlayer, SaveWeapon, Insert, Inserted, tables
    <3>. QED
      BY <3>1, Unseen
  <2>. QED
    BY <1>1, <2>1, <2>2, <2>3, <2>4 DEF Progress
<1>2. ASSUME NEW w \in Workers, StatementFails(w) PROVE [Store!Next]_Store!vars
  <2>1. Stored' = Stored
    BY <1>2, StoredStays DEF StatementFails, tables
  <2>2. pc[w] # "idle" /\ Fail(w)
    BY <1>2, StagesDistinct DEF StatementFails
  <2>. QED
    BY <2>1, <2>2, FailStores
<1>3. CASE UNCHANGED vars
  BY <1>3, Unseen DEF vars, tables
<1>. QED
  BY <1>1, <1>2, <1>3, CommitFailsStores, TakeIsTake, CrashIsRestart DEF Next, WriteStep, AllAnswered

\* For whoever reads the database, a write is one step, which stores its instance.
THEOREM WritersImplementStore == Spec => ImplementsStore
<1>. QED
  BY StoreStarts, StoreSteps, WriterCorrect, PTL DEF Spec, ImplementsStore, Store!Spec

-----------------------------------------------------------------------------
(***************************************************************************)
(* Sums over groups.  Every unit of an entry's number is a unit of its     *)
(* group's number, and each group can be counted out.                      *)
(***************************************************************************)
LEMMA UnitsMember ==
  ASSUME NEW S, NEW c, NEW x, NEW i
  PROVE  <<x, i>> \in Units(S, c) <=> x \in S /\ i \in 1 .. c[x]
BY DEF Units

LEMMA UnitsArePairs ==
  ASSUME NEW S, NEW c, NEW u \in Units(S, c)
  PROVE  u = <<u[1], u[2]>> /\ u[1] \in S /\ u[2] \in 1 .. c[u[1]]
BY DEF Units

LEMMA UnitsFinite ==
  ASSUME NEW S, IsFiniteSet(S), NEW c, \A x \in S : c[x] \in Nat
  PROVE  IsFiniteSet(Units(S, c)) /\ SumOver(S, c) \in Nat
<1> DEFINE Slice(x) == {x} \X (1 .. c[x])
           Slices == {Slice(x) : x \in S}
<1>1. IsFiniteSet(Slices)
  <2> DEFINE sliced == [x \in S |-> Slice(x)]
  <2>1. sliced \in Surjection(S, Slices)
    BY DEF Surjection
  <2> HIDE DEF sliced
  <2> QED
    BY <2>1, FS_Surjection
<1>2. ASSUME NEW T \in Slices PROVE IsFiniteSet(T)
  <2>1. PICK x \in S : T = Slice(x)
    OBVIOUS
  <2>2. IsFiniteSet({x})
    BY FS_Singleton
  <2>3. IsFiniteSet(1 .. c[x])
    BY FS_Interval
  <2> QED
    BY <2>1, <2>2, <2>3, FS_Product
<1>3. IsFiniteSet(Units(S, c))
  BY <1>1, <1>2, FS_UNION DEF Units
<1> QED
  BY <1>3, FS_CardinalityType DEF SumOver

\* Only the numbers of the members count.
LEMMA UnitsSame ==
  ASSUME NEW S, NEW c, NEW d, \A x \in S : c[x] = d[x]
  PROVE  SumOver(S, c) = SumOver(S, d)
<1>1. Units(S, c) \subseteq Units(S, d)
  <2> SUFFICES ASSUME NEW u \in Units(S, c) PROVE u \in Units(S, d)
    OBVIOUS
  <2> QED
    BY UnitsArePairs, UnitsMember
<1>2. Units(S, d) \subseteq Units(S, c)
  <2> SUFFICES ASSUME NEW u \in Units(S, d) PROVE u \in Units(S, c)
    OBVIOUS
  <2> QED
    BY UnitsArePairs, UnitsMember
<1> QED
  BY <1>1, <1>2 DEF SumOver

\* The sum over groups of their sums is the sum over all.
LEMMA SumOfGroups ==
  ASSUME NEW P, IsFiniteSet(P), NEW c, \A k \in P : c[k] \in Nat,
         NEW Q, NEW of \in [P -> Q],
         NEW G, \A q \in Q : G[q] = {k \in P : of[k] = q},
         NEW d, \A q \in Q : d[q] = SumOver(G[q], c)
  PROVE  SumOver(Q, d) = SumOver(P, c)
<1> DEFINE U(q) == Units(G[q], c)
           A == Units(Q, d)
           B == Units(P, c)
           b == [q \in Q |-> CHOOSE f : f \in Bijection(1 .. d[q], U(q))]
           g == [u \in A |-> b[u[1]][u[2]]]
<1>1. ASSUME NEW q \in Q PROVE b[q] \in Bijection(1 .. d[q], U(q))
  <2>1. G[q] \subseteq P
    OBVIOUS
  <2>2. IsFiniteSet(G[q]) /\ \A k \in G[q] : c[k] \in Nat
    BY <2>1, FS_Subset
  <2>3. IsFiniteSet(U(q))
    BY <2>2, UnitsFinite
  <2>4. ExistsBijection(1 .. Cardinality(U(q)), U(q))
    BY <2>3, FS_CardinalityType
  <2>5. d[q] = Cardinality(U(q))
    BY DEF SumOver
  <2> QED
    BY <2>4, <2>5 DEF ExistsBijection
<1>2. ASSUME NEW q \in Q, NEW u \in U(q)
      PROVE  u = <<u[1], u[2]>> /\ u \in B /\ of[u[1]] = q
  BY UnitsArePairs, UnitsMember
<1>3. ASSUME NEW u \in A
      PROVE  u = <<u[1], u[2]>> /\ u[1] \in Q /\ u[2] \in 1 .. d[u[1]] /\ g[u] = b[u[1]][u[2]]
  BY UnitsArePairs
<1>4. ASSUME NEW u \in B PROVE of[u[1]] \in Q /\ u \in U(of[u[1]])
  <2>1. u = <<u[1], u[2]>> /\ u[1] \in P /\ u[2] \in 1 .. c[u[1]]
    BY UnitsArePairs
  <2>2. u[1] \in G[of[u[1]]]
    BY <2>1
  <2> QED
    BY <2>1, <2>2, UnitsMember
<1>5. ASSUME NEW q \in Q, NEW i \in 1 .. d[q] PROVE <<q, i>> \in A /\ g[<<q, i>>] = b[q][i]
  BY UnitsMember
<1>6. g = [u \in A |-> g[u]]
  OBVIOUS
<1> HIDE DEF U, A, B, b, g
<1>7. \A q \in Q : /\ \A i \in 1 .. d[q] : b[q][i] \in U(q)
                   /\ \A i, j \in 1 .. d[q] : b[q][i] = b[q][j] => i = j
                   /\ \A u \in U(q) : \E i \in 1 .. d[q] : b[q][i] = u
  BY <1>1 DEF Bijection, Injection, Surjection, IsInjective
<1>8. \A u \in A : g[u] \in B /\ of[g[u][1]] = u[1]
  BY <1>2, <1>3, <1>7
<1>9. ASSUME NEW u \in A, NEW v \in A, g[u] = g[v] PROVE u = v
  <2>1. u[1] = v[1]
    BY <1>8, <1>9
  <2>2. u[2] = v[2]
    BY <1>3, <1>7, <1>9, <2>1
  <2> QED
    BY <1>3, <2>1, <2>2
<1>10. ASSUME NEW x \in B PROVE \E u \in A : g[u] = x
  <2>1. of[x[1]] \in Q /\ x \in U(of[x[1]])
    BY <1>4
  <2>2. PICK i \in 1 .. d[of[x[1]]] : b[of[x[1]]][i] = x
    BY <1>7, <2>1
  <2>3. <<of[x[1]], i>> \in A /\ g[<<of[x[1]], i>>] = x
    BY <1>5, <2>1, <2>2
  <2> QED
    BY <2>3
<1>11. g \in Bijection(A, B)
  BY <1>6, <1>8, <1>9, <1>10 DEF Bijection, Injection, Surjection, IsInjective
<1>12. IsFiniteSet(B)
  BY UnitsFinite DEF B
<1>13. IsFiniteSet(A)
  BY <1>11, <1>12, FS_Injection DEF Bijection
<1>14. Cardinality(B) = Cardinality(A)
  BY <1>11, <1>13, FS_Bijection DEF ExistsBijection
<1> QED
  BY <1>14 DEF A, B, SumOver

-----------------------------------------------------------------------------
LEMMA MinIsMember ==
  ASSUME NEW S \in SUBSET Nat, S # {}
  PROVE  Min(S) \in S
BY SmallestExists DEF Min

-----------------------------------------------------------------------------
(***************************************************************************)
(* The rows of a report r.  P are the positions of its entries, and Id(k)  *)
(* is the membership id of the one at position k.                          *)
(***************************************************************************)
Id(r, k) == Int64(r.entries[k].membership)

Ids(r) == {Id(r, k) : k \in DOMAIN r.entries}

Group(r, m) == {k \in DOMAIN r.entries : Id(r, k) = m}

LEMMA GroupsAre ==
  ASSUME NEW r
  PROVE  groupByMembershipId(r) = [m \in Ids(r) |-> Group(r, m)]
<1>1. {Int64(e.membership) : e \in Entries(r)} = Ids(r)
  BY DEF Entries, ToSet, Ids, Id
<1> QED
  BY <1>1 DEF groupByMembershipId, Group, Id

\* The row of player m.
Row(r, m) ==
  [player |-> m, time |-> playerTimePlayed(r, Group(r, m)),
   completed |-> playerCompleted(r, Group(r, m))]

LEMMA PlayersAre ==
  ASSUME NEW r
  PROVE  MapToInstancePlayers(r) = {Row(r, m) : m \in Ids(r)}
BY GroupsAre DEF MapToInstancePlayers, Row

LEMMA ToonsAre ==
  ASSUME NEW r
  PROVE  MapToInstanceToons(r) =
           {[player |-> Id(r, k), toon |-> r.entries[k].toon, completed |-> r.entries[k].completed]
              : k \in DOMAIN r.entries}
<1> DEFINE Toon(m, k) == [player |-> m, toon |-> r.entries[k].toon,
                          completed |-> r.entries[k].completed]
<1>1. MapToInstanceToons(r) = UNION {{Toon(m, k) : k \in Group(r, m)} : m \in Ids(r)}
  BY GroupsAre DEF MapToInstanceToons
<1> HIDE DEF Toon
<1>2. UNION {{Toon(m, k) : k \in Group(r, m)} : m \in Ids(r)} = {Toon(Id(r, k), k) : k \in DOMAIN r.entries}
  BY DEF Group, Ids
<1> QED
  BY <1>1, <1>2 DEF Toon

\* The positions are finitely many, and so are the players.
LEMMA PositionsFinite ==
  ASSUME NEW r, IsReport(r)
  PROVE  /\ IsFiniteSet(DOMAIN r.entries)
         /\ DOMAIN r.entries \subseteq Nat
         /\ \A k \in DOMAIN r.entries : r.entries[k].time \in Nat /\ r.entries[k].completed \in BOOLEAN
<1>1. DOMAIN r.entries = 1 .. Len(r.entries) /\ Len(r.entries) \in Nat
  BY DEF IsReport
<1>2. \A k \in DOMAIN r.entries : r.entries[k] \in Entries(r)
  BY DEF Entries, ToSet
<1>3. IsFiniteSet(DOMAIN r.entries)
  BY <1>1, FS_Interval
<1> QED
  BY <1>1, <1>2, <1>3 DEF IsReport

LEMMA PlayersCounted ==
  ASSUME NEW r, IsReport(r)
  PROVE  Cardinality(Ids(r)) = Cardinality(MapToInstancePlayers(r))
<1> DEFINE Q == {Row(r, m) : m \in Ids(r)}
           ids == [k \in DOMAIN r.entries |-> Id(r, k)]
           row == [m \in Ids(r) |-> Row(r, m)]
<1>1. ids \in Surjection(DOMAIN r.entries, Ids(r))
  BY DEF Ids, Surjection
<1>2. IsFiniteSet(Ids(r))
  <2> HIDE DEF ids
  <2> QED
    BY <1>1, PositionsFinite, FS_Surjection
<1>3. \A m \in Ids(r) : row[m] \in Q /\ row[m].player = m
  BY DEF Row
<1>4. \A q \in Q : \E m \in Ids(r) : row[m] = q
  OBVIOUS
<1>5. row = [m \in Ids(r) |-> row[m]]
  OBVIOUS
<1>6. Q = MapToInstancePlayers(r)
  BY PlayersAre
<1> HIDE DEF Q, row
<1>7. row \in Bijection(Ids(r), Q)
  BY <1>3, <1>4, <1>5 DEF Bijection, Injection, Surjection, IsInjective
<1> QED
  BY <1>2, <1>6, <1>7, FS_Bijection DEF ExistsBijection

LEMMA TimesAddUp ==
  ASSUME NEW r, IsReport(r)
  PROVE  SumOver(MapToInstancePlayers(r), [p \in MapToInstancePlayers(r) |-> p.time])
           = SumOver(DOMAIN r.entries, [k \in DOMAIN r.entries |-> r.entries[k].time])
<1> DEFINE P == DOMAIN r.entries
           Q == MapToInstancePlayers(r)
           c == [k \in P |-> r.entries[k].time]
           d == [p \in Q |-> p.time]
           of == [k \in P |-> Row(r, Id(r, k))]
           G == [q \in Q |-> {k \in P : of[k] = q}]
<1>1. Q = {Row(r, m) : m \in Ids(r)}
  BY PlayersAre
<1>2. of \in [P -> Q]
  BY <1>1 DEF Ids
<1>3. \A k \in P : c[k] \in Nat
  BY PositionsFinite
<1>4. ASSUME NEW q \in Q PROVE d[q] = SumOver(G[q], c)
  <2>1. PICK m \in Ids(r) : q = Row(r, m)
    BY <1>1
  <2>2. G[q] = Group(r, m)
    <3>1. \A k \in P : Row(r, Id(r, k)).player = Id(r, k) /\ Row(r, m).player = m
      BY DEF Row
    <3>2. \A k \in P : of[k] = q <=> Id(r, k) = m
      BY <2>1, <3>1
    <3> QED
      BY <3>2 DEF Group
  <2>3. d[q] = SumOver(Group(r, m), [k \in Group(r, m) |-> r.entries[k].time])
    BY <2>1 DEF Row, playerTimePlayed
  <2>4. \A k \in Group(r, m) : [j \in Group(r, m) |-> r.entries[j].time][k] = c[k]
    BY DEF Group
  <2>5. SumOver(Group(r, m), [k \in Group(r, m) |-> r.entries[k].time]) = SumOver(Group(r, m), c)
    <3> DEFINE e == [k \in Group(r, m) |-> r.entries[k].time]
    <3>1. \A k \in Group(r, m) : e[k] = c[k]
      BY <2>4
    <3> HIDE DEF e, c
    <3> QED
      BY <3>1, UnitsSame DEF e
  <2> QED
    BY <2>2, <2>3, <2>5
<1>5. IsFiniteSet(P)
  BY PositionsFinite
<1>6. \A q \in Q : G[q] = {k \in P : of[k] = q}
  OBVIOUS
<1> HIDE DEF P, Q, c, d, of, G
<1>7. SumOver(Q, d) = SumOver(P, c)
  BY <1>2, <1>3, <1>4, <1>5, <1>6, SumOfGroups
<1> QED
  BY <1>7 DEF P, Q, c, d

\* The players saved: the entry kept for a text has that text.
LEMMA SavedAre ==
  ASSUME NEW r, IsReport(r)
  PROVE  {p.id : p \in MapToDestinyPlayers(r)} = Ids(r)
<1> DEFINE texts == {e.membership : e \in Entries(r)}
           At(t) == {k \in DOMAIN r.entries : r.entries[k].membership = t}
<1>1. texts = {r.entries[k].membership : k \in DOMAIN r.entries}
  BY DEF Entries, ToSet
<1>2. ASSUME NEW t \in texts PROVE r.entries[Min(At(t))].membership = t
  <2>1. At(t) # {} /\ At(t) \in SUBSET Nat
    BY <1>1, PositionsFinite
  <2>2. Min(At(t)) \in At(t)
    BY <2>1, MinIsMember
  <2> QED
    BY <2>2
<1>3. MapToDestinyPlayers(r) =
        {[id |-> Int64(r.entries[Min(At(t))].membership), name |-> r.entries[Min(At(t))].name]
           : t \in texts}
  BY DEF MapToDestinyPlayers, getUniquePlayers
<1> DEFINE Saved(t) == [id |-> Int64(r.entries[Min(At(t))].membership),
                        name |-> r.entries[Min(At(t))].name]
<1>4. {p.id : p \in MapToDestinyPlayers(r)} = {Int64(r.entries[Min(At(t))].membership) : t \in texts}
  <2>1. MapToDestinyPlayers(r) = {Saved(t) : t \in texts}
    BY <1>3
  <2>2. \A t \in texts : Saved(t).id = Int64(r.entries[Min(At(t))].membership)
    OBVIOUS
  <2> HIDE DEF Saved, At, texts
  <2> QED
    BY <2>1, <2>2
<1> HIDE DEF At
<1>5. {Int64(r.entries[Min(At(t))].membership) : t \in texts} = {Int64(t) : t \in texts}
  BY <1>2
<1>6. {Int64(t) : t \in texts} = Ids(r)
  BY <1>1 DEF Ids, Id
<1> QED
  BY <1>4, <1>5, <1>6

-----------------------------------------------------------------------------
\* A report is fresh by the rule of its era, whenever it was played.
THEOREM FreshRule == OneReport => []FreshByEra
<1>1. sample \in Samples => FreshByEra
  <2> SUFFICES ASSUME sample \in Samples, NEW flawless \in BOOLEAN
               PROVE  isFresh(sample, flawless) <=>
                        \/ sample.period > witchQueenStart /\ sample.started
                        \/ sample.period < beyondLightStart /\ FirstPhase(sample)
    BY DEF FreshByEra
  <2>1. sample.period \in Int /\ sample.started \in BOOLEAN
    BY SamplesAssumption DEF IsReport
  <2>2. CASE sample.period >= 6
    BY <2>1, <2>2 DEF isFresh, hauntedStart, beyondLightStart, witchQueenStart
  <2>3. CASE sample.period < 2
    BY <2>1, <2>3 DEF isFresh, hauntedStart, beyondLightStart, witchQueenStart
  <2>4. CASE sample.period \in 2 .. 4
    BY <2>1, <2>4 DEF isFresh, hauntedStart, beyondLightStart, witchQueenStart
  <2>5. CASE sample.period = 5
    BY <2>1, <2>5 DEF isFresh, hauntedStart, beyondLightStart, witchQueenStart
  <2> QED
    BY <2>1, <2>2, <2>3, <2>4, <2>5
<1>2. sample \in Samples /\ [UNCHANGED sample]_sample => (sample \in Samples)'
  OBVIOUS
<1> QED
  BY <1>1, <1>2, PTL DEF OneReport

\* The rows of a report fit together, however many entries it has, whatever their ids are.
THEOREM RowsAlwaysFit == OneReport => []RowsFit
<1>1. sample \in Samples => RowsFit
  <2> SUFFICES ASSUME sample \in Samples PROVE RowsFit
    OBVIOUS
  <2> DEFINE players == MapToInstancePlayers(sample)
             toons == MapToInstanceToons(sample)
             ids == {p.player : p \in players}
             Toon(k) == [player |-> Id(sample, k), toon |-> sample.entries[k].toon,
                         completed |-> sample.entries[k].completed]
             P == DOMAIN sample.entries
  <2>1. IsReport(sample)
    BY SamplesAssumption
  <2>2. players = {Row(sample, m) : m \in Ids(sample)}
    BY PlayersAre
  <2>3. toons = {Toon(k) : k \in P}
    BY ToonsAre
  <2>4. ids = Ids(sample)
    <3>1. \A m : Row(sample, m).player = m
      BY DEF Row
    <3> HIDE DEF players
    <3> QED
      BY <2>2, <3>1
  <2>5. ids = {p.id : p \in MapToDestinyPlayers(sample)}
    BY <2>1, <2>4, SavedAre
  <2>6. ids = {c.player : c \in toons}
    <3>1. \A k \in P : Toon(k).player = Id(sample, k)
      OBVIOUS
    <3> HIDE DEF toons, Toon, ids
    <3> QED
      BY <2>3, <2>4, <3>1 DEF Ids
  <2>7. MapToDBInstance(sample).playerCount = Cardinality(players)
    <3>1. MapToDBInstance(sample).playerCount = Cardinality(DOMAIN groupByMembershipId(sample))
      BY DEF MapToDBInstance
    <3>2. DOMAIN groupByMembershipId(sample) = Ids(sample)
      BY GroupsAre
    <3> QED
      BY <2>1, <3>1, <3>2, PlayersCounted
  <2>8. SumOver(players, [p \in players |-> p.time])
          = SumOver(P, [k \in P |-> sample.entries[k].time])
    BY <2>1, TimesAddUp
  <2>9. ASSUME NEW p \in players
        PROVE  p.completed <=> \E c \in toons : c.player = p.player /\ c.completed
    <3>1. PICK m \in Ids(sample) : p = Row(sample, m)
      BY <2>2
    <3>2. p.player = m /\ p.completed = playerCompleted(sample, Group(sample, m))
      BY <3>1 DEF Row
    <3>3. p.completed <=> \E k \in Group(sample, m) : sample.entries[k].completed
      BY <3>2 DEF playerCompleted
    <3>4. \A k \in P : /\ Toon(k).player = Id(sample, k)
                       /\ Toon(k).completed = sample.entries[k].completed
      OBVIOUS
    <3> HIDE DEF Toon, toons
    <3> QED
      BY <2>3, <3>2, <3>3, <3>4 DEF Group
  <2>10. ASSUME NEW u \in MapToInstanceToonWeapons(sample)
         PROVE  /\ \E c \in toons : c.player = u.player /\ c.toon = u.toon
                /\ u.weapon \in MapToDBWeapons(sample)
    <3>1. PICK m \in Ids(sample) :
            \E k \in Group(sample, m) : \E g \in sample.entries[k].weapons :
              u = [player |-> m, toon |-> sample.entries[k].toon, weapon |-> g]
      BY GroupsAre DEF MapToInstanceToonWeapons
    <3>2. PICK k \in Group(sample, m) :
            \E g \in sample.entries[k].weapons :
              u = [player |-> m, toon |-> sample.entries[k].toon, weapon |-> g]
      BY <3>1
    <3>3. PICK g \in sample.entries[k].weapons :
            u = [player |-> m, toon |-> sample.entries[k].toon, weapon |-> g]
      BY <3>2
    <3>4. k \in P /\ Id(sample, k) = m
      BY DEF Group
    <3>5. Toon(k) \in toons /\ Toon(k).player = u.player /\ Toon(k).toon = u.toon
      BY <2>3, <3>3, <3>4
    <3>6. sample.entries[k] \in Entries(sample)
      BY <3>4 DEF Entries, ToSet
    <3>7. g \in MapToDBWeapons(sample)
      BY <3>6 DEF MapToDBWeapons
    <3> QED
      BY <3>3, <3>5, <3>7
  <2> HIDE DEF players, toons, ids, P, Toon
  <2> QED
    BY <2>5, <2>6, <2>7, <2>8, <2>9, <2>10 DEF RowsFit, players, toons, ids, P
<1>2. sample \in Samples /\ [UNCHANGED sample]_sample => (sample \in Samples)'
  OBVIOUS
<1> QED
  BY <1>1, <1>2, PTL DEF OneReport
=============================================================================
