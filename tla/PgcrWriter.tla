----------------------------- MODULE PgcrWriter -----------------------------
(***************************************************************************)
(* The statements by which internal/writer/pgcr.go stores a report in      *)
(* Postgres, interleaved over the workers that share the database.  Blob,  *)
(* players and weapons are written one autocommitted statement at a time;  *)
(* the instance and the rows that hang on it in one transaction.  A        *)
(* failure anywhere rolls the transaction back and the RetryWriter starts  *)
(* the report again; the process may crash and be run again from the start.*)
(*                                                                         *)
(* A table is the set of its keys.  All inserts are ON CONFLICT DO NOTHING *)
(* but the player's, which fills in a missing global display name.  An     *)
(* insert whose key another open transaction has inserted waits for that   *)
(* transaction to end, as Postgres makes it.                               *)
(***************************************************************************)
EXTENDS Integers, FiniteSets

CONSTANTS
  Workers,
  Reports,        \* the reports to write; several may be of one instance
  Instances,
  InstanceOf,     \* InstanceOf[r]: the instance a report is of
  Known,          \* the instances whose activity hash is in table activity
  Players,        \* membership ids
  Toons,          \* Toons[i]: the characters that took part in instance i
  PlayerOf,       \* PlayerOf[c]: the player of character c
  Used,           \* Used[i]: the pairs <<c, g>>: character c used weapon g
  Names,          \* global display names
  NameIn,         \* NameIn[r]: the players' names in report r, or "null"
  Retries,        \* attempts per report
  MaxCrashes,     \* bound on crashes
  NoReport

PlayersIn(i) == {PlayerOf[c] : c \in Toons[i]}
WeaponsIn(i) == {u[2] : u \in Used[i]}
Weapons == UNION {WeaponsIn(i) : i \in Instances}

ASSUME ReportsAssumption == InstanceOf \in [Reports -> Instances] /\ NoReport \notin Reports
ASSUME PlayersAssumption == /\ Players \subseteq Nat
                            /\ \A i \in Instances : PlayersIn(i) \subseteq Players
ASSUME UsedAssumption == \A i \in Instances : \A u \in Used[i] :
                           u = <<u[1], u[2]>> /\ u[1] \in Toons[i]
ASSUME NamesAssumption == /\ "null" \notin Names /\ "absent" \notin Names
                          /\ NameIn \in [Reports -> [Players -> Names \union {"null"}]]
ASSUME BoundsAssumption == Retries \in Nat \ {0} /\ MaxCrashes \in Nat

VARIABLES
  pc,        \* pc[w]: the stage of the write, "idle" between writes
  report,    \* report[w]: the report worker w writes
  todo,      \* todo[w]: the keys that the stage has still to insert
  tries,     \* tries[w]: failed attempts at that report
  tx,        \* tx[w]: the keys inserted by w's open transaction
  blobs, names, weapons,    \* tables pgcr, destiny_player, weapon
  rows,      \* tables instance, instance_player, _character, _character_weapon
  answer,    \* answer[r]: what Write returned for report r
  crashes

tables == <<blobs, names, weapons, rows>>
vars == <<pc, report, todo, tries, tx, tables, answer, crashes>>

Autocommitted == {"blob", "players", "weapons"}
InTx == {"instance", "instancePlayers", "toons", "toonWeapons"}
Stages == Autocommitted \union InTx \union {"commit"}

\* The keys that a stage inserts for instance i.
Keys(i, s) ==
  CASE s = "blob"            -> {i}
    [] s = "players"         -> PlayersIn(i)
    [] s = "weapons"         -> WeaponsIn(i)
    [] s = "instance"        -> {<<"instance", i>>}
    [] s = "instancePlayers" -> {<<"player", i, p>> : p \in PlayersIn(i)}
    [] s = "toons"           -> {<<"toon", i, c>> : c \in Toons[i]}
    [] s = "toonWeapons"     -> {<<"weapon", i, u[1], u[2]>> : u \in Used[i]}
    [] OTHER                 -> {}

\* What the transaction of instance i inserts.
RowsOf(i) == UNION {Keys(i, s) : s \in InTx}

Init ==
  /\ pc = [w \in Workers |-> "idle"]
  /\ report = [w \in Workers |-> NoReport]
  /\ todo = [w \in Workers |-> {}]
  /\ tries = [w \in Workers |-> 0]
  /\ tx = [w \in Workers |-> {}]
  /\ blobs = {} /\ weapons = {} /\ rows = {}
  /\ names = [p \in Players |-> "absent"]
  /\ answer = [r \in Reports |-> "none"]
  /\ crashes = 0

Inst(w) == InstanceOf[report[w]]

-----------------------------------------------------------------------------
\* Mutant: the players of the instance are inserted before the instance.
BugAfterPlayersFirst(s) ==
  CASE s = "blob"            -> "players"
    [] s = "players"         -> "weapons"
    [] s = "weapons"         -> "instancePlayers"
    [] s = "instancePlayers" -> "instance"
    [] s = "instance"        -> "toons"
    [] s = "toons"           -> "toonWeapons"
    [] OTHER                 -> "commit"

\* Mutant: the weapons are left for later.
BugAfterNoWeapons(s) ==
  CASE s = "blob"            -> "players"
    [] s = "players"         -> "instance"
    [] s = "instance"        -> "instancePlayers"
    [] s = "instancePlayers" -> "toons"
    [] s = "toons"           -> "toonWeapons"
    [] OTHER                 -> "commit"

\* The order of the statements of Write and of saveInstance.
After(s) ==
  CASE s = "blob"            -> "players"
    [] s = "players"         -> "weapons"
    [] s = "weapons"         -> "instance"
    [] s = "instance"        -> "instancePlayers"
    [] s = "instancePlayers" -> "toons"
    [] s = "toons"           -> "toonWeapons"
    [] OTHER                 -> "commit"

\* A worker's pipeline calls Write for the next report.
Take(w, r) ==
  /\ pc[w] = "idle" /\ answer[r] = "none" /\ \A v \in Workers : report[v] # r
  /\ report' = [report EXCEPT ![w] = r]
  /\ pc' = [pc EXCEPT ![w] = "blob"]
  /\ todo' = [todo EXCEPT ![w] = {InstanceOf[r]}]
  /\ tries' = [tries EXCEPT ![w] = 0]
  /\ UNCHANGED <<tx, tables, answer, crashes>>

\* The loop of a stage has inserted all its keys.
StageDone(w) ==
  /\ pc[w] \in Stages \ {"commit"} /\ todo[w] = {}
  /\ pc' = [pc EXCEPT ![w] = After(pc[w])]
  /\ todo' = [todo EXCEPT ![w] = Keys(Inst(w), After(pc[w]))]
  /\ UNCHANGED <<report, tries, tx, tables, answer, crashes>>

\* The key is in; the stage goes on with its other keys.
Inserted(w, key) == UNCHANGED <<pc, report, tries>> /\ todo' = [todo EXCEPT ![w] = @ \ {key}]

SaveBlob(w, key) ==
  /\ pc[w] = "blob" /\ key \in todo[w]
  /\ Inserted(w, key)
  /\ blobs' = blobs \union {key}
  /\ UNCHANGED <<tx, names, weapons, rows, answer, crashes>>

\* Mutants: the conflict clause without its WHERE, and DO NOTHING.
BugUpsertOverwrites(old, new) == IF new # "null" THEN new ELSE IF old = "absent" THEN "null" ELSE old
BugUpsertIgnores(old, new) == IF old = "absent" THEN new ELSE old

\* ON CONFLICT DO UPDATE ... WHERE excluded.name IS NOT NULL AND the row's IS NULL.
Upsert(old, new) == IF old \in {"absent", "null"} THEN new ELSE old

\* Players in the order of their membership ids.
SavePlayer(w, p) ==
  /\ pc[w] = "players" /\ p \in todo[w] /\ \A q \in todo[w] : p <= q
  /\ Inserted(w, p)
  /\ names' = [names EXCEPT ![p] = Upsert(@, NameIn[report[w]][p])]
  /\ UNCHANGED <<tx, blobs, weapons, rows, answer, crashes>>

SaveWeapon(w, g) ==
  /\ pc[w] = "weapons" /\ g \in todo[w]
  /\ Inserted(w, g)
  /\ weapons' = weapons \union {g}
  /\ UNCHANGED <<tx, blobs, names, rows, answer, crashes>>

\* The foreign keys of the row: those in the tables, or in the own transaction.
ForeignKeys(w, key) ==
  LET seen == rows \union tx[w] IN
  CASE key[1] = "instance" -> key[2] \in Known
    [] key[1] = "player"   -> TRUE
    [] key[1] = "toon"     -> <<"instance", key[2]>> \in seen /\ names[PlayerOf[key[3]]] # "absent"
    [] key[1] = "weapon"   -> /\ <<"instance", key[2]>> \in seen
                              /\ <<"toon", key[2], key[3]>> \in seen
                              /\ names[PlayerOf[key[3]]] # "absent"
                              /\ key[4] \in weapons

\* Another open transaction has inserted the key.
Locked(w, key) == \E v \in Workers \ {w} : key \in tx[v]

\* Mutant: the statement runs on w.queries, outside the transaction.
BugInsert(w, key) ==
  /\ pc[w] \in InTx /\ key \in todo[w]
  /\ ~Locked(w, key)
  /\ key \in rows \/ ForeignKeys(w, key)
  /\ Inserted(w, key)
  /\ rows' = rows \union {key}
  /\ UNCHANGED <<tx, blobs, names, weapons, answer, crashes>>

\* One insert of saveInstance, in the order a Go map yields the players.
Insert(w, key) ==
  /\ pc[w] \in InTx /\ key \in todo[w]
  /\ ~Locked(w, key)
  /\ key \in rows \/ ForeignKeys(w, key)
  /\ Inserted(w, key)
  /\ tx' = [tx EXCEPT ![w] = IF key \in rows THEN @ ELSE @ \union {key}]
  /\ UNCHANGED <<tables, answer, crashes>>

\* Write returns a to the pipeline.
Return(w, a) ==
  /\ answer' = [answer EXCEPT ![report[w]] = a]
  /\ report' = [report EXCEPT ![w] = NoReport]
  /\ pc' = [pc EXCEPT ![w] = "idle"]
  /\ todo' = [todo EXCEPT ![w] = {}]
  /\ tries' = [tries EXCEPT ![w] = 0]

Commit(w) ==
  /\ pc[w] = "commit"
  /\ rows' = rows \union tx[w]
  /\ tx' = [tx EXCEPT ![w] = {}]
  /\ Return(w, "nil")
  /\ UNCHANGED <<blobs, names, weapons, crashes>>

\* Mutant: no deferred Rollback.
BugFail(w) ==
  /\ UNCHANGED tx
  /\ IF tries[w] + 1 < Retries
       THEN /\ tries' = [tries EXCEPT ![w] = @ + 1]
            /\ pc' = [pc EXCEPT ![w] = "blob"]
            /\ todo' = [todo EXCEPT ![w] = {Inst(w)}]
            /\ UNCHANGED <<report, answer>>
       ELSE Return(w, "error")

\* The deferred Rollback; the RetryWriter starts Write again, or gives up.
Fail(w) ==
  /\ tx' = [tx EXCEPT ![w] = {}]
  /\ IF tries[w] + 1 < Retries
       THEN /\ tries' = [tries EXCEPT ![w] = @ + 1]
            /\ pc' = [pc EXCEPT ![w] = "blob"]
            /\ todo' = [todo EXCEPT ![w] = {Inst(w)}]
            /\ UNCHANGED <<report, answer>>
       ELSE Return(w, "error")

\* The row refers to a row that does not exist: SQLSTATE 23503.
ForeignKeyFails(w, key) ==
  /\ pc[w] \in InTx /\ key \in todo[w]
  /\ ~Locked(w, key)
  /\ key \notin rows /\ ~ForeignKeys(w, key)
  /\ Fail(w)
  /\ UNCHANGED <<tables, crashes>>

\* A statement fails otherwise: a lost connection, the context, a mapping error.
\* An autocommitted statement that took effect all the same is the statement's success
\* followed by this step.
StatementFails(w) ==
  /\ pc[w] \in Stages \ {"commit"}
  /\ Fail(w)
  /\ UNCHANGED <<tables, crashes>>

\* Mutant: the error of Commit is logged but not returned.
BugCommitFails(w) ==
  /\ pc[w] = "commit"
  /\ rows' \in {rows, rows \union tx[w]}
  /\ tx' = [tx EXCEPT ![w] = {}]
  /\ Return(w, "nil")
  /\ UNCHANGED <<blobs, names, weapons, crashes>>

\* Commit reports an error; the server may have committed before the answer was lost.
CommitFails(w) ==
  /\ pc[w] = "commit"
  /\ rows' \in {rows, rows \union tx[w]}
  /\ Fail(w)
  /\ UNCHANGED <<blobs, names, weapons, crashes>>

\* The process dies, the server aborts its transactions, the job is run again.
Crash ==
  /\ crashes < MaxCrashes
  /\ crashes' = crashes + 1
  /\ pc' = [w \in Workers |-> "idle"]
  /\ report' = [w \in Workers |-> NoReport]
  /\ todo' = [w \in Workers |-> {}]
  /\ tries' = [w \in Workers |-> 0]
  /\ tx' = [w \in Workers |-> {}]
  /\ answer' = [r \in Reports |-> "none"]
  /\ UNCHANGED tables

\* What happens to a write without a failure from outside.
Progress(w) ==
  \/ StageDone(w)
  \/ \E key \in todo[w] : \/ SaveBlob(w, key) \/ SavePlayer(w, key) \/ SaveWeapon(w, key)
                          \/ Insert(w, key) \/ ForeignKeyFails(w, key)
  \/ Commit(w)

WriteStep(w) == Progress(w) \/ StatementFails(w) \/ CommitFails(w)

AllAnswered == (\A r \in Reports : answer[r] # "none") /\ UNCHANGED vars

Next ==
  \/ \E w \in Workers : WriteStep(w) \/ \E r \in Reports : Take(w, r)
  \/ Crash
  \/ AllAnswered

Spec == Init /\ [][Next]_vars

(***************************************************************************)
(* A statement that does not wait is answered.  Failures from outside are  *)
(* not fair: nothing ends a wait but the end of the other transaction.     *)
(***************************************************************************)
Fairness == \A w \in Workers : WF_vars(Progress(w))

FairSpec == Spec /\ Fairness

-----------------------------------------------------------------------------
(***************************************************************************)
(* Properties.                                                             *)
(***************************************************************************)

\* Every variable has its type; a worker between writes has no open transaction, and
\* a transaction holds rows of its own instance only.
TypeOK ==
  /\ pc \in [Workers -> Stages \union {"idle"}]
  /\ report \in [Workers -> Reports \union {NoReport}]
  /\ tries \in [Workers -> 0 .. Retries - 1]
  /\ blobs \subseteq Instances
  /\ names \in [Players -> Names \union {"null", "absent"}]
  /\ weapons \subseteq Weapons
  /\ rows \subseteq UNION {RowsOf(i) : i \in Instances}
  /\ answer \in [Reports -> {"none", "nil", "error"}]
  /\ crashes \in 0 .. MaxCrashes
  /\ \A w \in Workers :
       IF pc[w] = "idle"
         THEN report[w] = NoReport /\ tx[w] = {} /\ todo[w] = {}
         ELSE /\ report[w] \in Reports
              /\ todo[w] \subseteq Keys(Inst(w), pc[w])
              /\ tx[w] \subseteq RowsOf(Inst(w))

\* Everything the database has to hold about instance i.
Complete(i) ==
  /\ RowsOf(i) \subseteq rows
  /\ i \in blobs
  /\ \A p \in PlayersIn(i) : names[p] # "absent"
  /\ WeaponsIn(i) \subseteq weapons

\* All or nothing.  A row of an instance is visible only when the whole instance is,
\* with its blob, players and weapons: across failures, retries, duplicate reports,
\* lost commit answers and crashes.
InstanceAllOrNothing ==
  \A i \in Instances : RowsOf(i) \intersect rows # {} => Complete(i)

\* A report whose Write returned nil is stored.
WrittenMeansStored == \A r \in Reports : answer[r] = "nil" => Complete(InstanceOf[r])

\* The statement that a worker is about to issue may have to wait.
Waiting(w) == pc[w] \in InTx /\ \E key \in todo[w] : key \notin rows /\ Locked(w, key)

\* A worker waits only for the row of its instance, while its own transaction holds
\* nothing: waits cannot form a cycle, whatever order the maps yield the players in.
WaitsEmptyHanded ==
  \A w \in Workers : Waiting(w) => pc[w] = "instance" /\ tx[w] = {}

\* The order of the stages saves what later rows refer to: the only foreign key that
\* can fail is the instance's, for an activity that is not in the seed data.
OnlyUnknownActivityFails ==
  \A w \in Workers : pc[w] \in InTx =>
    \A key \in todo[w] :
      ForeignKeys(w, key) \/ (pc[w] = "instance" /\ Inst(w) \notin Known)

\* A player's global display name, once known, is never lost or changed by an older
\* report, in whatever order the workers arrive.
NamesKept == [][\A p \in Players : names[p] \in Names => names'[p] = names[p]]_vars

\* A report that was written and knows a player's name leaves the player with a name.
NamedAfterWrite ==
  \A r \in Reports : answer[r] = "nil" =>
    \A p \in PlayersIn(InstanceOf[r]) : NameIn[r][p] \in Names => names[p] \in Names

\* For whoever reads the database, the statements of a write are one step: an instance is
\* there, complete, or it is not; it comes with a write of its own and never goes; and
\* Write says nil only of what is there.
Store == INSTANCE ReportStore WITH stored <- {i \in Instances : Complete(i)}

ImplementsStore == Store!Spec

\* Every Write comes back: a worker never waits for ever on another one's rows.
WriteEnds == \A w \in Workers : (report[w] # NoReport) ~> (report[w] = NoReport)
=============================================================================
