---------------------------- MODULE MCPgcrWriter ----------------------------
(***************************************************************************)
(* Instances of PgcrWriter for TLC.  The rows to write are those to which  *)
(* Mapper's rules turn three reports: a and b are of instance 1, which     *)
(* players 1 and 2 played, a without their names; d is of instance 3,      *)
(* whose activity the database does not know.                              *)
(***************************************************************************)
EXTENDS PgcrWriter, MappedReports

\* A character's entry.
Entry(id, toon, name, used) ==
  [membership |-> id, name |-> name, toon |-> toon,
   weapons |-> used, deaths |-> 1, completed |-> toon = "c1", time |-> 1, duration |-> 2]

Content(r) ==
  [instance |-> IF r = "d" THEN 3 ELSE 1, raid |-> "other", period |-> 7, phase |-> 0,
   started |-> TRUE,
   entries |-> CASE r = "a" -> <<Entry("1", "c1", "null", {"g1"}), Entry("2", "c2", "null", {})>>
                 [] r = "b" -> <<Entry("1", "c1", "n1", {"g1"}), Entry("2", "c2", "n1", {})>>
                 [] OTHER   -> <<Entry("2", "c2", "n2", {"g1"})>>]

MCInstanceOf == [r \in Reports |-> IF r = "d" THEN 3 ELSE 1]
MCPlayerOf   == [c \in {"c1", "c2"} |-> IF c = "c1" THEN 1 ELSE 2]
MCToons      == <<{"c1", "c2"}, {}, {"c2"}>>
MCUsed       == <<{<<"c1", "g1">>}, {}, {<<"c2", "g1">>}>>
MCNameIn     == [r \in Reports |-> [p \in Players |->
                  CASE r = "a" -> "null" [] r = "b" -> "n1" [] p = 1 -> "null" [] OTHER -> "n2"]]

\* These are what the mapper makes of the reports.
ASSUME MappedAssumption ==
  \A r \in Reports :
    LET c == Content(r)
        i == MCInstanceOf[r]
    IN  /\ MapToDBInstance(c).id = i
        /\ {t.toon : t \in MapToInstanceToons(c)} = MCToons[i]
        /\ \A t \in MapToInstanceToons(c) : MCPlayerOf[t.toon] = t.player
        /\ {<<u.toon, u.weapon>> : u \in MapToInstanceToonWeapons(c)} = MCUsed[i]
        /\ \A p \in MapToDestinyPlayers(c) : p.name = MCNameIn[r][p.id]

-----------------------------------------------------------------------------
\* Reports around the releases: their instants, and the times between them.
EraReports ==
  [instance : {1}, raid : {"scourge", "leviathan", "other"}, period : 1 .. 7, phase : 0 .. 3,
   started : BOOLEAN, entries : {<<>>}]

\* Ids as the dataset has them, the missing one among them.
MCNumber == [t \in {"1", "2", "", "0"} |-> CASE t = "1" -> 1 [] t = "2" -> 2 [] OTHER -> 0]

IdEntries ==
  [membership : DOMAIN MCNumber, name : {"n1"}, toon : {"c1", "c2"}, weapons : {{}, {"g1"}},
   deaths : {1}, completed : BOOLEAN, time : {1, 2}, duration : {2}]

IdReports ==
  [instance : {1}, raid : {"other"}, period : {7}, phase : {0}, started : {TRUE},
   entries : BoundedSeq(IdEntries, 2)]

\* Each of these reports is mapped, as a sample; the workers write the three above, for
\* one of the samples.
MCSamples == EraReports \union IdReports

Busy == [instance |-> 1, raid |-> "other", period |-> 7, phase |-> 0, started |-> TRUE,
         entries |-> <<>>]

MCInit == Init /\ sample \in Samples

MCNext ==
  \/ sample = Busy /\ Next /\ UNCHANGED sample
  \/ sample # Busy /\ UNCHANGED <<vars, sample>>

MCSpec == MCInit /\ [][MCNext]_<<vars, sample>> /\ Fairness
=============================================================================
