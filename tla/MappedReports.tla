---------------------------- MODULE MappedReports ----------------------------
(***************************************************************************)
(* What Mapper's rules come to, for every report that the JSON decoder can *)
(* deliver: any number of entries, any texts for ids, any times.           *)
(***************************************************************************)
EXTENDS Mapper

CONSTANT Samples   \* the reports to map

IsReport(r) ==
  /\ r.period \in Int /\ r.started \in BOOLEAN
  /\ Len(r.entries) \in Nat /\ DOMAIN r.entries = 1 .. Len(r.entries)
  /\ \A e \in Entries(r) : e.time \in Nat /\ e.completed \in BOOLEAN

ASSUME SamplesAssumption == \A r \in Samples : IsReport(r)

VARIABLE sample

\* One of them is mapped.  The mapper keeps no state.
OneReport == sample \in Samples /\ [][UNCHANGED sample]_sample

-----------------------------------------------------------------------------
(***************************************************************************)
(* Properties.                                                             *)
(***************************************************************************)
\* What isFresh comes to: after The Witch Queen the API's own flag, before Beyond Light
\* the starting phase, and between the two no report is fresh.  Deaths have no say,
\* although isFresh takes the flawless flag, and Season of the Haunted needs no rule.
FreshByEra ==
  \A flawless \in BOOLEAN :
    isFresh(sample, flawless) <=>
      \/ sample.period > witchQueenStart /\ sample.started
      \/ sample.period < beyondLightStart /\ FirstPhase(sample)

\* The rows of a report fit together, whatever its ids look like: the players of the
\* instance are the players saved and as many as the instance says, each with the time
\* of all its entries; every weapon row has its character, and every weapon is saved.
RowsFit ==
  LET players == MapToInstancePlayers(sample)
      toons   == MapToInstanceToons(sample)
      ids     == {p.player : p \in players}
  IN  /\ ids = {p.id : p \in MapToDestinyPlayers(sample)}
      /\ ids = {c.player : c \in toons}
      /\ MapToDBInstance(sample).playerCount = Cardinality(players)
      /\ SumOver(players, [p \in players |-> p.time])
           = SumOver(DOMAIN sample.entries, [k \in DOMAIN sample.entries |-> sample.entries[k].time])
      /\ \A p \in players : p.completed <=> \E c \in toons : c.player = p.player /\ c.completed
      /\ \A u \in MapToInstanceToonWeapons(sample) :
           /\ \E c \in toons : c.player = u.player /\ c.toon = u.toon
           /\ u.weapon \in MapToDBWeapons(sample)
=============================================================================
