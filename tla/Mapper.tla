------------------------------- MODULE Mapper -------------------------------
(***************************************************************************)
(* The rules of internal/mapper: which rows a report becomes.              *)
(*                                                                         *)
(* A report is a record; its entries are a sequence, one per character.    *)
(* A membership id arrives as text (StringInt64), and Number says which    *)
(* number a text is parsed to: 0 if it is none.  Time is a number, of      *)
(* which only the order against three release dates matters.               *)
(***************************************************************************)
EXTENDS Integers, Sequences, FiniteSets, SequencesExt, FiniteSetsExt, Sums

CONSTANT Number

\* The releases, at 2, 4 and 6: the instants themselves and those between can be told
\* apart.
beyondLightStart == 2
witchQueenStart  == 4
hauntedStart     == 6

Int64(id) == Number[id]
Entries(r) == ToSet(r.entries)

-----------------------------------------------------------------------------
(***************************************************************************)
(* Fresh and flawless.                                                     *)
(***************************************************************************)
isFlawless(r) == \A e \in Entries(r) : e.deaths = 0

\* The starting phases that count as the first, by raid.
FirstPhase(r) ==
  CASE r.raid = "scourge"   -> r.phase <= 1
    [] r.raid = "leviathan" -> r.phase = 0 \/ r.phase = 2
    [] OTHER                -> r.phase = 0

\* Mutant: a report at the instant of a release is taken for one after it.
BugIsFresh(r, flawless) ==
  CASE r.period >= hauntedStart    -> r.started
    [] r.period < beyondLightStart -> FirstPhase(r)
    [] r.period >= witchQueenStart /\ (r.started \/ flawless) -> r.started
    [] OTHER                       -> FALSE

isFresh(r, flawless) ==
  CASE r.period >= hauntedStart    -> r.started
    [] r.period < beyondLightStart -> FirstPhase(r)
    [] r.period > witchQueenStart /\ (r.started \/ flawless) -> r.started
    [] OTHER                       -> FALSE

-----------------------------------------------------------------------------
(***************************************************************************)
(* Rows.                                                                   *)
(***************************************************************************)
\* The users by the text of their ids; of several entries the first one counts.
getUniquePlayers(r) ==
  [t \in {e.membership : e \in Entries(r)} |->
     r.entries[Min({k \in DOMAIN r.entries : r.entries[k].membership = t})]]

\* Ids and names of the players to save.
MapToDestinyPlayers(r) ==
  LET players == getUniquePlayers(r) IN
  {[id |-> Int64(players[t].membership), name |-> players[t].name] : t \in DOMAIN players}

\* Mutant: the entries are grouped by the text of the id.
BugGroupByText(r) ==
  [m \in {Int64(e.membership) : e \in Entries(r)} |->
     {k \in DOMAIN r.entries : r.entries[k].membership = ToString(m)}]

\* The entries (by their positions) of each membership id, by its number.
groupByMembershipId(r) ==
  [m \in {Int64(e.membership) : e \in Entries(r)} |->
     {k \in DOMAIN r.entries : Int64(r.entries[k].membership) = m}]

playerTimePlayed(r, toons) == SumOver(toons, [k \in toons |-> r.entries[k].time])
playerCompleted(r, toons) == \E k \in toons : r.entries[k].completed

MaxDuration(r) == Max({0} \union {e.duration : e \in Entries(r)})

\* The row of table instance, for a report whose period can be parsed.
MapToDBInstance(r) ==
  [id          |-> r.instance,
   fresh       |-> isFresh(r, isFlawless(r)),
   flawless    |-> isFlawless(r),
   playerCount |-> Cardinality(DOMAIN groupByMembershipId(r)),
   start       |-> r.period,
   end         |-> r.period + MaxDuration(r)]

MapToInstancePlayers(r) ==
  LET groups == groupByMembershipId(r) IN
  {[player |-> m, time |-> playerTimePlayed(r, groups[m]),
    completed |-> playerCompleted(r, groups[m])] : m \in DOMAIN groups}

MapToInstanceToons(r) ==
  LET groups == groupByMembershipId(r) IN
  UNION {{[player |-> m, toon |-> r.entries[k].toon, completed |-> r.entries[k].completed]
            : k \in groups[m]} : m \in DOMAIN groups}

\* A character without the extended part has no weapons.
MapToInstanceToonWeapons(r) ==
  LET groups == groupByMembershipId(r) IN
  UNION {UNION {{[player |-> m, toon |-> r.entries[k].toon, weapon |-> g]
                   : g \in r.entries[k].weapons} : k \in groups[m]} : m \in DOMAIN groups}

MapToDBWeapons(r) == UNION {e.weapons : e \in Entries(r)}
=============================================================================
