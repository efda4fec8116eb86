-------------------------------- MODULE Sums --------------------------------
(***************************************************************************)
(* Sums of natural numbers over finite sets, counted out: the sum of the   *)
(* numbers c[x] is the number of pairs of an x and one of 1 .. c[x].       *)
(* Stated so, the facts about sums are facts about finite sets.            *)
(***************************************************************************)
EXTENDS Integers, FiniteSets

Units(S, c) == UNION {{x} \X (1 .. c[x]) : x \in S}

SumOver(S, c) == Cardinality(Units(S, c))
=============================================================================
