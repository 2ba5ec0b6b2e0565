---------------------------------- MODULE Units ----------------------------------
(* Sums of natural numbers as numbers of things: what stacks, rows, tables and  *)
(* purses hold is counted unit by unit.                                         *)
EXTENDS Integers, FiniteSets

\* For every x in S there are n[x] units.
Units(n, S) == UNION {{x} \X (1 .. n[x]) : x \in S}

\* The sum of n over S.
Amount(n, S) == Cardinality(Units(n, S))
=============================================================================
