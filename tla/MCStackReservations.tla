------------------------ MODULE MCStackReservations ------------------------
(* Two kinds of things, one dearer than the other. *)
EXTENDS StackReservations, TLC

CONSTANTS dear, lowPrice, highPrice

Prices == [i \in Item |-> IF i = dear THEN highPrice ELSE lowPrice]

TokenSymmetry ==
  Permutations(Run) \cup Permutations(Sale) \cup Permutations(Exchange) \cup Permutations(Order)
=============================================================================
