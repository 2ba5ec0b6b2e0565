-------------------------- MODULE MCItemTransfers --------------------------
(***************************************************************************)
(* Small instances of ItemTransfers for TLC.                               *)
(***************************************************************************)
EXTENDS ItemTransfers, TLC

\* Characters and tokens of a kind are interchangeable: no constant but
\* Acquainted, which every run gives all pairs, tells them apart.
Symmetry ==
  Permutations(Character) \cup Permutations(Gift) \cup Permutations(Parcel)
=============================================================================
