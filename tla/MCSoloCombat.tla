---------------------------- MODULE MCSoloCombat ----------------------------
(* SoloCombat for TLC: one button handler and the time-out job, as the     *)
(* process runs them.                                                      *)
EXTENDS SoloCombat, TLC

CONSTANTS hunt, spar, button, clock, h1, h2

Symmetry == Permutations(Health)

=============================================================================
