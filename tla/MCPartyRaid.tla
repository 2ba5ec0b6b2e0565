---------------------------- MODULE MCPartyRaid ----------------------------
(* PartyRaid for TLC: two heroes and one or two gatherings.                 *)
EXTENDS PartyRaid, TLC

CONSTANTS anna, borys, barrel, keg

Symmetry == Permutations(Character)

=============================================================================
