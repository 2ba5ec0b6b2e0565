------------------------------ MODULE MCGuilds ------------------------------
(* Guilds for TLC: a founder of one guild after another and two users who    *)
(* come and go.  Every preview asks for a name and the one crest; a guild    *)
(* without a crest comes of an edited profile.                               *)
EXTENDS Guilds, TLC

Designs == Name \X Crest

Symmetry == Permutations(Founder) \cup Permutations(User \ Founder)
            \cup Permutations(Guild) \cup Permutations(Name)
=============================================================================
