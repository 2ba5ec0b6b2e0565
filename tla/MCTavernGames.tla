--------------------------- MODULE MCTavernGames ---------------------------
(* A small instance of TavernGames for TLC. *)
EXTENDS TavernGames

CONSTANTS anna, bohdan, vira
=============================================================================
