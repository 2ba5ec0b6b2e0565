--------------------------- MODULE MCItemUpgrades ---------------------------
(***************************************************************************)
(* Instances of ItemTransfers in which a hat can be raised one level.      *)
(***************************************************************************)
EXTENDS MCItemTransfers

CONSTANTS hat, hat1

OneLevel == {<<hat, hat1>>}
=============================================================================
