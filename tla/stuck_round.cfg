SPECIFICATION FairSpec
PROPERTY TurnAlwaysEnds
CONSTANTS
  anna = anna
  borys = borys
  barrel = barrel
  keg = keg
  Character = {anna, borys}
  Party = {barrel}
  Barrel = {barrel}
  Cap = 2
  MaxTurn = 1
  MaxLife = 0
  Bearer = {anna}
  Restless = {}
  None = None
