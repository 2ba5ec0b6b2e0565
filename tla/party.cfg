SPECIFICATION FairSpec
INVARIANTS TypeOK OnePlace CrewHoldsLeases NobodyFightsForNothing
PROPERTY TurnEnds
CONSTANTS
  anna = anna
  borys = borys
  barrel = barrel
  keg = keg
  Character = {anna, borys}
  Party = {barrel, keg}
  Barrel = {barrel}
  Cap = 2
  MaxTurn = 2
  MaxLife = 1
  Bearer = {anna}
  Restless = {borys}
  None = None
