SPECIFICATION FairSpec
CONSTANTS
  anna = anna
  bohdan = bohdan
  vira = vira
  NoOne = NoOne
  Character = {anna, bohdan, vira}
  Table = {1, 2}
  DiceCap = 3
  SweepLimit = 1
  Stake = {1}
  InitialGold = 1
  Leaver = {vira}
PROPERTY TableCloses
INVARIANTS
  TypeOK
  OneSeat
  StakesAccounted
CHECK_DEADLOCK FALSE
