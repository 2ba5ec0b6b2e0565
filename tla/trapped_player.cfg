SPECIFICATION FairSpec
CONSTANTS
  anna = anna
  bohdan = bohdan
  vira = vira
  NoOne = NoOne
  Character = {anna, vira}
  Table = {1}
  DiceCap = 2
  SweepLimit = 23
  Stake = {1}
  InitialGold = 1
  Leaver = {vira}
PROPERTY QuickRoundEnds
CHECK_DEADLOCK FALSE
