SPECIFICATION Spec
CONSTANTS
  Item = {rag, ring}
  Gear = {ring}
  Sellable = {rag, ring}
  AutoPick = {rag}
  Prize = {ring}
  Usable = {}
  Bandage = rag
  Loose = {rag}
  Score <- Prices
  Value <- Prices
  Run = {r1}
  Sale = {s1}
  Exchange = {e1}
  Order = {}
  Batch = 2
  SaleRate = 42
  BarterCost = 10
  BarterMinimum = 5
  BattleOnlyLevel = 4
  InitialGold = 3
  StartStack = 2
  MaxStack = 0
  MaxHurt = 0
  MaxLife = 1
  NoRow = NoRow
  rag = rag
  ring = ring
  dear = ring
  lowPrice = 2
  highPrice = 5
  Spot = {"bar", "away"}
  r1 = r1
  s1 = s1
  e1 = e1
SYMMETRY TokenSymmetry
INVARIANTS
  TypeOK
  BooksBalance
  ClaimsAreSound
PROPERTIES
  AnsweredInTime
  TransfersRespected
