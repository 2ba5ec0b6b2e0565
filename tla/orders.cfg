SPECIFICATION Spec
CONSTANTS
  Item = {rag}
  Gear = {rag}
  Sellable = {}
  AutoPick = {}
  Prize = {}
  Usable = {rag}
  Bandage = rag
  Loose = {rag}
  Score <- Prices
  Value <- Prices
  Run = {}
  Sale = {}
  Exchange = {}
  Order = {o1, o2}
  Batch = 2
  SaleRate = 42
  BarterCost = 10
  BarterMinimum = 5
  BattleOnlyLevel = 4
  InitialGold = 3
  StartStack = 1
  MaxStack = 2
  MaxHurt = 2
  MaxLife = 1
  NoRow = NoRow
  rag = rag
  ring = ring
  dear = rag
  lowPrice = 2
  highPrice = 5
  Spot = {"away", "fight"}
  o1 = o1
  o2 = o2
SYMMETRY TokenSymmetry
INVARIANTS
  OneOrderPerItem
  BooksBalance
PROPERTIES
  NothingWasted
