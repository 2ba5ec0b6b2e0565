SPECIFICATION Spec
INVARIANTS TypeOK GoodsMoveOnce UnitsConserved ClaimsAreSound
PROPERTIES PostagePaidOnce PackageSealed KeepsPromise
SYMMETRY Symmetry
CONSTANTS
  anna = anna
  bohdan = bohdan
  pie = pie
  korchma = korchma
  NoRow = NoRow
  Nowhere = Nowhere
  Character = {anna, bohdan}
  Acquainted = {{anna, bohdan}}
  MaxUnits = 2
  MaxTypes = 1
  MaxKept = 5
  Item = {pie}
  Gear = {}
  Giftable = {}
  Reservable = {pie}
  CombatKind = {}
  Place = {korchma}
  Gift = {}
  p1 = p1
  p2 = p2
  Parcel = {p1, p2}
  NoSpark = NoSpark
  Loose = {pie}
  Donors = {}
  Upgrade = {}
  Spark = NoSpark
  UpgradeFees = {}
  InitialGold = 12
  StartStack = 1
  MaxStack = 2
  MaxLife = 1
