SPECIFICATION Spec

PROPERTY CustodyAccounted

CONSTANTS
  anna = anna
  bohdan = bohdan
  NoRow = NoRow
  Nowhere = Nowhere
  Character = {anna, bohdan}
  Acquainted = {{anna, bohdan}}
  MaxTypes = 2
  MaxKept = 5
  StartStack = 1
  MaxUnits = 1
  pie = pie
  Item = {pie}
  Gear = {}
  Giftable = {}
  Reservable = {}
  CombatKind = {}
  korchma = korchma
  Place = {korchma}
  p1 = p1
  Gift = {}
  Parcel = {p1}
  NoSpark = NoSpark
  Loose = {pie}
  Donors = {}
  Upgrade = {}
  Spark = NoSpark
  UpgradeFees = {}
  InitialGold = 6
  MaxStack = 1
  MaxLife = 0
