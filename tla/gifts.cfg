SPECIFICATION Spec

INVARIANTS UnitsConserved ClaimsAreSound OfferBacked WornIsOwned
PROPERTY AnswersAreFinal
SYMMETRY Symmetry

CONSTANTS
  anna = anna
  bohdan = bohdan
  NoRow = NoRow
  Nowhere = Nowhere
  Character = {anna, bohdan}
  Acquainted = {}
  MaxTypes = 2
  MaxKept = 1
  StartStack = 1
  MaxUnits = 1
  hat = hat
  hat1 = hat1
  spark = spark
  Item = {hat, hat1, spark}
  Gear = {hat, hat1}
  Giftable = {hat, hat1}
  Reservable = {hat1}
  CombatKind = {"solo"}
  korchma = korchma
  forest = forest
  Place = {korchma, forest}
  g1 = g1
  Gift = {g1}
  Parcel = {}
  Loose = {spark}
  Donors = {hat}
  Upgrade <- OneLevel
  Spark = spark
  UpgradeFees = {0}
  InitialGold = 0
  MaxStack = 0
  MaxLife = 1
