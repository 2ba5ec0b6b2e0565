SPECIFICATION Spec
INVARIANTS TypeOK LeaseIsOwned NothingForALaterLife CompletedIsWhole PendingKeepsLease
PROPERTY SettlementAdvances
SYMMETRY Symmetry
CONSTANTS
  hunt = hunt
  spar = spar
  Session = {hunt, spar}
  Training = {spar}
  button = button
  clock = clock
  Chat = {button}
  Timer = {clock}
  h1 = h1
  h2 = h2
  Health = {h1, h2}
  MaxTurn = 2
  Brief = {spar}
  MaxLife = 1
  None = None
