SPECIFICATION Spec
INVARIANT PendingAlwaysKeepsLease
SYMMETRY Symmetry
CONSTANTS
  hunt = hunt
  spar = spar
  Session = {hunt, spar}
  Training = {spar}
  button = button
  clock = clock
  Chat = {button}
  Timer = {clock}
  h1 = h1
  h2 = h2
  Health = {h1, h2}
  MaxTurn = 1
  Brief = {}
  MaxLife = 1
  None = None
