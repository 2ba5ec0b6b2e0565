SPECIFICATION Spec
INVARIANTS TypeOK Led OneGuild CardsTell
PROPERTY FeeBuysAGuild
SYMMETRY Symmetry
CONSTANTS
  User = {anna, boris, clara}
  Guild = {g1, g2}
  Name = {n1, n2}
  Crest = {x}
  None = None
  Capacity = 2
  Officers = 1
  MaxIncoming = 2
  Batch = 1
  Cost = 1
  Founder = {anna}
  MaxGold = 1
  MaxLife = 1
  Design <- Designs
