SPECIFICATION Spec
CONSTANTS
  Slots = {0, 1}
  LastStep = 2
  Interests = {i1, i2}
  InitInterests = {i1}
  MaxInterests = 1
  MaxPicks = 3
  None = None
INVARIANTS TypeOK ShownWherePicked
PROPERTY PhotosStay
