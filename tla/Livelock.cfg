SPECIFICATION FairSpec
CONSTANTS
  a = a
  b = b
  c = c
  d = d
  Ids = {a, b, c}
  DocOrder <- OrderAB
  InitPrefs <- AnyPrefs
  Matchers = {r1}
  MaxPrefs = 0
  None = None
PROPERTY RunEnds
