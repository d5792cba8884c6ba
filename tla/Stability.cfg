SPECIFICATION Spec
CONSTANTS
  a = a
  b = b
  c = c
  d = d
  Ids = {a, b, c, d}
  DocOrder <- OrderABCD
  InitPrefs <- TwoSidedPrefs
  Matchers = {r1}
  MaxPrefs = 0
  None = None
INVARIANT NoBlockingPair
