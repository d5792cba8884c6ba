SPECIFICATION Spec
CONSTANTS
  a = a
  b = b
  c = c
  d = d
  Ids = {a, b, c}
  DocOrder <- OrderABC
  InitPrefs <- NoPrefs
  Matchers = {r1, r2}
  MaxPrefs = 1
  None = None
INVARIANTS SavedMatchesSwiped UnmatchedHaveNoClaim
