SPECIFICATION FairSpec
CONSTANTS
  a = a
  b = b
  c = c
  d = d
  Ids = {a, b, c, d}
  DocOrder <- OrderABC
  InitPrefs <- AnyPrefs
  Matchers = {r1}
  MaxPrefs = 0
  None = None
INVARIANTS TypeOK PartnersAreMatched PassedOver UnmatchedHaveNoClaim
PROPERTIES MatchesOnlyImprove CompleteRunEnds
