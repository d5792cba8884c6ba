SPECIFICATION Spec
CONSTANTS
  mit = mit
  yale = yale
  other = other
  plain = plain
  Emails = {mit, yale, other}
  WellFormed = {mit, yale, other}
  Eligible = {mit, yale}
  Devices = {d1, d2}
  MaxSubmits = 2
  MaxChecks = 1
  None = None
INVARIANTS TypeOK OnlyEligibleJoin OneMailPerAddress CheckingMeansSent VerifiedMeansFollowed
SYMMETRY DeviceSymmetry
CONSTRAINT TwoSubmissions
