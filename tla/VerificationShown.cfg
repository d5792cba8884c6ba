SPECIFICATION Spec
CONSTANTS
  mit = mit
  yale = yale
  other = other
  plain = plain
  Emails = {mit, yale, other, plain}
  WellFormed = {mit, yale, other}
  Eligible = {mit, yale}
  Devices = {d1}
  MaxSubmits = 1
  MaxChecks = 1
  None = None
INVARIANT ShownAddressIsVerified
