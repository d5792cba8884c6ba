SPECIFICATION FairSpec
CONSTANTS
  a = a
  b = b
  Ids = {a, b}
  Registered = {a}
  Clients = {c1, c2}
  MaxAttempts = 3
  MaxCalls = 1
  None = None
INVARIANT TypeOK
PROPERTIES ImplementsLog CallsReturn
CHECK_DEADLOCK FALSE
