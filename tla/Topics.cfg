SPECIFICATION Spec
CONSTANTS
  Users = {u1, u2}
  MaxCalls = 5
  None = None
INVARIANTS TypeOK NoLostWakeup SettledAsAsked
SYMMETRY UserSymmetry
