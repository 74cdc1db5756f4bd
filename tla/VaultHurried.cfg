CONSTANTS
  Kinds = {"desktop", "phone"}
  Limit = 2
  MaxMade = 2
  MaxUnlocks = 3
  MaxFaults = 0
SPECIFICATION SpecHurried
INVARIANT NeverLockedOut
CHECK_DEADLOCK FALSE
