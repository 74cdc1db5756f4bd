CONSTANTS
  Kinds = {"desktop", "phone"}
  Limit = 2
  MaxMade = 2
  MaxUnlocks = 3
  MaxFaults = 2
SPECIFICATION Spec
INVARIANT NeverLockedOut
PROPERTIES TriesCounted Settles
CHECK_DEADLOCK FALSE
