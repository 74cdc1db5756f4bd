CONSTANTS
  MaxCounter = 99
  LastDevice = 3
  Categories = {10, 11, 12}
  People = {20, 21, 22}
  Items = {31}
  Budgets = {40, 41}
  Transactions = {50, 51, 52}
  Entries = {60, 61, 62}
  Documents = {71, 72}
  Links = {80, 81, 82}
  Scopes = {{"category", "break"}}
  LastDue = 3
  MaxEdits = 2
  MaxSyncs = 2
  MaxBreaks = 1
SPECIFICATION Spec
INVARIANT NeverRefused
CHECK_DEADLOCK FALSE
