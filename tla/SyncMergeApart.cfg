CONSTANTS
  MaxCounter = 99
  LastDevice = 3
  Categories = {10, 11, 12}
  People = {20, 21, 22}
  Items = {31}
  Budgets = {40, 41}
  Transactions = {50, 51, 52}
  Entries = {60, 61, 62}
  Documents = {71, 72}
  Links = {80, 81, 82}
  Scopes = {{"item", "break"}}
  LastDue = 3
  MaxEdits = 3
  MaxSyncs = 3
  MaxBreaks = 1
SPECIFICATION Spec
INVARIANT NextRepairs
CHECK_DEADLOCK FALSE
