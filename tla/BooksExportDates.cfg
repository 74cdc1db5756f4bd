SPECIFICATION Spec
CONSTANTS
  PERCENT_WHOLE = 4
  MAX_LINES = 2
  SyncIdOf <- SyncIds
  LastMonth = 4
  Amount = {3, 4}
  Names = {"ann", "bob"}
  Guests = {1}
  Weights = {0, 1, 3}
  Periods = {1, 2}
  SCHEDULED_DAYS = 2
  Codes <- SomeCodes
  MaxBills = 2
  MaxFriends = 2
  MaxEntries = 2
  Limits <- SomeLimits
  MaxCategories = 5
  MaxCalls <- Calls
  Selections <- DatesOnly
PROPERTY NothingOfTheRest
CHECK_DEADLOCK FALSE
