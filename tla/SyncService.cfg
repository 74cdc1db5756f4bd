SPECIFICATION FairSpec
CONSTANTS
  Desktops = {"desk", "other"}
  Phones = {"phone"}
  CODE_TRIES = 2
  MaxBad = 1
  MaxConnections = 2
  MaxBacklog = 2
  MaxCodes = 2
  MaxFaults = 1
  MaxActs = 1
  Scopes <- SomeScopes
INVARIANTS SecretsAreConfirmed StoredTogether KnowsItsDesktop
PROPERTIES RunsEnd
CHECK_DEADLOCK FALSE
