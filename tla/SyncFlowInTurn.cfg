CONSTANTS
  MaxCounter = 6
  LastDevice = 3
  Items = {1}
  Habits = {{"both"}}
  Leads = {0}
  MaxClockLead = 9
  MaxConflicts = 2
  Concurrent = FALSE
  MaxNow = 4
  MaxVersion = 3
  MaxChanges = 0
  MaxSyncs = 2
SPECIFICATION SpecMet
PROPERTIES
  AlwaysInTurn
\* Between syncs two devices whose bounds are used up have nothing left to do.
CHECK_DEADLOCK FALSE
