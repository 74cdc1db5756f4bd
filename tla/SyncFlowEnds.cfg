CONSTANTS
  MaxCounter = 3
  LastDevice = 3
  Items = {1}
  Habits = {{"both"}}
  Leads = {0}
  MaxClockLead = 9
  MaxConflicts = 2
  Concurrent = TRUE
  MaxNow = 3
  MaxVersion = 3
  MaxChanges = 0
  MaxSyncs = 2
SPECIFICATION FairSpec
PROPERTIES
  EverySyncEnds
  ClockSpec
\* Between syncs two devices whose bounds are used up have nothing left to do.
CHECK_DEADLOCK FALSE
