CONSTANTS
  MaxCounter = 3
  LastDevice = 3
  Items = {1}
  Habits = {{"both"}}
  Leads = {0, 2}
  MaxClockLead = 9
  MaxConflicts = 2
  Concurrent = FALSE
  MaxNow = 4
  MaxVersion = 3
  MaxChanges = 0
  MaxSyncs = 1
SPECIFICATION SpecMet
INVARIANTS
  ChosenVersionWins
\* Between syncs two devices whose bounds are used up have nothing left to do.
CHECK_DEADLOCK FALSE
