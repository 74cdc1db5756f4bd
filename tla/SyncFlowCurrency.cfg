CONSTANTS
  MaxCounter = 3
  LastDevice = 3
  Items = {1}
  Habits = {{"both", "to_phone"}}
  Leads = {0}
  MaxClockLead = 9
  MaxConflicts = 2
  Concurrent = TRUE
  MaxNow = 4
  MaxVersion = 4
  MaxChanges = 1
  MaxSyncs = 2
SPECIFICATION SpecMet
INVARIANTS
  AmountsInCurrency
\* Between syncs two devices whose bounds are used up have nothing left to do.
CHECK_DEADLOCK FALSE
