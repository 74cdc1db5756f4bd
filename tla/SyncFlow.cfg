CONSTANTS
  MaxCounter = 6
  LastDevice = 3
  Items = {1, 2}
  Habits = {{"both"}, {"both", "to_desktop", "to_phone"}}
  Leads = {0, 1}
  MaxClockLead = 9
  MaxConflicts = 1
  Concurrent = FALSE
  MaxNow = 4
  MaxVersion = 4
  MaxChanges = 1
  MaxSyncs = 2
SPECIFICATION SpecInTurn
INVARIANTS
  EndsInAgreement
  AmountsInCurrency
  ChosenVersionWins
PROPERTIES
  NoSilentOverwrite
\* Between syncs two devices whose bounds are used up have nothing left to do.
CHECK_DEADLOCK FALSE
