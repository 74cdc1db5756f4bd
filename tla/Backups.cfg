CONSTANTS
  LastDoc = 2
  Contents = {2, 3}
  Targets = {t1}
  Scopes = {{"upload", "delete", "lock"},
    {"upload", "break"},
    {"drop", "open", "lock", "break"},
    {"drop", "link", "delete", "loss", "break"},
    {"drop", "backup", "restore", "delete"},
    {"drop", "backup", "restore", "loss", "break"},
    {"drop", "backup", "delete", "lock"},
    {"schedule", "lock", "break"}}
  MaxFaults = 1
  Keep = 2
  Every = 2
  MaxNow = 4
  MaxMade = 2
SPECIFICATION FairSpec
INVARIANTS
  FolderMatchesRows
  BackupIsTrue
PROPERTIES
  RestoreIsWhole
  DueIsTried
CHECK_DEADLOCK FALSE
