CONSTANTS
  LastDoc = 2
  Sizes <- MCSizes
  Budget = 2
  Modes = {"both", "to_desktop", "to_phone"}
  MaxChanges = 3
  MaxFaults = 1
SPECIFICATION FairSpec
INVARIANTS
  NoFileLost
  InStep
PROPERTIES
  FilesOneWay
  FilesEndInPlace
