CONSTANTS
  LastDoc = 2
  Sizes <- MCSizes
  Budget = 9
  Modes = {"both"}
  MaxChanges = 3
  MaxFaults = 0
SPECIFICATION Spec
INVARIANT
  DesktopHoldsEveryFile
