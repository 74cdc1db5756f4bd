CONSTANTS
  MaxCounter = 0
  LastDevice = 4
  Devices = {1, 2}
  Items = {r1}
  MaxMs = 2
  MaxVersion = 2
  FirstFree = 3
SPECIFICATION Spec
INVARIANT
  StampNamesVersion
PROPERTY
  EditBeatsWhatWasSeen
