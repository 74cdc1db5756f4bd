CONSTANTS
  LastDate = 6
  Schedules = {{0, 1, 2, 3, 4, 5, 6}, {0, 2, 4, 6}}
SPECIFICATION Spec
INVARIANTS
  NextIsOpen
