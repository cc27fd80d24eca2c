\* Imports by hand and of the historical file, two retention runs.
SPECIFICATION Spec
CONSTANTS
  Sites = {lyon}
  ChunkHours = 2
  MaxHour = 3
  Ages = {1}
  Windows <- ByHand
  Dataset <- Historical
  Jobs = {j1, j2}
  Nightly = j1
  Importers = {i1, i2}
  MaxImports = 3
  None = None
SYMMETRY Interchangeable
INVARIANTS TypeOK NothingLost
PROPERTIES ScheduleIsSafe ExportedOnce
CHECK_DEADLOCK FALSE
