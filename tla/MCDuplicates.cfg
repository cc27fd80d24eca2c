\* The historical file is imported while an import of the API is under way.
SPECIFICATION Spec
CONSTANTS
  Sites = {lyon}
  ChunkHours = 2
  MaxHour = 2
  Ages = {1}
  Windows <- ByHand
  Dataset <- Historical
  Jobs = {}
  Nightly = None
  Importers = {i1, i2}
  MaxImports = 2
  None = None
PROPERTY NoDuplicateOfHistorical
CHECK_DEADLOCK FALSE
