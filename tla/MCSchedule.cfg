\* Only the DAGs import.
SPECIFICATION FairSpec
CONSTANTS
  Sites = {lyon}
  ChunkHours = 2
  MaxHour = 4
  Ages = {1}
  Windows = {}
  Dataset = {}
  Jobs = {j1, j2}
  Nightly = j1
  Importers = {i1}
  MaxImports = 3
  None = None
PROPERTIES ArchiveSpec OldChunksLeave
CHECK_DEADLOCK FALSE
