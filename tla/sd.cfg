SPECIFICATION Spec
CONSTANTS
  ClusterCount = 3
  BlocksPerCluster = 1
  BlockSize = 2
  RootEntries = 2
  EntriesPerBlock = 1
  FatPerBlock = 3
  FatCount = 2
  Names = {"A", "B"}
  Data <- MCData
  ReadSizes = {2}
  Positions = {1}
  MaxSize = 2
  MaxCuts = 1
  CutsInRemove = FALSE
INVARIANTS WellFormed MirrorAgrees NothingLost ClosedIsKept ReadsBack RemoveFailsAsDocumented
PROPERTIES FilesSpec
