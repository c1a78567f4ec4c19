SPECIFICATION Spec
CONSTANTS
  ClusterCount = 2
  BlocksPerCluster = 1
  BlockSize = 2
  RootEntries = 1
  EntriesPerBlock = 1
  FatPerBlock = 4
  FatCount = 2
  Names = {"A"}
  Data <- MCCutData
  ReadSizes = {2}
  Positions = {0}
  MaxSize = 2
  MaxCuts = 1
  CutsInRemove = TRUE
INVARIANTS RemoveFailsAsDocumented
