SPECIFICATION LinkSpec
CONSTANTS
  LibraryPaths <- Paths
  Files <- Everything
  Libraries = {"a", "b", "c", "m"}
  Shared <- SoName
  Static <- ArName
  MaxRequests = 3
  Tables <- MCTables
  Libs <- MCLibs
  Sections <- MCSections
  Sites <- MCSites
  Relocations <- MCRelocations
  Modes <- MCModes
  Page = 32
  Start = 640
  LoadBase = 3200
  DllAddress <- MCDllAddress
  Doubtful = {}
CHECK_DEADLOCK FALSE
INVARIANTS
  RelocationsStayOnTheirSites
  NeededAsNamed
  RefusedJustUndefined
  WordsReach
  ImageLoads
PROPERTIES
  MembersAsWanted
  RequestsEnd
