SPECIFICATION Spec
CONSTANTS
  Function = {"f"}
  Variable = {"x"}
  Library = {"y", "z"}
  Static = {"f"}
  FileName = "<string>"
  elf_hash <- HashValues
  Objects <- Files
  Redefinitions = {}
  MaxInputs = 3
  MaxSyms = 6
  MaxRelocs = 2
INVARIANTS
  TypeOK
  LookupIsExact
  StrongDefinitionWins
  RelocationsReach
PROPERTY DefinitionsOnlyStrengthen
CHECK_DEADLOCK FALSE
