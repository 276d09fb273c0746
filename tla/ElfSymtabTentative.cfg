SPECIFICATION Spec
CONSTANTS
  Function = {"f"}
  Variable = {"x"}
  Library = {"y", "z"}
  Static = {"f"}
  FileName = "<string>"
  elf_hash <- HashValues
  Objects <- Files
  Redefinitions = {"tentative"}
  MaxInputs = 3
  MaxSyms = 6
  MaxRelocs = 2
INVARIANT StrongDefinitionWins
CHECK_DEADLOCK FALSE
