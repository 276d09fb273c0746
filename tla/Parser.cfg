SPECIFICATION ParserSpec
CONSTANTS
  MaxSpecs = 4
  Following <- MCFollowing
  Members <- MCMembers
  MaxStructs = 2
  MaxMembers = 3
  Packs = {0, 2}
  Regular = TRUE
  CharIsUnsigned = FALSE
  Inputs <- MCInputs
  Storages = {"local", "global"}
  BoundsModes = {TRUE, FALSE}
  Room = 12
  DataStart = 5
  Families <- MCFamilies
  Names <- TwoNames
  AfterError = FALSE
CHECK_DEADLOCK FALSE
INVARIANTS
  DeclarationsAsC
  InitializersAsC
  StatementsAsC
