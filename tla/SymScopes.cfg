SPECIFICATION Spec
CONSTANTS
  Ident = {x, y}
  Tag = {S}
  Anon = Anon
  NULL = NULL
  SymPoolNb = 1
  MaxSyms = 5
  MaxDecls = 3
  MaxBlocks = 3
  MaxValues = 1
  SymbolResults = FALSE
  RestartFrom = {"idle"}
INVARIANTS
  TypeOK
  SymsDisjoint
  LookupIsInnermost
  ValuesDenoteTheirSymbol
PROPERTY ImplementsLexicalScopes
CHECK_DEADLOCK FALSE
