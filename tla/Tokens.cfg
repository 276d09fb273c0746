SPECIFICATION TokensSpec
CONSTANTS
  Token <- Tokens
  Ident <- Words
  NoToken = NoToken
  NULL = NULL
  Programs <- AllPrograms
  MaxUnget = 1
  Pasted <- MCPasted
  Quoted <- MCQuoted
  IntBits = 12
  StringMax = 10
  Sources <- MCSources
INVARIANTS
  ExpandsAsC
  LiteralsAsC
PROPERTY ExpansionEnds
CHECK_DEADLOCK FALSE
