SPECIFICATION AssemblySpec
CONSTANTS
  ReadPieces <- MCReadPieces
  SkipPieces <- MCSkipPieces
  Texts <- MCTexts
  CutsOf <- MCCuts
  Letters <- MCLetters
  Digits <- MCDigits
  Exponents <- MCExponents
  Buckets <- MCBuckets
  Hash <- MCHash
  AsmForms <- MCForms
  Programs <- MCPrograms
  AsmSections <- MCSections
  Names <- MCNames
  ShortMin <- MCShortMin
  ShortMax = 7
  Suspect = {}
  Listings <- MCListings
  Origins = {0, 200}
  Leftovers <- MCLeftovers
CHECK_DEADLOCK FALSE
INVARIANTS
  ReadAsC
  OperandsAreKept
  AssembledAsWritten
  C67RunsAsC
