SPECIFICATION Spec
CONSTANTS
  BaseUrls <- Bases
  Paths <- PlainPaths
  Names <- ShortNames
  Values <- ShortValues
  MaxCalls = 2
INVARIANTS
  ReadBack
  ServerKept
