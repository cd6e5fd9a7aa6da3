SPECIFICATION Spec
CONSTANTS
  BaseUrls <- Bases
  Paths <- PathsWithUrl
  Names <- ShortNames
  Values <- ShortValues
  MaxCalls = 0
INVARIANTS
  PathResolved
