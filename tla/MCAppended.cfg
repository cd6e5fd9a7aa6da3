SPECIFICATION Spec
CONSTANTS
  Requests = {r1, r2}
  Resuming = {r2}
  MaxRetries = 0
  MaxVersion = 2
  Size <- Growing
  ErrorStatuses = {503}
  OtherSuccesses = {203}
  Exclusive = TRUE
  Steady = TRUE
  LaxRanges = TRUE
  CloseLoses = FALSE
  MaxKills = 0
  Inodes = {1, 2}
INVARIANTS
  OutputWhole
