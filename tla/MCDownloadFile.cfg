SPECIFICATION Spec
CONSTANTS
  Requests = {r1, r2}
  Resuming = {r2}
  MaxRetries = 1
  MaxVersion = 2
  Size <- Growing
  ErrorStatuses = {404, 503}
  OtherSuccesses = {203}
  Exclusive = TRUE
  Steady = TRUE
  LaxRanges = FALSE
  CloseLoses = FALSE
  MaxKills = 1
  Inodes = {1, 2}
INVARIANTS
  DownloadInvariant
  OutputWhole
PROPERTIES
  SavesBody
  ImplementsSavedFile
