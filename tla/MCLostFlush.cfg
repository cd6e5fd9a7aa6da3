SPECIFICATION Spec
CONSTANTS
  Requests = {r1}
  Resuming = {}
  MaxRetries = 0
  MaxVersion = 1
  Size <- Single
  ErrorStatuses = {}
  OtherSuccesses = {}
  Exclusive = TRUE
  Steady = FALSE
  LaxRanges = FALSE
  CloseLoses = TRUE
  MaxKills = 0
  Inodes = {1, 2}
PROPERTIES
  SavesBody
