SPECIFICATION Spec
CONSTANTS
  Requests = {r1, r2}
  Resuming = {}
  MaxRetries = 0
  MaxVersion = 1
  Size <- Single
  ErrorStatuses = {}
  OtherSuccesses = {}
  Exclusive = FALSE
  Steady = FALSE
  LaxRanges = FALSE
  CloseLoses = FALSE
  MaxKills = 0
  Inodes = {1, 2, 3, 4}
PROPERTIES
  SavesBody
