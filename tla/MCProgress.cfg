SPECIFICATION Spec
CONSTANTS
  ProgressInterval = 2
  Uptime = 5
  UploadSizes <- Uploads
  DownloadSize = 3
  Lengths <- Either
  MaxTime = 5
  MaxAttempts = 2
INVARIANTS
  PostsBounded
  LastHeard
CHECK_DEADLOCK FALSE
