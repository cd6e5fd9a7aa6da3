SPECIFICATION Spec
CONSTANTS
  ProgressInterval = 2
  Uptime = 5
  UploadSizes <- Uploads
  DownloadSize = 3
  Lengths <- Known
  MaxTime = 4
  MaxAttempts = 1
INVARIANTS
  OncePerInterval
CHECK_DEADLOCK FALSE
