SPECIFICATION Spec
CONSTANTS
  ProgressInterval = 2
  Uptime = 5
  UploadSizes <- NoUpload
  DownloadSize = 3
  Lengths <- Unknown
  MaxTime = 4
  MaxAttempts = 1
INVARIANTS
  CompletionReported
CHECK_DEADLOCK FALSE
