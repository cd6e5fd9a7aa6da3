SPECIFICATION Spec
CONSTANTS
  MaxJobs = 1
  StreamJobs = {1}
  FileJobs = {}
  UploadJobs = {}
  HeaderJobs = {}
  MaxRetries = 0
  MaxBodySize = 0
  MaxErrorBody = 0
  ChunkSize = 16
  HighWater = 4
  LowWater = 1
  Statuses = {200}
  FollowRedirects = TRUE
  CurlFailures = {}
  MaxTransfer = 16
  MaxWrite = 4
  MaxProgress = 0
  Clients = {"a"}
  Plugins = {"p"}
  ClientOf <- OneClient
  OwnerOf <- OnePlugin
  CallbackMayBeMissing = FALSE
INVARIANTS
  ChunksInRange
