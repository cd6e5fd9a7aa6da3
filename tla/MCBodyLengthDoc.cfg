SPECIFICATION Spec
CONSTANTS
  MaxJobs = 1
  StreamJobs = {1}
  FileJobs = {}
  UploadJobs = {}
  HeaderJobs = {}
  MaxRetries = 0
  MaxBodySize = 0
  MaxErrorBody = 0
  ChunkSize = 2
  HighWater = 3
  LowWater = 2
  Statuses = {200}
  FollowRedirects = TRUE
  CurlFailures = {}
  MaxTransfer = 3
  MaxWrite = 1
  MaxProgress = 0
  Clients = {"a"}
  Plugins = {"p"}
  ClientOf <- OneClient
  OwnerOf <- OnePlugin
  CallbackMayBeMissing = FALSE
INVARIANTS
  BodyLengthIsDelivered
