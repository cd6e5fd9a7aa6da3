SPECIFICATION Spec
CONSTANTS
  MaxJobs = 1
  StreamJobs = {1}
  FileJobs = {}
  UploadJobs = {}
  HeaderJobs = {}
  MaxRetries = 1
  MaxBodySize = 0
  MaxErrorBody = 1
  ChunkSize = 1
  HighWater = 1
  LowWater = 1
  Statuses = {200, 503}
  FollowRedirects = TRUE
  CurlFailures = {}
  MaxTransfer = 1
  MaxWrite = 1
  MaxProgress = 0
  Clients = {"a"}
  Plugins = {"p"}
  ClientOf <- OneClient
  OwnerOf <- OnePlugin
  CallbackMayBeMissing = FALSE
PROPERTIES
  TransientStatusRetried
