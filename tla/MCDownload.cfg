SPECIFICATION LocalSpec
CONSTANTS
  MaxJobs = 1
  StreamJobs = {}
  FileJobs = {1}
  UploadJobs = {1}
  HeaderJobs = {}
  MaxRetries = 1
  MaxBodySize = 0
  MaxErrorBody = 1
  ChunkSize = 1
  HighWater = 1
  LowWater = 1
  Statuses = {200, 404, 503}
  FollowRedirects = TRUE
  CurlFailures = {"RECV_ERROR", "READ_ERROR"}
  MaxTransfer = 2
  MaxWrite = 1
  MaxProgress = 1
  Clients = {"a"}
  Plugins = {"p"}
  ClientOf <- OneClient
  OwnerOf <- OnePlugin
  CallbackMayBeMissing = FALSE
PROPERTIES
  CancelSettles
  UnloadEnds
