SPECIFICATION LiveSpec
CONSTANTS
  MaxJobs = 1
  StreamJobs = {1}
  FileJobs = {}
  UploadJobs = {}
  HeaderJobs = {1}
  MaxRetries = 1
  MaxBodySize = 0
  MaxErrorBody = 1
  ChunkSize = 2
  HighWater = 3
  LowWater = 2
  Statuses = {200, 503}
  FollowRedirects = TRUE
  CurlFailures = {"RECV_ERROR"}
  MaxTransfer = 6
  MaxWrite = 2
  MaxProgress = 0
  Clients = {"a"}
  Plugins = {"p"}
  ClientOf <- OneClient
  OwnerOf <- OnePlugin
  CallbackMayBeMissing = TRUE
INVARIANTS
  FlowConserved
  PausedCanResume
  StreamBounded
  OkMeansWhole
PROPERTIES
  HeadersBeforeData
  StreamNotReplayed
  EveryRequestSettles
