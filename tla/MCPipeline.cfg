SPECIFICATION Spec
CONSTANTS
  MaxJobs = 2
  StreamJobs = {}
  FileJobs = {}
  UploadJobs = {}
  HeaderJobs = {1}
  MaxRetries = 1
  MaxBodySize = 0
  MaxErrorBody = 0
  ChunkSize = 1
  HighWater = 1
  LowWater = 1
  Statuses = {200}
  FollowRedirects = TRUE
  CurlFailures = {"RECV_ERROR"}
  MaxTransfer = 0
  MaxWrite = 1
  MaxProgress = 0
  Clients = {"a"}
  Plugins = {"p"}
  ClientOf <- OneClient
  OwnerOf <- OnePlugin
  CallbackMayBeMissing = TRUE
INVARIANTS
  CancelNeverLost
  CompletionOwed
  CompleteIsLast
  TransferHasLiveJob
  UnloadedClean
  RecordOutlivesCallback
  InductiveInvariant
PROPERTIES
  ImplementsContract
