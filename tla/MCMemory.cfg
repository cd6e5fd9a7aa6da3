SPECIFICATION Spec
CONSTANTS
  MaxJobs = 1
  StreamJobs = {}
  FileJobs = {}
  UploadJobs = {}
  HeaderJobs = {1}
  MaxRetries = 2
  MaxBodySize = 2
  MaxErrorBody = 0
  ChunkSize = 1
  HighWater = 1
  LowWater = 1
  Statuses = {100, 200, 302, 404, 503}
  FollowRedirects = TRUE
  CurlFailures = {"RECV_ERROR", "OPERATION_TIMEDOUT", "PEER_FAILED_VERIFICATION", "READ_ERROR"}
  MaxTransfer = 4
  MaxWrite = 2
  MaxProgress = 0
  Clients = {"a", "b"}
  Plugins = {"p", "q"}
  ClientOf <- OneClient
  OwnerOf <- OnePlugin
  CallbackMayBeMissing = FALSE
INVARIANTS
  HeadersOncePerAttempt
  AttemptsBounded
  BodyCapped
  DropIsScoped
