SPECIFICATION Spec
CONSTANTS
  Calls <- AllCalls
  Methods <- MethodKinds
  Trimmed <- TrimmedNames
  Folded <- FoldedNames
  MaxCalls = 3
  MaxAttempts = 2
INVARIANTS
  HeadersAsAsked
  AuthAsAsked
  SentAsAsked
PROPERTIES
  RetriesAlike
