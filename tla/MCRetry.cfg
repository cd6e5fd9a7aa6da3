SPECIFICATION Spec
CONSTANTS
  Jobs = {j1, j2}
  MaxRetries = 2
  RetryAfters <- Moderate
  Second = 2
  BackoffBaseMs = 4
  BackoffCapMs = 6
  RetryAfterCapMs = 5
  MaxWaitMs = 2
  LongMax = 15
  TicksPerMs = 2
  MaxTime = 24
SYMMETRY Interchangeable
PROPERTIES
  NotBeforeAsked
  BacksOff
  BeginsInTime
