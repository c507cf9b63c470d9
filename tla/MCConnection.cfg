SPECIFICATION FairSpec
CONSTANTS
  Configs <- MCTimedConfigs
  EndpointLists <- MCTimedLists
  CallTimes <- MCCallTimes
  InitialInterval = 10
  MaxInterval = 30
  Limit = 90
  MaxAttempts = 5
INVARIANTS
  NoLateAttempt
  BackoffKept
  OvershootBounded
PROPERTY
  LimitReturns
