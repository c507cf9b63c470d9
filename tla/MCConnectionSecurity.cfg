SPECIFICATION FairSpec
CONSTANTS
  Configs <- MCConfigs
  EndpointLists <- MCLists
  CallTimes <- MCNoTime
  InitialInterval = 1
  MaxInterval = 2
  Limit = 0
  MaxAttempts = 3
INVARIANTS
  NoClientLeaks
  InvalidIsNotRetried
  OneAttemptAfterCancel
  SecuredAsConfigured
  SelectedEndpointHasToken
PROPERTIES
  CancelReturns
  ImplementsConnectOutcome
