SPECIFICATION Spec
CONSTANTS
  MaxScrapes = 1
  Configs <- SaneConfig
INVARIANT
  GracefulShutdown
