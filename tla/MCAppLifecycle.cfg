SPECIFICATION FairSpec
CONSTANTS
  MaxScrapes = 1
  Configs <- MCConfigs
INVARIANTS
  LateShutdownClosesSession
  MonitorEndsOnlyAtExit
  ZeroExitMeansShutdown
PROPERTIES
  ShutdownEndsProcess
  NoHalfRunningExporter
