SPECIFICATION FairSpec
CONSTANTS
  c1 = c1
  c2 = c2
  Channels <- MCChannels
  MaxEvents = 2
  MaxTicks = 3
INVARIANTS
  SummaryAddsUp
  NeverOverReports
PROPERTIES
  ImplementsReport
  TickIsAnswered
