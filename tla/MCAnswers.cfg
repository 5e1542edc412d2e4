CONSTANTS
  Threads = {t1, t2}
  MaxParses = 2
  MaxRejects = 2
  Sources <- MCSources
  MaxCalls = 3
SPECIFICATION BothSpec
CHECK_DEADLOCK FALSE
INVARIANTS
  ReportsItsOwn
  NeverNameless
  InstalledOnDemand
  PortsAnswerAlike
PROPERTIES
  EveryParseEnds
