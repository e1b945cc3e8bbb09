SPECIFICATION FairSpec
CONSTANTS
  i1 = i1
  i2 = i2
  i3 = i3
  portal = portal
  RunLoop = RunLoop
  Items <- MCItems
  SizeOf <- MCSizeOf
  Callers <- MCCallers
  StageMaxEvents = 2
  StageMaxBytes = 4
CHECK_DEADLOCK FALSE
INVARIANTS StageBytesExact
PROPERTIES WriteReturns ShutdownCompletes
