SPECIFICATION SceneSpec
CONSTANTS
  RetryLimits = {0, 2}
  QuickRetry = FALSE
  HubGens = {1, 2}
  Dest = {d1}
  ChatGens = {1, 2}
  MaxVer = 3
  SlowWrite = FALSE
CHECK_DEADLOCK FALSE
INVARIANTS
  BoundIsActive
  
  
  OneReader
  EndedIsTold
  
PROPERTIES
  
  RetriesEnd
  StopReturns
  StoppedEnds
  
