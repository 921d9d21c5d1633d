SPECIFICATION HistorySpec
CONSTANTS
  a = a
  b = b
  none = none
  NumTasks = 3
  ClientId <- Ids
  NoId = none
  Result <- Results
  KnownChecksum <- Known
  MaxThreads = 2
  SuperBlock = 1
  Options <- Plain
INVARIANTS
  HighestRequested
