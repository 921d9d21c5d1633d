SPECIFICATION SysSpec
CONSTANTS
  A = A
  B = B
  none = none
  nobody = nobody
  Client = {A, B}
  NumTasks = 2
  ClientId <- Ids
  NoId = none
  Result <- Results
  KnownChecksum <- Known
  MaxThreads = 2
  SuperBlock = 1
  Options <- Plain
  Mode <- ModeBatch
  Threads <- ThreadsAB
  Outcome <- OutcomeGood
  Unlucky = {}
  MaxLives = 2
  MaxQueue = 2
INVARIANTS
  ExclusiveWork
