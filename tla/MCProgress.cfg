SPECIFICATION FairSpec
CONSTANTS
  A = A
  B = B
  none = none
  nobody = nobody
  Client = {A, B}
  NumTasks = 2
  ClientId <- Ids
  NoId = none
  Result <- Results
  KnownChecksum <- Known
  MaxThreads = 1
  SuperBlock = 1
  Options <- Plain
  Mode <- ModeAB
  Threads <- ThreadsOne
  Outcome <- OutcomeAB
  Unlucky = {A}
  MaxLives = 1
  MaxQueue = 2
PROPERTIES
  AllCompleted
