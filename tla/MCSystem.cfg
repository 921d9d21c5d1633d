SPECIFICATION SysSpec
CONSTANTS
  A = A
  B = B
  none = none
  nobody = nobody
  Client = {A, B}
  NumTasks = 3
  ClientId <- Ids
  NoId = none
  Result <- Results
  KnownChecksum <- Known
  MaxThreads = 2
  SuperBlock = 1
  Options <- Plain
  Mode <- ModeAB
  Threads <- ThreadsAB
  Outcome <- OutcomeAB
  Unlucky = {}
  MaxLives = 1
  MaxQueue = 1
INVARIANTS
  SysTypeOK
  CompleteWasVerified
  CompleteIsAssigned
  LeaseKept
  TornIsMarked
PROPERTIES
  RecordedOnce
