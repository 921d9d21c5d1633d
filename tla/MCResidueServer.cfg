SPECIFICATION Spec
CONSTANTS
  NumTasks = 3
  MaxThreads = 2
  Result <- Results
  Options <- SomeOptions
INVARIANTS
  TypeOK
  PointersExact
  EmptyComesLast
  MissedBatchIsLowest
PROPERTIES
  ClearedAfterFix
  FrontierNeverRetreats
