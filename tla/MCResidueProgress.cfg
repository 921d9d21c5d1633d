SPECIFICATION CalmSpec
CONSTANTS
  A = A
  B = B
  nobody = nobody
  Client = {A, B}
  NumTasks = 2
  MaxThreads = 2
  Result <- Results
  Options <- FixAndClear
  Threads <- ThreadsAB
  Truth <- TrueSums
  MaxQueue = 2
PROPERTIES
  AllCompleted
