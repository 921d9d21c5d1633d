SPECIFICATION MCSpec
CHECK_DEADLOCK FALSE
CONSTANTS
  Width = 15
  Half = 10
  Quarter = 4
  LUT_SIZE64 = 7
  LUT_SIZE32 = 3
  SumBits = 8
  SIEVE_LOGSIZE = 6
  Programs <- Builds
  Tasks <- SomeTasks
  TASK_SIZE = 7
  Target = 5
  LogProcs = 2
  Threads = {1, 2}
  LOG2 = 6
  LOG3 = 3
  Members = 4
INVARIANTS
  TypeOK
  ChecksumAgrees
  TaskCovered
  PartCovered
  MaximumIsHighest
  OverflowCounted
  SieveSound
  WorkersUseTheSieve
  ThreadsAgree
