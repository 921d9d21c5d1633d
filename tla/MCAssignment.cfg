SPECIFICATION MCSpec
CHECK_DEADLOCK FALSE
CONSTANTS
  Width = 12
  Half = 7
  Quarter = 3
  LUT_SIZE64 = 5
  LUT_SIZE32 = 2
  SumBits = 8
  SIEVE_LOGSIZE = 4
  TASK_SIZE = 5
  Programs <- Builds
  Tasks <- SomeTasks
  Target = 4
  LogProcs = 2
  Kernels <- GpuBuilds
  MapLog <- MapLogs
  TaskUnits = 1
  Sizes <- SomeSizes
INVARIANTS
  GpuTypeOK
  ResultIsTheTasks
  OverflowGoesToTheCpu
PROPERTIES
  CallReturns
