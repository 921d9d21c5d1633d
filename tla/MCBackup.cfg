SPECIFICATION BackupSpec
CONSTANTS
  a = a
  none = none
  NumTasks = 2
  ClientId <- Ids
  NoId = none
  Result <- Results
  KnownChecksum <- Known
  MaxThreads = 1
  SuperBlock = 1
  Options <- RepairOptions
  Traffic = {"REQ", "RET", "INT"}
  StoreBreak = {4}
INVARIANTS
  BackupRecorded
PROPERTIES
  StartRepairs
  ClearReturnsToFrontier
