CONSTANTS
  NumThreads = 2
  PageSize = 16
  PageCounts <- MCPageCounts
  Names = {"nvmebenchmark-write", "nvmebenchmark-read", "nvmebenchmark"}
  Garbage = {0, 7}
  MemalignResults = {"ok", "fail"}
  UnlinkResults = {"ok", "fail"}
  OpenResults = {"ok", "fail"}
  FallocResults = {"ok", "fail"}
  PwriteResults = {"ok", "error"}
  PreadResults = {"ok", "error"}
  MaxRuns = 2
SPECIFICATION Spec
INVARIANTS TypeOK WriteStoresTags NoFalseAlarm
PROPERTY ImplementsPageFile
