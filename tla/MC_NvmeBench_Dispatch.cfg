CONSTANTS
  NumThreads = 2
  PageSize = 16
  PageCounts <- MCPageCounts
  Names = {"nvmebenchmark-write", "./nvmebenchmark-read"}
  Garbage = {7}
  MemalignResults = {"ok"}
  UnlinkResults = {"ok"}
  OpenResults = {"ok"}
  FallocResults = {"ok"}
  PwriteResults = {"ok"}
  PreadResults = {"ok"}
  MaxRuns = 2
SPECIFICATION Spec
INVARIANT ReadSuccessMeansVerified
