CONSTANTS
  Options <- MCOptions
  Sizes = {0, 1, 2}
  OpenResults = {"ok", "error"}
  FstatResults = {"ok", "error"}
  FallocResults = {"ok", "error"}
  MmapResults = {"ok", "error"}
SPECIFICATION Spec
INVARIANTS TypeOK MappedWithinFile NoinitKeepsFile
PROPERTY ImplementsCall
