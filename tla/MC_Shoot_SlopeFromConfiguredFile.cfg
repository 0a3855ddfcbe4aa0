CONSTANTS
  NumThreads = 2
  N = 3
  Durations <- MCDurations
  EngineCalls <- MCEngineCalls
  Schedules <- MCSchedules
  SlopeFiles = {"unset", "readable", "unreadable"}
  NoResult = NoResult
SPECIFICATION Spec
INVARIANT
  SlopeFromConfiguredFile
