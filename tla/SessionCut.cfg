SPECIFICATION Spec
CONSTANTS
  Job = {1, 2}
  Announcement <- MCChimes
  WAKE_FAILS_MAX = 1
  MaxRun <- MCMaxRun
  InFlight = 1
  EarlyStop = FALSE
INVARIANT CutListens
CHECK_DEADLOCK FALSE
