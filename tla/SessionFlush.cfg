SPECIFICATION Spec
CONSTANTS
  Job = {1, 2}
  Announcement <- MCAnnouncement
  WAKE_FAILS_MAX = 1
  MaxRun <- MCMaxRun
  InFlight = 1
  EarlyStop = TRUE
INVARIANT FlushEnds
CHECK_DEADLOCK FALSE
