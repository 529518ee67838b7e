SPECIFICATION Spec
CONSTANTS
  Job = {1, 2}
  Announcement <- MCAnnouncement
  WAKE_FAILS_MAX = 1
  MaxRun <- MCMaxRun
  InFlight = 2
  EarlyStop = FALSE
INVARIANTS SpeakingEnds FlushEnds WakeCutEnds SlotFreed MicOnlyWhenListening
PROPERTIES NoCancelledReply ReturnsToIdle
CHECK_DEADLOCK FALSE
