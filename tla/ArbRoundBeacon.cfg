CONSTANTS
  Echo = {1, 2}
  Keyword = {"alexa"}
  Scores = {1, 2}
  Prio = {0}
  LOOKBACK = 4
  NCLAIM = 4
  Windows = {3}
  AFE_WAIT = 0
  RivalsOn = FALSE
  Acquainted = TRUE
  Beacons = 2
  MaxDelay = 1
  Lossless = FALSE
  Spread = 1
  Gap = 0
  MaxSay = 1
  MaxTime = 5
SPECIFICATION Spec
INVARIANT FirstCopyTaken
CHECK_DEADLOCK FALSE
