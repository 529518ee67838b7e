CONSTANTS
  Echo = {1, 2}
  Keyword = {"alexa"}
  Scores = {1}
  Prio = {0, 2}
  LOOKBACK = 4
  NCLAIM = 1
  Windows = {1}
  AFE_WAIT = 1
  RivalsOn = TRUE
  Acquainted = FALSE
  Beacons = 1
  MaxDelay = 1
  Lossless = FALSE
  Spread = 1
  Gap = 0
  MaxSay = 1
  MaxTime = 4
SPECIFICATION Spec
INVARIANTS NoSilence
PROPERTIES ImplementsVote EveryClaimDecided
CHECK_DEADLOCK FALSE
