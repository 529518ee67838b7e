CONSTANTS
  Echo = {1, 2, 3}
  Keyword = {"alexa"}
  Scores = {1, 2}
  Prio = {0}
  LOOKBACK = 4
  NCLAIM = 6
  Windows = {3}
  AFE_WAIT = 0
  RivalsOn = FALSE
  Acquainted = TRUE
  Beacons = 0
  MaxDelay = 1
  Lossless = TRUE
  Spread = 1
  Gap = 0
  MaxSay = 1
  MaxTime = 5
SPECIFICATION Spec
INVARIANTS OneAnswers BestAnswers SettledIsFinal
CHECK_DEADLOCK FALSE
