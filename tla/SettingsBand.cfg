\* An Echo Show, whose band has no automatic brightness (settings.c's present(), caps.band).
SPECIFICATION ZSpec
CONSTANTS
  Full = 2
  HasAuto = FALSE
  HasSound = FALSE
  MaxCalls = 1
  MaxStarts = 2
  Nothing = Nothing
PROPERTY BandKept
CHECK_DEADLOCK FALSE
