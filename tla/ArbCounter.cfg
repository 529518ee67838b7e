\* A device that sends, crashes and loses its files, and one that listens,
\* crashes and moves between networks, on a flash that refuses writes.
CONSTANTS
  Echo = {e1, e2}
  Talker = {e1}
  CTR_BLOCK = 2
  NPEER = 1
  MaxNet = 2
  Failing = {e2}
  MaxCtr = 3
  MaxId = 2
SPECIFICATION Spec
INVARIANTS CounterNeverGoesBack OnDiskBeforeUse
PROPERTY TakenOnce
CHECK_DEADLOCK FALSE
