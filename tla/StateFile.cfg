\* Two threads writing one state file, two temp numbers: both are in flight at
\* once, numbers come round again, and a power cut leaves temp files.
CONSTANTS
  Writer = {w1, w2}
  NSLOT = 2
  MaxWrites = 3
  None = None
SPECIFICATION Spec
SYMMETRY Symmetry
INVARIANTS OldOrNew OwnTemp AckedStays
CHECK_DEADLOCK FALSE
