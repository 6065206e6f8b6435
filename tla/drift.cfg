\* Two runs at once, while both repositories change.
SPECIFICATION FairSpec
CONSTANTS
  File = {"f", "g"}
  Digest = {"x", "y"}
  Absent = Absent
  None = None
  Starts <- Same
  Slot = {1, 2}
  MaxChanges = 2
INVARIANTS
  GreenMeansEqual
  AlarmIsReal
PROPERTIES
  DriftIsReported
CHECK_DEADLOCK FALSE
