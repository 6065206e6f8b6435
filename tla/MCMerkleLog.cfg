SPECIFICATION Spec
CONSTANTS
  Event = {a, b}
  MaxLen = 6
INVARIANTS
  RootIsRFC6962
  RootBindsLog
  SplitIsLargestPowerOfTwo
PROPERTIES
  AppendKeepsLeftHalf
CHECK_DEADLOCK FALSE
