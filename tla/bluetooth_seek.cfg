SPECIFICATION Spec
CONSTANTS
  Track = {k1, k2}
  Length = 1
  MaxChanges = 3
  None = None
CHECK_DEADLOCK FALSE
PROPERTY SeekIsKept
