SPECIFICATION Spec
CONSTANTS
  Track = {t1, t2, t3}
  MaxChanges = 4
  Unknown = Unknown
  None = None
PROPERTY NoStaleArt
CHECK_DEADLOCK FALSE
