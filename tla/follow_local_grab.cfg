SPECIFICATION GrabSpec
CONSTANTS
  Unit = {1, 2}
  Speaker = {1, 2}
  Target <- OneEach
  None = None
  Foreign = Foreign
  Free = Free
  MaxTrouble = 5
CHECK_DEADLOCK FALSE
PROPERTY ChoiceStands
