SPECIFICATION ReconfSpec
CONSTANTS
  Unit = {1, 2}
  Speaker = {1, 2}
  Target <- TwoLeader
  None = None
  Foreign = Foreign
  Free = Free
  MaxTrouble = 5
CHECK_DEADLOCK FALSE
INVARIANT TypeOK
PROPERTY ChoiceStands
