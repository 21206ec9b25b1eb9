SPECIFICATION LoopsSpec
CONSTANTS
  Unit = {1, 2, 3}
  Speaker = {1, 2}
  Target <- Mixed
  None = None
  Foreign = Foreign
  Free = Free
  MaxTrouble = 2
CHECK_DEADLOCK FALSE
PROPERTIES PlayersSettle CyclesBreak FollowersArrive
