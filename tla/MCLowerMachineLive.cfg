SPECIFICATION FairSpec
CONSTANTS
  MaxCommand = 2
  Kinds = {"brake", "move", "motion"}
  MaxSize = 3
PROPERTIES
  NewestIsAnswered
CHECK_DEADLOCK FALSE
