SPECIFICATION Spec
CONSTANTS
  MaxCommand = 3
  Kinds = {"brake", "move", "motion"}
  MaxSize = 3
INVARIANTS
  NothingOldAfterBrake
CHECK_DEADLOCK FALSE
