SPECIFICATION Spec
CONSTANTS
  Plans <- LoopPlans
  MaxTrouble = 0
INVARIANTS
  ProgressCanBeSaved
CHECK_DEADLOCK FALSE
