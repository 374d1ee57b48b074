SPECIFICATION Spec
CONSTANTS
  MaxCommand = 3
  Kinds = {"brake", "move", "motion"}
  MaxSize = 3
INVARIANTS
  WaitingIsInOrder
  RefusedIsNotExecuted
  IdleIsEmpty
PROPERTIES
  BrakeIsKept
CHECK_DEADLOCK FALSE
