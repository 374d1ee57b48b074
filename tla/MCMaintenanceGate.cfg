SPECIFICATION Spec
CONSTANTS
  Outputs = {"motion"}
  CommandId <- MCCommandId
  PendingCapacity = 1
  Generation <- MCGeneration
  Epoch <- MCEpoch
  Frame <- MCFrame
  InputStates <- MCInputStates
INVARIANTS
  ReadyIsCorrelated
  ReadyIsConfirmed
  StatusOrderIsIrrelevant
PROPERTIES
  FailsClosed
CHECK_DEADLOCK FALSE
