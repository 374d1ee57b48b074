SPECIFICATION PSpec
SYMMETRY Symmetry
CONSTANTS
  Outputs = {"motion"}
  CommandId = {1}
  PendingCapacity = 1
  Requester = {r1, r2}
  MaxGeneration = 2
  Publisher = {p1, p2, p3}
  MaximumRetired = 1
  MaximumEpoch = 3
  Frame = {1, 2}
INVARIANTS
  AgreesWithDisk
  InhibitorIsBraked
PROPERTIES
  SuccessorsAreHeeded
  FaultIsFinal
  StaleReadinessEnds
CHECK_DEADLOCK FALSE
