SPECIFICATION FairSpec
CONSTANTS
  Model = {"m"}  Group = {"g"}  Place = {0, 1}  NoOrigin = NoOrigin  Corners = 1
  OldDatabases <- MCOldDatabases  Samples <- MCSamples
  MaxSamples = 2  MaxGoals = 2  MaxLoad = 4
INVARIANTS
  DraftIsInOneFrame
  AnswerIsKept
PROPERTIES
  PlanIsOfItsVersion
  VersionsKeepTheirContent
  PlannedIsConfirmed
  TimedOutIsCancelled
CHECK_DEADLOCK FALSE
