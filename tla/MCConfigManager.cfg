SPECIFICATION FairSpec
CONSTANTS
  Key <- MCKey  Value <- MCValue  Valid <- MCValid  Default <- MCDefault
  Required <- MCRequired  Switch = "enabled"  On = "on"  Needs <- MCNeeds
  Client = {"ntrip"}  KeysOf <- MCKeysOf
  Updates <- MCUpdates  Releases <- TwoReleases
  MaxSets = 3  MaxTrouble = 2
INVARIANTS
  ReadyIsComplete
  SnapshotIsOfOneRevision
  SettledIsCurrent
PROPERTIES
  RevisionIsNotReused
  ConfigReachesClients
CHECK_DEADLOCK FALSE
