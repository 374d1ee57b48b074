SPECIFICATION FairSpec
CONSTANTS
  Source = {"emergency", "safety", "manual", "mission"}
  Stamp = {1, 2, 3}
  Generation = {1, 2}
  Publisher = {p1, p2}
  MaximumRetired = 1
  MaximumEpoch = 2
INVARIANTS
  StopHolds
  MotionIsByLastIntent
  ClampIsPublished
  ReleasedStaysReleased
PROPERTIES
  LeasedMotionEnds
