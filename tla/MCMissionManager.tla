--------------------------- MODULE MCMissionManager ---------------------------
(* MissionManager for TLC.                                                  *)
EXTENDS MissionManager

Plan(kind, size, loop, laps) == [kind |-> kind, size |-> size, loop |-> loop, laps |-> laps]
Recovery == Plan("recover", 0, FALSE, 0)
MCPlans ==
  << {Plan("cleaning", 2, FALSE, 1), Plan("return_home", 1, FALSE, 1),
      Plan("navigate_waypoints", 2, TRUE, 1)},
     {Recovery, Plan("cleaning", 1, FALSE, 1)} >>

\* One segment, driven in two laps.
LoopPlans == << {Plan("cleaning", 1, TRUE, 2)} >>
=============================================================================
