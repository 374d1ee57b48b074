----------------------------- MODULE MissionPlan -----------------------------
(* What a mission drives along: the order of the waypoints, the turn before *)
(* a straight, and the guard that judges a contact of the edge sensor.      *)
EXTENDS Integers

(* WaypointSequence: 0 .. count - 1, or the closed tour 0, 1 .. count - 1,  *)
(* 0 .., loops times around (0: without end).                               *)
ValidTour(count, loop) == count > 0 /\ (loop => count >= 2)
FirstOfTour == [next |-> 0, started |-> FALSE, laps |-> 0]

TourGoesOn(t, count, loop, loops) ==
  IF loop THEN ~t.started \/ loops = 0 \/ t.laps < loops ELSE t.next < count

\* The sequence after it gave out its next target.
\* Mutant of AfterNext: a lap ends before the way back to the start.
SkipsWayBack(t, count, loop) ==
  LET closes == loop /\ t.started /\ t.next + 1 >= count
  IN  [next |-> IF closes THEN 1 ELSE t.next + 1, started |-> TRUE,
       laps |-> IF closes THEN t.laps + 1 ELSE t.laps]

AfterNext(t, count, loop) ==
  LET closes == loop /\ t.started /\ t.next >= count
  IN  [next |-> IF closes THEN 1 ELSE t.next + 1, started |-> TRUE,
       laps |-> IF closes THEN t.laps + 1 ELSE t.laps]

\* waypoint_total_targets_: what the progress is measured against.
TourLength(count, loop, loops) ==
  IF ~loop THEN count ELSE IF loops = 0 THEN 0 ELSE 1 + loops * count

\* normalize_heading_deg and normalize_turn_angle_deg, in whole units of a
\* circle: the shortest turn from one heading to another.
NormalHeading(h, circle) == h % circle
TurnAngle(target, current, circle) ==
  ((target - current + circle \div 2) % circle) - (circle \div 2)

(* StraightEdgeGuard: the sensor counts once it has stayed on for the       *)
(* debounce time, and then once.                                            *)
GuardReset == "clear"
Evaluated(guard, clear, debounced) ==
  IF clear THEN GuardReset
  ELSE IF guard = "clear" THEN "asserted"
  ELSE IF debounced THEN "emitted" ELSE guard
Decides(guard, clear, debounced) ==
  ~clear /\ guard = "asserted" /\ debounced
=============================================================================
