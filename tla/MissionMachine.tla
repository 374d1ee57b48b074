---------------------------- MODULE MissionMachine ----------------------------
(* MissionStateMachine: the progress of one run over a plan of segments.    *)
(* Every operation the state does not allow leaves the machine as it is.    *)
EXTENDS Naturals

Terminal(m) == m.state \in {"completed", "cancelled", "failed"}
Stopped(m) == m.state \in {"idle", "paused"} \/ Terminal(m)

NewMachine == [state |-> "idle", segment |-> 0, total |-> 0, turn |-> 0, generation |-> 0]

\* clearExpectedEvents, and the next state.
Moved(m, state) == [m EXCEPT !.state = state, !.turn = 0, !.generation = 0]

MayStart(m, total, first) == first < total /\ (m.state = "idle" \/ Terminal(m))
Started(m, total, first) ==
  IF MayStart(m, total, first)
  THEN [Moved(m, "preparing") EXCEPT !.segment = first, !.total = total] ELSE m

BegunTurn(m, id) ==
  IF m.state = "preparing" /\ id # 0
  THEN [Moved(m, "turning") EXCEPT !.turn = id] ELSE m
CompletedTurn(m, id) ==
  IF m.state = "turning" /\ m.turn = id THEN Moved(m, "preparing") ELSE m

MayTrack(m, generation) == m.state = "preparing" /\ generation # 0
BegunTracking(m, generation) ==
  IF MayTrack(m, generation)
  THEN [Moved(m, "tracking") EXCEPT !.generation = generation] ELSE m
CompletedTracking(m, generation) ==
  IF m.state = "tracking" /\ m.generation = generation
  THEN [Moved(m, IF m.segment + 1 >= m.total THEN "completed" ELSE "preparing")
          EXCEPT !.segment = m.segment + 1]
  ELSE m

Paused(m) == IF Stopped(m) THEN m ELSE Moved(m, "paused")
\* Mutant of Resumed: the machine stays paused.
StaysPaused(m) == m
Resumed(m) == IF m.state = "paused" THEN Moved(m, "preparing") ELSE m

BegunRtkRecovery(m) == IF Stopped(m) THEN m ELSE Moved(m, "rtk_recovering")
RecoveredRtk(m) == IF m.state = "rtk_recovering" THEN Moved(m, "preparing") ELSE m

Ended(m, state) == IF m.state = "idle" \/ Terminal(m) THEN m ELSE Moved(m, state)
Cancelled(m) == Ended(m, "cancelled")
Failed(m) == Ended(m, "failed")
=============================================================================
