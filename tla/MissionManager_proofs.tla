------------------------ MODULE MissionManager_proofs ------------------------
(***************************************************************************)
(* Proofs about the mission manager, for any plans, any number of missions *)
(* and of troubles: what the checkpoints on the disk say was driven, what  *)
(* is reported as successful was driven in full, and whoever waits stands. *)
(*                                                                         *)
(* The invariant says for each place of the worker in which state its      *)
(* machine is and what it has ordered, how far the mission has come, and   *)
(* what the target and the reports that are still on their way are of.     *)
(***************************************************************************)
EXTENDS MissionManager, TLAPS

MachineStates ==
  {"idle", "preparing", "turning", "tracking", "paused", "rtk_recovering",
   "completed", "cancelled", "failed"}
Generations == 0 .. 4
Machines ==
  [state : MachineStates, segment : Nat, total : Nat, turn : {0, TurnRequest},
   generation : Generations]
Records ==
  [run : Nat \ {0}, kind : {"cleaning", "return_home"}, loop : BOOLEAN, laps : Nat,
   lap : Nat, next : Nat, total : Nat \ {0}, completed : Nat]
Goals ==
  [id : Nat, kind : Kinds \cup {"idle"}, size : Nat, loop : BOOLEAN, laps : Nat,
   status : {"none", "executing", "accepting_cancel", "canceling", "succeeded",
             "canceled", "aborted", "lost"}]
Faults ==
  {"none", "HARDWARE_LOST", "HARDWARE_NOT_READY", "CHECKPOINT_SAVE_FAILED", "NOT_READY",
   "RTK_NOT_READY", "TURN_FAILED", "TURN_COMPLETION_TIMEOUT", "RTK_RECOVERY_TIMEOUT",
   "MISSION_STATE_ERROR"}
Nodes ==
  [configured : BOOLEAN, active : BOOLEAN, preflight : BOOLEAN, pause : BOOLEAN,
   edge : BOOLEAN, fault : Faults, closed : BOOLEAN, rtk : BOOLEAN, hardware : BOOLEAN,
   turn : {0, TurnRequest}, turned : {"none", "completed", "failed"},
   tracking : Generations,
   tracked : {"none", "active", "running", "near", "finished", "rtk_invalid"},
   heard : BOOLEAN, woken : BOOLEAN]
Workers ==
  [at : Places, back : {"none", "ensure", "track", "preflight"},
   leg : {"segment", "transfer"}, machine : Machines, first : Nat, lap : Nat,
   completed : Nat, record : Records \cup {NoRecord}, replan : BOOLEAN,
   tour : [next : Nat, started : BOOLEAN, laps : Nat],
   guard : {"clear", "asserted", "emitted"}, step : {"success", "cancelled", "failed"}]
Targets == [generation : Generations \ {0}, mark : Nat \X Nat \X Nat]
Reports ==
  [generation : Generations \ {0},
   code : {"active", "running", "near", "finished", "rtk_invalid"}]
Trackers ==
  [configured : BOOLEAN, active : BOOLEAN, target : Targets \cup {NoTarget},
   at : {"new", "running", "near", "finished"}, topic : Targets \cup {NoTarget},
   pending : BOOLEAN, reports : {<<>>} \cup {<<r>> : r \in Reports}]
Outs == [motion : {"none", "turn", "track"}, brush : BOOLEAN, safety : BOOLEAN, late : Nat]

Types ==
  /\ goal \in Goals /\ node \in Nodes /\ worker \in Workers
  /\ disk \in [{"cleaning", "return_home"} -> Records \cup {NoRecord}]
  /\ tracker \in Trackers /\ out \in Outs
  /\ tracker.active => tracker.target # NoTarget

-----------------------------------------------------------------------------
(* The invariant.                                                          *)

\* The goal is one that was accepted, and a mission is active as long as its
\* worker is somewhere.
GoalInv ==
  /\ worker.at # "idle" => goal.id > 0 /\ goal.kind \in Kinds
  /\ goal.kind = "return_home" => goal.size = 1 /\ goal.laps = 1
  /\ goal.kind = "navigate_waypoints" => ValidTour(goal.size, goal.loop)
  /\ node.active <=> worker.at # "idle"
  /\ node.turn # 0 => worker.at \in {"turning", "await_turn", "paused", "rtk"}
  /\ node.tracking # 0 => worker.at \in {"tracking", "await_track", "paused", "rtk"}

Beginning == {"launch", "preflight", "plan"}
Segments == goal.kind \in {"cleaning", "recover"}
Backs == {"ensure", "track"} \cup (IF goal.kind = "return_home" THEN {"preflight"} ELSE {})

\* The machine is where the worker's next step needs it.
MachineInv ==
  /\ worker.at \in Beginning /\ Segments => worker.machine.state = "idle"
  /\ worker.at = "lap" => worker.machine.state \in {"idle", "completed"}
  /\ worker.at \in {"ensure", "go", "track"} => worker.machine.state = "preparing"
  /\ worker.at \in {"turning", "await_turn"} =>
       worker.machine.state = "turning" /\ worker.machine.turn = node.turn
  /\ worker.at \in {"tracking", "await_track"} =>
       /\ worker.machine.state = "tracking" /\ worker.machine.generation = node.tracking
       /\ node.tracking # 0
  /\ worker.at \in {"paused", "edge"} => worker.machine.state = "paused"
  /\ worker.at = "rtk" => worker.machine.state = "rtk_recovering"
  /\ worker.at = "advance" => worker.machine.state \in {"preparing", "completed"}
  /\ worker.at = "lap_done" => worker.machine.state = "completed"
  /\ worker.machine.state = "completed" => worker.machine.segment >= worker.machine.total
  /\ worker.at \in {"paused", "edge", "rtk"} => worker.back \in Backs
  /\ MachineFollows

\* What is in force; an order given during a pause is the last before a look.
Standing ==
  {"idle", "launch", "preflight", "plan", "nothing_left", "paused", "edge", "rtk", "reset"}
Looking == {"turning", "tracking", "paused", "finish", "reset"}
OutInv ==
  /\ worker.at \in Standing => out.motion = "none" /\ ~out.brush
  /\ worker.at = "advance" => out.motion = "none"
  /\ out.brush => Segments
  /\ out.safety => worker.at \in {"rtk", "finish"}
  /\ worker.at = "rtk" => out.safety
  /\ out.late # 0 => out.late = 1 /\ node.pause /\ worker.at \in Looking

\* The files tell what was driven; the record of a run is of its kind.
FileInv(kind) ==
  disk[kind] # NoRecord =>
    /\ ValidRecord(disk[kind])
    /\ disk[kind].kind = kind /\ disk[kind].run <= goal.id
    /\ disk[kind].run = goal.id => goal.kind = kind
    /\ Claimed(disk[kind]) \subseteq covered
DiskInv ==
  /\ \A kind \in {"cleaning", "return_home"} : FileInv(kind)
  /\ worker.at \in Driving /\ goal.kind \in {"cleaning", "return_home"} =>
       disk[goal.kind] # NoRecord /\ disk[goal.kind].run = goal.id

\* So does the record that the worker holds: of a new run, or of one before.
RecordInv ==
  /\ worker.record # NoRecord =>
       /\ ValidRecord(worker.record) /\ Claimed(worker.record) \subseteq covered
       /\ Recovering => worker.record.run < goal.id
       /\ goal.kind \in {"cleaning", "return_home"} =>
            /\ worker.record.run = goal.id /\ worker.record.kind = goal.kind
            /\ worker.record.total = goal.size /\ worker.record.laps = goal.laps
       /\ goal.kind = "return_home" => worker.record.lap = 0
  /\ worker.at \in Driving /\ goal.kind # "navigate_waypoints" => worker.record # NoRecord
  /\ worker.at # "idle" /\ Recovering => worker.record # NoRecord

\* How far a run over segments has come: before a lap is started it is where
\* the lap will begin, and then where the machine is.
Driven(lap, next) == Claimed([worker.record EXCEPT !.lap = lap, !.next = next])
Upto ==
  IF worker.leg = "transfer" \/ worker.at = "lap" THEN worker.first
  ELSE worker.machine.segment
ProgressInv ==
  /\ worker.leg = "transfer" =>
       Recovering /\ worker.at \in (Driving \ {"lap", "lap_done"}) \cup {"finish", "reset"}
  /\ worker.at \in {"lap", "lap_done"} => Segments
  /\ worker.at = "nothing_left" => Recovering
  /\ worker.at \in Beginning /\ Segments => worker.lap = 0 /\ worker.first = 0
  /\ worker.at \in Driving /\ Segments =>
       /\ Driven(worker.lap, Upto) \subseteq covered
       /\ worker.leg = "transfer" \/ worker.at = "lap" => worker.first < worker.record.total
       /\ worker.leg = "segment" /\ worker.at # "lap" =>
            worker.machine.total = worker.record.total
  /\ goal.kind = "return_home" /\ worker.at = "advance" => <<goal.id, 0, 0>> \in covered

\* How far a tour has come: every target given out but the last was reached.
GivenOut(tour) ==
  IF ~goal.loop THEN tour.next
  ELSE IF tour.started THEN tour.laps * goal.size + tour.next ELSE 0
TourInv ==
  goal.kind = "navigate_waypoints" =>
    /\ \A k \in 0 .. worker.completed - 1 : <<goal.id, k, 0>> \in covered
    /\ worker.at = "advance" => <<goal.id, worker.completed, 0>> \in covered
    /\ worker.at \in Beginning => GivenOut(worker.tour) = worker.completed
    /\ worker.at \in Driving => GivenOut(worker.tour) = worker.completed + 1
    /\ ~worker.tour.started => worker.tour.next = 0 /\ worker.tour.laps = 0
    /\ goal.loop /\ worker.tour.started => worker.tour.next \in 1 .. goal.size
    /\ goal.loop /\ goal.laps # 0 => worker.tour.laps <= goal.laps

\* Whatever is still on its way and bears the generation that is waited for
\* is of the target that the worker drives to.
TrackInv ==
  node.tracking # 0 =>
    /\ tracker.topic.generation = node.tracking => tracker.topic.mark = Mark
    /\ tracker.target.generation = node.tracking => tracker.target.mark = Mark
    /\ \A i \in DOMAIN tracker.reports :
         /\ tracker.reports[i].generation = node.tracking
         /\ tracker.reports[i].code \in {"near", "finished"}
         => worker.leg = "transfer" \/ Mark \in covered
    /\ node.tracked \in {"near", "finished"} => worker.leg = "transfer" \/ Mark \in covered

SuccessInv ==
  worker.at = "nothing_left" \/ (worker.at = "finish" /\ worker.step = "success")
  => Asked \subseteq covered

Mission == DiskInv /\ RecordInv /\ ProgressInv /\ TourInv /\ SuccessInv
Control == Types /\ GoalInv /\ MachineInv /\ OutInv
IInv == Control /\ Mission /\ TrackInv

-----------------------------------------------------------------------------
(* The machine: which state an operation leaves, and that only a segment   *)
(* that was tracked to its end moves it along.                             *)

LEMMA ZeroGeneration == 0 \in Generations
BY DEF Generations

LEMMA MovedShape ==
  ASSUME NEW m \in Machines, NEW state \in MachineStates
  PROVE  /\ Moved(m, state) \in Machines /\ Moved(m, state).state = state
         /\ Moved(m, state).segment = m.segment /\ Moved(m, state).total = m.total
BY ZeroGeneration DEF Moved, Machines

LEMMA WaitShape ==
  ASSUME NEW m \in Machines, m.state \in {"preparing", "turning", "tracking", "rtk_recovering"}
  PROVE  /\ Paused(m) \in Machines /\ Paused(m).state = "paused"
         /\ Paused(m).segment = m.segment /\ Paused(m).total = m.total
         /\ BegunRtkRecovery(m) \in Machines /\ BegunRtkRecovery(m).state = "rtk_recovering"
         /\ BegunRtkRecovery(m).segment = m.segment /\ BegunRtkRecovery(m).total = m.total
BY MovedShape DEF Paused, BegunRtkRecovery, Stopped, Terminal, MachineStates

LEMMA GoOnShape ==
  ASSUME NEW m \in Machines
  PROVE  /\ m.state = "paused" =>
              /\ Resumed(m) \in Machines /\ Resumed(m).state = "preparing"
              /\ Resumed(m).segment = m.segment /\ Resumed(m).total = m.total
         /\ m.state = "rtk_recovering" =>
              /\ RecoveredRtk(m) \in Machines /\ RecoveredRtk(m).state = "preparing"
              /\ RecoveredRtk(m).segment = m.segment /\ RecoveredRtk(m).total = m.total
BY MovedShape DEF Resumed, RecoveredRtk, MachineStates

LEMMA EndedShape ==
  ASSUME NEW m \in Machines, NEW state \in {"cancelled", "failed"}
  PROVE  /\ Ended(m, state) \in Machines
         /\ Ended(m, state).segment = m.segment /\ Ended(m, state).total = m.total
         /\ Ended(m, state).state = "completed" => m.state = "completed"
BY MovedShape DEF Ended, Terminal, MachineStates

LEMMA StartedShape ==
  ASSUME NEW m \in Machines, NEW total \in Nat, NEW first \in Nat,
         MayStart(m, total, first)
  PROVE  /\ Started(m, total, first) \in Machines
         /\ Started(m, total, first).state = "preparing"
         /\ Started(m, total, first).segment = first
         /\ Started(m, total, first).total = total
<1>. DEFINE n == Moved(m, "preparing")
<1>1. n \in Machines /\ n.state = "preparing"
  BY MovedShape DEF MachineStates
<1>2. Started(m, total, first) = [n EXCEPT !.segment = first, !.total = total]
  BY DEF Started
<1>. HIDE DEF n
<1>. QED
  BY <1>1, <1>2 DEF Machines

LEMMA NewMachineShape ==
  /\ NewMachine \in Machines /\ NewMachine.state = "idle" /\ NewMachine.segment = 0
  /\ Started(NewMachine, 1, 0) \in Machines
  /\ Started(NewMachine, 1, 0).state = "preparing"
  /\ Started(NewMachine, 1, 0).segment = 0 /\ Started(NewMachine, 1, 0).total = 1
<1>1. NewMachine \in Machines /\ NewMachine.state = "idle" /\ NewMachine.segment = 0
  BY DEF NewMachine, Machines, MachineStates, Generations, TurnRequest
<1>2. MayStart(NewMachine, 1, 0)
  BY <1>1 DEF MayStart
<1>. QED
  BY <1>1, <1>2, StartedShape

LEMMA TurnShape ==
  ASSUME NEW m \in Machines
  PROVE  /\ m.state = "preparing" =>
              /\ BegunTurn(m, TurnRequest) \in Machines
              /\ BegunTurn(m, TurnRequest).state = "turning"
              /\ BegunTurn(m, TurnRequest).turn = TurnRequest
              /\ BegunTurn(m, TurnRequest).segment = m.segment
              /\ BegunTurn(m, TurnRequest).total = m.total
         /\ m.state = "turning" =>
              /\ CompletedTurn(m, m.turn) \in Machines
              /\ CompletedTurn(m, m.turn).state = "preparing"
              /\ CompletedTurn(m, m.turn).segment = m.segment
              /\ CompletedTurn(m, m.turn).total = m.total
<1>. DEFINE n == Moved(m, "turning")
<1>1. /\ n \in Machines /\ n.state = "turning"
      /\ n.segment = m.segment /\ n.total = m.total
  BY MovedShape DEF MachineStates
<1>2. m.state = "preparing" => BegunTurn(m, TurnRequest) = [n EXCEPT !.turn = TurnRequest]
  BY DEF BegunTurn, TurnRequest
<1>3. m.state = "turning" => CompletedTurn(m, m.turn) = Moved(m, "preparing")
  BY DEF CompletedTurn
<1>. HIDE DEF n
<1>. QED
  BY <1>1, <1>2, <1>3, MovedShape DEF Machines, MachineStates

LEMMA TrackingShape ==
  ASSUME NEW m \in Machines
  PROVE  /\ \A g \in Generations \ {0} : m.state = "preparing" =>
              /\ MayTrack(m, g)
              /\ BegunTracking(m, g) \in Machines
              /\ BegunTracking(m, g).state = "tracking" /\ BegunTracking(m, g).generation = g
              /\ BegunTracking(m, g).segment = m.segment
              /\ BegunTracking(m, g).total = m.total
         /\ m.state = "tracking" =>
              LET n == CompletedTracking(m, m.generation)
              IN  /\ n \in Machines /\ n.state \in {"preparing", "completed"}
                  /\ n.state = "completed" => n.segment >= n.total
                  /\ n.segment = m.segment + 1 /\ n.total = m.total
<1>1. ASSUME NEW g \in Generations \ {0}, m.state = "preparing"
      PROVE  /\ MayTrack(m, g)
             /\ BegunTracking(m, g) \in Machines
             /\ BegunTracking(m, g).state = "tracking" /\ BegunTracking(m, g).generation = g
             /\ BegunTracking(m, g).segment = m.segment
             /\ BegunTracking(m, g).total = m.total
  <2>. DEFINE n == Moved(m, "tracking")
  <2>1. /\ n \in Machines /\ n.state = "tracking"
        /\ n.segment = m.segment /\ n.total = m.total
    BY MovedShape DEF MachineStates
  <2>2. MayTrack(m, g) /\ BegunTracking(m, g) = [n EXCEPT !.generation = g]
    BY <1>1 DEF BegunTracking, MayTrack
  <2>. HIDE DEF n
  <2>. QED
    BY <2>1, <2>2 DEF Machines
<1>2. ASSUME m.state = "tracking"
      PROVE  LET n == CompletedTracking(m, m.generation)
             IN  /\ n \in Machines /\ n.state \in {"preparing", "completed"}
                 /\ n.state = "completed" => n.segment >= n.total
                 /\ n.segment = m.segment + 1 /\ n.total = m.total
  <2>. DEFINE state == IF m.segment + 1 >= m.total THEN "completed" ELSE "preparing"
              moved == Moved(m, state)
  <2>1. state \in {"preparing", "completed"} /\ (state = "completed" => m.segment + 1 >= m.total)
    OBVIOUS
  <2>2. CompletedTracking(m, m.generation) = [moved EXCEPT !.segment = m.segment + 1]
    BY <1>2 DEF CompletedTracking
  <2>. HIDE DEF state
  <2>3. moved \in Machines /\ moved.state = state /\ moved.total = m.total
    BY <2>1, MovedShape DEF MachineStates
  <2>. HIDE DEF moved
  <2>. QED
    BY <2>1, <2>2, <2>3 DEF Machines
<1>. QED
  BY <1>1, <1>2

-----------------------------------------------------------------------------
(* Steps that leave the mission where it is.                               *)

SamePlan ==
  /\ goal'.id = goal.id /\ goal'.kind = goal.kind /\ goal'.size = goal.size
  /\ goal'.loop = goal.loop /\ goal'.laps = goal.laps
SameMission ==
  /\ SamePlan
  /\ worker'.leg = worker.leg /\ worker'.first = worker.first /\ worker'.lap = worker.lap
  /\ worker'.completed = worker.completed /\ worker'.record = worker.record
  /\ worker'.tour = worker.tour
  /\ worker'.machine.segment = worker.machine.segment
  /\ worker'.machine.total = worker.machine.total
  /\ covered \subseteq covered'

\* From where to where a step goes that the mission does not notice.
Underway == Driving \ {"lap", "lap_done", "advance"}
SameStage ==
  \/ worker'.at = worker.at /\ worker'.step = worker.step
  \/ worker.at \in Beginning /\ worker'.at \in Beginning
  \/ worker.at \in Underway /\ worker'.at \in Underway
  \/ worker.at # "idle" /\ worker'.at = "finish" /\ worker'.step # "success"
  \/ worker.at # "idle" /\ worker'.at = "preflight" /\ goal.kind = "return_home"
  \/ worker.at # "idle" /\ worker'.at = "reset"

LEMMA FilesKept == ASSUME Types, DiskInv, SamePlan, disk' = disk, covered \subseteq covered'
                   PROVE  \A kind \in {"cleaning", "return_home"} : FileInv(kind)'
BY DEF DiskInv, FileInv, SamePlan, Claimed, LapsBefore

LEMMA RecordKept ==
  ASSUME Types, RecordInv, SameMission, SameStage
  PROVE  RecordInv'
BY DEF RecordInv, SameMission, SamePlan, SameStage, Recovering, Beginning, Underway, Driving,
       Places, Claimed, LapsBefore

LEMMA DiskKept ==
  ASSUME Types, DiskInv, SamePlan, SameStage, disk' = disk, covered \subseteq covered'
  PROVE  DiskInv'
<1>1. worker'.at \in Driving => worker.at \in Driving
  BY DEF SameStage, Beginning, Underway, Driving, Places
<1>. QED
  BY <1>1, FilesKept DEF DiskInv, SamePlan

LEMMA ProgressKept ==
  ASSUME Types, ProgressInv, SameMission, SameStage
  PROVE  ProgressInv'
<1>1. /\ Recovering' = Recovering /\ Segments' = Segments
  BY DEF SameMission, SamePlan, Recovering, Segments
<1>2. worker'.leg = "transfer" =>
        Recovering' /\ worker'.at \in (Driving \ {"lap", "lap_done"}) \cup {"finish", "reset"}
  BY <1>1 DEF ProgressInv, SameMission, SamePlan, SameStage, Beginning, Underway, Driving,
              Places, Recovering
<1>3. worker'.at \in Beginning /\ Segments' => worker'.lap = 0 /\ worker'.first = 0
  BY <1>1 DEF ProgressInv, SameMission, SamePlan, SameStage, Beginning, Underway, Driving,
              Places, Segments
<1>4. ASSUME worker'.at \in Driving, Segments
      PROVE  /\ worker.at \in Driving /\ (worker'.at = "lap" <=> worker.at = "lap")
             /\ Upto' = Upto
  BY <1>4 DEF SameMission, SamePlan, SameStage, Beginning, Underway, Driving, Places,
              Segments, Upto
<1>5. ASSUME worker'.at \in Driving, Segments
      PROVE  /\ Driven(worker.lap, Upto)' \subseteq covered'
             /\ worker'.leg = "transfer" \/ worker'.at = "lap" =>
                  worker'.first < worker'.record.total
             /\ worker'.leg = "segment" /\ worker'.at # "lap" =>
                  worker'.machine.total = worker'.record.total
  BY <1>4, <1>5 DEF ProgressInv, SameMission, SamePlan, Driven
<1>7. /\ worker'.at \in {"lap", "lap_done"} => Segments'
      /\ worker'.at = "nothing_left" => Recovering'
  BY <1>1 DEF ProgressInv, SameStage, Beginning, Underway, Driving, Places
<1>6. goal'.kind = "return_home" /\ worker'.at = "advance" => <<goal'.id, 0, 0>> \in covered'
  BY DEF ProgressInv, SameMission, SamePlan, SameStage, Beginning, Underway, Driving, Places
<1>. QED
  BY <1>1, <1>2, <1>3, <1>5, <1>6, <1>7 DEF ProgressInv

LEMMA TourKept ==
  ASSUME Types, TourInv, SameMission, SameStage
  PROVE  TourInv'
BY DEF TourInv, SameMission, SamePlan, SameStage, Beginning, Underway, Driving, Places,
       GivenOut

LEMMA SuccessKept ==
  ASSUME Types, SuccessInv, SameMission, SameStage
  PROVE  SuccessInv'
<1>1. Asked' = Asked
  BY DEF SameMission, SamePlan, Asked, Recovering, LapsBefore
<1>2. \/ worker'.at \notin {"nothing_left", "finish"} \/ worker'.step # "success"
      \/ worker'.at = worker.at /\ worker'.step = worker.step
  BY DEF SameStage, Beginning, Underway, Driving, Places
<1>. QED
  BY <1>1, <1>2 DEF SuccessInv, SameMission, SameStage, Beginning, Underway, Driving, Places

LEMMA MissionKept ==
  ASSUME Types, Mission, SameMission, SameStage, disk' = disk
  PROVE  Mission'
BY DiskKept, RecordKept, ProgressKept, TourKept, SuccessKept DEF Mission, SameMission

LEMMA TrackKept ==
  ASSUME Types, TrackInv, SameMission,
         node'.tracking \in {0, node.tracking},
         node'.tracking # 0 => node'.tracked = node.tracked,
         tracker'.target = tracker.target, tracker'.reports = tracker.reports,
         tracker'.topic \in {tracker.topic, NoTarget}
  PROVE  TrackInv'
<1>1. Mark' = Mark
  BY DEF SameMission, SamePlan, Mark
<1>2. NoTarget.generation = 0
  BY DEF NoTarget
<1>. QED
  BY <1>1, <1>2 DEF TrackInv, SameMission

\* The worker gives up.
LEMMA ClearedShape ==
  ASSUME NEW n \in Nodes
  PROVE  /\ Cleared(n) \in Nodes /\ Cleared(n).turn = 0 /\ Cleared(n).tracking = 0
         /\ Cleared(n).active = n.active /\ Cleared(n).pause = n.pause
         /\ Cleared(n).edge = n.edge /\ Cleared(n).fault = n.fault
BY ZeroGeneration DEF Cleared, Nodes

LEMMA FaultShape ==
  ASSUME NEW n \in Nodes, NEW code \in Faults \ {"MISSION_STATE_ERROR"},
         n.fault # "MISSION_STATE_ERROR"
  PROVE  /\ FaultIn(n, code) \in Nodes /\ FaultIn(n, code).active = n.active
         /\ FaultIn(n, code).pause = n.pause /\ FaultIn(n, code).turn = n.turn
         /\ FaultIn(n, code).tracking = n.tracking /\ FaultIn(n, code).tracked = n.tracked
         /\ FaultIn(n, code).fault # "MISSION_STATE_ERROR"
<1>. DEFINE fault == IF n.fault = "none" THEN code ELSE n.fault
<1>1. fault \in Faults /\ fault # "MISSION_STATE_ERROR"
  BY DEF Nodes
<1>2. FaultIn(n, code) = [n EXCEPT !.fault = fault]
  BY DEF FaultIn
<1>. HIDE DEF fault
<1>. QED
  BY <1>1, <1>2 DEF Nodes

LEMMA EndStep ==
  ASSUME IInv, worker.at # "idle", NEW step \in {"cancelled", "failed"},
         worker' = Ends(worker, step),
         node' \in Nodes, node'.active = node.active, node'.pause = node.pause,
         node'.turn = 0, node'.tracking = 0, node'.fault # "MISSION_STATE_ERROR",
         UNCHANGED <<goal, disk, tracker, out, covered>>
  PROVE  IInv'
<1>. DEFINE m == IF step = "cancelled" THEN Cancelled(worker.machine)
                 ELSE Failed(worker.machine)
<1>1. /\ m \in Machines /\ m.segment = worker.machine.segment
      /\ m.total = worker.machine.total
      /\ m.state = "completed" => worker.machine.state = "completed"
  BY EndedShape DEF IInv, Control, Types, Workers, Cancelled, Failed
<1>2. worker' = [worker EXCEPT !.at = "finish", !.step = step, !.machine = m]
  BY DEF Ends, IInv, Control, Types, Workers
<1>. HIDE DEF m
<1>3. /\ worker' \in Workers /\ worker'.at = "finish" /\ worker'.step = step
      /\ worker'.machine = m
  <2>1. "finish" \in Places /\ worker \in Workers
    BY DEF IInv, Control, Types, Places
  <2>. QED
    BY <1>1, <1>2, <2>1 DEF Workers
<1>4. SameMission
  BY <1>1, <1>2 DEF IInv, Control, Types, Workers, SameMission, SamePlan
<1>5. Types'
  BY <1>3 DEF IInv, Control, Types
<1>6. GoalInv'
  BY <1>3 DEF IInv, Control, GoalInv
<1>7. MachineInv'
  BY <1>1, <1>3 DEF IInv, Control, MachineInv, Beginning, MachineFollows
<1>8. OutInv'
  BY <1>3 DEF IInv, Control, OutInv, Standing, Looking, Segments
<1>9. Mission'
  BY <1>3, <1>4, MissionKept DEF IInv, Control, SameStage
<1>10. TrackInv'
  BY DEF TrackInv
<1>. QED
  BY <1>5, <1>6, <1>7, <1>8, <1>9, <1>10 DEF IInv, Control

LEMMA LeavesStep ==
  ASSUME IInv, worker.at # "idle", NEW step \in {"cancelled", "failed"}, Leaves(step),
         UNCHANGED <<goal, disk, tracker, out, covered>>
  PROVE  IInv'
BY ClearedShape, EndStep DEF Leaves, IInv, Control, Types, MachineInv, MachineFollows

LEMMA FailsStep ==
  ASSUME IInv, worker.at # "idle", NEW code \in Faults \ {"MISSION_STATE_ERROR"},
         Fails(code), UNCHANGED <<goal, disk, tracker, out, covered>>
  PROVE  IInv'
<1>1. node \in Nodes /\ node.fault # "MISSION_STATE_ERROR"
  BY DEF IInv, Control, Types, MachineInv, MachineFollows
<1>. QED
  BY <1>1, FaultShape, ClearedShape, EndStep DEF Fails

\* The worker does not move: the steps of everybody else.
LEMMA WorkerStays ==
  ASSUME IInv, UNCHANGED <<worker, disk>>, SamePlan, covered \subseteq covered',
         goal' \in Goals, node' \in Nodes, node'.active = node.active,
         node'.turn = node.turn, node'.tracking = node.tracking,
         node'.fault # "MISSION_STATE_ERROR",
         tracker' \in Trackers, tracker'.active => tracker'.target # NoTarget,
         out' \in {out, [out EXCEPT !.late = 0]},
         node'.pause = node.pause \/ ~node.pause \/ out'.late = 0,
         TrackInv'
  PROVE  IInv'
<1>1. SameMission /\ SameStage
  BY DEF SameMission, SameStage
<1>2. /\ out' \in Outs /\ out'.motion = out.motion /\ out'.brush = out.brush
      /\ out'.safety = out.safety /\ out'.late \in {0, out.late}
  BY DEF IInv, Control, Types, Outs
<1>3. Types'
  BY <1>2 DEF IInv, Control, Types
<1>4. GoalInv'
  BY DEF IInv, Control, GoalInv, SamePlan
<1>5. MachineInv'
  BY DEF IInv, Control, MachineInv, MachineFollows, SamePlan, Segments, Backs
<1>6. OutInv'
  BY <1>2 DEF IInv, Control, OutInv, SamePlan, Segments
<1>7. Mission'
  BY <1>1, MissionKept DEF IInv, Control
<1>. QED
  BY <1>3, <1>4, <1>5, <1>6, <1>7 DEF IInv, Control

-----------------------------------------------------------------------------
(* Goals, services and messages.                                           *)

\* Nothing of the target that is waited for changes.
LEMMA RosStep ==
  ASSUME IInv, UNCHANGED <<worker, disk, covered>>, SamePlan, goal' \in Goals,
         node' \in Nodes, node'.active = node.active,
         node'.turn = node.turn, node'.tracking = node.tracking,
         node'.tracked = node.tracked, node'.fault # "MISSION_STATE_ERROR",
         tracker' \in Trackers, tracker'.active => tracker'.target # NoTarget,
         tracker'.target = tracker.target, tracker'.reports = tracker.reports,
         tracker'.topic = tracker.topic,
         out' \in {out, [out EXCEPT !.late = 0]},
         node'.pause = node.pause \/ ~node.pause \/ out'.late = 0
  PROVE  IInv'
<1>1. SameMission
  BY DEF SameMission
<1>2. TrackInv'
  BY <1>1, TrackKept DEF IInv, Control
<1>. QED
  BY <1>2, WorkerStays

LEMMA GoalSteps == ASSUME IInv, RequestCancel \/ BecomesCanceling PROVE IInv'
<1>1. PICK status \in {"accepting_cancel", "canceling"} :
        goal' = [goal EXCEPT !.status = status]
  BY DEF RequestCancel, BecomesCanceling
<1>2. goal' \in Goals /\ SamePlan
  BY <1>1 DEF IInv, Control, Types, Goals, SamePlan
<1>3. node' \in {node, Woken(node)} /\ UNCHANGED <<worker, disk, covered, tracker, out>>
  BY DEF RequestCancel, BecomesCanceling
<1>4. /\ node' \in Nodes /\ node'.active = node.active /\ node'.pause = node.pause
      /\ node'.turn = node.turn /\ node'.tracking = node.tracking
      /\ node'.tracked = node.tracked /\ node'.fault = node.fault
  BY <1>3 DEF Woken, IInv, Control, Types, Nodes
<1>. QED
  BY <1>2, <1>3, <1>4, RosStep DEF IInv, Control, Types, MachineInv, MachineFollows

LEMMA NodeSteps ==
  ASSUME IInv,
         \/ Configure \/ Pause \/ Resume \/ OnFinalCommand
         \/ \E enable \in BOOLEAN : SetMaintenance(enable)
         \/ \E valid \in BOOLEAN : OnRtkFix(valid)
         \/ \E ok \in BOOLEAN : OnHardwareStatus(ok)
         \/ \E sensor \in {"rtk", "hardware"} : GoesStale(sensor)
         \/ \E state \in {"completed", "failed"} : OnCommandStatus(state)
  PROVE  IInv'
<1>1. node \in Nodes /\ node.fault # "MISSION_STATE_ERROR"
  BY DEF IInv, Control, Types, MachineInv, MachineFollows
<1>2. /\ UNCHANGED <<goal, worker, disk, covered, tracker>>
      /\ out' \in {out, [out EXCEPT !.late = 0]}
  BY DEF Configure, Pause, Resume, OnFinalCommand, SetMaintenance, OnRtkFix,
         OnHardwareStatus, GoesStale, OnCommandStatus
<1>. DEFINE Fine ==
       /\ node' \in Nodes /\ node'.active = node.active
       /\ node'.pause = node.pause \/ ~node.pause \/ out'.late = 0
       /\ node'.turn = node.turn /\ node'.tracking = node.tracking
       /\ node'.tracked = node.tracked /\ node'.fault # "MISSION_STATE_ERROR"
<1>3. ASSUME Configure \/ Pause \/ OnFinalCommand PROVE Fine
  BY <1>1, <1>3 DEF Configure, Pause, OnFinalCommand, Woken, Nodes
<1>4. ASSUME Resume PROVE Fine
  BY <1>1, <1>4 DEF Resume, Woken, Nodes, IInv, Control, Types, Outs
<1>5. ASSUME NEW enable \in BOOLEAN, SetMaintenance(enable) PROVE Fine
  BY <1>1, <1>5 DEF SetMaintenance, Woken, Nodes
<1>6. ASSUME NEW valid \in BOOLEAN, OnRtkFix(valid) PROVE Fine
  BY <1>1, <1>6 DEF OnRtkFix, Woken, Nodes
<1>7. ASSUME NEW ok \in BOOLEAN, OnHardwareStatus(ok) PROVE Fine
  <2>. DEFINE heard == Woken([node EXCEPT !.hardware = ok])
              lost == FaultIn(heard, "HARDWARE_LOST")
  <2>1. /\ heard \in Nodes /\ heard.active = node.active /\ heard.pause = node.pause
        /\ heard.turn = node.turn /\ heard.tracking = node.tracking
        /\ heard.tracked = node.tracked /\ heard.fault = node.fault
    BY <1>1 DEF Woken, Nodes
  <2>2. node' = heard \/ node' = lost
    BY <1>7 DEF OnHardwareStatus
  <2>. HIDE DEF heard
  <2>3. /\ lost \in Nodes /\ lost.active = heard.active /\ lost.pause = heard.pause
        /\ lost.turn = heard.turn /\ lost.tracking = heard.tracking
        /\ lost.tracked = heard.tracked /\ lost.fault # "MISSION_STATE_ERROR"
    <3>1. "HARDWARE_LOST" \in Faults \ {"MISSION_STATE_ERROR"}
      BY DEF Faults
    <3>. QED
      BY <1>1, <2>1, <3>1, FaultShape
  <2>. HIDE DEF lost
  <2>. QED
    BY <1>1, <2>1, <2>2, <2>3
<1>8. ASSUME NEW sensor \in {"rtk", "hardware"}, GoesStale(sensor) PROVE Fine
  BY <1>1, <1>8 DEF GoesStale, Nodes
<1>9. ASSUME NEW state \in {"completed", "failed"}, OnCommandStatus(state) PROVE Fine
  BY <1>1, <1>9 DEF OnCommandStatus, Woken, Nodes
<1>10. Fine
  BY <1>3, <1>4, <1>5, <1>6, <1>7, <1>8, <1>9
<1>11. goal' \in Goals /\ tracker' \in Trackers /\ SamePlan
       /\ (tracker'.active => tracker'.target # NoTarget)
  BY <1>2 DEF IInv, Control, Types, SamePlan
<1>. QED
  BY <1>2, <1>10, <1>11, RosStep

-----------------------------------------------------------------------------
(* The tracking node and its reports.                                      *)

LEMMA ReportsShape ==
  ASSUME Types
  PROVE  tracker.reports = <<>> \/ \E r \in Reports : tracker.reports = <<r>>
BY DEF Types, Trackers

LEMMA StatusStep == ASSUME IInv, OnTrackingStatus PROVE IInv'
<1>1. PICK r \in Reports : tracker.reports = <<r>>
  BY ReportsShape DEF OnTrackingStatus, IInv, Control
<1>2. Head(tracker.reports) = r /\ Tail(tracker.reports) = <<>>
  BY <1>1
<1>3. /\ tracker' = [tracker EXCEPT !.reports = <<>>]
      /\ node' = IF ExpectsTracking(r.generation)
                 THEN Woken([node EXCEPT !.tracked = r.code, !.heard = TRUE]) ELSE node
      /\ UNCHANGED <<goal, worker, disk, out, covered>>
  BY <1>2 DEF OnTrackingStatus
<1>4. /\ tracker' \in Trackers /\ tracker'.active = tracker.active
      /\ tracker'.target = tracker.target
      /\ tracker'.topic = tracker.topic /\ tracker'.reports = <<>>
  BY <1>3 DEF IInv, Control, Types, Trackers
<1>5. /\ node' \in Nodes /\ node'.active = node.active /\ node'.pause = node.pause
      /\ node'.turn = node.turn /\ node'.tracking = node.tracking
      /\ node'.fault = node.fault
      /\ \/ node'.tracked = node.tracked
         \/ node'.tracked = r.code /\ r.generation = node.tracking
  BY <1>3 DEF IInv, Control, Types, Nodes, Reports, Woken, ExpectsTracking
<1>6. TrackInv'
  BY <1>1, <1>3, <1>4, <1>5 DEF IInv, TrackInv, Mark
<1>. QED
  BY <1>3, <1>4, <1>5, <1>6, WorkerStays
     DEF IInv, Control, Types, SamePlan, MachineInv, MachineFollows

LEMMA ConfigureTrackingStep == ASSUME IInv, ConfigureTracking PROVE IInv'
<1>1. /\ tracker' \in Trackers /\ tracker'.active = tracker.active
      /\ tracker'.target = tracker.target /\ tracker'.topic = tracker.topic
      /\ tracker'.reports = tracker.reports
  BY DEF ConfigureTracking, IInv, Control, Types, Trackers
<1>. QED
  BY <1>1, RosStep
     DEF ConfigureTracking, IInv, Control, Types, SamePlan, MachineInv, MachineFollows

\* A new list of reports: the last report is of the target, or none is left.
LEMMA TargetStep == ASSUME IInv, OnTarget PROVE IInv'
<1>. DEFINE t == tracker.topic
            new == [generation |-> t.generation, code |-> "active"]
<1>1. tracker.reports = <<>>
  BY ReportsShape DEF OnTarget, MaxReports, IInv, Control
<1>2. UNCHANGED <<goal, node, worker, disk, out, covered>>
  BY DEF OnTarget
<1>3. CASE ~tracker.configured
  <2>1. /\ tracker' \in Trackers /\ tracker'.active = tracker.active
        /\ tracker'.target = tracker.target /\ tracker'.topic = tracker.topic
        /\ tracker'.reports = tracker.reports
    BY <1>3 DEF OnTarget, IInv, Control, Types, Trackers
  <2>. QED
    BY <1>2, <2>1, RosStep DEF IInv, Control, Types, SamePlan, MachineInv, MachineFollows
<1>4. CASE tracker.configured /\ t = NoTarget
  <2>1. /\ tracker' \in Trackers /\ ~tracker'.active
        /\ tracker'.target = NoTarget /\ tracker'.topic = tracker.topic
        /\ tracker'.reports = tracker.reports
    BY <1>4 DEF OnTarget, Idle, IInv, Control, Types, Trackers
  <2>2. TrackInv'
    BY <1>2, <2>1 DEF IInv, TrackInv, Mark, NoTarget
  <2>. QED
    BY <1>2, <2>1, <2>2, WorkerStays
       DEF IInv, Control, Types, SamePlan, MachineInv, MachineFollows
<1>5. CASE tracker.configured /\ t # NoTarget
  <2>1. t \in Targets /\ new \in Reports /\ tracker \in Trackers
    BY <1>5 DEF IInv, Control, Types, Trackers, Targets, Reports
  <2>2. tracker' = [tracker EXCEPT !.pending = FALSE, !.active = TRUE, !.target = t,
                                   !.at = "new", !.reports = <<new>>]
    BY <1>1, <1>5 DEF OnTarget
  <2>. HIDE DEF new
  <2>3. /\ tracker' \in Trackers /\ tracker'.target = t /\ tracker'.topic = t
        /\ tracker'.reports = <<new>>
    BY <2>1, <2>2 DEF Trackers
  <2>4. \A i \in DOMAIN tracker'.reports : tracker'.reports[i].code = "active"
    BY <2>3 DEF new
  <2>5. TrackInv'
    BY <1>2, <2>3, <2>4 DEF IInv, TrackInv, Mark
  <2>. QED
    BY <1>2, <1>5, <2>3, <2>5, WorkerStays
       DEF IInv, Control, Types, SamePlan, MachineInv, MachineFollows
<1>. QED
  BY <1>3, <1>4, <1>5

\* The tracker says how far it is from its own target.
LEMMA ReportStep ==
  ASSUME IInv, tracker.active, Len(tracker.reports) < MaxReports,
         NEW code \in {"running", "near", "finished", "rtk_invalid"},
         tracker' \in Trackers, tracker'.reports = Reporting(code),
         tracker'.topic = tracker.topic,
         \/ tracker'.target = tracker.target
         \/ ~tracker'.active /\ tracker'.target = NoTarget,
         code \in {"near", "finished"} => {tracker.target.mark} \ {NoTarget.mark} \subseteq covered',
         covered \subseteq covered', UNCHANGED <<goal, node, worker, disk, out>>
  PROVE  IInv'
<1>. DEFINE new == [generation |-> tracker.target.generation, code |-> code]
<1>1. tracker.reports = <<>>
  BY ReportsShape DEF MaxReports, IInv, Control
<1>2. tracker'.reports = <<new>>
  BY <1>1 DEF Reporting
<1>3. tracker.target # NoTarget /\ NoTarget.generation = 0
  BY DEF IInv, Control, Types, NoTarget
<1>4. Mark' = Mark
  BY DEF Mark
<1>5. ASSUME node.tracking # 0, worker.leg = "segment" PROVE Mark # NoTarget.mark
  <2>1. worker.at # "idle" /\ worker.at \in Driving
    BY <1>5 DEF IInv, Control, GoalInv, Driving, Places
  <2>2. goal.id # 0
    BY <2>1 DEF IInv, Control, GoalInv, Types, Goals
  <2>3. ASSUME goal.kind # "navigate_waypoints" PROVE worker.record.run # 0
    BY <2>1, <2>3 DEF IInv, Mission, RecordInv, ValidRecord
  <2>. QED
    BY <1>5, <2>2, <2>3 DEF Mark, NoTarget
<1>6. ASSUME node.tracking # 0, tracker.target.generation = node.tracking,
             code \in {"near", "finished"}
      PROVE  worker.leg = "transfer" \/ Mark \in covered'
  <2>1. tracker.target.mark = Mark
    BY <1>6 DEF IInv, TrackInv
  <2>2. worker.leg \in {"segment", "transfer"}
    BY DEF IInv, Control, Types, Workers
  <2>. QED
    BY <1>5, <1>6, <2>1, <2>2
<1>7. \A i \in DOMAIN tracker'.reports :
        tracker'.reports[i].generation = tracker.target.generation
        /\ tracker'.reports[i].code = code
  BY <1>2
<1>8. TrackInv'
  BY <1>3, <1>4, <1>6, <1>7 DEF IInv, TrackInv
<1>. QED
  BY <1>3, <1>8, WorkerStays DEF IInv, Control, Types, SamePlan, MachineInv, MachineFollows

LEMMA ReportShape ==
  ASSUME Types, tracker.active, Len(tracker.reports) < MaxReports,
         NEW code \in {"running", "near", "finished", "rtk_invalid"}
  PROVE  Reporting(code) \in {<<r>> : r \in Reports}
<1>1. tracker.reports = <<>>
  BY ReportsShape DEF MaxReports
<1>2. [generation |-> tracker.target.generation, code |-> code] \in Reports
  BY DEF Types, Trackers, Targets, Reports
<1>. QED
  BY <1>1, <1>2 DEF Reporting

LEMMA ApproachStep ==
  ASSUME IInv, NEW code \in {"running", "near", "finished"}, Approaches(code) PROVE IInv'
<1>. DEFINE reports == Reporting(code)
            t == [tracker EXCEPT !.at = code, !.reports = reports]
<1>1. reports \in {<<r>> : r \in Reports} /\ tracker \in Trackers
  BY ReportShape DEF Approaches, IInv, Control, Types
<1>2. tracker' = IF code = "finished" THEN Idle(t) ELSE t
  BY DEF Approaches
<1>. HIDE DEF reports
<1>3. /\ tracker' \in Trackers /\ tracker'.reports = reports /\ tracker'.topic = tracker.topic
      /\ \/ tracker'.target = tracker.target
         \/ ~tracker'.active /\ tracker'.target = NoTarget
  BY <1>1, <1>2 DEF Trackers, Idle
<1>. QED
  BY <1>3, ReportStep DEF Approaches, reports

LEMMA RtkInvalidStep == ASSUME IInv, ReportsRtkInvalid PROVE IInv'
<1>. DEFINE reports == Reporting("rtk_invalid")
<1>1. reports \in {<<r>> : r \in Reports} /\ tracker \in Trackers
  BY ReportShape DEF ReportsRtkInvalid, IInv, Control, Types
<1>2. tracker' = [tracker EXCEPT !.reports = reports]
  BY DEF ReportsRtkInvalid
<1>. HIDE DEF reports
<1>3. /\ tracker' \in Trackers /\ tracker'.reports = reports /\ tracker'.topic = tracker.topic
      /\ tracker'.target = tracker.target
  BY <1>1, <1>2 DEF Trackers
<1>. QED
  BY <1>3, ReportStep DEF ReportsRtkInvalid, reports

-----------------------------------------------------------------------------
(* The worker on its way: what it does between two steps of progress.      *)

Released == [tracker EXCEPT !.topic = NoTarget, !.pending = TRUE]

LEMMA MoveStep ==
  ASSUME IInv, worker.at # "idle", worker'.at # "idle", worker' \in Workers,
         SameMission, SameStage, UNCHANGED <<goal, disk>>,
         node' \in Nodes, node'.active = node.active,
         node'.turn # 0 => worker'.at \in {"turning", "await_turn", "paused", "rtk"},
         node'.tracking # 0 => worker'.at \in {"tracking", "await_track", "paused", "rtk"},
         node'.tracking \in {0, node.tracking},
         node'.tracking # 0 => node'.tracked = node.tracked,
         tracker' \in {tracker, Released}, out' \in Outs, MachineInv', OutInv'
  PROVE  IInv'
<1>1. /\ tracker' \in Trackers /\ tracker'.active = tracker.active
      /\ tracker'.target = tracker.target /\ tracker'.reports = tracker.reports
      /\ tracker'.topic \in {tracker.topic, NoTarget}
  BY DEF Released, IInv, Control, Types, Trackers
<1>2. Types'
  BY <1>1 DEF IInv, Control, Types
<1>3. GoalInv'
  BY DEF IInv, Control, GoalInv
<1>4. TrackInv'
  BY <1>1, TrackKept DEF IInv, Control
<1>5. Mission'
  BY MissionKept DEF IInv, Control
<1>. QED
  BY <1>2, <1>3, <1>4, <1>5 DEF IInv, Control

LEMMA IsUnderway ==
  /\ {"ensure", "go", "turning", "await_turn", "track", "tracking", "await_track", "paused",
      "edge", "rtk"} \subseteq Underway
  /\ Underway \subseteq Places /\ {"launch", "preflight", "plan", "advance"} \subseteq Places
BY DEF Underway, Driving, Places

LEMMA BacksAre ==
  ASSUME IInv
  PROVE  /\ RestartAt \in Backs /\ (IF Cleans THEN "track" ELSE RestartAt) \in Backs
         /\ "ensure" \in Backs
BY DEF RestartAt, Backs

LEMMA PauseStep ==
  ASSUME IInv, worker.at \in {"ensure", "turning", "tracking"}, NEW back \in Backs,
         PausesAt(back), UNCHANGED <<goal, disk, covered>>
  PROVE  IInv'
<1>. DEFINE m == Paused(worker.machine)
<1>1. /\ worker \in Workers /\ worker.machine \in Machines /\ node \in Nodes /\ out \in Outs
      /\ worker.machine.state \in {"preparing", "turning", "tracking"}
  BY DEF IInv, Control, Types, Workers, MachineInv
<1>2. /\ m \in Machines /\ m.state = "paused"
      /\ m.segment = worker.machine.segment /\ m.total = worker.machine.total
  BY <1>1, WaitShape
<1>3. worker' = [worker EXCEPT !.at = "paused", !.back = back, !.machine = m]
  BY <1>1 DEF PausesAt, Workers
<1>. HIDE DEF m
<1>4. back \in {"none", "ensure", "track", "preflight"}
  BY DEF Backs
<1>5. /\ worker' \in Workers /\ worker'.at = "paused" /\ worker'.back = back
      /\ worker'.machine = m
  BY <1>1, <1>2, <1>3, <1>4, IsUnderway DEF Workers
<1>6. SameMission
  BY <1>1, <1>2, <1>3 DEF Workers, SameMission, SamePlan
<1>7. SameStage
  BY <1>5, IsUnderway DEF SameStage
<1>8. /\ node' \in Nodes /\ node'.active = node.active /\ node'.pause = node.pause
      /\ node'.turn = node.turn /\ node'.tracking = node.tracking
      /\ node'.tracked = node.tracked /\ node'.fault = node.fault
  BY <1>1 DEF PausesAt, Woken, Nodes
<1>9. /\ out' \in Outs /\ out'.motion = "none" /\ ~out'.brush /\ out'.late = out.late
      /\ out'.safety = out.safety
  BY <1>1 DEF PausesAt, Stop, Outs
<1>10. MachineInv'
  BY <1>2, <1>5, <1>8 DEF IInv, Control, MachineInv, MachineFollows, Beginning, Backs
<1>11. OutInv'
  BY <1>5, <1>8, <1>9 DEF IInv, Control, OutInv, Looking
<1>12. tracker' = Released
  BY DEF PausesAt, Releases, Publishes, Released
<1>. QED
  BY <1>5, <1>6, <1>7, <1>8, <1>9, <1>10, <1>11, <1>12, MoveStep

LEMMA AwaitRtkStep ==
  ASSUME IInv, worker.at \in {"ensure", "turning", "tracking", "await_track"}, out.late = 0,
         NEW back \in Backs, NEW n \in {node, Cleared(node)},
         AwaitsRtkAt(back, n), UNCHANGED <<goal, disk, covered>>
  PROVE  IInv'
<1>. DEFINE m == BegunRtkRecovery(worker.machine)
<1>1. /\ worker \in Workers /\ worker.machine \in Machines /\ node \in Nodes /\ out \in Outs
      /\ worker.machine.state \in {"preparing", "turning", "tracking"}
  BY DEF IInv, Control, Types, Workers, MachineInv
<1>2. /\ m \in Machines /\ m.state = "rtk_recovering"
      /\ m.segment = worker.machine.segment /\ m.total = worker.machine.total
  BY <1>1, WaitShape
<1>3. worker' = [worker EXCEPT !.at = "rtk", !.back = back, !.machine = m] /\ node' = n
  BY <1>1 DEF AwaitsRtkAt, Workers
<1>. HIDE DEF m
<1>4. back \in {"none", "ensure", "track", "preflight"}
  BY DEF Backs
<1>5. /\ worker' \in Workers /\ worker'.at = "rtk" /\ worker'.back = back
      /\ worker'.machine = m
  BY <1>1, <1>2, <1>3, <1>4, IsUnderway DEF Workers
<1>6. SameMission
  BY <1>1, <1>2, <1>3 DEF Workers, SameMission, SamePlan
<1>7. SameStage
  BY <1>5, IsUnderway DEF SameStage
<1>8. /\ node' \in Nodes /\ node'.active = node.active
      /\ node'.tracking \in {0, node.tracking} /\ node'.fault = node.fault
      /\ node'.tracking # 0 => node'.tracked = node.tracked
  BY <1>1, <1>3, ClearedShape
<1>9. /\ out' \in Outs /\ out'.motion = "none" /\ ~out'.brush /\ out'.late = 0
      /\ out'.safety
  BY <1>1 DEF AwaitsRtkAt, Stop, Outs
<1>10. MachineInv'
  BY <1>2, <1>5, <1>8 DEF IInv, Control, MachineInv, MachineFollows, Beginning, Backs
<1>11. OutInv'
  BY <1>5, <1>9 DEF IInv, Control, OutInv
<1>12. tracker' = Released
  BY DEF AwaitsRtkAt, Releases, Publishes, Released
<1>. QED
  BY <1>5, <1>6, <1>7, <1>8, <1>9, <1>10, <1>11, <1>12, MoveStep

\* The worker goes to another place, and its machine stays as it is.
LEMMA GoesShape ==
  ASSUME IInv, NEW place \in Places, worker' = Goes(worker, place)
  PROVE  /\ worker' \in Workers /\ worker'.at = place /\ worker'.machine = worker.machine
         /\ worker'.step = worker.step /\ worker'.back = worker.back
         /\ UNCHANGED <<goal, covered>> => SameMission
<1>1. worker \in Workers
  BY DEF IInv, Control, Types
<1>2. /\ worker' \in Workers /\ worker'.at = place /\ worker'.machine = worker.machine
      /\ worker'.step = worker.step /\ worker'.back = worker.back
  BY <1>1 DEF Goes, Workers
<1>3. UNCHANGED <<goal, covered>> => SameMission
  BY <1>1 DEF Goes, Workers, SameMission, SamePlan
<1>. QED
  BY <1>2, <1>3

LEMMA EnsureStep ==
  ASSUME IInv, NEW next, NEW back \in Backs,
         <<worker.at, next>> \in
           {<<"ensure", "go">>, <<"turning", "await_turn">>, <<"tracking", "await_track">>},
         EnsureOperational(next, back)
  PROVE  IInv'
<1>1. worker.at \in {"ensure", "turning", "tracking"} /\ next \in {"go", "await_turn", "await_track"}
  OBVIOUS
<1>2. UNCHANGED <<goal, disk, covered>>
  BY DEF EnsureOperational
<1>3. CASE Leaves("cancelled") /\ UNCHANGED <<out, tracker>>
  BY <1>1, <1>2, <1>3, LeavesStep
<1>4. CASE Fails("HARDWARE_NOT_READY") /\ UNCHANGED <<out, tracker>>
  <2>1. "HARDWARE_NOT_READY" \in Faults \ {"MISSION_STATE_ERROR"}
    BY DEF Faults
  <2>. QED
    BY <1>1, <1>2, <1>4, <2>1, FailsStep
<1>5. CASE PausesAt(back)
  BY <1>1, <1>2, <1>5, PauseStep
<1>6. ~node.pause => out.late = 0
  BY DEF IInv, Control, OutInv
<1>7. CASE ~node.pause /\ AwaitsRtkAt(back, node)
  BY <1>1, <1>2, <1>6, <1>7, AwaitRtkStep
<1>8. CASE ~node.pause /\ worker' = Goes(worker, next) /\ UNCHANGED <<node, out, tracker>>
  <2>1. next \in Places /\ next \in Underway /\ worker.at \in Underway
    BY <1>1, IsUnderway
  <2>2. /\ worker' \in Workers /\ worker'.at = next /\ worker'.machine = worker.machine
        /\ SameMission
    BY <1>2, <1>8, <2>1, GoesShape
  <2>3. SameStage
    BY <2>1, <2>2 DEF SameStage
  <2>4. MachineInv'
    BY <1>8, <2>2 DEF IInv, Control, MachineInv, MachineFollows, Beginning
  <2>5. OutInv'
    BY <1>1, <1>2, <1>6, <1>8, <2>2 DEF IInv, Control, OutInv, Standing, Segments
  <2>6. /\ node \in Nodes /\ out \in Outs
        /\ node.turn # 0 => next = "await_turn"
        /\ node.tracking # 0 => next = "await_track"
    BY DEF IInv, Control, Types, GoalInv
  <2>. QED
    BY <1>1, <1>2, <1>8, <2>2, <2>3, <2>4, <2>5, <2>6, MoveStep
<1>. QED
  BY <1>3, <1>4, <1>5, <1>7, <1>8 DEF EnsureOperational

LEMMA EnsureSteps == ASSUME IInv, Ensure \/ Turning \/ Tracking PROVE IInv'
BY BacksAre, EnsureStep DEF Ensure, Turning, Tracking, At

LEMMA LaunchStep == ASSUME IInv, Launch PROVE IInv'
<1>1. worker.at = "launch" /\ worker' = Goes(worker, "preflight")
      /\ UNCHANGED <<goal, node, disk, tracker, covered>>
  BY DEF Launch, At
<1>2. /\ worker' \in Workers /\ worker'.at = "preflight" /\ worker'.machine = worker.machine
      /\ SameMission
  BY <1>1, IsUnderway, GoesShape
<1>3. /\ out' \in Outs /\ out'.motion = out.motion /\ out'.brush = out.brush
      /\ ~out'.safety /\ out'.late = out.late
  BY DEF Launch, IInv, Control, Types, Outs
<1>4. MachineInv'
  BY <1>1, <1>2 DEF IInv, Control, MachineInv, MachineFollows, Beginning, Segments
<1>5. OutInv'
  BY <1>1, <1>2, <1>3 DEF IInv, Control, OutInv, Standing, Looking, Segments
<1>6. SameStage
  BY <1>1, <1>2 DEF SameStage, Beginning
<1>. QED
  BY <1>1, <1>2, <1>3, <1>4, <1>5, <1>6, MoveStep DEF IInv, Control, Types, GoalInv

LEMMA PreflightStep == ASSUME IInv, Preflight PROVE IInv'
<1>1. worker.at = "preflight" /\ UNCHANGED <<goal, disk, tracker, out, covered>>
  BY DEF Preflight, At
<1>2. node.turn = 0 /\ node.tracking = 0 /\ node \in Nodes
      /\ node.fault # "MISSION_STATE_ERROR"
  BY <1>1 DEF IInv, Control, Types, GoalInv, MachineInv, MachineFollows
<1>3. ASSUME NEW step \in {"cancelled", "failed"}, worker' = Ends(worker, step),
             UNCHANGED node
      PROVE  IInv'
  BY <1>1, <1>2, <1>3, EndStep
<1>4. CASE Fails("NOT_READY")
  <2>1. "NOT_READY" \in Faults \ {"MISSION_STATE_ERROR"}
    BY DEF Faults
  <2>. QED
    BY <1>1, <1>4, <2>1, FailsStep
<1>5. CASE worker' = Goes(worker, "plan") /\ node' = [node EXCEPT !.preflight = TRUE]
  <2>1. /\ worker' \in Workers /\ worker'.at = "plan" /\ worker'.machine = worker.machine
        /\ SameMission
    BY <1>1, <1>5, IsUnderway, GoesShape
  <2>2. /\ node' \in Nodes /\ node'.active = node.active /\ node'.pause = node.pause
        /\ node'.turn = 0 /\ node'.tracking = 0 /\ node'.fault = node.fault
    BY <1>2, <1>5 DEF Nodes
  <2>3. MachineInv'
    BY <1>1, <2>1, <2>2 DEF IInv, Control, MachineInv, MachineFollows, Beginning, Segments
  <2>4. OutInv'
    BY <1>1, <2>1, <2>2 DEF IInv, Control, OutInv, Standing, Looking, Segments
  <2>5. SameStage
    BY <1>1, <2>1 DEF SameStage, Beginning
  <2>. QED
    BY <1>1, <2>1, <2>2, <2>3, <2>4, <2>5, MoveStep DEF IInv, Control, Types
<1>. QED
  BY <1>3, <1>4, <1>5 DEF Preflight

\* An order to move, which is one during a pause if it has been requested.
LEMMA OrderShape ==
  ASSUME IInv, NEW brush \in BOOLEAN, NEW motion \in {"turn", "track"},
         NEW o, o = Order([out EXCEPT !.brush = brush], motion), out.late = 0
  PROVE  /\ o \in Outs /\ o.motion = motion /\ o.brush = brush /\ o.safety = out.safety
         /\ o.late # 0 => o.late = 1 /\ node.pause
<1>1. out \in Outs
  BY DEF IInv, Control, Types
<1>. DEFINE b == [out EXCEPT !.brush = brush]
            late == IF node.pause THEN b.late + 1 ELSE b.late
<1>2. b \in Outs /\ b.brush = brush /\ b.safety = out.safety /\ b.late = 0
  BY <1>1 DEF Outs
<1>3. o = [b EXCEPT !.motion = motion, !.late = late]
  BY DEF Order
<1>4. late \in Nat /\ (late # 0 => late = 1 /\ node.pause)
  BY <1>2
<1>5. motion \in {"none", "turn", "track"}
  OBVIOUS
<1>. HIDE DEF b, late
<1>6. o \in Outs
  BY <1>2, <1>3, <1>4, <1>5 DEF Outs
<1>. QED
  BY <1>2, <1>3, <1>4, <1>6 DEF Outs

LEMMA CleansSegments == Cleans \in BOOLEAN /\ (Cleans => Segments)
BY DEF Cleans, Segments, Recovering

LEMMA GoStep == ASSUME IInv, Go PROVE IInv'
<1>1. worker.at = "go" /\ UNCHANGED <<goal, disk, tracker, covered>>
  BY DEF Go, At
<1>2. /\ node.turn = 0 /\ node.tracking = 0 /\ node \in Nodes /\ out \in Outs
      /\ node.fault # "MISSION_STATE_ERROR" /\ worker \in Workers
      /\ worker.machine \in Machines /\ worker.machine.state = "preparing"
      /\ out.late = 0 /\ ~out.safety
  BY <1>1 DEF IInv, Control, Types, GoalInv, MachineInv, MachineFollows, OutInv, Looking,
              Workers
<1>3. CASE Fails("RTK_NOT_READY") /\ UNCHANGED out
  <2>1. "RTK_NOT_READY" \in Faults \ {"MISSION_STATE_ERROR"}
    BY DEF Faults
  <2>. QED
    BY <1>1, <1>3, <2>1, FailsStep
<1>4. CASE /\ worker' = Goes(worker, "track") /\ out' = [out EXCEPT !.brush = Cleans]
           /\ UNCHANGED node
  <2>1. /\ worker' \in Workers /\ worker'.at = "track" /\ worker'.machine = worker.machine
        /\ SameMission
    BY <1>1, <1>4, IsUnderway, GoesShape
  <2>2. out' \in Outs /\ out'.brush = Cleans /\ out'.late = 0 /\ ~out'.safety
    BY <1>2, <1>4, CleansSegments DEF Outs
  <2>3. MachineInv'
    BY <1>1, <1>4, <2>1 DEF IInv, Control, MachineInv, MachineFollows, Beginning
  <2>4. OutInv'
    BY <1>1, <2>1, <2>2, CleansSegments DEF OutInv, Standing, Segments
  <2>5. SameStage
    BY <1>1, <2>1, IsUnderway DEF SameStage
  <2>. QED
    BY <1>1, <1>2, <1>4, <2>1, <2>2, <2>3, <2>4, <2>5, MoveStep
<1>5. CASE /\ worker' = [worker EXCEPT !.at = "turning", !.machine = BegunTurn(@, TurnRequest)]
           /\ node' = [node EXCEPT !.turn = TurnRequest, !.turned = "none"]
           /\ out' = Order([out EXCEPT !.brush = Cleans], "turn")
  <2>. DEFINE m == BegunTurn(worker.machine, TurnRequest)
  <2>1. /\ m \in Machines /\ m.state = "turning" /\ m.turn = TurnRequest
        /\ m.segment = worker.machine.segment /\ m.total = worker.machine.total
    BY <1>2, TurnShape
  <2>2. worker' = [worker EXCEPT !.at = "turning", !.machine = m]
    BY <1>2, <1>5 DEF Workers
  <2>. HIDE DEF m
  <2>3. worker' \in Workers /\ worker'.at = "turning" /\ worker'.machine = m
    BY <1>2, <2>1, <2>2, IsUnderway DEF Workers
  <2>4. SameMission
    BY <1>1, <1>2, <2>1, <2>2 DEF Workers, SameMission, SamePlan
  <2>5. /\ node' \in Nodes /\ node'.active = node.active /\ node'.pause = node.pause
        /\ node'.turn = TurnRequest /\ node'.tracking = 0 /\ node'.fault = node.fault
    BY <1>2, <1>5 DEF Nodes
  <2>6. /\ out' \in Outs /\ out'.brush = Cleans /\ ~out'.safety
        /\ out'.late # 0 => out'.late = 1 /\ node.pause
    BY <1>2, <1>5, OrderShape, CleansSegments
  <2>7. MachineInv'
    BY <1>1, <2>1, <2>3, <2>5 DEF IInv, Control, MachineInv, MachineFollows, Beginning
  <2>8. OutInv'
    BY <1>1, <2>3, <2>5, <2>6, CleansSegments DEF OutInv, Standing, Segments, Looking
  <2>9. SameStage
    BY <1>1, <2>3, IsUnderway DEF SameStage
  <2>. QED
    BY <1>1, <2>3, <2>4, <2>5, <2>6, <2>7, <2>8, <2>9, MoveStep
<1>. QED
  BY <1>3, <1>4, <1>5 DEF Go

LEMMA AwaitTurnStep == ASSUME IInv, AwaitTurn PROVE IInv'
<1>1. worker.at = "await_turn" /\ UNCHANGED <<goal, disk, tracker, covered>>
  BY DEF AwaitTurn, At
<1>2. /\ node.tracking = 0 /\ node \in Nodes /\ out \in Outs
      /\ node.fault # "MISSION_STATE_ERROR" /\ worker \in Workers
      /\ worker.machine \in Machines /\ worker.machine.state = "turning"
      /\ worker.machine.turn = node.turn /\ out.late = 0 /\ ~out.safety
      /\ out.brush \in BOOLEAN /\ (out.brush => Segments)
  BY <1>1 DEF IInv, Control, Types, GoalInv, MachineInv, MachineFollows, OutInv, Looking,
              Workers, Outs
<1>3. ASSUME NEW code \in {"TURN_FAILED", "TURN_COMPLETION_TIMEOUT"}, Fails(code),
             UNCHANGED out
      PROVE  IInv'
  <2>1. code \in Faults \ {"MISSION_STATE_ERROR"}
    BY DEF Faults
  <2>. QED
    BY <1>1, <1>3, <2>1, FailsStep
<1>4. CASE /\ worker' = [worker EXCEPT !.at = "track", !.machine = CompletedTurn(@, node.turn)]
           /\ node' = Cleared(node) /\ UNCHANGED out
  <2>. DEFINE m == CompletedTurn(worker.machine, node.turn)
  <2>1. /\ m \in Machines /\ m.state = "preparing"
        /\ m.segment = worker.machine.segment /\ m.total = worker.machine.total
    BY <1>2, TurnShape
  <2>2. worker' = [worker EXCEPT !.at = "track", !.machine = m]
    BY <1>2, <1>4 DEF Workers
  <2>. HIDE DEF m
  <2>3. worker' \in Workers /\ worker'.at = "track" /\ worker'.machine = m
    BY <1>2, <2>1, <2>2, IsUnderway DEF Workers
  <2>4. SameMission
    BY <1>1, <1>2, <2>1, <2>2 DEF Workers, SameMission, SamePlan
  <2>5. /\ node' \in Nodes /\ node'.active = node.active
        /\ node'.turn = 0 /\ node'.tracking = 0 /\ node'.fault = node.fault
    BY <1>2, <1>4, ClearedShape
  <2>6. MachineInv'
    BY <2>1, <2>3, <2>5 DEF IInv, Control, MachineInv, MachineFollows, Beginning
  <2>7. OutInv'
    BY <1>1, <1>2, <1>4, <2>3 DEF OutInv, Standing, Segments
  <2>8. SameStage
    BY <1>1, <2>3, IsUnderway DEF SameStage
  <2>. QED
    BY <1>1, <1>2, <1>4, <2>3, <2>4, <2>5, <2>6, <2>7, <2>8, MoveStep
<1>5. CASE /\ worker' = Goes(worker, "turning") /\ out' \in {out, Order(out, "turn")}
           /\ UNCHANGED node
  <2>1. /\ worker' \in Workers /\ worker'.at = "turning" /\ worker'.machine = worker.machine
        /\ SameMission
    BY <1>1, <1>5, IsUnderway, GoesShape
  <2>2. out = [out EXCEPT !.brush = out.brush]
    BY <1>2 DEF Outs
  <2>3. /\ out' \in Outs /\ out'.brush = out.brush /\ ~out'.safety
        /\ out'.late # 0 => out'.late = 1 /\ node.pause
    BY <1>2, <1>5, <2>2, OrderShape
  <2>4. MachineInv'
    BY <1>1, <1>5, <2>1 DEF IInv, Control, MachineInv, MachineFollows, Beginning
  <2>5. OutInv'
    BY <1>1, <1>2, <1>5, <2>1, <2>3 DEF OutInv, Standing, Segments, Looking
  <2>6. SameStage
    BY <1>1, <2>1, IsUnderway DEF SameStage
  <2>. QED
    BY <1>1, <1>2, <1>5, <2>1, <2>3, <2>4, <2>5, <2>6, MoveStep
<1>. QED
  BY <1>3, <1>4, <1>5 DEF AwaitTurn

-----------------------------------------------------------------------------
(* The worker drives to a target and judges how the straight ends.         *)

\* A target on its way, one on the topic and one report hold three of the
\* generations at most, so the next one is of nobody.
LEMMA FreshGeneration ==
  ASSUME Types
  PROVE  NextGeneration \in Generations \ {0} /\ NextGeneration \notin GenerationsHeld
<1>1. PICK a, b, c \in Generations : GenerationsHeld \subseteq {a, b, c}
  <2>1. /\ tracker.target.generation \in Generations
        /\ tracker.topic.generation \in Generations
    BY ZeroGeneration DEF Types, Trackers, Targets, NoTarget
  <2>2. CASE tracker.reports = <<>>
    BY <2>1, <2>2 DEF GenerationsHeld
  <2>3. CASE \E r \in Reports : tracker.reports = <<r>>
    <3>1. PICK r \in Reports : tracker.reports = <<r>>
      BY <2>3
    <3>2. r.generation \in Generations
      BY DEF Reports
    <3>3. GenerationsHeld \subseteq
            {tracker.target.generation, tracker.topic.generation, r.generation}
      BY <3>1 DEF GenerationsHeld
    <3>. QED
      BY <2>1, <3>2, <3>3
  <2>. QED
    BY <2>2, <2>3, ReportsShape
<1>. DEFINE Smallest(g) == g \notin GenerationsHeld /\ \A h \in 1 .. g - 1 : h \in GenerationsHeld
<1>2. \E g \in 1 .. 4 : Smallest(g)
  <2>1. 1 \notin GenerationsHeld => Smallest(1)
    OBVIOUS
  <2>2. 1 \in GenerationsHeld /\ 2 \notin GenerationsHeld => Smallest(2)
    OBVIOUS
  <2>3. 1 \in GenerationsHeld /\ 2 \in GenerationsHeld /\ 3 \notin GenerationsHeld => Smallest(3)
    <3>1. 1 .. 3 - 1 = {1, 2}
      OBVIOUS
    <3>. QED
      BY <3>1
  <2>4. {1, 2, 3} \subseteq GenerationsHeld /\ 4 \notin GenerationsHeld => Smallest(4)
    <3>1. 1 .. 4 - 1 = {1, 2, 3}
      OBVIOUS
    <3>. QED
      BY <3>1
  <2>5. ~({1, 2, 3, 4} \subseteq GenerationsHeld)
    BY <1>1 DEF Generations
  <2>. HIDE DEF Smallest
  <2>. QED
    BY <2>1, <2>2, <2>3, <2>4, <2>5
<1>3. NextGeneration \in 1 .. 4 /\ Smallest(NextGeneration)
  BY <1>2 DEF NextGeneration
<1>. QED
  BY <1>3 DEF Generations

LEMMA TrackStep == ASSUME IInv, Track PROVE IInv'
<1>. DEFINE g == NextGeneration
            m == BegunTracking(worker.machine, g)
            new == [generation |-> g, mark |-> Mark]
<1>1. worker.at = "track" /\ UNCHANGED <<goal, disk, covered>>
  BY DEF Track, At
<1>2. /\ node \in Nodes /\ node.turn = 0 /\ node.fault # "MISSION_STATE_ERROR"
      /\ worker \in Workers /\ worker.machine \in Machines
      /\ worker.machine.state = "preparing" /\ tracker \in Trackers
      /\ out.late = 0 /\ ~out.safety
  BY <1>1 DEF IInv, Control, Types, GoalInv, MachineInv, MachineFollows, OutInv, Looking,
              Workers
<1>3. g \in Generations \ {0} /\ g \notin GenerationsHeld
  BY FreshGeneration DEF IInv, Control
<1>4. /\ MayTrack(worker.machine, g) /\ m \in Machines
      /\ m.state = "tracking" /\ m.generation = g
      /\ m.segment = worker.machine.segment /\ m.total = worker.machine.total
  BY <1>2, <1>3, TrackingShape
<1>5. /\ worker' = [worker EXCEPT !.at = "tracking", !.machine = m, !.guard = GuardReset]
      /\ node' = [node EXCEPT !.tracking = g, !.tracked = "none", !.heard = FALSE]
      /\ out' = Order([out EXCEPT !.brush = Cleans], "track")
      /\ tracker' = [tracker EXCEPT !.topic = new, !.pending = TRUE]
  BY <1>1, <1>2, <1>4 DEF Track, Publishes, Workers
<1>6. new \in Targets /\ new.generation = g /\ new.mark = Mark
  <2>1. Mark \in Nat \X Nat \X Nat
    <3>1. goal.id \in Nat /\ worker.completed \in Nat /\ worker.lap \in Nat
          /\ worker.machine.segment \in Nat
      BY <1>2 DEF IInv, Control, Types, Goals, Workers, Machines
    <3>2. goal.kind # "navigate_waypoints" => worker.record.run \in Nat
      BY <1>1, <1>2 DEF IInv, Mission, RecordInv, Driving, Places, Workers, Records
    <3>. QED
      BY <3>1, <3>2 DEF Mark, NoTarget
  <2>. QED
    BY <1>3, <2>1 DEF Targets
<1>. HIDE DEF g, m, new
<1>7. /\ worker' \in Workers /\ worker'.at = "tracking" /\ worker'.machine = m
  BY <1>2, <1>4, <1>5, IsUnderway DEF Workers, GuardReset
<1>8. SameMission /\ SameStage
  <2>1. SameMission
    BY <1>1, <1>2, <1>4, <1>5 DEF Workers, SameMission, SamePlan
  <2>. QED
    BY <1>1, <1>7, <2>1, IsUnderway DEF SameStage
<1>9. /\ node' \in Nodes /\ node'.active = node.active /\ node'.pause = node.pause
      /\ node'.turn = 0 /\ node'.tracking = g /\ node'.tracked = "none"
      /\ node'.fault = node.fault
  BY <1>2, <1>3, <1>5 DEF Nodes
<1>10. /\ tracker' \in Trackers /\ tracker'.target = tracker.target /\ tracker'.topic = new
       /\ tracker'.reports = tracker.reports /\ tracker'.active = tracker.active
  BY <1>2, <1>5, <1>6 DEF Trackers
<1>11. /\ out' \in Outs /\ out'.brush = Cleans /\ ~out'.safety
       /\ out'.late # 0 => out'.late = 1 /\ node.pause
  BY <1>2, <1>5, OrderShape, CleansSegments
<1>12. Types'
  BY <1>1, <1>7, <1>9, <1>10, <1>11 DEF IInv, Control, Types
<1>13. GoalInv'
  BY <1>1, <1>7, <1>9 DEF IInv, Control, GoalInv
<1>14. MachineInv'
  BY <1>3, <1>4, <1>7, <1>9 DEF IInv, Control, MachineInv, MachineFollows, Beginning
<1>15. OutInv'
  BY <1>1, <1>7, <1>9, <1>11, CleansSegments DEF OutInv, Standing, Segments, Looking
<1>16. Mission'
  BY <1>1, <1>8, MissionKept DEF IInv, Control
<1>17. TrackInv'
  <2>1. Mark' = Mark
    BY <1>8 DEF SameMission, SamePlan, Mark
  <2>2. tracker.target.generation # g
    BY <1>3 DEF GenerationsHeld
  <2>3. \A i \in DOMAIN tracker.reports : tracker.reports[i].generation # g
    BY <1>3 DEF GenerationsHeld
  <2>. QED
    BY <1>6, <1>9, <1>10, <2>1, <2>2, <2>3 DEF TrackInv
<1>. QED
  BY <1>12, <1>13, <1>14, <1>15, <1>16, <1>17 DEF IInv, Control

\* A segment more is claimed by the run than before.
LEMMA OneMoreDriven ==
  ASSUME NEW r \in Records, NEW lap \in Nat, NEW next \in Nat
  PROVE  Claimed([r EXCEPT !.lap = lap, !.next = next + 1]) \subseteq
           Claimed([r EXCEPT !.lap = lap, !.next = next]) \cup {<<r.run, lap, next>>}
<1>. DEFINE p == [r EXCEPT !.lap = lap, !.next = next]
            q == [r EXCEPT !.lap = lap, !.next = next + 1]
<1>1. /\ p.run = r.run /\ p.lap = lap /\ p.next = next /\ p.total = r.total
      /\ q.run = r.run /\ q.lap = lap /\ q.next = next + 1 /\ q.total = r.total
      /\ r.run # 0
  BY DEF Records
<1>. HIDE DEF p, q
<1>2. p # NoRecord /\ q # NoRecord
  BY <1>1 DEF NoRecord
<1>3. LapsBefore(p) = LapsBefore(q)
  BY <1>1 DEF LapsBefore
<1>4. \A segment \in 0 .. (next + 1) - 1 : segment \in 0 .. next - 1 \/ segment = next
  OBVIOUS
<1>5. ASSUME NEW c \in Claimed(q) PROVE c \in Claimed(p) \cup {<<r.run, lap, next>>}
  <2>1. CASE c \in LapsBefore(q)
    BY <1>2, <1>3, <2>1 DEF Claimed
  <2>2. CASE c \notin LapsBefore(q)
    <3>1. PICK segment \in 0 .. (next + 1) - 1 : c = <<r.run, lap, segment>>
      BY <1>1, <1>2, <1>5, <2>2 DEF Claimed
    <3>. QED
      BY <1>1, <1>2, <1>4, <3>1 DEF Claimed
  <2>. QED
    BY <2>1, <2>2
<1>. QED
  BY <1>5 DEF p, q

LEMMA SegmentEndsStep ==
  ASSUME IInv, worker.at = "await_track", SegmentEnds, UNCHANGED <<goal, disk>>,
         covered \subseteq covered', worker.leg = "transfer" \/ Mark \in covered'
  PROVE  IInv'
<1>. DEFINE m == CompletedTracking(worker.machine, node.tracking)
<1>1. /\ node \in Nodes /\ node.fault # "MISSION_STATE_ERROR" /\ worker \in Workers
      /\ worker.machine \in Machines /\ worker.machine.state = "tracking"
      /\ worker.machine.generation = node.tracking /\ tracker \in Trackers /\ out \in Outs
      /\ out.late = 0 /\ ~out.safety
  BY DEF IInv, Control, Types, MachineInv, MachineFollows, OutInv, Looking, Workers
<1>2. /\ m \in Machines /\ m.state \in {"preparing", "completed"}
      /\ m.state = "completed" => m.segment >= m.total
      /\ m.segment = worker.machine.segment + 1 /\ m.total = worker.machine.total
  BY <1>1, TrackingShape
<1>3. worker' = [worker EXCEPT !.at = "advance", !.machine = m]
  BY <1>1 DEF SegmentEnds, Workers
<1>. HIDE DEF m
<1>4. /\ worker' \in Workers /\ worker'.at = "advance" /\ worker'.machine = m
      /\ worker'.leg = worker.leg /\ worker'.first = worker.first /\ worker'.lap = worker.lap
      /\ worker'.completed = worker.completed /\ worker'.record = worker.record
      /\ worker'.tour = worker.tour
  BY <1>1, <1>2, <1>3, IsUnderway DEF Workers
<1>5. /\ node' \in Nodes /\ node'.active = node.active
      /\ node'.turn = 0 /\ node'.tracking = 0 /\ node'.fault = node.fault
  BY <1>1, ClearedShape DEF SegmentEnds
<1>6. /\ out' \in Outs /\ out'.motion = "none" /\ out'.brush = out.brush
      /\ ~out'.safety /\ out'.late = 0
  BY <1>1 DEF SegmentEnds, Outs
<1>7. tracker' \in Trackers /\ tracker'.active = tracker.active
      /\ tracker'.target = tracker.target
  BY <1>1 DEF SegmentEnds, Releases, Publishes, Trackers
<1>8. Types'
  BY <1>4, <1>5, <1>6, <1>7 DEF IInv, Control, Types
<1>9. GoalInv'
  BY <1>4, <1>5 DEF IInv, Control, GoalInv
<1>10. MachineInv'
  BY <1>2, <1>4, <1>5 DEF IInv, Control, MachineInv, MachineFollows, Beginning
<1>11. OutInv'
  BY <1>4, <1>6 DEF IInv, Control, OutInv, Standing, Segments
<1>12. worker.at \in Driving /\ worker'.at \in Driving /\ SamePlan
  BY <1>4 DEF Driving, Places, SamePlan
<1>13. DiskInv'
  BY <1>12, FilesKept DEF IInv, Control, Mission, DiskInv
<1>14. RecordInv'
  BY <1>4, <1>12 DEF IInv, Mission, RecordInv, Recovering
<1>15. ProgressInv'
  <2>1. worker.leg = "transfer" => Recovering
    BY DEF IInv, Mission, ProgressInv
  <2>2. ASSUME Segments
        PROVE  /\ Driven(worker.lap, Upto)' \subseteq covered'
               /\ worker'.leg = "transfer" => worker'.first < worker'.record.total
               /\ worker'.leg = "segment" => m.total = worker'.record.total
    <3>1. /\ Driven(worker.lap, Upto) \subseteq covered
          /\ worker.leg = "transfer" => worker.first < worker.record.total
          /\ worker.leg = "segment" => m.total = worker.record.total
      BY <1>2, <1>12, <2>2 DEF IInv, Mission, ProgressInv
    <3>2. CASE worker.leg = "transfer"
      BY <1>4, <3>1, <3>2 DEF Driven, Upto
    <3>3. CASE worker.leg # "transfer"
      <4>1. Upto = worker.machine.segment /\ Upto' = worker.machine.segment + 1
        BY <1>2, <1>4, <3>3 DEF Upto
      <4>2. Mark = <<worker.record.run, worker.lap, worker.machine.segment>>
        BY <2>2, <3>3 DEF Mark, Segments
      <4>3. worker.record \in Records /\ worker.lap \in Nat /\ worker.machine.segment \in Nat
        BY <1>1, <1>12, <2>2 DEF IInv, Mission, RecordInv, Segments, Workers, Machines
      <4>4. Driven(worker.lap, Upto)' \subseteq Driven(worker.lap, Upto) \cup {Mark}
        BY <1>4, <4>1, <4>2, <4>3, OneMoreDriven DEF Driven
      <4>. QED
        BY <1>4, <3>1, <3>3, <4>4
    <3>. QED
      BY <3>2, <3>3
  <2>3. goal.kind = "return_home" => <<goal.id, 0, 0>> \in covered'
    BY <2>1 DEF Mark, Recovering
  <2>. QED
    BY <1>4, <1>12, <2>1, <2>2, <2>3
       DEF ProgressInv, Recovering, Beginning, Segments, Driving, Places
<1>16. TourInv'
  <2>1. goal.kind = "navigate_waypoints" => <<goal.id, worker.completed, 0>> \in covered'
    BY DEF IInv, Mission, ProgressInv, Mark, Recovering
  <2>. QED
    BY <1>4, <1>12, <2>1 DEF IInv, Mission, TourInv, GivenOut, Beginning, Driving, Places
<1>17. SuccessInv' /\ TrackInv'
  BY <1>4, <1>5 DEF SuccessInv, TrackInv
<1>. QED
  BY <1>8, <1>9, <1>10, <1>11, <1>13, <1>14, <1>15, <1>16, <1>17 DEF IInv, Control, Mission

LEMMA AwaitTrackStep == ASSUME IInv, AwaitTrack PROVE IInv'
<1>1. worker.at = "await_track" /\ UNCHANGED <<goal, disk>>
  BY DEF AwaitTrack, At
<1>2. /\ node \in Nodes /\ node.tracking # 0 /\ node.turn = 0
      /\ node.fault # "MISSION_STATE_ERROR"
      /\ worker \in Workers /\ worker.machine \in Machines
      /\ worker.machine.state = "tracking" /\ out \in Outs /\ out.late = 0 /\ ~out.safety
  BY <1>1 DEF IInv, Control, Types, GoalInv, MachineInv, MachineFollows, OutInv, Looking,
              Workers
<1>3. node.tracked \in {"near", "finished"} => worker.leg = "transfer" \/ Mark \in covered
  BY <1>2 DEF IInv, TrackInv
<1>4. CASE node.tracked = "finished" /\ SegmentEnds /\ UNCHANGED covered
  BY <1>1, <1>3, <1>4, SegmentEndsStep
<1>5. CASE AwaitsRtkAt(IF Cleans THEN "track" ELSE RestartAt, Cleared(node))
           /\ UNCHANGED covered
  BY <1>1, <1>2, <1>5, BacksAre, AwaitRtkStep
<1>6. CASE LooksNear /\ SegmentEnds /\ MayBeGivenUp
  <2>1. covered \subseteq covered' /\ (worker.leg = "transfer" \/ Mark \in covered')
    BY <1>3, <1>6 DEF LooksNear, MayBeGivenUp
  <2>. QED
    BY <1>1, <1>6, <2>1, SegmentEndsStep
<1>7. CASE /\ worker' = [worker EXCEPT !.at = "edge", !.machine = Paused(@),
                                      !.back = IF Cleans THEN "track" ELSE RestartAt]
           /\ node' = Woken([Cleared(node) EXCEPT !.pause = TRUE, !.edge = TRUE])
           /\ out' = Stop(out, FALSE)
           /\ Releases
           /\ UNCHANGED covered
  <2>. DEFINE m == Paused(worker.machine)
              back == IF Cleans THEN "track" ELSE RestartAt
              n == Cleared(node)
  <2>1. /\ m \in Machines /\ m.state = "paused"
        /\ m.segment = worker.machine.segment /\ m.total = worker.machine.total
    BY <1>2, WaitShape
  <2>2. worker' = [worker EXCEPT !.at = "edge", !.back = back, !.machine = m]
    BY <1>2, <1>7 DEF Workers
  <2>3. back \in Backs /\ back \in {"none", "ensure", "track", "preflight"}
    BY BacksAre DEF Backs
  <2>4. /\ n \in Nodes /\ n.turn = 0 /\ n.tracking = 0
        /\ n.active = node.active /\ n.fault = node.fault
    BY <1>2, ClearedShape
  <2>5. node' = Woken([n EXCEPT !.pause = TRUE, !.edge = TRUE])
    BY <1>7
  <2>. HIDE DEF m, back, n
  <2>6. /\ worker' \in Workers /\ worker'.at = "edge" /\ worker'.machine = m
        /\ worker'.back = back
    BY <1>2, <2>1, <2>2, <2>3, IsUnderway DEF Workers
  <2>7. SameMission
    BY <1>1, <1>2, <1>7, <2>1, <2>2 DEF Workers, SameMission, SamePlan
  <2>8. SameStage
    BY <1>1, <2>6, IsUnderway DEF SameStage
  <2>9. /\ node' \in Nodes /\ node'.turn = 0 /\ node'.tracking = 0
        /\ node'.active = node.active /\ node'.fault = node.fault
    BY <2>4, <2>5 DEF Nodes, Woken
  <2>10. /\ out' \in Outs /\ out'.motion = "none" /\ ~out'.brush /\ out'.late = 0
         /\ ~out'.safety
    BY <1>2, <1>7 DEF Stop, Outs
  <2>11. MachineInv'
    BY <1>1, <2>1, <2>3, <2>6, <2>9 DEF IInv, Control, MachineInv, MachineFollows, Beginning,
                                  Backs
  <2>12. OutInv'
    BY <2>6, <2>10 DEF OutInv
  <2>13. tracker' = Released
    BY <1>7 DEF Releases, Publishes, Released
  <2>. QED
    BY <1>1, <2>6, <2>7, <2>8, <2>9, <2>10, <2>11, <2>12, <2>13, MoveStep
<1>8. ASSUME NEW clear \in BOOLEAN, NEW debounced \in BOOLEAN,
             worker' = [worker EXCEPT !.at = "tracking",
                                      !.guard = Evaluated(@, clear, debounced)],
             node' = [node EXCEPT !.heard = FALSE],
             UNCHANGED <<out, tracker, covered>>
      PROVE  IInv'
  <2>. DEFINE guard == Evaluated(worker.guard, clear, debounced)
  <2>2. guard \in {"clear", "asserted", "emitted"}
    BY <1>2 DEF Evaluated, GuardReset, Workers
  <2>3. worker' = [worker EXCEPT !.at = "tracking", !.guard = guard]
    BY <1>2, <1>8 DEF Workers
  <2>. HIDE DEF guard
  <2>4. worker' \in Workers /\ worker'.at = "tracking" /\ worker'.machine = worker.machine
    BY <1>2, <2>2, <2>3, IsUnderway DEF Workers
  <2>5. SameMission
    BY <1>1, <1>2, <1>8, <2>3 DEF Workers, SameMission, SamePlan
  <2>6. SameStage
    BY <1>1, <2>4, IsUnderway DEF SameStage
  <2>7. /\ node' \in Nodes /\ node'.turn = 0 /\ node'.tracking = node.tracking
        /\ node'.tracked = node.tracked
        /\ node'.active = node.active /\ node'.fault = node.fault
    BY <1>2, <1>8 DEF Nodes
  <2>8. MachineInv'
    BY <1>1, <2>4, <2>7 DEF IInv, Control, MachineInv, MachineFollows, Beginning
  <2>9. OutInv'
    BY <1>1, <1>2, <1>8, <2>4 DEF IInv, Control, OutInv, Standing, Segments
  <2>. QED
    BY <1>1, <1>2, <1>8, <2>4, <2>5, <2>6, <2>7, <2>8, <2>9, MoveStep
<1>9. ASSUME Contact \/ NoContact PROVE IInv'
  <2>1. ASSUME NoContact PROVE IInv'
    BY <1>8, <2>1 DEF NoContact
  <2>2. ASSUME Contact PROVE IInv'
    <3>1. PICK debounced \in BOOLEAN : Contact!(debounced)
      BY <2>2 DEF Contact
    <3>. QED
      BY <1>6, <1>7, <1>8, <3>1
  <2>. QED
    BY <1>9, <2>1, <2>2
<1>. QED
  BY <1>4, <1>5, <1>9 DEF AwaitTrack

-----------------------------------------------------------------------------
(* The worker waits.                                                       *)

LEMMA SleepsAgainStep == ASSUME IInv, SleepsAgain PROVE IInv'
<1>1. UNCHANGED <<goal, worker, disk, tracker, out, covered>>
  BY DEF SleepsAgain
<1>2. /\ node' \in Nodes /\ node'.active = node.active /\ node'.pause = node.pause
      /\ node'.turn = node.turn /\ node'.tracking = node.tracking
      /\ node'.tracked = node.tracked /\ node'.fault = node.fault
  BY DEF SleepsAgain, IInv, Control, Types, Nodes
<1>. QED
  BY <1>1, <1>2, RosStep DEF IInv, Control, Types, SamePlan, MachineInv, MachineFollows

\* The worker goes on where the wait sends it.
LEMMA BackStep ==
  ASSUME IInv, worker.at \in {"paused", "edge", "rtk"},
         NEW m \in Machines, m.state = "preparing",
         m.segment = worker.machine.segment, m.total = worker.machine.total,
         worker' = [worker EXCEPT !.at = worker.back, !.machine = m],
         node' \in Nodes, node'.active = node.active, node'.turn = 0, node'.tracking = 0,
         node'.pause = node.pause, node'.fault = node.fault,
         ~node.pause,
         out' \in {out, [out EXCEPT !.safety = FALSE]}, ~out'.safety,
         UNCHANGED <<goal, disk, tracker, covered>>
  PROVE  IInv'
<1>1. /\ worker \in Workers /\ out \in Outs
      /\ worker.back \in Backs /\ worker.at \in Underway
  BY IsUnderway DEF IInv, Control, Types, MachineInv
<1>2. worker.back \in {"ensure", "track"} \/ (worker.back = "preflight" /\ goal.kind = "return_home")
  BY <1>1 DEF Backs
<1>3. worker.back \in Places /\ worker.back # "idle"
  BY <1>2, IsUnderway
<1>4. worker' \in Workers /\ worker'.at = worker.back /\ worker'.machine = m
  BY <1>1, <1>3 DEF Workers
<1>5. SameMission
  BY <1>1 DEF Workers, SameMission, SamePlan
<1>6. SameStage
  BY <1>1, <1>2, <1>4, IsUnderway DEF SameStage
<1>7. /\ out' \in Outs /\ out'.motion = out.motion /\ out'.brush = out.brush
      /\ out'.late = out.late
  BY <1>1 DEF Outs
<1>8. MachineInv'
  BY <1>2, <1>4 DEF IInv, Control, MachineInv, MachineFollows, Beginning, Segments
<1>9. OutInv'
  BY <1>2, <1>4, <1>7 DEF IInv, Control, OutInv, Standing, Segments
<1>. QED
  BY <1>3, <1>4, <1>5, <1>6, <1>7, <1>8, <1>9, MoveStep

LEMMA ResumesStep == ASSUME IInv, Resumes PROVE IInv'
<1>. DEFINE n == [Cleared(node) EXCEPT !.edge = IF At("edge") THEN FALSE ELSE @]
            edge == IF At("edge") THEN FALSE ELSE Cleared(node).edge
<1>1. /\ worker.at \in {"paused", "edge"} /\ WaitIsOver /\ node' = n
      /\ UNCHANGED <<goal, disk, tracker, out, covered>>
  BY DEF Resumes
<1>2. /\ node \in Nodes /\ node.fault # "MISSION_STATE_ERROR" /\ worker \in Workers
      /\ worker.machine \in Machines /\ worker.machine.state = "paused" /\ ~out.safety
  BY <1>1 DEF IInv, Control, Types, MachineInv, MachineFollows, OutInv, Workers
<1>3. /\ node' \in Nodes /\ node'.active = node.active /\ node'.pause = node.pause
      /\ node'.turn = 0 /\ node'.tracking = 0 /\ node'.fault = node.fault
  <2>. DEFINE c == Cleared(node)
  <2>1. /\ c \in Nodes /\ c.active = node.active /\ c.pause = node.pause
        /\ c.turn = 0 /\ c.tracking = 0 /\ c.fault = node.fault
    BY <1>2, ClearedShape
  <2>2. node' = [c EXCEPT !.edge = edge] /\ edge \in BOOLEAN
    BY <1>1, <2>1 DEF Nodes
  <2>. HIDE DEF c, edge
  <2>. QED
    BY <2>1, <2>2 DEF Nodes
<1>4. ASSUME NEW step \in {"cancelled", "failed"}, worker' = Ends(worker, step) PROVE IInv'
  BY <1>1, <1>2, <1>3, <1>4, EndStep
<1>5. CASE ~node.pause /\ worker' = [worker EXCEPT !.at = worker.back, !.machine = Resumed(@)]
  <2>1. /\ Resumed(worker.machine) \in Machines /\ Resumed(worker.machine).state = "preparing"
        /\ Resumed(worker.machine).segment = worker.machine.segment
        /\ Resumed(worker.machine).total = worker.machine.total
    BY <1>2, GoOnShape
  <2>2. worker' = [worker EXCEPT !.at = worker.back, !.machine = Resumed(worker.machine)]
    BY <1>2, <1>5 DEF Workers
  <2>. QED
    BY <1>1, <1>2, <1>3, <1>5, <2>1, <2>2, BackStep
<1>. QED
  BY <1>1, <1>4, <1>5 DEF Resumes, WaitIsOver

LEMMA RtkWaitEndsStep == ASSUME IInv, RtkWaitEnds PROVE IInv'
<1>1. worker.at = "rtk" /\ UNCHANGED <<goal, disk, covered>>
  BY DEF RtkWaitEnds, At
<1>2. /\ node \in Nodes /\ node.fault # "MISSION_STATE_ERROR" /\ worker \in Workers
      /\ worker.machine \in Machines /\ worker.machine.state = "rtk_recovering"
      /\ out \in Outs /\ out.late = 0 /\ out.motion = "none" /\ ~out.brush
      /\ worker.back \in Backs
  BY <1>1 DEF IInv, Control, Types, MachineInv, MachineFollows, OutInv, Workers, Standing,
              Looking
<1>3. ASSUME NEW step \in {"cancelled", "failed"}, Leaves(step), UNCHANGED <<out, tracker>>
      PROVE  IInv'
  BY <1>1, <1>3, LeavesStep
<1>4. CASE Fails("RTK_RECOVERY_TIMEOUT") /\ UNCHANGED <<out, tracker>>
  <2>1. "RTK_RECOVERY_TIMEOUT" \in Faults \ {"MISSION_STATE_ERROR"}
    BY DEF Faults
  <2>. QED
    BY <1>1, <1>4, <2>1, FailsStep
<1>5. CASE /\ worker' = [worker EXCEPT !.at = "paused", !.machine = Paused(@)]
           /\ node' = Woken(node) /\ out' = [out EXCEPT !.safety = FALSE] /\ Releases
  <2>. DEFINE m == Paused(worker.machine)
  <2>1. /\ m \in Machines /\ m.state = "paused"
        /\ m.segment = worker.machine.segment /\ m.total = worker.machine.total
    BY <1>2, WaitShape
  <2>2. worker' = [worker EXCEPT !.at = "paused", !.machine = m]
    BY <1>2, <1>5 DEF Workers
  <2>. HIDE DEF m
  <2>3. /\ worker' \in Workers /\ worker'.at = "paused" /\ worker'.machine = m
        /\ worker'.back = worker.back
    BY <1>2, <2>1, <2>2, IsUnderway DEF Workers
  <2>4. SameMission
    BY <1>1, <1>2, <2>1, <2>2 DEF Workers, SameMission, SamePlan
  <2>5. SameStage
    BY <1>1, <2>3, IsUnderway DEF SameStage
  <2>6. /\ node' \in Nodes /\ node'.active = node.active /\ node'.tracking = node.tracking
        /\ node'.tracked = node.tracked /\ node'.fault = node.fault
    BY <1>2, <1>5 DEF Woken, Nodes
  <2>7. /\ out' \in Outs /\ out'.motion = "none" /\ ~out'.brush /\ out'.late = 0
        /\ ~out'.safety
    BY <1>2, <1>5 DEF Outs
  <2>8. MachineInv'
    BY <1>1, <1>2, <2>1, <2>3, <2>6 DEF IInv, Control, MachineInv, MachineFollows, Beginning, Backs
  <2>9. OutInv'
    BY <2>3, <2>7 DEF OutInv
  <2>10. tracker' = Released
    BY <1>5 DEF Releases, Publishes, Released
  <2>. QED
    BY <1>1, <2>3, <2>4, <2>5, <2>6, <2>7, <2>8, <2>9, <2>10, MoveStep
<1>6. CASE /\ ~node.pause
           /\ worker' = [worker EXCEPT !.at = worker.back, !.machine = RecoveredRtk(@)]
           /\ node' = Cleared(node) /\ out' = [out EXCEPT !.safety = FALSE]
           /\ UNCHANGED tracker
  <2>1. /\ RecoveredRtk(worker.machine) \in Machines
        /\ RecoveredRtk(worker.machine).state = "preparing"
        /\ RecoveredRtk(worker.machine).segment = worker.machine.segment
        /\ RecoveredRtk(worker.machine).total = worker.machine.total
    BY <1>2, GoOnShape
  <2>2. worker' = [worker EXCEPT !.at = worker.back, !.machine = RecoveredRtk(worker.machine)]
    BY <1>2, <1>6 DEF Workers
  <2>3. /\ node' \in Nodes /\ node'.active = node.active /\ node'.pause = node.pause
        /\ node'.turn = 0 /\ node'.tracking = 0 /\ node'.fault = node.fault
    BY <1>2, <1>6, ClearedShape
  <2>4. ~out'.safety
    BY <1>2, <1>6 DEF Outs
  <2>. QED
    BY <1>1, <1>6, <2>1, <2>2, <2>3, <2>4, BackStep
<1>. QED
  BY <1>3, <1>4, <1>5, <1>6 DEF RtkWaitEnds

-----------------------------------------------------------------------------
(* What records claim.                                                     *)

LEMMA SameClaim ==
  ASSUME NEW r \in Records, NEW s \in Records,
         r.run = s.run, r.total = s.total, r.lap = s.lap, r.next = s.next
  PROVE  Claimed(r) = Claimed(s)
BY DEF Claimed, LapsBefore, Records, NoRecord

LEMMA NothingClaimed ==
  ASSUME NEW r \in Records, r.lap = 0, r.next = 0
  PROVE  Claimed(r) = {}
BY DEF Claimed, LapsBefore, Records, NoRecord

\* A lap driven to its end is one of the laps before the next.
LEMMA LapDriven ==
  ASSUME NEW r \in Records, NEW lap \in Nat, NEW next \in Nat, next >= r.total
  PROVE  /\ LapsBefore([r EXCEPT !.lap = lap + 1]) \subseteq
              Claimed([r EXCEPT !.lap = lap, !.next = next])
         /\ Claimed([r EXCEPT !.lap = lap + 1, !.next = 0]) \subseteq
              Claimed([r EXCEPT !.lap = lap, !.next = next])
<1>. DEFINE p == [r EXCEPT !.lap = lap, !.next = next]
            q == [r EXCEPT !.lap = lap + 1]
            s == [r EXCEPT !.lap = lap + 1, !.next = 0]
<1>1. /\ p.run = r.run /\ p.lap = lap /\ p.next = next /\ p.total = r.total
      /\ q.run = r.run /\ q.lap = lap + 1 /\ q.total = r.total
      /\ s.run = r.run /\ s.lap = lap + 1 /\ s.total = r.total /\ s.next = 0
      /\ r.run # 0 /\ r.total \in Nat
  BY DEF Records
<1>. HIDE DEF p, q, s
<1>2. p # NoRecord
  BY <1>1 DEF NoRecord
<1>3. ASSUME NEW c \in LapsBefore(q) PROVE c \in Claimed(p)
  <2>1. PICK l \in 0 .. (lap + 1) - 1, segment \in 0 .. r.total - 1 : c = <<r.run, l, segment>>
    BY <1>1, <1>3 DEF LapsBefore
  <2>2. segment \in 0 .. next - 1
    BY <1>1
  <2>3. CASE l \in 0 .. lap - 1
    BY <1>1, <1>2, <2>1, <2>3 DEF Claimed, LapsBefore
  <2>4. CASE l = lap
    BY <1>1, <1>2, <2>1, <2>2, <2>4 DEF Claimed
  <2>. QED
    BY <2>3, <2>4
<1>4. Claimed(s) \subseteq LapsBefore(q)
  BY <1>1 DEF Claimed, LapsBefore
<1>. QED
  BY <1>3, <1>4 DEF p, q, s

-----------------------------------------------------------------------------
(* The worker: progress.                                                   *)

LEMMA ProgressStep ==
  ASSUME IInv, worker.at \notin {"idle", "turning", "await_turn", "tracking", "await_track",
                                 "paused", "rtk"},
         worker'.at # "idle", worker' \in Workers, UNCHANGED <<goal, node, tracker, out>>,
         disk' \in [{"cleaning", "return_home"} -> Records \cup {NoRecord}],
         MachineInv', OutInv', Mission'
  PROVE  IInv'
<1>1. node.turn = 0 /\ node.tracking = 0
  BY DEF IInv, Control, GoalInv
<1>2. Types'
  BY DEF IInv, Control, Types
<1>3. GoalInv'
  BY <1>1 DEF IInv, Control, GoalInv
<1>4. TrackInv'
  BY <1>1 DEF TrackInv
<1>. QED
  BY <1>2, <1>3, <1>4 DEF IInv, Control

\* A checkpoint that is saved for the mission.
LEMMA SavedShape ==
  ASSUME Types, DiskInv, NEW record \in Records, ValidRecord(record),
         record.run <= goal.id, record.run = goal.id => goal.kind = record.kind,
         goal.kind \in {"cleaning", "return_home"} => record.run = goal.id,
         Claimed(record) \subseteq covered,
         disk' = [disk EXCEPT ![record.kind] = record], UNCHANGED <<goal, covered>>
  PROVE  disk' \in [{"cleaning", "return_home"} -> Records \cup {NoRecord}] /\ DiskInv'
<1>1. record.kind \in {"cleaning", "return_home"} /\ record.run # 0
  BY DEF Records
<1>2. disk' \in [{"cleaning", "return_home"} -> Records \cup {NoRecord}]
  BY <1>1 DEF Types
<1>3. /\ disk'[record.kind] = record
      /\ \A kind \in {"cleaning", "return_home"} : kind # record.kind => disk'[kind] = disk[kind]
  BY <1>1 DEF Types
<1>4. ASSUME NEW kind \in {"cleaning", "return_home"} PROVE FileInv(kind)'
  BY <1>3 DEF DiskInv, FileInv
<1>5. record # NoRecord
  BY <1>1 DEF NoRecord
<1>. QED
  BY <1>2, <1>3, <1>4, <1>5 DEF DiskInv

LEMMA SaveFailsStep ==
  ASSUME IInv, worker.at # "idle", Fails("CHECKPOINT_SAVE_FAILED"),
         UNCHANGED <<goal, disk, tracker, out, covered>>
  PROVE  IInv'
<1>1. "CHECKPOINT_SAVE_FAILED" \in Faults \ {"MISSION_STATE_ERROR"}
  BY DEF Faults
<1>. QED
  BY <1>1, FailsStep

LEMMA NewRecordShape ==
  ASSUME IInv, worker.at = "plan", NEW kind \in {"cleaning", "return_home"},
         ValidRecord(NewRecord(kind))
  PROVE  /\ NewRecord(kind) \in Records /\ Claimed(NewRecord(kind)) = {}
         /\ NewRecord(kind).run = goal.id /\ NewRecord(kind).kind = kind
         /\ NewRecord(kind).total = goal.size /\ NewRecord(kind).laps = goal.laps
         /\ NewRecord(kind).lap = 0 /\ NewRecord(kind).next = 0
<1>1. goal \in Goals /\ goal.id # 0
  BY DEF IInv, Control, Types, GoalInv, Goals
<1>2. goal.size # 0
  BY DEF ValidRecord, NewRecord
<1>3. NewRecord(kind) \in Records
  BY <1>1, <1>2 DEF NewRecord, Records, Goals
<1>4. NewRecord(kind).lap = 0 /\ NewRecord(kind).next = 0
  BY DEF NewRecord
<1>. QED
  BY <1>3, <1>4, NothingClaimed DEF NewRecord

LEMMA PlanCleaningStep == ASSUME IInv, PlanCleaning PROVE IInv'
<1>. DEFINE r == NewRecord("cleaning")
<1>1. /\ worker.at = "plan" /\ goal.kind = "cleaning"
      /\ UNCHANGED <<goal, tracker, out, covered>>
  BY DEF PlanCleaning, At
<1>2. CASE Fails("CHECKPOINT_SAVE_FAILED") /\ UNCHANGED disk
  BY <1>1, <1>2, SaveFailsStep
<1>3. CASE /\ ValidRecord(r) /\ disk' = [disk EXCEPT ![r.kind] = r]
           /\ worker' = [Goes(worker, "lap") EXCEPT !.record = r] /\ UNCHANGED node
  <2>1. /\ r \in Records /\ Claimed(r) = {} /\ r.run = goal.id /\ r.kind = "cleaning"
        /\ r.total = goal.size /\ r.laps = goal.laps /\ r.lap = 0 /\ r.next = 0
    BY <1>1, <1>3, NewRecordShape
  <2>2. worker \in Workers /\ goal \in Goals
    BY DEF IInv, Control, Types
  <2>3. worker' = [worker EXCEPT !.at = "lap", !.record = r]
    BY <1>3, <2>2 DEF Goes, Workers
  <2>. HIDE DEF r
  <2>4. /\ worker' \in Workers /\ worker'.at = "lap" /\ worker'.record = r
        /\ worker'.machine = worker.machine /\ worker'.leg = worker.leg
        /\ worker'.lap = worker.lap /\ worker'.first = worker.first
    <3>1. "lap" \in Places
      BY DEF Places
    <3>. QED
      BY <2>1, <2>2, <2>3, <3>1 DEF Workers
  <2>5. /\ worker.machine.state = "idle" /\ worker.lap = 0 /\ worker.first = 0
        /\ worker.leg = "segment" /\ ~out.safety /\ out.late = 0
    BY <1>1, <2>2 DEF IInv, Control, MachineInv, Mission, ProgressInv, OutInv, Beginning,
                      Segments, Recovering, Looking, Workers
  <2>6. MachineInv'
    BY <1>1, <1>3, <2>4, <2>5 DEF IInv, Control, MachineInv, MachineFollows, Beginning
  <2>7. OutInv'
    BY <1>1, <2>4, <2>5 DEF IInv, Control, OutInv, Standing, Segments
  <2>8. disk' \in [{"cleaning", "return_home"} -> Records \cup {NoRecord}] /\ DiskInv'
    <3>1. /\ Types /\ DiskInv /\ ValidRecord(r) /\ r.run <= goal.id
          /\ goal.kind = r.kind /\ Claimed(r) \subseteq covered
          /\ disk' = [disk EXCEPT ![r.kind] = r]
      BY <1>1, <1>3, <2>1, <2>2 DEF IInv, Control, Mission, Goals
    <3>. QED
      BY <1>1, <2>1, <3>1, SavedShape
  <2>9. RecordInv'
    <3>1. r # NoRecord /\ ValidRecord(r) /\ Claimed(r) \subseteq covered'
      BY <1>3, <2>1 DEF Records, NoRecord
    <3>. QED
      BY <1>1, <2>1, <2>4, <3>1 DEF RecordInv, Recovering
  <2>10. ProgressInv'
    <3>1. Driven(worker.lap, Upto)' = {} /\ 0 < r.total
      <4>1. Upto' = 0
        BY <2>4, <2>5 DEF Upto
      <4>2. [r EXCEPT !.lap = 0, !.next = 0] = r
        BY <2>1 DEF Records
      <4>3. r.total # 0 /\ r.total \in Nat
        BY <2>1 DEF Records
      <4>. QED
        BY <2>1, <2>4, <2>5, <4>1, <4>2, <4>3 DEF Driven
    <3>. QED
      BY <1>1, <2>4, <2>5, <3>1 DEF ProgressInv, Beginning, Segments
  <2>11. TourInv' /\ SuccessInv'
    BY <1>1, <2>4 DEF TourInv, SuccessInv
  <2>. QED
    BY <1>1, <1>3, <2>4, <2>6, <2>7, <2>8, <2>9, <2>10, <2>11, ProgressStep DEF Mission
<1>. QED
  BY <1>1, <1>2, <1>3 DEF PlanCleaning, Saving, Saves

LEMMA PlanReturnStep == ASSUME IInv, PlanReturn PROVE IInv'
<1>. DEFINE r == NewRecord("return_home")
            m == Started(NewMachine, 1, 0)
<1>1. /\ worker.at = "plan" /\ goal.kind = "return_home"
      /\ UNCHANGED <<goal, tracker, out, covered>>
  BY DEF PlanReturn, At
<1>2. CASE Fails("CHECKPOINT_SAVE_FAILED") /\ UNCHANGED disk
  BY <1>1, <1>2, SaveFailsStep
<1>3. CASE Fails("RTK_NOT_READY") /\ UNCHANGED disk
  <2>1. "RTK_NOT_READY" \in Faults \ {"MISSION_STATE_ERROR"}
    BY DEF Faults
  <2>. QED
    BY <1>1, <1>3, <2>1, FailsStep
<1>4. CASE /\ ValidRecord(r) /\ disk' = [disk EXCEPT ![r.kind] = r]
           /\ worker' = [[worker EXCEPT !.at = "go", !.machine = m] EXCEPT !.record = r]
           /\ UNCHANGED node
  <2>1. /\ r \in Records /\ Claimed(r) = {} /\ r.run = goal.id /\ r.kind = "return_home"
        /\ r.total = goal.size /\ r.laps = goal.laps /\ r.lap = 0
    BY <1>1, <1>4, NewRecordShape
  <2>2. worker \in Workers /\ goal \in Goals
    BY DEF IInv, Control, Types
  <2>3. /\ m \in Machines /\ m.state = "preparing"
        /\ m.segment = 0 /\ m.total = 1
    BY NewMachineShape
  <2>. HIDE DEF r, m
  <2>4. /\ worker' \in Workers /\ worker'.at = "go" /\ worker'.record = r
        /\ worker'.machine = m /\ worker'.leg = worker.leg
    BY <1>4, <2>1, <2>2, <2>3, IsUnderway DEF Workers
  <2>5. worker.leg = "segment" /\ ~out.safety /\ out.late = 0
    BY <1>1, <2>2 DEF IInv, Control, Mission, ProgressInv, OutInv, Recovering, Looking, Workers
  <2>6. MachineInv'
    BY <1>1, <1>4, <2>3, <2>4 DEF IInv, Control, MachineInv, MachineFollows, Beginning
  <2>7. OutInv'
    BY <1>1, <2>4, <2>5 DEF IInv, Control, OutInv, Standing, Segments
  <2>8. disk' \in [{"cleaning", "return_home"} -> Records \cup {NoRecord}] /\ DiskInv'
    <3>1. /\ Types /\ DiskInv /\ ValidRecord(r) /\ r.run <= goal.id
          /\ goal.kind = r.kind /\ Claimed(r) \subseteq covered
          /\ disk' = [disk EXCEPT ![r.kind] = r]
      BY <1>1, <1>4, <2>1, <2>2 DEF IInv, Control, Mission, Goals
    <3>. QED
      BY <1>1, <2>1, <3>1, SavedShape
  <2>9. RecordInv'
    <3>1. r # NoRecord /\ ValidRecord(r) /\ Claimed(r) \subseteq covered'
      BY <1>4, <2>1 DEF Records, NoRecord
    <3>. QED
      BY <1>1, <2>1, <2>4, <3>1 DEF RecordInv, Recovering
  <2>10. ProgressInv' /\ TourInv' /\ SuccessInv'
    BY <1>1, <2>4, <2>5 DEF ProgressInv, TourInv, SuccessInv, Beginning, Segments
  <2>. QED
    BY <1>1, <1>4, <2>4, <2>6, <2>7, <2>8, <2>9, <2>10, ProgressStep DEF Mission
<1>. QED
  BY <1>1, <1>2, <1>3, <1>4 DEF PlanReturn, Saving, Saves

\* A tour gives out one target after the other, over all its laps, and ends
\* with the last.
LEMMA NextOfTour ==
  ASSUME NEW t, t \in [next : Nat, started : BOOLEAN, laps : Nat],
         goal \in Goals, ValidTour(goal.size, goal.loop),
         ~t.started => t.next = 0 /\ t.laps = 0,
         goal.loop /\ t.started => t.next \in 1 .. goal.size,
         goal.loop /\ goal.laps # 0 => t.laps <= goal.laps
  PROVE  /\ TourGoesOn(t, goal.size, goal.loop, goal.laps) =>
              LET n == AfterNext(t, goal.size, goal.loop)
              IN  /\ n \in [next : Nat, started : BOOLEAN, laps : Nat] /\ n.started
                  /\ goal.loop => n.next \in 1 .. goal.size
                  /\ goal.loop /\ goal.laps # 0 => n.laps <= goal.laps
                  /\ GivenOut(n) = GivenOut(t) + 1
         /\ ~TourGoesOn(t, goal.size, goal.loop, goal.laps) =>
              TourLength(goal.size, goal.loop, goal.laps) <= GivenOut(t)
<1>. DEFINE n == AfterNext(t, goal.size, goal.loop)
            closes == goal.loop /\ t.started /\ t.next >= goal.size
<1>1. /\ goal.size \in Nat \ {0} /\ goal.laps \in Nat /\ goal.loop \in BOOLEAN
      /\ t.next \in Nat /\ t.laps \in Nat /\ t.started \in BOOLEAN
  BY DEF Goals, ValidTour
<1>2. /\ n.next = (IF closes THEN 1 ELSE t.next + 1) /\ n.started
      /\ n.laps = (IF closes THEN t.laps + 1 ELSE t.laps)
      /\ n \in [next : Nat, started : BOOLEAN, laps : Nat]
  BY <1>1 DEF AfterNext
<1>. HIDE DEF n
<1>3. ASSUME TourGoesOn(t, goal.size, goal.loop, goal.laps)
      PROVE  /\ goal.loop => n.next \in 1 .. goal.size
             /\ goal.loop /\ goal.laps # 0 => n.laps <= goal.laps
             /\ GivenOut(n) = GivenOut(t) + 1
  <2>1. CASE ~goal.loop
    BY <1>1, <1>2, <2>1 DEF GivenOut
  <2>2. CASE goal.loop /\ ~t.started
    BY <1>1, <1>2, <2>2 DEF GivenOut, ValidTour
  <2>3. CASE goal.loop /\ t.started /\ t.next < goal.size
    BY <1>1, <1>2, <2>3 DEF GivenOut
  <2>4. CASE closes
    <3>1. t.next = goal.size /\ (goal.laps # 0 => t.laps < goal.laps)
      BY <1>1, <1>3, <2>4 DEF TourGoesOn
    <3>2. (t.laps + 1) * goal.size = t.laps * goal.size + goal.size
      BY <1>1
    <3>. QED
      BY <1>1, <1>2, <2>4, <3>1, <3>2 DEF GivenOut
  <2>. QED
    BY <1>1, <2>1, <2>2, <2>3, <2>4
<1>4. ASSUME ~TourGoesOn(t, goal.size, goal.loop, goal.laps)
      PROVE  TourLength(goal.size, goal.loop, goal.laps) <= GivenOut(t)
  <2>1. CASE ~goal.loop
    BY <1>1, <1>4, <2>1 DEF TourGoesOn, TourLength, GivenOut
  <2>2. CASE goal.loop
    <3>1. t.started /\ goal.laps # 0 /\ t.laps = goal.laps /\ t.next >= 1
      BY <1>1, <1>4, <2>2 DEF TourGoesOn
    <3>2. goal.laps * goal.size \in Nat
      BY <1>1
    <3>. QED
      BY <1>1, <2>2, <3>1, <3>2 DEF TourLength, GivenOut
  <2>. QED
    BY <1>1, <2>1, <2>2
<1>. QED
  BY <1>2, <1>3, <1>4 DEF n

LEMMA PlanWaypointStep == ASSUME IInv, PlanWaypoint PROVE IInv'
<1>. DEFINE t == worker.tour
            n == AfterNext(t, goal.size, goal.loop)
            m == Started(NewMachine, 1, 0)
            goes == TourGoesOn(t, goal.size, goal.loop, goal.laps)
<1>1. /\ worker.at = "plan" /\ goal.kind = "navigate_waypoints"
      /\ UNCHANGED <<goal, node, disk, tracker, out, covered, trouble>>
  BY DEF PlanWaypoint, At
<1>2. worker \in Workers /\ goal \in Goals /\ t \in [next : Nat, started : BOOLEAN, laps : Nat]
  BY DEF IInv, Control, Types, Workers
<1>3. /\ ValidTour(goal.size, goal.loop)
      /\ ~t.started => t.next = 0 /\ t.laps = 0
      /\ goal.loop /\ t.started => t.next \in 1 .. goal.size
      /\ goal.loop /\ goal.laps # 0 => t.laps <= goal.laps
      /\ GivenOut(t) = worker.completed
      /\ \A k \in 0 .. worker.completed - 1 : <<goal.id, k, 0>> \in covered
  BY <1>1 DEF IInv, Control, GoalInv, Mission, TourInv, Beginning
<1>4. ~out.safety /\ out.late = 0 /\ worker.leg = "segment"
      /\ out.motion = "none" /\ ~out.brush
  BY <1>1, <1>2 DEF IInv, Control, Mission, ProgressInv, OutInv, Recovering, Looking,
                    Standing, Workers
<1>5. Mission /\ disk \in [{"cleaning", "return_home"} -> Records \cup {NoRecord}]
  BY DEF IInv, Control, Types
<1>6. CASE goes /\ worker' = [worker EXCEPT !.at = "ensure", !.machine = m, !.tour = n]
  <2>1. /\ n \in [next : Nat, started : BOOLEAN, laps : Nat] /\ n.started
        /\ goal.loop => n.next \in 1 .. goal.size
        /\ goal.loop /\ goal.laps # 0 => n.laps <= goal.laps
        /\ GivenOut(n) = worker.completed + 1
    BY <1>2, <1>3, <1>6, NextOfTour
  <2>2. m \in Machines /\ m.state = "preparing"
    BY NewMachineShape
  <2>. HIDE DEF n, m, t
  <2>3. /\ worker' \in Workers /\ worker'.at = "ensure" /\ worker'.machine = m
        /\ worker'.tour = n /\ worker'.leg = worker.leg /\ worker'.record = worker.record
        /\ worker'.completed = worker.completed
    BY <1>2, <1>6, <2>1, <2>2, IsUnderway DEF Workers
  <2>4. MachineInv'
    BY <1>1, <2>2, <2>3 DEF IInv, Control, MachineInv, MachineFollows, Beginning
  <2>5. OutInv'
    BY <1>1, <1>4, <2>3 DEF OutInv
  <2>6. DiskInv'
    BY <1>1, FilesKept DEF IInv, Control, Mission, DiskInv, SamePlan
  <2>7. RecordInv' /\ ProgressInv' /\ SuccessInv'
    BY <1>1, <1>4, <2>3 DEF IInv, Mission, RecordInv, ProgressInv, SuccessInv, Recovering, Segments,
                            Beginning
  <2>8. TourInv'
    <3>1. GivenOut(worker.tour)' = GivenOut(n)
      BY <1>1, <2>3 DEF GivenOut
    <3>. QED
      BY <1>1, <1>3, <2>1, <2>3, <3>1 DEF TourInv, Beginning
  <2>. QED
    BY <1>1, <1>5, <2>3, <2>4, <2>5, <2>6, <2>7, <2>8, ProgressStep DEF Mission
<1>7. CASE ~goes /\ worker' = Ends(worker, "success")
  <2>1. worker' = [worker EXCEPT !.at = "finish", !.step = "success"]
    BY <1>2, <1>7 DEF Ends, Workers
  <2>2. /\ worker' \in Workers /\ worker'.at = "finish" /\ worker'.machine = worker.machine
        /\ worker'.tour = t /\ worker'.leg = worker.leg /\ worker'.record = worker.record
        /\ worker'.completed = worker.completed
    <3>1. "finish" \in Places
      BY DEF Places
    <3>. QED
      BY <1>2, <2>1, <3>1 DEF Workers
  <2>3. MachineInv'
    BY <1>1, <2>2 DEF IInv, Control, MachineInv, MachineFollows, Beginning
  <2>4. OutInv'
    BY <1>1, <1>4, <2>2 DEF OutInv
  <2>5. DiskInv'
    BY <1>1, <2>2, FilesKept DEF IInv, Control, Mission, DiskInv, SamePlan, Driving
  <2>6. RecordInv' /\ ProgressInv' /\ TourInv'
    BY <1>1, <1>3, <1>4, <2>2
       DEF IInv, Mission, RecordInv, ProgressInv, TourInv, Recovering, Segments, Beginning, Driving
  <2>7. SuccessInv'
    <3>. DEFINE length == TourLength(goal.size, goal.loop, goal.laps)
    <3>1. length <= worker.completed
      BY <1>2, <1>3, <1>7, NextOfTour
    <3>2. length \in Nat /\ worker.completed \in Nat
      BY <1>2 DEF TourLength, Goals, Workers
    <3>. HIDE DEF length
    <3>3. \A k \in 0 .. length - 1 : <<goal.id, k, 0>> \in covered
      BY <1>3, <3>1, <3>2
    <3>4. Asked' = {<<goal.id, k, 0>> : k \in 0 .. length - 1}
      BY <1>1 DEF Asked, Recovering, length
    <3>. QED
      BY <1>1, <3>3, <3>4 DEF SuccessInv
  <2>. QED
    BY <1>1, <1>5, <2>2, <2>3, <2>4, <2>5, <2>6, <2>7, ProgressStep DEF Mission
<1>. QED
  BY <1>6, <1>7 DEF PlanWaypoint

LEMMA WaypointReachedStep == ASSUME IInv, WaypointReached PROVE IInv'
<1>1. /\ worker.at = "advance" /\ goal.kind = "navigate_waypoints"
      /\ worker' = [worker EXCEPT !.at = "plan", !.completed = worker.completed + 1]
      /\ UNCHANGED <<goal, node, disk, tracker, out, covered, trouble>>
  BY DEF WaypointReached, At, IInv, Control, Types, Workers
<1>2. /\ worker \in Workers /\ goal \in Goals
      /\ worker.completed \in Nat /\ worker.completed + 1 \in Nat
  BY DEF IInv, Control, Types, Workers
<1>3. /\ worker' \in Workers /\ worker'.at = "plan" /\ worker'.machine = worker.machine
      /\ worker'.tour = worker.tour /\ worker'.leg = worker.leg
      /\ worker'.record = worker.record /\ worker'.completed = worker.completed + 1
  BY <1>1, <1>2, IsUnderway DEF Workers
<1>4. /\ worker.leg = "segment" /\ ~out.safety /\ out.late = 0 /\ out.motion = "none"
      /\ ~out.brush
  BY <1>1, <1>2 DEF IInv, Control, Mission, ProgressInv, OutInv, Recovering, Looking,
                    Segments, Workers
<1>5. MachineInv'
  BY <1>1, <1>3 DEF IInv, Control, MachineInv, MachineFollows, Segments
<1>6. OutInv'
  BY <1>1, <1>3, <1>4 DEF OutInv
<1>7. DiskInv'
  BY <1>1, FilesKept DEF IInv, Control, Mission, DiskInv, SamePlan
<1>8. RecordInv' /\ ProgressInv' /\ SuccessInv'
  BY <1>1, <1>3, <1>4
     DEF IInv, Mission, RecordInv, ProgressInv, SuccessInv, Recovering, Segments, Driving
<1>9. TourInv'
  <2>1. /\ \A k \in 0 .. worker.completed - 1 : <<goal.id, k, 0>> \in covered
        /\ <<goal.id, worker.completed, 0>> \in covered
        /\ GivenOut(worker.tour) = worker.completed + 1
        /\ ~worker.tour.started => worker.tour.next = 0 /\ worker.tour.laps = 0
        /\ goal.loop /\ worker.tour.started => worker.tour.next \in 1 .. goal.size
        /\ goal.loop /\ goal.laps # 0 => worker.tour.laps <= goal.laps
    BY <1>1 DEF IInv, Mission, TourInv, Driving, Places
  <2>2. \A k \in 0 .. (worker.completed + 1) - 1 :
          k \in 0 .. worker.completed - 1 \/ k = worker.completed
    BY <1>2
  <2>3. GivenOut(worker.tour)' = GivenOut(worker.tour)
    BY <1>1, <1>3 DEF GivenOut
  <2>. QED
    BY <1>1, <1>3, <2>1, <2>2, <2>3 DEF TourInv, Driving, Beginning
<1>. QED
  BY <1>1, <1>3, <1>5, <1>6, <1>7, <1>8, <1>9, ProgressStep DEF IInv, Control, Types, Mission

\* A record with nothing left has all its laps driven; what is left of
\* another begins where the record ends.
LEMMA PlanRecoveryStep == ASSUME IInv, PlanRecovery PROVE IInv'
<1>. DEFINE r == worker.record
            over == r.next >= r.total
            lap == IF over THEN r.lap + 1 ELSE r.lap
            first == IF over THEN 0 ELSE r.next
            replan == (r.kind = "cleaning")
            resumed == [worker EXCEPT !.lap = lap, !.first = first,
                                      !.completed = r.completed, !.replan = replan]
            m == Started(NewMachine, 1, 0)
<1>1. /\ worker.at = "plan" /\ goal.kind = "recover"
      /\ UNCHANGED <<goal, node, disk, tracker, out, covered, trouble>>
  BY DEF PlanRecovery, At, Recovering
<1>2. /\ worker \in Workers /\ goal \in Goals /\ r \in Records /\ ValidRecord(r)
      /\ Claimed(r) \subseteq covered /\ r.run < goal.id
  BY <1>1 DEF IInv, Control, Types, Mission, RecordInv, Recovering, Workers
<1>3. /\ worker.machine.state = "idle" /\ worker.leg = "segment"
      /\ ~out.safety /\ out.late = 0 /\ out.motion = "none" /\ ~out.brush
  BY <1>1, <1>2
     DEF IInv, Control, MachineInv, Mission, ProgressInv, OutInv, Beginning, Segments,
         Looking, Standing, Driving, Workers
<1>4. /\ r.lap \in Nat /\ r.next \in Nat /\ r.total \in Nat /\ r.total # 0 /\ r.laps \in Nat
      /\ r.completed \in Nat /\ r.kind \in {"cleaning", "return_home"}
  BY <1>2 DEF Records
<1>5. lap \in Nat /\ first \in Nat /\ first < r.total /\ replan \in BOOLEAN
  BY <1>4
<1>6. [r EXCEPT !.lap = r.lap, !.next = r.next] = r
  BY <1>2 DEF Records
<1>7. Claimed([r EXCEPT !.lap = lap, !.next = first]) \subseteq covered
  <2>1. CASE over
    BY <1>2, <1>4, <1>6, <2>1, LapDriven
  <2>2. CASE ~over
    BY <1>2, <1>6, <2>2
  <2>. QED
    BY <2>1, <2>2
<1>8. ASSUME worker'.at # "idle", worker'.at \in {"nothing_left", "ensure", "lap"},
             worker' \in Workers, worker'.record = r,
             worker'.machine.state = IF worker'.at = "ensure" THEN "preparing" ELSE "idle",
             worker'.leg = IF worker'.at = "ensure" THEN "transfer" ELSE "segment",
             worker'.at # "nothing_left" => worker'.lap = lap /\ worker'.first = first,
             SuccessInv'
      PROVE  IInv'
  <2>. HIDE DEF r, lap, first, resumed, m
  <2>1. MachineInv'
    BY <1>1, <1>8 DEF IInv, Control, MachineInv, MachineFollows, Beginning
  <2>2. OutInv'
    BY <1>1, <1>3, <1>8 DEF OutInv
  <2>3. DiskInv'
    BY <1>1, FilesKept DEF IInv, Control, Mission, DiskInv, SamePlan
  <2>4. r # NoRecord
    BY <1>2 DEF Records, NoRecord
  <2>5. RecordInv'
    BY <1>1, <1>2, <1>8, <2>4 DEF RecordInv, Recovering
  <2>6. ProgressInv'
    <3>1. worker'.at # "nothing_left" => Upto' = first
      BY <1>8 DEF Upto
    <3>2. worker'.at \in Driving => worker'.at # "nothing_left"
      BY DEF Driving
    <3>3. worker'.at \in Driving => Driven(worker.lap, Upto)' \subseteq covered
      BY <1>7, <1>8, <3>1, <3>2 DEF Driven
    <3>. QED
      BY <1>1, <1>5, <1>8, <3>2, <3>3 DEF ProgressInv, Recovering, Segments, Beginning,
                                          Driving, Places
  <2>7. TourInv'
    BY <1>1 DEF TourInv
  <2>. QED
    BY <1>1, <1>8, <2>1, <2>2, <2>3, <2>5, <2>6, <2>7, ProgressStep
       DEF IInv, Control, Types, Mission
<1>9. CASE r.laps # 0 /\ lap >= r.laps /\ worker' = Goes(worker, "nothing_left")
  <2>1. /\ worker' \in Workers /\ worker'.at = "nothing_left"
        /\ worker'.machine = worker.machine
    <3>1. "nothing_left" \in Places
      BY DEF Places
    <3>. QED
      BY <1>9, <3>1, GoesShape
  <2>2. worker'.record = r /\ worker'.leg = worker.leg
    BY <1>2, <1>9 DEF Goes, Workers
  <2>3. over /\ r.laps = r.lap + 1
    BY <1>2, <1>4, <1>9 DEF ValidRecord
  <2>4. LapsBefore([r EXCEPT !.lap = r.laps]) \subseteq covered
    BY <1>2, <1>4, <1>6, <2>3, LapDriven
  <2>5. Asked' = LapsBefore([r EXCEPT !.lap = r.laps])
    BY <1>1, <2>2 DEF Asked, Recovering
  <2>. QED
    BY <1>1, <1>3, <1>8, <2>1, <2>2, <2>4, <2>5 DEF SuccessInv
<1>10. /\ resumed \in Workers /\ resumed.at = "plan" /\ resumed.record = r
       /\ resumed.machine = worker.machine /\ resumed.leg = worker.leg
       /\ resumed.lap = lap /\ resumed.first = first
  <2>. HIDE DEF lap, first, replan
  <2>. QED
    BY <1>1, <1>2, <1>4, <1>5 DEF Workers
<1>11. m \in Machines /\ m.state = "preparing"
  BY NewMachineShape
<1>12. CASE worker' = [resumed EXCEPT !.at = "ensure", !.leg = "transfer", !.machine = m]
  <2>. HIDE DEF r, lap, first, resumed, m
  <2>1. /\ worker' \in Workers /\ worker'.at = "ensure" /\ worker'.record = r
        /\ worker'.machine = m /\ worker'.leg = "transfer"
        /\ worker'.lap = lap /\ worker'.first = first
    BY <1>10, <1>11, <1>12, IsUnderway DEF Workers
  <2>. QED
    BY <1>8, <1>11, <2>1 DEF SuccessInv
<1>13. CASE worker' = Goes(resumed, "lap")
  <2>. HIDE DEF r, lap, first, resumed, m
  <2>1. /\ worker' \in Workers /\ worker'.at = "lap" /\ worker'.record = r
        /\ worker'.machine = worker.machine /\ worker'.leg = worker.leg
        /\ worker'.lap = lap /\ worker'.first = first
    <3>1. "lap" \in Places
      BY DEF Places
    <3>. QED
      BY <1>10, <1>13, <3>1 DEF Goes, Workers
  <2>. QED
    BY <1>3, <1>8, <2>1 DEF SuccessInv
<1>14. worker' = IF r.laps # 0 /\ lap >= r.laps THEN Goes(worker, "nothing_left")
                 ELSE IF r.kind = "cleaning"
                 THEN [resumed EXCEPT !.at = "ensure", !.leg = "transfer", !.machine = m]
                 ELSE Goes(resumed, "lap")
  BY DEF PlanRecovery
<1>. QED
  BY <1>9, <1>12, <1>13, <1>14

LEMMA ClearedDisk ==
  ASSUME Types, DiskInv, NEW kind \in {"cleaning", "return_home"}, Clear(kind),
         SamePlan, UNCHANGED covered
  PROVE  /\ disk' \in [{"cleaning", "return_home"} -> Records \cup {NoRecord}]
         /\ \A k \in {"cleaning", "return_home"} : FileInv(k)'
<1>1. CASE disk' = disk
  BY <1>1, FilesKept DEF Types
<1>2. CASE disk' = [disk EXCEPT ![kind] = NoRecord]
  <2>1. disk' \in [{"cleaning", "return_home"} -> Records \cup {NoRecord}]
    BY <1>2 DEF Types
  <2>2. ASSUME NEW k \in {"cleaning", "return_home"}
        PROVE  disk'[k] = NoRecord \/ disk'[k] = disk[k]
    BY <1>2 DEF Types
  <2>3. ASSUME NEW k \in {"cleaning", "return_home"} PROVE FileInv(k)'
    BY <2>2 DEF DiskInv, FileInv, SamePlan
  <2>. QED
    BY <2>1, <2>3
<1>. QED
  BY <1>1, <1>2 DEF Clear

LEMMA NothingLeftStep == ASSUME IInv, NothingLeft PROVE IInv'
<1>. DEFINE kind == worker.record.kind
<1>1. /\ worker.at = "nothing_left" /\ Clear(kind)
      /\ goal' = [goal EXCEPT !.status = "succeeded"] /\ worker' = Goes(worker, "reset")
      /\ UNCHANGED <<node, tracker, out, covered>>
  BY DEF NothingLeft, At
<1>2. worker \in Workers /\ goal \in Goals
  BY DEF IInv, Control, Types
<1>3. kind \in {"cleaning", "return_home"}
  <2>1. worker.record # NoRecord
    BY <1>1 DEF IInv, Mission, ProgressInv, RecordInv
  <2>. QED
    BY <1>2, <2>1 DEF Workers, Records
<1>4. goal' \in Goals /\ SamePlan
  BY <1>1, <1>2 DEF Goals, SamePlan
<1>5. /\ worker' \in Workers /\ worker'.at = "reset" /\ worker'.machine = worker.machine
      /\ worker'.step = worker.step
  <2>1. "reset" \in Places
    BY DEF Places
  <2>. QED
    BY <1>1, <2>1, GoesShape
<1>6. SameMission /\ SameStage
  <2>1. SameMission
    BY <1>1, <1>2, <1>4 DEF Goes, Workers, SameMission
  <2>. QED
    BY <1>1, <1>5, <2>1 DEF SameStage
<1>. HIDE DEF kind
<1>7. /\ disk' \in [{"cleaning", "return_home"} -> Records \cup {NoRecord}]
      /\ \A k \in {"cleaning", "return_home"} : FileInv(k)'
  BY <1>1, <1>3, <1>4, ClearedDisk DEF IInv, Control, Mission
<1>8. node.turn = 0 /\ node.tracking = 0
  BY <1>1 DEF IInv, Control, GoalInv
<1>9. Types'
  BY <1>1, <1>4, <1>5, <1>7 DEF IInv, Control, Types
<1>10. GoalInv'
  BY <1>1, <1>4, <1>5, <1>8 DEF IInv, Control, GoalInv, SamePlan
<1>11. MachineInv'
  BY <1>1, <1>5 DEF IInv, Control, MachineInv, MachineFollows, Beginning
<1>12. OutInv'
  BY <1>1, <1>4, <1>5 DEF IInv, Control, OutInv, Standing, Looking, Segments, SamePlan
<1>13. DiskInv'
  BY <1>5, <1>7 DEF DiskInv, Driving
<1>14. RecordInv' /\ ProgressInv' /\ TourInv' /\ SuccessInv'
  BY <1>6, RecordKept, ProgressKept, TourKept, SuccessKept DEF IInv, Control, Mission
<1>15. TrackInv'
  BY <1>1, <1>8 DEF TrackInv
<1>. QED
  BY <1>9, <1>10, <1>11, <1>12, <1>13, <1>14, <1>15 DEF IInv, Control, Mission

LEMMA StartLapStep == ASSUME IInv, StartLap PROVE IInv'
<1>. DEFINE total == worker.record.total
            first == worker.first
            m == Started(worker.machine, total, first)
<1>1. worker.at = "lap" /\ UNCHANGED <<goal, disk, tracker, out, covered, trouble>>
  BY DEF StartLap, At
<1>2. worker.at \in Driving /\ Segments
  BY <1>1 DEF Driving, Places, IInv, Mission, ProgressInv
<1>3. /\ worker \in Workers /\ worker.machine \in Machines
      /\ worker.machine.state \in {"idle", "completed"} /\ first \in Nat
  BY <1>1 DEF IInv, Control, Types, MachineInv, Workers
<1>4. /\ worker.leg = "segment" /\ ~out.safety /\ out.late = 0
  BY <1>1, <1>3 DEF IInv, Control, Mission, ProgressInv, OutInv, Looking, Workers
<1>5. total \in Nat /\ first < total /\ Driven(worker.lap, first) \subseteq covered
  <2>1. worker.record \in Records
    BY <1>2, <1>3 DEF IInv, Mission, RecordInv, Segments, Workers
  <2>. QED
    BY <1>1, <1>2, <1>3, <2>1 DEF Records, IInv, Mission, ProgressInv, Upto
<1>6. MayStart(worker.machine, total, first)
  BY <1>3, <1>5 DEF MayStart, Terminal
<1>7. /\ m \in Machines /\ m.state = "preparing" /\ m.segment = first /\ m.total = total
  BY <1>3, <1>5, <1>6, StartedShape
<1>8. worker' = [worker EXCEPT !.at = "ensure", !.machine = m] /\ UNCHANGED node
  BY <1>3, <1>6 DEF StartLap
<1>. HIDE DEF m
<1>9. /\ worker' \in Workers /\ worker'.at = "ensure" /\ worker'.machine = m
      /\ worker'.leg = worker.leg /\ worker'.first = worker.first /\ worker'.lap = worker.lap
      /\ worker'.completed = worker.completed /\ worker'.record = worker.record
      /\ worker'.tour = worker.tour
  BY <1>3, <1>7, <1>8, IsUnderway DEF Workers
<1>10. MachineInv'
  BY <1>1, <1>7, <1>8, <1>9 DEF IInv, Control, MachineInv, MachineFollows, Beginning
<1>11. OutInv'
  BY <1>1, <1>4, <1>9 DEF IInv, Control, OutInv, Standing, Segments
<1>12. DiskInv'
  BY <1>1, <1>2, FilesKept DEF IInv, Control, Mission, DiskInv, SamePlan
<1>13. RecordInv' /\ TourInv' /\ SuccessInv'
  BY <1>1, <1>2, <1>9
     DEF IInv, Mission, RecordInv, TourInv, SuccessInv, Recovering, Segments
<1>14. ProgressInv'
  <2>1. Driven(worker.lap, Upto)' = Driven(worker.lap, first)
    <3>1. Upto' = first
      BY <1>4, <1>7, <1>9 DEF Upto
    <3>. QED
      BY <1>9, <3>1 DEF Driven
  <2>. QED
    BY <1>1, <1>2, <1>4, <1>5, <1>7, <1>9, <2>1 DEF ProgressInv, Beginning, Segments, Driving, Places
<1>. QED
  BY <1>1, <1>8, <1>9, <1>10, <1>11, <1>12, <1>13, <1>14, ProgressStep
     DEF IInv, Control, Types, Mission

LEMMA TransferDoneStep == ASSUME IInv, TransferDone PROVE IInv'
<1>1. /\ worker.at = "advance" /\ worker.leg = "transfer"
      /\ worker' = [worker EXCEPT !.at = "lap", !.leg = "segment", !.machine = NewMachine]
      /\ UNCHANGED <<goal, node, disk, tracker, out, covered, trouble>>
  BY DEF TransferDone, At
<1>2. worker \in Workers /\ worker.at \in Driving /\ goal.kind = "recover"
  BY <1>1 DEF IInv, Control, Types, Mission, ProgressInv, Recovering, Driving, Places
<1>3. NewMachine \in Machines /\ NewMachine.state = "idle"
  BY NewMachineShape
<1>4. /\ worker' \in Workers /\ worker'.at = "lap" /\ worker'.machine = NewMachine
      /\ worker'.leg = "segment" /\ worker'.first = worker.first /\ worker'.lap = worker.lap
      /\ worker'.record = worker.record
  <2>1. "lap" \in Places
    BY DEF Places
  <2>. QED
    BY <1>1, <1>2, <1>3, <2>1 DEF Workers
<1>5. ~out.safety /\ out.late = 0
  BY <1>1 DEF IInv, Control, OutInv, Looking
<1>6. MachineInv'
  BY <1>1, <1>3, <1>4 DEF IInv, Control, MachineInv, MachineFollows, Beginning
<1>7. OutInv'
  BY <1>1, <1>4, <1>5 DEF IInv, Control, OutInv, Standing, Segments
<1>8. DiskInv'
  BY <1>1, <1>2, FilesKept DEF IInv, Control, Mission, DiskInv, SamePlan
<1>9. RecordInv' /\ TourInv' /\ SuccessInv'
  BY <1>1, <1>2, <1>4 DEF IInv, Mission, RecordInv, TourInv, SuccessInv, Recovering
<1>10. ProgressInv'
  <2>1. Upto = worker.first /\ Upto' = worker.first
    BY <1>1, <1>4 DEF Upto
  <2>2. Driven(worker.lap, Upto)' = Driven(worker.lap, Upto)
    BY <1>4, <2>1 DEF Driven
  <2>. QED
    BY <1>1, <1>2, <1>4, <2>2 DEF IInv, Mission, ProgressInv, Beginning, Segments
<1>. QED
  BY <1>1, <1>4, <1>6, <1>7, <1>8, <1>9, <1>10, ProgressStep
     DEF IInv, Control, Types, Mission

LEMMA HomeReachedStep == ASSUME IInv, HomeReached PROVE IInv'
<1>. DEFINE r == [worker.record EXCEPT !.next = 1, !.completed = 1]
            w == Ends(worker, "success")
<1>1. /\ worker.at = "advance" /\ goal.kind = "return_home"
      /\ UNCHANGED <<goal, tracker, out, covered>>
  BY DEF HomeReached, At
<1>2. CASE Fails("CHECKPOINT_SAVE_FAILED") /\ UNCHANGED disk
  BY <1>1, <1>2, SaveFailsStep
<1>3. CASE /\ ValidRecord(r) /\ disk' = [disk EXCEPT ![r.kind] = r]
           /\ worker' = [w EXCEPT !.record = r] /\ UNCHANGED node
  <2>1. /\ worker \in Workers /\ goal \in Goals /\ worker.at \in Driving
        /\ goal.size = 1 /\ goal.laps = 1
    BY <1>1 DEF IInv, Control, Types, GoalInv, Driving, Places
  <2>2. /\ worker.record \in Records /\ worker.record.run = goal.id
        /\ worker.record.kind = "return_home" /\ worker.record.total = 1
        /\ worker.record.laps = 1 /\ worker.record.lap = 0
    BY <1>1, <2>1 DEF IInv, Mission, RecordInv, Workers
  <2>3. /\ r \in Records /\ r.run = goal.id /\ r.kind = "return_home" /\ r.total = 1
        /\ r.laps = 1 /\ r.lap = 0 /\ r.next = 1
    BY <2>2 DEF Records
  <2>4. w = [worker EXCEPT !.at = "finish", !.step = "success"]
    BY <2>1 DEF Ends, Workers
  <2>5. <<goal.id, 0, 0>> \in covered
    BY <1>1 DEF IInv, Mission, ProgressInv
  <2>. HIDE DEF r, w
  <2>6. Claimed(r) \subseteq covered
    BY <2>3, <2>5 DEF Claimed, LapsBefore
  <2>7. /\ worker' \in Workers /\ worker'.at = "finish" /\ worker'.record = r
        /\ worker'.machine = worker.machine /\ worker'.leg = worker.leg
    <3>1. "finish" \in Places
      BY DEF Places
    <3>. QED
      BY <1>3, <2>1, <2>3, <2>4, <3>1 DEF Workers
  <2>8. ~out.safety /\ out.late = 0
    BY <1>1 DEF IInv, Control, OutInv, Looking
  <2>9. MachineInv'
    BY <1>1, <1>3, <2>7 DEF IInv, Control, MachineInv, MachineFollows, Beginning
  <2>10. OutInv'
    BY <1>1, <2>7, <2>8 DEF IInv, Control, OutInv, Standing, Segments
  <2>11. disk' \in [{"cleaning", "return_home"} -> Records \cup {NoRecord}] /\ DiskInv'
    <3>1. /\ Types /\ DiskInv /\ ValidRecord(r) /\ r.run <= goal.id
          /\ goal.kind = r.kind /\ disk' = [disk EXCEPT ![r.kind] = r]
      BY <1>1, <1>3, <2>1, <2>3 DEF IInv, Control, Mission, Goals
    <3>. QED
      BY <1>1, <2>3, <2>6, <3>1, SavedShape
  <2>12. RecordInv'
    <3>1. r # NoRecord
      BY <2>3 DEF Records, NoRecord
    <3>. QED
      BY <1>1, <1>3, <2>1, <2>3, <2>6, <2>7, <3>1 DEF RecordInv, Recovering
  <2>13. ProgressInv' /\ TourInv'
    BY <1>1, <2>7 DEF IInv, Mission, ProgressInv, TourInv, Recovering, Beginning, Segments, Driving
  <2>14. SuccessInv'
    <3>1. Asked' = {<<goal.id, lap, segment>> : lap \in 0 .. 1 - 1, segment \in 0 .. 1 - 1}
      BY <1>1, <2>1 DEF Asked, Recovering
    <3>2. Asked' \subseteq covered
      BY <2>5, <3>1
    <3>. QED
      BY <1>1, <3>2 DEF SuccessInv
  <2>. QED
    BY <1>1, <1>3, <2>7, <2>9, <2>10, <2>11, <2>12, <2>13, <2>14, ProgressStep DEF Mission
<1>. QED
  BY <1>1, <1>2, <1>3 DEF HomeReached, Saving, Saves

LEMMA SegmentDoneStep == ASSUME IInv, SegmentDone PROVE IInv'
<1>. DEFINE r == SegmentRecord
            place == IF Terminal(worker.machine) THEN "lap_done" ELSE "ensure"
            w == [worker EXCEPT !.at = place, !.completed = worker.completed + 1,
                                !.replan = FALSE]
<1>1. /\ worker.at = "advance" /\ worker.leg = "segment" /\ Segments
      /\ UNCHANGED <<goal, tracker, out, covered>>
  BY DEF SegmentDone, SavesSegment, At, Segments
<1>2. CASE Fails("CHECKPOINT_SAVE_FAILED") /\ UNCHANGED disk
  BY <1>1, <1>2, SaveFailsStep
<1>3. CASE /\ ValidRecord(r) /\ disk' = [disk EXCEPT ![r.kind] = r]
           /\ worker' = [w EXCEPT !.record = r] /\ UNCHANGED node
  <2>1. worker \in Workers /\ goal \in Goals /\ worker.at \in Driving
    BY <1>1 DEF IInv, Control, Types, Driving, Places
  <2>2. /\ worker.record \in Records
        /\ Driven(worker.lap, worker.machine.segment) \subseteq covered
        /\ worker.machine.total = worker.record.total
    BY <1>1, <2>1 DEF IInv, Mission, RecordInv, ProgressInv, Segments, Upto, Workers
  <2>3. /\ worker.machine.state \in {"preparing", "completed"}
        /\ worker.lap \in Nat /\ worker.machine.segment \in Nat
        /\ worker.completed + 1 \in Nat
    BY <1>1, <2>1 DEF IInv, Control, MachineInv, Workers, Machines
  <2>4. /\ r \in Records /\ r.run = worker.record.run /\ r.kind = worker.record.kind
        /\ r.total = worker.record.total /\ r.laps = worker.record.laps
        /\ r.lap = worker.lap /\ r.next = worker.machine.segment
    BY <2>2, <2>3 DEF SegmentRecord, Records
  <2>5. Claimed(r) = Driven(worker.lap, worker.machine.segment)
    BY <2>2, <2>3, <2>4, SameClaim DEF Driven, Records
  <2>6. [r EXCEPT !.lap = worker.lap, !.next = worker.machine.segment] = r
    BY <2>4 DEF Records
  <2>7. /\ place \in Places /\ place \in {"lap_done", "ensure"}
        /\ worker.machine.state = IF place = "lap_done" THEN "completed" ELSE "preparing"
    BY <2>3 DEF Terminal, Places
  <2>. HIDE DEF r, place
  <2>8. /\ worker' \in Workers /\ worker'.at = place /\ worker'.record = r
        /\ worker'.machine = worker.machine /\ worker'.leg = worker.leg
        /\ worker'.lap = worker.lap
    BY <1>3, <2>1, <2>3, <2>4, <2>7 DEF Workers
  <2>9. ~out.safety /\ out.late = 0
    BY <1>1 DEF IInv, Control, OutInv, Looking
  <2>10. MachineInv'
    BY <1>1, <1>3, <2>7, <2>8 DEF IInv, Control, MachineInv, MachineFollows, Beginning
  <2>11. OutInv'
    BY <1>1, <2>7, <2>8, <2>9 DEF IInv, Control, OutInv, Standing, Segments
  <2>12. /\ Recovering => worker.record.run < goal.id
         /\ goal.kind = "cleaning" => worker.record.run = goal.id /\ worker.record.kind = "cleaning"
                                      /\ worker.record.total = goal.size
                                      /\ worker.record.laps = goal.laps
    <3>1. worker.record # NoRecord
      BY <2>2 DEF Records, NoRecord
    <3>. QED
      BY <3>1 DEF IInv, Mission, RecordInv
  <2>13. disk' \in [{"cleaning", "return_home"} -> Records \cup {NoRecord}] /\ DiskInv'
    <3>1. /\ Types /\ DiskInv /\ ValidRecord(r) /\ disk' = [disk EXCEPT ![r.kind] = r]
          /\ Claimed(r) \subseteq covered
      BY <1>3, <2>2, <2>5 DEF IInv, Control, Mission
    <3>2. /\ r.run <= goal.id
          /\ r.run = goal.id => goal.kind = r.kind
          /\ goal.kind \in {"cleaning", "return_home"} => r.run = goal.id
      BY <1>1, <2>1, <2>4, <2>12 DEF Segments, Recovering, Goals, Records
    <3>. QED
      BY <1>1, <2>4, <3>1, <3>2, SavedShape
  <2>14. RecordInv'
    <3>1. r # NoRecord
      BY <2>4 DEF Records, NoRecord
    <3>. QED
      BY <1>1, <1>3, <2>2, <2>4, <2>5, <2>8, <2>12, <3>1 DEF RecordInv, Recovering, Segments
  <2>15. ProgressInv'
    <3>1. Upto' = worker.machine.segment
      BY <1>1, <2>7, <2>8 DEF Upto
    <3>2. Driven(worker.lap, Upto)' = Claimed(r)
      BY <2>6, <2>8, <3>1 DEF Driven
    <3>. QED
      BY <1>1, <2>2, <2>4, <2>5, <2>7, <2>8, <3>2 DEF ProgressInv, Beginning, Segments
  <2>16. TourInv' /\ SuccessInv'
    BY <1>1, <2>7, <2>8 DEF TourInv, SuccessInv, Segments
  <2>. QED
    BY <1>1, <1>3, <2>7, <2>8, <2>10, <2>11, <2>13, <2>14, <2>15, <2>16, ProgressStep DEF Mission
<1>4. Saving(r, w)
  BY DEF SegmentDone, IInv, Control, Types, Workers
<1>. QED
  BY <1>1, <1>2, <1>3, <1>4 DEF Saving, Saves

\* What was asked for is what the laps of the record are.
LEMMA AllLaps ==
  ASSUME IInv, worker.at = "lap_done", LastLap
  PROVE  Asked \subseteq covered
<1>. DEFINE r == worker.record
<1>1. worker \in Workers /\ worker.at \in Driving /\ Segments
  BY DEF IInv, Control, Types, Mission, ProgressInv, Driving, Places
<1>2. r \in Records
  BY <1>1 DEF IInv, Mission, RecordInv, Segments, Workers
<1>3. worker.leg = "segment"
  BY <1>1 DEF IInv, Mission, ProgressInv, Workers
<1>4. /\ worker.machine.segment \in Nat /\ worker.lap \in Nat
      /\ worker.machine.segment >= r.total
      /\ Driven(worker.lap, worker.machine.segment) \subseteq covered
  BY <1>1, <1>3 DEF IInv, Control, MachineInv, Mission, ProgressInv, Upto, Workers, Machines
<1>5. LapsBefore([r EXCEPT !.lap = worker.lap + 1]) \subseteq covered
  BY <1>2, <1>4, LapDriven DEF Driven
<1>6. LapsBefore([r EXCEPT !.lap = r.laps]) \subseteq LapsBefore([r EXCEPT !.lap = worker.lap + 1])
  <2>. DEFINE p == [r EXCEPT !.lap = r.laps]
              q == [r EXCEPT !.lap = worker.lap + 1]
  <2>1. /\ p.run = r.run /\ p.total = r.total /\ p.lap = r.laps
        /\ q.run = r.run /\ q.total = r.total /\ q.lap = worker.lap + 1
        /\ r.laps \in Nat /\ r.laps <= worker.lap + 1
    BY <1>2, <1>4 DEF Records, LastLap
  <2>. HIDE DEF p, q
  <2>2. \A l \in 0 .. r.laps - 1 : l \in 0 .. (worker.lap + 1) - 1
    BY <1>4, <2>1
  <2>3. LapsBefore(p) \subseteq LapsBefore(q)
    BY <2>1, <2>2 DEF LapsBefore
  <2>. QED
    BY <2>3 DEF p, q
<1>7. Asked = LapsBefore([r EXCEPT !.lap = r.laps])
  <2>1. CASE goal.kind = "recover"
    BY <2>1 DEF Asked, Recovering
  <2>2. CASE goal.kind = "cleaning"
    <3>1. r # NoRecord
      BY <1>2 DEF Records, NoRecord
    <3>2. r.run = goal.id /\ r.total = goal.size /\ r.laps = goal.laps
      BY <2>2, <3>1 DEF IInv, Mission, RecordInv
    <3>3. Asked = {<<goal.id, lap, segment>> :
                     lap \in 0 .. goal.laps - 1, segment \in 0 .. goal.size - 1}
      BY <2>2 DEF Asked, Recovering
    <3>. DEFINE p == [r EXCEPT !.lap = r.laps]
    <3>4. p.run = goal.id /\ p.total = goal.size /\ p.lap = goal.laps
      BY <1>2, <3>2 DEF Records
    <3>. HIDE DEF p
    <3>5. Asked = LapsBefore(p)
      BY <3>3, <3>4 DEF LapsBefore
    <3>. QED
      BY <3>5 DEF p
  <2>. QED
    BY <1>1, <2>1, <2>2 DEF Segments
<1>. QED
  BY <1>5, <1>6, <1>7

LEMMA LapDoneStep == ASSUME IInv, LapDone PROVE IInv'
<1>. DEFINE r == LapRecord
<1>1. worker.at = "lap_done" /\ UNCHANGED <<goal, tracker, out, covered>>
  BY DEF LapDone, At
<1>2. worker \in Workers /\ goal \in Goals /\ worker.at \in Driving /\ Segments
  BY <1>1 DEF IInv, Control, Types, Mission, ProgressInv, Driving, Places
<1>3. /\ worker.record \in Records
      /\ worker.leg = "segment" /\ worker.machine.state = "completed"
      /\ ~out.safety /\ out.late = 0
  BY <1>1, <1>2
     DEF IInv, Control, MachineInv, Mission, RecordInv, ProgressInv, OutInv, Looking, Segments,
         Workers
<1>4. CASE Fails("CHECKPOINT_SAVE_FAILED") /\ UNCHANGED disk
  BY <1>1, <1>4, SaveFailsStep
<1>5. CASE LastLap /\ worker' = Ends(worker, "success") /\ UNCHANGED <<node, disk>>
  <2>1. worker' = [worker EXCEPT !.at = "finish", !.step = "success"]
    BY <1>2, <1>5 DEF Ends, Workers
  <2>2. /\ worker' \in Workers /\ worker'.at = "finish" /\ worker'.machine = worker.machine
        /\ worker'.leg = worker.leg /\ worker'.record = worker.record
    <3>1. "finish" \in Places
      BY DEF Places
    <3>. QED
      BY <1>2, <2>1, <3>1 DEF Workers
  <2>3. MachineInv'
    BY <1>1, <1>5, <2>2 DEF IInv, Control, MachineInv, MachineFollows, Beginning
  <2>4. OutInv'
    BY <1>1, <1>3, <2>2 DEF IInv, Control, OutInv, Standing, Segments
  <2>5. DiskInv'
    BY <1>1, <1>5, <2>2, FilesKept DEF IInv, Control, Mission, DiskInv, SamePlan, Driving
  <2>6. RecordInv' /\ ProgressInv' /\ TourInv'
    BY <1>1, <1>2, <1>3, <2>2
       DEF IInv, Mission, RecordInv, ProgressInv, TourInv, Recovering, Beginning, Driving, Segments
  <2>7. SuccessInv'
    <3>1. Asked' = Asked
      BY <1>1, <2>2 DEF Asked, Recovering
    <3>. QED
      BY <1>1, <1>5, <3>1, AllLaps DEF SuccessInv
  <2>. QED
    BY <1>1, <1>5, <2>2, <2>3, <2>4, <2>5, <2>6, <2>7, ProgressStep
       DEF IInv, Control, Types, Mission
<1>6. CASE /\ ValidRecord(r) /\ disk' = [disk EXCEPT ![r.kind] = r] /\ UNCHANGED node
           /\ worker' = [[worker EXCEPT !.at = "lap", !.lap = worker.lap + 1, !.first = 0]
                           EXCEPT !.record = r]
  <2>1. worker.lap \in Nat /\ worker.lap + 1 \in Nat /\ worker.machine.segment \in Nat
    BY <1>2 DEF Workers, Machines
  <2>2. /\ r \in Records /\ r.run = worker.record.run /\ r.kind = worker.record.kind
        /\ r.total = worker.record.total /\ r.laps = worker.record.laps
        /\ r.lap = worker.lap + 1 /\ r.next = 0 /\ r.total \in Nat /\ r.total # 0
    BY <1>3, <2>1 DEF LapRecord, Records
  <2>3. /\ worker.machine.segment >= worker.record.total
        /\ Driven(worker.lap, worker.machine.segment) \subseteq covered
    BY <1>1, <1>2, <1>3 DEF IInv, Control, MachineInv, Mission, ProgressInv, Upto
  <2>4. Claimed(r) \subseteq covered
    BY <1>3, <2>1, <2>3, LapDriven DEF Driven, LapRecord
  <2>5. [r EXCEPT !.lap = worker.lap + 1, !.next = 0] = r
    BY <2>2 DEF Records
  <2>. HIDE DEF r
  <2>6. /\ worker' \in Workers /\ worker'.at = "lap" /\ worker'.record = r
        /\ worker'.machine = worker.machine /\ worker'.leg = worker.leg
        /\ worker'.lap = worker.lap + 1 /\ worker'.first = 0
    <3>1. "lap" \in Places
      BY DEF Places
    <3>. QED
      BY <1>2, <1>6, <2>1, <2>2, <3>1 DEF Workers
  <2>7. MachineInv'
    BY <1>1, <1>3, <1>6, <2>6 DEF IInv, Control, MachineInv, MachineFollows, Beginning
  <2>8. OutInv'
    BY <1>1, <1>3, <2>6 DEF IInv, Control, OutInv, Standing, Segments
  <2>9. /\ Recovering => worker.record.run < goal.id
        /\ goal.kind = "cleaning" => worker.record.run = goal.id /\ worker.record.kind = "cleaning"
                                     /\ worker.record.total = goal.size
                                     /\ worker.record.laps = goal.laps
    <3>1. worker.record # NoRecord
      BY <1>3 DEF Records, NoRecord
    <3>. QED
      BY <3>1 DEF IInv, Mission, RecordInv
  <2>10. disk' \in [{"cleaning", "return_home"} -> Records \cup {NoRecord}] /\ DiskInv'
    <3>1. Types /\ DiskInv
      BY DEF IInv, Control, Mission
    <3>2. /\ r.run <= goal.id
          /\ r.run = goal.id => goal.kind = r.kind
          /\ goal.kind \in {"cleaning", "return_home"} => r.run = goal.id
      BY <1>2, <2>2, <2>9 DEF Segments, Recovering, Goals, Records
    <3>. QED
      BY <1>1, <1>6, <2>2, <2>4, <3>1, <3>2, SavedShape
  <2>11. RecordInv'
    <3>1. r # NoRecord
      BY <2>2 DEF Records, NoRecord
    <3>. QED
      BY <1>1, <1>2, <1>6, <2>2, <2>4, <2>6, <2>9, <3>1 DEF RecordInv, Recovering, Segments
  <2>12. ProgressInv'
    <3>1. Upto' = 0
      BY <2>6 DEF Upto
    <3>2. Driven(worker.lap, Upto)' = Claimed(r)
      BY <2>5, <2>6, <3>1 DEF Driven
    <3>. QED
      BY <1>1, <1>2, <1>3, <2>2, <2>4, <2>6, <3>2 DEF ProgressInv, Beginning, Segments
  <2>13. TourInv' /\ SuccessInv'
    BY <1>1, <1>2, <2>6 DEF TourInv, SuccessInv, Segments
  <2>. QED
    BY <1>1, <1>6, <2>6, <2>7, <2>8, <2>10, <2>11, <2>12, <2>13, ProgressStep DEF Mission
<1>. QED
  BY <1>1, <1>2, <1>4, <1>5, <1>6 DEF LapDone, Saving, Saves, Workers

-----------------------------------------------------------------------------
(* The worker: the end; the loss of everything but the disk.               *)

LEMMA FinishStep == ASSUME IInv, FinishAction PROVE IInv'
<1>. DEFINE status == IF Canceling THEN "canceled" ELSE IF Succeeds THEN "succeeded" ELSE "aborted"
<1>1. /\ worker.at = "finish" /\ goal' = [goal EXCEPT !.status = status]
      /\ worker' = Goes(worker, "reset") /\ tracker' = Released
      /\ UNCHANGED <<node, covered>>
  BY DEF FinishAction, FinishOutputs, At, Releases, Publishes, Released
<1>2. worker \in Workers /\ goal \in Goals /\ tracker \in Trackers /\ out \in Outs
  BY DEF IInv, Control, Types
<1>3. goal' \in Goals /\ SamePlan
  <2>1. status \in {"canceled", "succeeded", "aborted"}
    OBVIOUS
  <2>. HIDE DEF status
  <2>. QED
    BY <1>1, <1>2, <2>1 DEF Goals, SamePlan
<1>4. /\ worker' \in Workers /\ worker'.at = "reset" /\ worker'.machine = worker.machine
  <2>1. "reset" \in Places
    BY DEF Places
  <2>. QED
    BY <1>1, <2>1, GoesShape
<1>5. SameMission /\ SameStage
  <2>1. SameMission
    BY <1>1, <1>2, <1>3 DEF Goes, Workers, SameMission
  <2>. QED
    BY <1>1, <1>4, <2>1 DEF SameStage
<1>6. /\ disk' \in [{"cleaning", "return_home"} -> Records \cup {NoRecord}]
      /\ \A k \in {"cleaning", "return_home"} : FileInv(k)'
  <2>1. CASE disk' = disk
    BY <1>1, <1>3, <2>1, FilesKept DEF IInv, Control, Types, Mission
  <2>2. CASE \E kind \in EndClears : Clear(kind)
    <3>1. EndClears \subseteq {"cleaning", "return_home"}
      <4>1. Recovering => worker.record.kind \in {"cleaning", "return_home"}
        BY <1>1, <1>2 DEF IInv, Mission, RecordInv, Workers, Records
      <4>. QED
        BY <4>1 DEF EndClears
    <3>. QED
      BY <1>1, <1>3, <2>2, <3>1, ClearedDisk DEF IInv, Control, Mission
  <2>. QED
    BY <2>1, <2>2 DEF FinishAction
<1>7. node.turn = 0 /\ node.tracking = 0
  BY <1>1 DEF IInv, Control, GoalInv
<1>8. tracker' \in Trackers /\ tracker'.active = tracker.active
      /\ tracker'.target = tracker.target
  BY <1>1, <1>2 DEF Released, Trackers
<1>9. /\ out' \in Outs /\ out'.motion = "none" /\ ~out'.brush /\ ~out'.safety
      /\ out'.late = out.late
  BY <1>2 DEF FinishAction, FinishOutputs, Stop, Outs
<1>. HIDE DEF status
<1>10. Types'
  BY <1>1, <1>3, <1>4, <1>6, <1>8, <1>9 DEF IInv, Control, Types
<1>11. GoalInv'
  BY <1>1, <1>3, <1>4, <1>7 DEF IInv, Control, GoalInv, SamePlan
<1>12. MachineInv'
  BY <1>1, <1>4 DEF IInv, Control, MachineInv, MachineFollows, Beginning
<1>13. OutInv'
  BY <1>1, <1>4, <1>9 DEF IInv, Control, OutInv, Looking
<1>14. DiskInv'
  BY <1>4, <1>6 DEF DiskInv, Driving
<1>15. RecordInv' /\ ProgressInv' /\ TourInv' /\ SuccessInv'
  BY <1>5, RecordKept, ProgressKept, TourKept, SuccessKept DEF IInv, Control, Mission
<1>16. TrackInv'
  BY <1>1, <1>7 DEF TrackInv
<1>. QED
  BY <1>10, <1>11, <1>12, <1>13, <1>14, <1>15, <1>16 DEF IInv, Control, Mission

LEMMA IdleShape ==
  /\ IdleWorker \in Workers /\ FreshNode \in Nodes /\ FreshTracker \in Trackers
  /\ Quiet \in Outs /\ NoGoal \in Goals
<1>1. IdleWorker \in Workers
  <2>1. "idle" \in Places
    BY DEF Places
  <2>2. FirstOfTour \in [next : Nat, started : BOOLEAN, laps : Nat]
    BY DEF FirstOfTour
  <2>3. NewMachine \in Machines /\ NoRecord \in Records \cup {NoRecord}
    BY NewMachineShape
  <2>4. GuardReset \in {"clear", "asserted", "emitted"}
    BY DEF GuardReset
  <2>. QED
    BY <2>1, <2>2, <2>3, <2>4 DEF IdleWorker, Workers
<1>2. FreshNode \in Nodes
  <2>1. "none" \in Faults
    BY DEF Faults
  <2>. QED
    BY <2>1, ZeroGeneration DEF FreshNode, Nodes
<1>3. FreshTracker \in Trackers
  BY DEF FreshTracker, Trackers
<1>4. Quiet \in Outs /\ NoGoal \in Goals
  BY DEF Quiet, Outs, NoGoal, Goals
<1>. QED
  BY <1>1, <1>2, <1>3, <1>4

\* There is no mission.
LEMMA NobodyDrives ==
  ASSUME worker' = IdleWorker, goal' \in Goals, node' \in Nodes, tracker' \in Trackers,
         tracker'.active => tracker'.target # NoTarget, out' \in Outs,
         disk' \in [{"cleaning", "return_home"} -> Records \cup {NoRecord}],
         goal'.kind = "return_home" => goal'.size = 1 /\ goal'.laps = 1,
         goal'.kind = "navigate_waypoints" => ValidTour(goal'.size, goal'.loop),
         ~node'.active, node'.turn = 0, node'.tracking = 0,
         node'.fault # "MISSION_STATE_ERROR",
         out'.motion = "none", ~out'.brush, ~out'.safety, out'.late = 0,
         \A kind \in {"cleaning", "return_home"} : FileInv(kind)'
  PROVE  IInv'
<1>1. /\ worker' \in Workers /\ worker'.at = "idle" /\ worker'.record = NoRecord
      /\ worker'.leg = "segment" /\ worker'.completed = 0 /\ worker'.machine = NewMachine
      /\ worker'.tour = FirstOfTour
  BY IdleShape DEF IdleWorker
<1>2. Types'
  BY <1>1 DEF Types
<1>3. GoalInv'
  BY <1>1 DEF GoalInv
<1>4. MachineInv'
  BY <1>1, NewMachineShape DEF MachineInv, MachineFollows, Beginning
<1>5. OutInv'
  BY <1>1 DEF OutInv
<1>6. DiskInv'
  BY <1>1 DEF DiskInv, Driving
<1>7. RecordInv' /\ ProgressInv' /\ SuccessInv' /\ TrackInv'
  BY <1>1 DEF RecordInv, ProgressInv, SuccessInv, TrackInv, Driving, Beginning
<1>8. TourInv'
  BY <1>1 DEF TourInv, FirstOfTour, Driving, Beginning, Types, Goals
<1>. QED
  BY <1>2, <1>3, <1>4, <1>5, <1>6, <1>7, <1>8 DEF IInv, Control, Mission

LEMMA ResetStep == ASSUME IInv, Reset PROVE IInv'
<1>. DEFINE c == Cleared(node)
<1>1. /\ worker.at = "reset" /\ worker' = IdleWorker /\ out' = [out EXCEPT !.late = 0]
      /\ node' = [c EXCEPT !.active = FALSE, !.preflight = FALSE, !.pause = FALSE, !.edge = FALSE]
      /\ UNCHANGED <<goal, disk, tracker, covered, trouble>>
  BY DEF Reset, At
<1>2. c \in Nodes /\ c.turn = 0 /\ c.tracking = 0 /\ c.fault # "MISSION_STATE_ERROR"
  BY ClearedShape DEF IInv, Control, Types, MachineInv, MachineFollows
<1>. HIDE DEF c
<1>3. /\ node' \in Nodes /\ ~node'.active /\ node'.turn = 0 /\ node'.tracking = 0
      /\ node'.fault # "MISSION_STATE_ERROR"
  BY <1>1, <1>2 DEF Nodes
<1>4. /\ out' \in Outs /\ out'.motion = "none" /\ ~out'.brush /\ ~out'.safety
      /\ out'.late = 0
  BY <1>1 DEF IInv, Control, Types, OutInv, Standing, Outs
<1>5. \A kind \in {"cleaning", "return_home"} : FileInv(kind)'
  BY <1>1, FilesKept DEF IInv, Control, Mission, SamePlan
<1>. QED
  BY <1>1, <1>3, <1>4, <1>5, NobodyDrives DEF IInv, Control, Types, GoalInv

LEMMA CrashStep == ASSUME IInv, Crash PROVE IInv'
<1>1. /\ goal' = [goal EXCEPT !.status = "lost"] /\ node' = FreshNode
      /\ worker' = IdleWorker /\ tracker' = FreshTracker /\ out' = Quiet
      /\ UNCHANGED <<disk, covered>>
  BY DEF Crash
<1>2. goal' \in Goals /\ SamePlan
  BY <1>1 DEF IInv, Control, Types, Goals, SamePlan
<1>3. \A kind \in {"cleaning", "return_home"} : FileInv(kind)'
  BY <1>1, <1>2, FilesKept DEF IInv, Control, Mission
<1>4. /\ ~node'.active /\ node'.turn = 0 /\ node'.tracking = 0 /\ node'.fault = "none"
      /\ ~tracker'.active
      /\ out'.motion = "none" /\ ~out'.brush /\ ~out'.safety /\ out'.late = 0
  BY <1>1 DEF FreshNode, FreshTracker, Quiet
<1>. QED
  BY <1>1, <1>2, <1>3, <1>4, IdleShape, NobodyDrives DEF IInv, Control, Types, GoalInv, SamePlan

-----------------------------------------------------------------------------
(* A mission begins.                                                       *)

LEMMA SentShape ==
  ASSUME goal \in Goals, NEW plan \in GoalsSent
  PROVE  /\ plan \in [kind : Kinds, size : Nat, loop : BOOLEAN, laps : Nat]
         /\ plan.kind = "return_home" => plan.size = 1 /\ plan.laps = 1
<1>1. goal.id + 1 \in DOMAIN Plans /\ plan \in Plans[goal.id + 1]
  BY PlanAssumption DEF GoalsSent, Goals
<1>2. Plans[goal.id + 1] \subseteq [kind : Kinds, size : Nat, loop : BOOLEAN, laps : Nat]
  BY <1>1, PlanAssumption
<1>. QED
  BY <1>1, <1>2, PlanAssumption

\* The record that is recovered is of a run before.
LEMMA BeginsStep ==
  ASSUME IInv, NEW plan \in GoalsSent, NEW record \in Records \cup {NoRecord},
         plan.kind = "navigate_waypoints" => ValidTour(plan.size, plan.loop),
         plan.kind = "recover" <=> record # NoRecord,
         record # NoRecord =>
           ValidRecord(record) /\ Claimed(record) \subseteq covered /\ record.run <= goal.id,
         Begins(plan, record)
  PROVE  IInv'
<1>1. /\ worker.at = "idle"
      /\ goal' = [id |-> goal.id + 1, kind |-> plan.kind, size |-> plan.size,
                  loop |-> plan.loop, laps |-> plan.laps, status |-> "executing"]
      /\ node' = [node EXCEPT !.active = TRUE, !.preflight = FALSE, !.pause = FALSE,
                              !.edge = FALSE, !.fault = "none", !.turn = 0, !.turned = "none",
                              !.tracking = 0, !.heard = FALSE]
      /\ worker' = [IdleWorker EXCEPT !.at = "launch", !.record = record]
      /\ UNCHANGED <<disk, tracker, out, covered, trouble>>
  BY DEF Begins
<1>2. goal \in Goals /\ node \in Nodes /\ goal.id \in Nat
  BY DEF IInv, Control, Types, Goals
<1>3. plan \in [kind : Kinds, size : Nat, loop : BOOLEAN, laps : Nat]
      /\ (plan.kind = "return_home" => plan.size = 1 /\ plan.laps = 1)
  BY <1>2, SentShape
<1>4. /\ goal' \in Goals /\ goal'.id = goal.id + 1 /\ goal'.kind = plan.kind
      /\ goal'.kind \in Kinds
      /\ goal'.size = plan.size /\ goal'.loop = plan.loop /\ goal'.laps = plan.laps
  BY <1>1, <1>2, <1>3 DEF Goals
<1>5. /\ node' \in Nodes /\ node'.active /\ node'.turn = 0 /\ node'.tracking = 0
      /\ node'.fault = "none"
  <2>1. "none" \in Faults
    BY DEF Faults
  <2>. QED
    BY <1>1, <1>2, <2>1, ZeroGeneration DEF Nodes
<1>6. /\ worker' \in Workers /\ worker'.at = "launch" /\ worker'.record = record
      /\ worker'.leg = "segment" /\ worker'.completed = 0 /\ worker'.machine = NewMachine
      /\ worker'.lap = 0 /\ worker'.first = 0 /\ worker'.tour = FirstOfTour
  <2>1. /\ IdleWorker.leg = "segment" /\ IdleWorker.completed = 0
        /\ IdleWorker.machine = NewMachine /\ IdleWorker.lap = 0 /\ IdleWorker.first = 0
        /\ IdleWorker.tour = FirstOfTour
    BY DEF IdleWorker
  <2>. QED
    BY <1>1, <2>1, IdleShape, IsUnderway DEF Workers
<1>7. out.motion = "none" /\ ~out.brush /\ ~out.safety /\ out.late = 0
  BY <1>1 DEF IInv, Control, OutInv, Standing, Looking
<1>8. Types'
  BY <1>1, <1>4, <1>5, <1>6 DEF IInv, Control, Types
<1>9. GoalInv'
  BY <1>2, <1>3, <1>4, <1>5, <1>6 DEF GoalInv
<1>10. MachineInv'
  BY <1>5, <1>6, NewMachineShape DEF MachineInv, MachineFollows, Beginning
<1>11. OutInv'
  BY <1>1, <1>6, <1>7 DEF OutInv
<1>12. DiskInv'
  <2>1. ASSUME NEW kind \in {"cleaning", "return_home"} PROVE FileInv(kind)'
    <3>1. FileInv(kind)
      BY DEF IInv, Mission, DiskInv
    <3>2. disk[kind] # NoRecord => disk[kind].run \in Nat
      BY DEF IInv, Control, Types, Records
    <3>. QED
      BY <1>1, <1>2, <1>4, <3>1, <3>2 DEF FileInv
  <2>. QED
    BY <1>6, <2>1 DEF DiskInv, Driving
<1>13. RecordInv'
  <2>1. record # NoRecord => record.run \in Nat
    BY DEF Records
  <2>. QED
    BY <1>1, <1>2, <1>4, <1>6, <2>1 DEF RecordInv, Recovering, Driving, Kinds
<1>14. ProgressInv' /\ SuccessInv' /\ TrackInv'
  BY <1>5, <1>6 DEF ProgressInv, SuccessInv, TrackInv, Driving
<1>15. TourInv'
  BY <1>4, <1>6 DEF TourInv, FirstOfTour, GivenOut, Driving, Goals
<1>. QED
  BY <1>8, <1>9, <1>10, <1>11, <1>12, <1>13, <1>14, <1>15 DEF IInv, Control, Mission

LEMMA RecoverableShape ==
  ASSUME IInv, NEW wanted, Recoverable(wanted) # NoRecord
  PROVE  /\ Recoverable(wanted) \in Records /\ ValidRecord(Recoverable(wanted))
         /\ Claimed(Recoverable(wanted)) \subseteq covered
         /\ Recoverable(wanted).run <= goal.id
<1>1. \E kind \in {"cleaning", "return_home"} :
        Recoverable(wanted) = disk[kind] /\ disk[kind] # NoRecord
  BY DEF Recoverable, Loaded
<1>. QED
  BY <1>1 DEF IInv, Control, Types, Mission, DiskInv, FileInv

LEMMA AcceptSteps ==
  ASSUME IInv, NEW plan \in GoalsSent,
         \/ AcceptCleaning(plan) \/ AcceptWaypoints(plan) \/ AcceptReturnHome(plan)
         \/ \E wanted \in RunIds : AcceptRecover(plan, wanted)
  PROVE  IInv'
<1>1. CASE AcceptCleaning(plan) \/ AcceptWaypoints(plan) \/ AcceptReturnHome(plan)
  BY <1>1, BeginsStep DEF AcceptCleaning, AcceptWaypoints, AcceptReturnHome
<1>2. CASE \E wanted \in RunIds : AcceptRecover(plan, wanted)
  BY <1>2, RecoverableShape, BeginsStep DEF AcceptRecover
<1>. QED
  BY <1>1, <1>2

-----------------------------------------------------------------------------
(* All together.                                                           *)

LEMMA InitInv == ASSUME Init PROVE IInv
<1>1. /\ worker = IdleWorker /\ goal = NoGoal /\ node = FreshNode /\ tracker = FreshTracker
      /\ out = Quiet /\ covered = {}
  BY DEF Init
<1>2. disk \in [{"cleaning", "return_home"} -> Records \cup {NoRecord}]
      /\ \A kind \in {"cleaning", "return_home"} : disk[kind] = NoRecord
  <2>1. disk \in [cleaning : Records \cup {NoRecord}, return_home : Records \cup {NoRecord}]
    BY DEF Init
  <2>2. disk["cleaning"] = NoRecord /\ disk["return_home"] = NoRecord
    BY DEF Init
  <2>. QED
    BY <2>1, <2>2
<1>3. /\ worker \in Workers /\ worker.at = "idle" /\ worker.record = NoRecord
      /\ worker.leg = "segment" /\ worker.completed = 0 /\ worker.machine = NewMachine
      /\ worker.tour = FirstOfTour
  BY <1>1, IdleShape DEF IdleWorker
<1>4. /\ goal \in Goals /\ goal.kind = "idle" /\ node \in Nodes /\ ~node.active
      /\ node.turn = 0 /\ node.tracking = 0 /\ node.fault = "none"
  BY <1>1, IdleShape DEF NoGoal, FreshNode
<1>5. /\ tracker \in Trackers /\ ~tracker.active
      /\ out \in Outs /\ out.motion = "none" /\ ~out.brush /\ ~out.safety /\ out.late = 0
  BY <1>1, IdleShape DEF FreshTracker, Quiet
<1>6. Control
  BY <1>2, <1>3, <1>4, <1>5, NewMachineShape
     DEF Control, Types, GoalInv, MachineInv, MachineFollows, OutInv, Beginning
<1>7. Mission
  BY <1>2, <1>3, <1>4
     DEF Mission, DiskInv, FileInv, RecordInv, ProgressInv, TourInv, SuccessInv, Driving, Beginning,
         Recovering
<1>8. TrackInv
  BY <1>4 DEF TrackInv
<1>. QED
  BY <1>6, <1>7, <1>8 DEF IInv

LEMMA WorkerStep == ASSUME IInv, Worker PROVE IInv'
BY LaunchStep, PreflightStep, PlanCleaningStep, PlanWaypointStep, PlanReturnStep,
   PlanRecoveryStep, NothingLeftStep, StartLapStep, EnsureSteps, GoStep, AwaitTurnStep,
   TrackStep, AwaitTrackStep, SleepsAgainStep, ResumesStep, RtkWaitEndsStep,
   TransferDoneStep, WaypointReachedStep, HomeReachedStep, SegmentDoneStep, LapDoneStep,
   FinishStep, ResetStep DEF Worker

LEMMA StepInv == ASSUME IInv, [Next]_vars PROVE IInv'
<1>1. CASE UNCHANGED vars
  <2>1. UNCHANGED <<goal, node, worker, disk, tracker, out, covered>>
    BY <1>1 DEF vars
  <2>. QED
    BY <2>1, RosStep DEF IInv, Control, Types, SamePlan, MachineInv, MachineFollows
<1>2. ASSUME Next PROVE IInv'
  BY <1>2, AcceptSteps, GoalSteps, NodeSteps, StatusStep, WorkerStep, ConfigureTrackingStep,
     TargetStep, ApproachStep, RtkInvalidStep, CrashStep DEF Next
<1>. QED
  BY <1>1, <1>2

\* The invariant holds whatever the plans, however many the missions and the
\* troubles.
THEOREM Inductive == Spec => []IInv
<1>. QED
  BY InitInv, StepInv, PTL DEF Spec

-----------------------------------------------------------------------------
(* The properties.                                                         *)

\* The values have their types, an active mission has a worker somewhere, and
\* only its turn and its straight wait for a report (onAccepted,
\* resetRuntimeAfterWorker, executeTurn, executeTracking).
THEOREM TypeCorrect == Spec => []TypeOK
<1>1. IInv => TypeOK
  <2>1. IInv => \A kind \in DOMAIN disk : disk[kind] # NoRecord => ValidRecord(disk[kind])
    BY DEF IInv, Control, Types, Mission, DiskInv, FileInv
  <2>. QED
    BY <2>1 DEF IInv, Control, Types, Goals, Workers, GoalInv, TypeOK
<1>. QED
  BY <1>1, Inductive, PTL

\* No record on the disk claims a segment that was not driven to its end or
\* given up: a late report of an earlier target is told from one of the
\* target that is waited for, because the generations of the targets and
\* reports still on their way are never taken again (executeTracking,
\* onTrackingStatus, saveCheckpoint).
THEOREM CheckpointsAreTrue == Spec => []ProgressIsReal
<1>1. Claimed(NoRecord) = {}
  BY DEF Claimed
<1>2. IInv => ProgressIsReal
  BY <1>1 DEF IInv, Control, Types, Mission, DiskInv, FileInv, ProgressIsReal
<1>. QED
  BY <1>2, Inductive, PTL

\* A mission ends as a success only when all it was asked for was covered, in
\* this run or before its recovery (finishAction and the other finish methods):
\* driven to its end, or given up for an early contact with the edge.
THEOREM SuccessMeansDriven == Spec => SuccessIsComplete
<1>1. IInv /\ [Next]_vars
      => [goal.status # "succeeded" /\ goal'.status = "succeeded" => Asked \subseteq covered]_vars
  <2>1. ASSUME IInv, Next, goal.status # "succeeded", goal'.status = "succeeded"
        PROVE  worker.at = "nothing_left" \/ (worker.at = "finish" /\ worker.step = "success")
    <3>1. goal \in Goals
      BY <2>1 DEF IInv, Control, Types
    <3>2. CASE NothingLeft
      BY <3>2 DEF NothingLeft, At
    <3>3. CASE FinishAction
      <4>1. goal'.status = IF Canceling THEN "canceled"
                           ELSE IF Succeeds THEN "succeeded" ELSE "aborted"
        BY <3>1, <3>3 DEF FinishAction, Goals
      <4>. QED
        BY <2>1, <3>3, <4>1 DEF FinishAction, At, Succeeds
    <3>4. ASSUME \E plan \in GoalsSent :
                   \/ AcceptCleaning(plan) \/ AcceptWaypoints(plan) \/ AcceptReturnHome(plan)
                   \/ \E wanted \in RunIds : AcceptRecover(plan, wanted)
          PROVE  FALSE
      <4>1. \E plan \in GoalsSent : \E record : Begins(plan, record)
        BY <3>4 DEF AcceptCleaning, AcceptWaypoints, AcceptReturnHome, AcceptRecover
      <4>2. goal'.status = "executing"
        BY <4>1 DEF Begins
      <4>. QED
        BY <2>1, <4>2
    <3>5. ASSUME RequestCancel \/ BecomesCanceling \/ Crash PROVE FALSE
      BY <2>1, <3>1, <3>5 DEF RequestCancel, BecomesCanceling, Crash, Goals
    <3>6. ASSUME UNCHANGED goal PROVE FALSE
      BY <2>1, <3>6
    <3>7. Worker => NothingLeft \/ FinishAction \/ UNCHANGED goal
      BY DEF Worker, Launch, Preflight, PlanCleaning, PlanWaypoint, PlanReturn, PlanRecovery,
             StartLap, Ensure, Go, Turning, AwaitTurn, Track, Tracking, AwaitTrack,
             SleepsAgain, Resumes, RtkWaitEnds, TransferDone, WaypointReached, HomeReached,
             SegmentDone, LapDone, Reset, EnsureOperational
    <3>8. \/ Configure \/ Pause \/ Resume \/ OnFinalCommand \/ OnTrackingStatus
          \/ \E enable \in BOOLEAN : SetMaintenance(enable)
          \/ \E valid \in BOOLEAN : OnRtkFix(valid)
          \/ \E ok \in BOOLEAN : OnHardwareStatus(ok)
          \/ \E sensor \in {"rtk", "hardware"} : GoesStale(sensor)
          \/ \E state \in {"completed", "failed"} : OnCommandStatus(state)
          \/ ConfigureTracking \/ OnTarget \/ ReportsRtkInvalid
          \/ \E code \in {"running", "near", "finished"} : Approaches(code)
          => UNCHANGED goal
      BY DEF Configure, Pause, Resume, OnFinalCommand, OnTrackingStatus, SetMaintenance,
             OnRtkFix, OnHardwareStatus, GoesStale, OnCommandStatus, ConfigureTracking,
             OnTarget, ReportsRtkInvalid, Approaches
    <3>. QED
      BY <2>1, <3>2, <3>3, <3>4, <3>5, <3>6, <3>7, <3>8 DEF Next
  <2>. QED
    BY <2>1 DEF IInv, Mission, SuccessInv, vars
<1>. QED
  BY <1>1, Inductive, PTL DEF Spec, SuccessIsComplete

\* Whoever waits stands: nothing the worker ordered is in force while it
\* waits or while there is no mission, and its brake is in force only during
\* the wait for the position (publishStoppedOutputs, waitForRtkRecovery).
THEOREM WaitsStopped == Spec => []WaitingIsStopped
<1>1. IInv => WaitingIsStopped
  BY DEF IInv, Control, OutInv, Standing, WaitingIsStopped
<1>. QED
  BY <1>1, Inductive, PTL

\* One order at most is given after a pause request: the one the worker was
\* about to give when the request found it (onSetPause, ensureOperational).
THEOREM PausesPromptly == Spec => []PauseIsPrompt
<1>1. IInv => PauseIsPrompt
  BY DEF IInv, Control, Types, Outs, OutInv, PauseIsPrompt
<1>. QED
  BY <1>1, Inductive, PTL

\* The state machine follows the worker through all its waits, restarts and
\* laps, and refuses none of its steps (MissionStateMachine::start and
\* begin_tracking).
THEOREM MachineNeverRefuses == Spec => []MachineFollows
<1>1. IInv => MachineFollows
  BY DEF IInv, Control, MachineInv
<1>. QED
  BY <1>1, Inductive, PTL

\* Whenever a crash comes, the record of the run that is being driven is on
\* the disk and is the one that is found (saveCheckpoint,
\* loadRecoveryCheckpoint).
THEOREM DrivenCanBeRecovered == Spec => []DrivenIsRecoverable
<1>1. ASSUME IInv, worker.at \in Driving, goal.kind \in {"cleaning", "return_home"}
      PROVE  Recoverable(goal.id) # NoRecord /\ Recoverable(goal.id).kind = goal.kind
  <2>1. /\ disk[goal.kind] # NoRecord /\ disk[goal.kind].run = goal.id
        /\ \A kind \in {"cleaning", "return_home"} : disk[kind] # NoRecord =>
             /\ ValidRecord(disk[kind]) /\ disk[kind].kind = kind
             /\ disk[kind].run = goal.id => goal.kind = kind
    BY <1>1 DEF IInv, Mission, DiskInv, FileInv
  <2>2. goal.id # 0
    BY <1>1 DEF IInv, Control, GoalInv, Types, Goals, Driving
  <2>3. CASE goal.kind = "return_home"
    BY <2>1, <2>3 DEF Recoverable, Loaded
  <2>4. CASE goal.kind = "cleaning"
    <3>1. disk["return_home"] # NoRecord => disk["return_home"].run # goal.id
      BY <2>1, <2>4
    <3>. QED
      BY <2>1, <2>2, <2>4, <3>1 DEF Recoverable, Loaded
  <2>. QED
    BY <1>1, <2>3, <2>4
<1>2. IInv => DrivenIsRecoverable
  BY <1>1 DEF DrivenIsRecoverable
<1>. QED
  BY <1>2, Inductive, PTL
=============================================================================
