---------------------------- MODULE MissionManager ----------------------------
(***************************************************************************)
(* MissionManagerNode: the ROS thread answers goals, services and messages *)
(* under the mutex; a worker thread drives the accepted mission and looks  *)
(* at what the callbacks left behind between its steps.  Beside it is the  *)
(* tracking node, which is told the current target and reports the end of  *)
(* it, and the disk, which outlives a crash.                               *)
(*                                                                         *)
(* run, lap and segment name what is driven; covered is a history of what  *)
(* the vehicle has really driven to the end, whatever the worker believes. *)
(***************************************************************************)
EXTENDS MissionMachine, MissionPlan, MissionCheckpoint, Sequences

CONSTANTS
  Plans,        \* bound: the goals [kind, size, loop, laps] that may be sent
                \* as the first mission, as the second, ...
  MaxTrouble    \* bound: pauses, losses, failures, early contacts, cancels and crashes

Kinds == {"cleaning", "navigate_waypoints", "return_home", "recover"}

ASSUME PlanAssumption ==
  /\ Plans \in Seq(SUBSET [kind : Kinds, size : Nat, loop : BOOLEAN, laps : Nat])
  /\ \A n \in DOMAIN Plans : \A plan \in Plans[n] :
       plan.kind = "return_home" => plan.size = 1 /\ plan.laps = 1  \* one way, driven once
  /\ MaxTrouble \in Nat

VARIABLES
  goal,      \* the goal handle of the last goal accepted
  node,      \* the members guarded by mutex_
  worker,    \* the worker thread: where it is, its machine and its plan
  disk,      \* the two checkpoint files
  tracker,   \* the tracking node, the target on its way, the reports back
  out,       \* what the node's last outputs left in force
  covered,   \* history: <<run, lap, segment>> driven to the end, or given up early
  trouble    \* bound: troubles so far

vars == <<goal, node, worker, disk, tracker, out, covered, trouble>>

-----------------------------------------------------------------------------
NoTarget == [generation |-> 0, mark |-> <<0, 0, 0>>]
NoGoal == [id |-> 0, kind |-> "idle", size |-> 0, loop |-> FALSE, laps |-> 0,
           status |-> "none"]

FreshNode ==
  [configured |-> FALSE, active |-> FALSE, preflight |-> FALSE, pause |-> FALSE,
   edge |-> FALSE, fault |-> "none", closed |-> FALSE, rtk |-> FALSE, hardware |-> FALSE,
   turn |-> 0, turned |-> "none", tracking |-> 0, tracked |-> "none", heard |-> FALSE,
   woken |-> TRUE]

IdleWorker ==
  [at |-> "idle", back |-> "none", leg |-> "segment", machine |-> NewMachine,
   first |-> 0, lap |-> 0, completed |-> 0, record |-> NoRecord, replan |-> FALSE,
   tour |-> FirstOfTour, guard |-> GuardReset, step |-> "success"]

FreshTracker ==
  [configured |-> FALSE, active |-> FALSE, target |-> NoTarget, at |-> "new",
   topic |-> NoTarget, pending |-> FALSE, reports |-> <<>>]

Quiet == [motion |-> "none", brush |-> FALSE, safety |-> FALSE, late |-> 0]

Init ==
  /\ goal = NoGoal
  /\ node = FreshNode
  /\ worker = IdleWorker
  /\ disk = [cleaning |-> NoRecord, return_home |-> NoRecord]
  /\ tracker = FreshTracker
  /\ out = Quiet
  /\ covered = {}
  /\ trouble = 0

Trouble == trouble < MaxTrouble /\ trouble' = trouble + 1
Canceling == goal.status = "canceling"

-----------------------------------------------------------------------------
(* The ROS thread.  A cancel request is two steps of it: onCancel, and the  *)
(* change of the goal's state by the action server afterwards.              *)
RosFree == goal.status # "accepting_cancel"
Woken(n) == [n EXCEPT !.woken = TRUE]
FaultIn(n, code) == [n EXCEPT !.fault = IF @ = "none" THEN code ELSE @]

Configure ==
  /\ RosFree /\ ~node.configured
  /\ node' = [node EXCEPT !.configured = TRUE]
  /\ UNCHANGED <<goal, worker, disk, tracker, out, covered, trouble>>

\* loadRecoveryCheckpoint: a return comes first, unless a run is asked for.
Recoverable(wanted) ==
  LET home == Loaded(disk.return_home)
      cleaning == Loaded(disk.cleaning)
      Fits(r) == r # NoRecord /\ wanted \in {0, r.run}
  IN  IF Fits(home) THEN home ELSE IF Fits(cleaning) THEN cleaning ELSE NoRecord

AdmissionOpen == node.configured /\ ~node.closed /\ ~node.active

\* onGoal and onAccepted follow one another on the ROS thread; the latter
\* joins the worker of the mission before.
Begins(plan, record) ==
  /\ RosFree /\ AdmissionOpen /\ worker.at = "idle" /\ goal.id < Len(Plans)
  /\ goal' = [id |-> goal.id + 1, kind |-> plan.kind, size |-> plan.size,
              loop |-> plan.loop, laps |-> plan.laps, status |-> "executing"]
  /\ node' = [node EXCEPT !.active = TRUE, !.preflight = FALSE, !.pause = FALSE,
                          !.edge = FALSE, !.fault = "none", !.turn = 0, !.turned = "none",
                          !.tracking = 0, !.heard = FALSE]
  /\ worker' = [IdleWorker EXCEPT !.at = "launch", !.record = record]
  /\ UNCHANGED <<disk, tracker, out, covered, trouble>>

AcceptCleaning(plan) ==
  plan.kind = "cleaning" /\ plan.size > 0 /\ Begins(plan, NoRecord)
AcceptWaypoints(plan) ==
  /\ plan.kind = "navigate_waypoints" /\ ValidTour(plan.size, plan.loop)
  /\ Begins(plan, NoRecord)
AcceptReturnHome(plan) ==
  plan.kind = "return_home" /\ Begins(plan, NoRecord)
AcceptRecover(plan, wanted) ==
  /\ plan.kind = "recover" /\ Recoverable(wanted) # NoRecord
  /\ Begins(plan, Recoverable(wanted))

\* onCancel notifies the worker before the goal is canceling.
RequestCancel ==
  /\ goal.status = "executing" /\ Trouble
  /\ goal' = [goal EXCEPT !.status = "accepting_cancel"]
  /\ node' = Woken(node)
  /\ UNCHANGED <<worker, disk, tracker, out, covered>>

BecomesCanceling ==
  /\ goal.status = "accepting_cancel"
  /\ goal' = [goal EXCEPT !.status = "canceling"]
  /\ UNCHANGED <<node, worker, disk, tracker, out, covered, trouble>>

\* onSetPause.
Pause ==
  /\ RosFree /\ node.active /\ ~node.pause /\ Trouble
  /\ node' = Woken([node EXCEPT !.pause = TRUE])
  /\ UNCHANGED <<goal, worker, disk, tracker, out, covered>>

Resume ==
  /\ RosFree /\ node.active /\ node.pause
  /\ node' = Woken([node EXCEPT !.pause = FALSE, !.edge = FALSE])
  /\ out' = [out EXCEPT !.late = 0]
  /\ UNCHANGED <<goal, worker, disk, tracker, covered, trouble>>

\* onSetMaintenance, as far as it opens and closes the admission.
SetMaintenance(enable) ==
  /\ RosFree /\ node.closed # enable
  /\ IF enable THEN Trouble ELSE UNCHANGED trouble
  /\ node' = Woken([node EXCEPT !.closed = enable])
  /\ UNCHANGED <<goal, worker, disk, tracker, out, covered>>

\* onFinalCommand: manual control and the emergency stop pause the mission.
OnFinalCommand ==
  /\ RosFree /\ node.active /\ ~node.pause /\ Trouble
  /\ node' = Woken([node EXCEPT !.pause = TRUE])
  /\ UNCHANGED <<goal, worker, disk, tracker, out, covered>>

OnRtkFix(valid) ==
  /\ RosFree
  /\ IF node.rtk /\ ~valid THEN Trouble ELSE UNCHANGED trouble
  /\ node' = Woken([node EXCEPT !.rtk = valid])
  /\ UNCHANGED <<goal, worker, disk, tracker, out, covered>>

\* onHardwareStatus: a loss is a fault once the preflight is over.
OnHardwareStatus(ok) ==
  /\ RosFree
  /\ IF node.hardware /\ ~ok THEN Trouble ELSE UNCHANGED trouble
  /\ LET heard == Woken([node EXCEPT !.hardware = ok])
     IN  node' = IF node.active /\ node.preflight /\ ~ok
                 THEN FaultIn(heard, "HARDWARE_LOST") ELSE heard
  /\ UNCHANGED <<goal, worker, disk, tracker, out, covered>>

\* Nothing was heard for as long as a fix or a status counts as fresh.
GoesStale(sensor) ==
  /\ node[sensor] /\ Trouble
  /\ node' = [node EXCEPT ![sensor] = FALSE]
  /\ UNCHANGED <<goal, worker, disk, tracker, out, covered>>

\* Mutant of ExpectsTracking: a report of any target counts.
ExpectsAnyTracking(generation) == node.active

ExpectsTracking(generation) == node.active /\ generation = node.tracking

\* onTrackingStatus.
OnTrackingStatus ==
  /\ RosFree /\ tracker.reports # <<>>
  /\ LET report == Head(tracker.reports)
     IN  node' = IF ExpectsTracking(report.generation)
                 THEN Woken([node EXCEPT !.tracked = report.code, !.heard = TRUE])
                 ELSE node
  /\ tracker' = [tracker EXCEPT !.reports = Tail(@)]
  /\ UNCHANGED <<goal, worker, disk, out, covered, trouble>>

\* onCommandStatus: how the driver answers the turn waited for.
OnCommandStatus(state) ==
  /\ RosFree /\ node.active /\ node.turn # 0
  /\ IF state = "failed" THEN Trouble ELSE UNCHANGED trouble
  /\ node' = Woken([node EXCEPT !.turned = state])
  /\ UNCHANGED <<goal, worker, disk, tracker, out, covered>>

-----------------------------------------------------------------------------
(* The worker: what its steps leave behind.                                 *)
At(place) == worker.at = place
Goes(w, place) == [w EXCEPT !.at = place]
Ends(w, step) ==
  [w EXCEPT !.at = "finish", !.step = step,
            !.machine = IF step = "cancelled" THEN Cancelled(@) ELSE
                        IF step = "failed" THEN Failed(@) ELSE @]

\* clearExpectedTurn and clearExpectedTracking.
Cleared(n) == [n EXCEPT !.turn = 0, !.turned = "none", !.tracking = 0, !.tracked = "none",
                        !.heard = FALSE]

\* Mutant of Stop: the brush is left running.
StopMotion(o, safety) == [o EXCEPT !.motion = "none", !.safety = @ \/ safety]

\* publishStoppedOutputs; the brush of a waypoint tour is nobody's.
Stop(o, safety) ==
  [o EXCEPT !.motion = "none", !.brush = FALSE, !.safety = @ \/ safety]
\* publishTurnCommand, publishTrackingTarget: late counts those given while
\* a pause is requested.
Order(o, motion) ==
  [o EXCEPT !.motion = motion, !.late = IF node.pause THEN @ + 1 ELSE @]
\* The topic keeps the last target only.
Publishes(target) == tracker' = [tracker EXCEPT !.topic = target, !.pending = TRUE]
Releases == Publishes(NoTarget)

Leaves(step) == worker' = Ends(worker, step) /\ node' = Cleared(node)
Fails(code) ==
  /\ node' = Cleared(FaultIn(node, code))
  /\ worker' = Ends(worker, "failed")

Recovering == goal.kind = "recover"
Cleans ==
  /\ worker.leg = "segment"
  /\ goal.kind = "cleaning" \/ (Recovering /\ worker.record.kind = "cleaning")
\* Where a step that has to be repeated begins again.
RestartAt == IF goal.kind = "return_home" THEN "preflight" ELSE "ensure"

\* waitWhilePaused and waitForRtkRecovery, up to the wait.
PausesAt(back) ==
  /\ worker' = [worker EXCEPT !.at = "paused", !.back = back, !.machine = Paused(@)]
  /\ node' = Woken(node)
  /\ out' = Stop(out, FALSE)
  /\ Releases
AwaitsRtkAt(back, n) ==
  /\ worker' = [worker EXCEPT !.at = "rtk", !.back = back, !.machine = BegunRtkRecovery(@)]
  /\ node' = n
  /\ out' = Stop(out, TRUE)
  /\ Releases

\* Mutant of EnsureOperational: the pause is not looked at.
EnsureButPause(next, back) ==
  /\ IF Canceling THEN Leaves("cancelled") /\ UNCHANGED <<out, tracker>>
     ELSE IF node.fault # "none" \/ ~node.hardware
     THEN Fails("HARDWARE_NOT_READY") /\ UNCHANGED <<out, tracker>>
     ELSE IF ~node.rtk THEN AwaitsRtkAt(back, node)
     ELSE worker' = Goes(worker, next) /\ UNCHANGED <<node, out, tracker>>
  /\ UNCHANGED <<goal, disk, covered, trouble>>

\* ensureOperational: cancel first, then faults, a pause, and the position.
EnsureOperational(next, back) ==
  /\ IF Canceling THEN Leaves("cancelled") /\ UNCHANGED <<out, tracker>>
     ELSE IF node.fault # "none" \/ ~node.hardware
     THEN Fails("HARDWARE_NOT_READY") /\ UNCHANGED <<out, tracker>>
     ELSE IF node.pause THEN PausesAt(back)
     ELSE IF ~node.rtk THEN AwaitsRtkAt(back, node)
     ELSE worker' = Goes(worker, next) /\ UNCHANGED <<node, out, tracker>>
  /\ UNCHANGED <<goal, disk, covered, trouble>>

\* saveCheckpoint: refused by the validation, or failed by the disk, it is a
\* fault of the mission.
Saving(record, next) ==
  \/ /\ Saves(record)
     /\ disk' = [disk EXCEPT ![record.kind] = record]
     /\ worker' = [next EXCEPT !.record = record]
     /\ UNCHANGED <<node, trouble>>
  \/ /\ IF Saves(record) THEN Trouble ELSE UNCHANGED trouble
     /\ Fails("CHECKPOINT_SAVE_FAILED")
     /\ UNCHANGED disk

-----------------------------------------------------------------------------
(* The worker: its steps up to the first order to move.                     *)

\* The safety channel is released; a return switches the brush off.
Launch ==
  /\ At("launch")
  /\ worker' = Goes(worker, "preflight")
  /\ out' = [out EXCEPT !.safety = FALSE]
  /\ UNCHANGED <<goal, node, disk, tracker, covered, trouble>>

\* waitForPreflight; a pause is not looked at.
Preflight ==
  /\ At("preflight")
  /\ IF Canceling THEN worker' = Ends(worker, "cancelled") /\ UNCHANGED node
     ELSE IF node.fault # "none" THEN worker' = Ends(worker, "failed") /\ UNCHANGED node
     ELSE IF node.rtk /\ node.hardware
     THEN worker' = Goes(worker, "plan") /\ node' = [node EXCEPT !.preflight = TRUE]
     ELSE Fails("NOT_READY")
  /\ UNCHANGED <<goal, disk, tracker, out, covered, trouble>>

\* Mutant of NewRecord: the kind of mission is not written.
NewCleaning(kind) ==
  [run |-> goal.id, kind |-> "cleaning", loop |-> goal.loop, laps |-> goal.laps, lap |-> 0,
   next |-> 0, total |-> goal.size, completed |-> 0]

NewRecord(kind) ==
  [run |-> goal.id, kind |-> kind, loop |-> goal.loop, laps |-> goal.laps, lap |-> 0,
   next |-> 0, total |-> goal.size, completed |-> 0]

PlanCleaning ==
  /\ At("plan") /\ goal.kind = "cleaning"
  /\ Saving(NewRecord("cleaning"), Goes(worker, "lap"))
  /\ UNCHANGED <<goal, tracker, out, covered>>

\* Every waypoint has a machine of its own with one segment.
PlanWaypoint ==
  /\ At("plan") /\ goal.kind = "navigate_waypoints"
  /\ worker' = IF TourGoesOn(worker.tour, goal.size, goal.loop, goal.laps)
               THEN [worker EXCEPT !.at = "ensure", !.machine = Started(NewMachine, 1, 0),
                                   !.tour = AfterNext(@, goal.size, goal.loop)]
               ELSE Ends(worker, "success")
  /\ UNCHANGED <<goal, node, disk, tracker, out, covered, trouble>>

\* A return plans from where the vehicle is, whenever it has to start again,
\* and orders the first turn without asking for a pause.
PlanReturn ==
  /\ At("plan") /\ goal.kind = "return_home"
  /\ IF node.rtk
     THEN Saving(NewRecord("return_home"),
                 [worker EXCEPT !.at = "go", !.machine = Started(NewMachine, 1, 0)])
     ELSE Fails("RTK_NOT_READY") /\ UNCHANGED <<disk, trouble>>
  /\ UNCHANGED <<goal, tracker, out, covered>>

\* executeRecoveredSegments: a record with nothing left is cleared; a
\* cleaning goes to the start of the unfinished segment first.
PlanRecovery ==
  /\ At("plan") /\ Recovering
  /\ LET r == worker.record
         over == r.next >= r.total
         lap == IF over THEN r.lap + 1 ELSE r.lap
         resumed == [worker EXCEPT !.lap = lap, !.first = IF over THEN 0 ELSE r.next,
                                   !.completed = r.completed,
                                   !.replan = r.kind = "cleaning"]
     IN  worker' = IF r.laps # 0 /\ lap >= r.laps THEN Goes(worker, "nothing_left")
                   ELSE IF r.kind = "cleaning"
                   THEN [resumed EXCEPT !.at = "ensure", !.leg = "transfer",
                                        !.machine = Started(NewMachine, 1, 0)]
                   ELSE Goes(resumed, "lap")
  /\ UNCHANGED <<goal, node, disk, tracker, out, covered, trouble>>

\* clearCheckpoint; the file may stay.
Clear(kind) ==
  \/ disk' = [disk EXCEPT ![kind] = NoRecord] /\ UNCHANGED trouble
  \/ disk[kind] # NoRecord /\ Trouble /\ UNCHANGED disk

NothingLeft ==
  /\ At("nothing_left")
  /\ Clear(worker.record.kind)
  /\ goal' = [goal EXCEPT !.status = "succeeded"]
  /\ worker' = Goes(worker, "reset")
  /\ UNCHANGED <<node, tracker, out, covered>>

\* The machine starts a lap, which it can refuse.
StartLap ==
  /\ At("lap")
  /\ LET m == worker.machine
         total == worker.record.total
     IN  IF MayStart(m, total, worker.first)
         THEN /\ worker' = [worker EXCEPT !.at = "ensure",
                                          !.machine = Started(m, total, worker.first)]
              /\ UNCHANGED node
         ELSE Fails("MISSION_STATE_ERROR")
  /\ UNCHANGED <<goal, disk, tracker, out, covered, trouble>>

Ensure == At("ensure") /\ EnsureOperational("go", "ensure")

\* What is planned from where the vehicle is needs a position.
NeedsPose ==
  \/ worker.leg = "transfer" \/ goal.kind = "navigate_waypoints"
  \/ Recovering /\ (worker.record.kind = "return_home" \/ worker.replan)

TurnRequest == 1  \* the request waited for

\* The brush, and the turn the segment begins with, if it does.
Go ==
  /\ At("go")
  /\ IF NeedsPose /\ ~node.rtk
     THEN Fails("RTK_NOT_READY") /\ UNCHANGED out
     ELSE \/ /\ worker' = Goes(worker, "track")
             /\ out' = [out EXCEPT !.brush = Cleans]
             /\ UNCHANGED node
          \/ /\ worker' = [worker EXCEPT !.at = "turning", !.machine = BegunTurn(@, TurnRequest)]
             /\ node' = [node EXCEPT !.turn = TurnRequest, !.turned = "none"]
             /\ out' = Order([out EXCEPT !.brush = Cleans], "turn")
  /\ UNCHANGED <<goal, disk, tracker, covered, trouble>>

-----------------------------------------------------------------------------
(* The worker: a turn and a straight.                                       *)

\* executeTurn looks around before every wait ...
Turning == At("turning") /\ EnsureOperational("await_turn", RestartAt)

\* ... and repeats the order as a heartbeat after it.
AwaitTurn ==
  /\ At("await_turn")
  /\ \/ /\ node.turned = "completed"
        /\ worker' = [worker EXCEPT !.at = "track", !.machine = CompletedTurn(@, node.turn)]
        /\ node' = Cleared(node)
        /\ UNCHANGED out
     \/ node.turned = "failed" /\ Fails("TURN_FAILED") /\ UNCHANGED out
     \/ node.turned = "none" /\ Fails("TURN_COMPLETION_TIMEOUT") /\ UNCHANGED out
     \/ /\ node.turned = "none"
        /\ worker' = Goes(worker, "turning")
        /\ out' \in {out, Order(out, "turn")}
        /\ UNCHANGED node
  /\ UNCHANGED <<goal, disk, tracker, covered, trouble>>

\* What the target stands for in covered.
Mark ==
  IF worker.leg = "transfer" THEN NoTarget.mark
  ELSE IF goal.kind = "navigate_waypoints" THEN <<goal.id, worker.completed, 0>>
  ELSE IF goal.kind = "return_home" THEN <<goal.id, 0, 0>>
  ELSE <<worker.record.run, worker.lap, worker.machine.segment>>

\* Generations are only compared, so the smallest that nobody holds will do.
GenerationsHeld ==
  {tracker.target.generation, tracker.topic.generation} \cup
  {tracker.reports[i].generation : i \in DOMAIN tracker.reports}
NextGeneration ==
  CHOOSE g \in 1..4 : g \notin GenerationsHeld /\ \A h \in 1..(g - 1) : h \in GenerationsHeld

\* executeTracking: the brush is restored after a stop, the guard is reset.
Track ==
  /\ At("track")
  /\ LET generation == NextGeneration
     IN  IF MayTrack(worker.machine, generation)
         THEN /\ worker' = [worker EXCEPT !.at = "tracking",
                                          !.machine = BegunTracking(@, generation),
                                          !.guard = GuardReset]
              /\ node' = [node EXCEPT !.tracking = generation, !.tracked = "none",
                                      !.heard = FALSE]
              /\ out' = Order([out EXCEPT !.brush = Cleans], "track")
              /\ Publishes([generation |-> generation, mark |-> Mark])
         ELSE Fails("MISSION_STATE_ERROR") /\ UNCHANGED <<out, tracker>>
  /\ UNCHANGED <<goal, disk, covered, trouble>>

Tracking ==
  At("tracking") /\ EnsureOperational("await_track", IF Cleans THEN "track" ELSE RestartAt)

SegmentEnds ==
  /\ worker' = [worker EXCEPT !.at = "advance",
                              !.machine = CompletedTracking(@, node.tracking)]
  /\ node' = Cleared(node)
  /\ out' = [out EXCEPT !.motion = "none"]
  /\ Releases

\* The distance in the last report on this target, which starts at zero.
LooksNear == node.tracked \in {"active", "near", "finished"}

\* A segment that a contact ends before the first fix on its target was never
\* driven: the code takes it for done, and the history excepts it.
MayBeGivenUp ==
  IF node.tracked = "active" THEN Trouble /\ covered' = covered \cup {Mark}
  ELSE UNCHANGED <<covered, trouble>>

\* A contact of the edge sensor that outlasts the debounce time ends the
\* segment near its target; elsewhere the user has to confirm.
Contact ==
  \E debounced \in BOOLEAN :
       IF Decides(worker.guard, FALSE, debounced)
       THEN IF LooksNear
            THEN SegmentEnds /\ MayBeGivenUp
            ELSE /\ Trouble
                 /\ worker' = [worker EXCEPT !.at = "edge", !.machine = Paused(@),
                                             !.back = IF Cleans THEN "track" ELSE RestartAt]
                 /\ node' = Woken([Cleared(node) EXCEPT !.pause = TRUE, !.edge = TRUE])
                 /\ out' = Stop(out, FALSE)
                 /\ Releases
                 /\ UNCHANGED covered
       ELSE /\ worker' = [worker EXCEPT !.at = "tracking",
                                        !.guard = Evaluated(@, FALSE, debounced)]
            /\ node' = [node EXCEPT !.heard = FALSE]
            /\ UNCHANGED <<out, tracker, covered, trouble>>

NoContact ==
  /\ worker' = [worker EXCEPT !.at = "tracking", !.guard = Evaluated(@, TRUE, FALSE)]
  /\ node' = [node EXCEPT !.heard = FALSE]
  /\ UNCHANGED <<out, tracker, covered, trouble>>

AwaitTrack ==
  /\ At("await_track")
  /\ IF node.heard /\ node.tracked = "finished" THEN SegmentEnds /\ UNCHANGED <<covered, trouble>>
     ELSE IF node.heard /\ node.tracked = "rtk_invalid"
     THEN AwaitsRtkAt(IF Cleans THEN "track" ELSE RestartAt, Cleared(node))
          /\ UNCHANGED <<covered, trouble>>
     ELSE Contact \/ NoContact
  /\ UNCHANGED <<goal, disk>>

-----------------------------------------------------------------------------
(* The worker: its waits.                                                   *)

\* The wait has no time limit: its condition is looked at when the worker is
\* notified.
\* Mutant of WaitIsOver: a cancel does not end the wait.
WaitIgnoresCancel == ~node.pause \/ node.fault # "none"

WaitIsOver == Canceling \/ ~node.pause \/ node.fault # "none"

SleepsAgain ==
  /\ worker.at \in {"paused", "edge"} /\ node.woken /\ ~WaitIsOver
  /\ node' = [node EXCEPT !.woken = FALSE]
  /\ UNCHANGED <<goal, worker, disk, tracker, out, covered, trouble>>

\* waitWhilePaused and waitForEdgeConfirmation, after the wait.
Resumes ==
  /\ worker.at \in {"paused", "edge"} /\ node.woken /\ WaitIsOver
  /\ node' = [Cleared(node) EXCEPT !.edge = IF At("edge") THEN FALSE ELSE @]
  /\ worker' = IF Canceling THEN Ends(worker, "cancelled")
               ELSE IF node.fault # "none" THEN Ends(worker, "failed")
               ELSE [worker EXCEPT !.at = worker.back, !.machine = Resumed(@)]
  /\ UNCHANGED <<goal, disk, tracker, out, covered, trouble>>

\* waitForRtkRecovery, woken by messages or by its deadline.
RtkWaitEnds ==
  /\ At("rtk")
  /\ IF Canceling THEN Leaves("cancelled") /\ UNCHANGED <<out, tracker>>
     ELSE IF node.fault # "none" THEN Leaves("failed") /\ UNCHANGED <<out, tracker>>
     ELSE IF node.pause
     THEN /\ worker' = [worker EXCEPT !.at = "paused", !.machine = Paused(@)]
          /\ node' = Woken(node)
          /\ out' = [out EXCEPT !.safety = FALSE]
          /\ Releases
     ELSE IF node.rtk
     THEN /\ worker' = [worker EXCEPT !.at = worker.back, !.machine = RecoveredRtk(@)]
          /\ node' = Cleared(node)
          /\ out' = [out EXCEPT !.safety = FALSE]
          /\ UNCHANGED tracker
     ELSE Fails("RTK_RECOVERY_TIMEOUT") /\ UNCHANGED <<out, tracker>>
  /\ UNCHANGED <<goal, disk, covered, trouble>>

-----------------------------------------------------------------------------
(* The worker: progress and the end.                                        *)

TransferDone ==
  /\ At("advance") /\ worker.leg = "transfer"
  /\ worker' = [worker EXCEPT !.at = "lap", !.leg = "segment", !.machine = NewMachine]
  /\ UNCHANGED <<goal, node, disk, tracker, out, covered, trouble>>

WaypointReached ==
  /\ At("advance") /\ goal.kind = "navigate_waypoints"
  /\ worker' = [worker EXCEPT !.at = "plan", !.completed = @ + 1]
  /\ UNCHANGED <<goal, node, disk, tracker, out, covered, trouble>>

HomeReached ==
  /\ At("advance") /\ goal.kind = "return_home"
  /\ Saving([worker.record EXCEPT !.next = 1, !.completed = 1], Ends(worker, "success"))
  /\ UNCHANGED <<goal, tracker, out, covered>>

\* The record after the segment that was driven, and before the next lap.
SegmentRecord ==
  [worker.record EXCEPT !.lap = worker.lap, !.next = worker.machine.segment,
                        !.completed = worker.completed + 1]
LapRecord == [worker.record EXCEPT !.lap = worker.lap + 1, !.next = 0]

SavesSegment ==
  At("advance") /\ worker.leg = "segment" /\ goal.kind \in {"cleaning", "recover"}

SegmentDone ==
  /\ SavesSegment
  /\ Saving(SegmentRecord,
            [worker EXCEPT !.at = IF Terminal(worker.machine) THEN "lap_done" ELSE "ensure",
                           !.completed = @ + 1, !.replan = FALSE])
  /\ UNCHANGED <<goal, tracker, out, covered>>

LastLap == worker.record.laps # 0 /\ worker.lap + 1 >= worker.record.laps

LapDone ==
  /\ At("lap_done")
  /\ IF LastLap THEN worker' = Ends(worker, "success") /\ UNCHANGED <<node, disk, trouble>>
     ELSE Saving(LapRecord, [worker EXCEPT !.at = "lap", !.lap = @ + 1, !.first = 0])
  /\ UNCHANGED <<goal, tracker, out, covered>>

\* The outputs of the finish*Action methods; the brush is left alone at the
\* end of a waypoint tour, which never switched it on.
FinishOutputs ==
  /\ out' = [Stop(out, FALSE) EXCEPT !.safety = FALSE]
  /\ Releases

Succeeds ==
  /\ worker.step = "success"
  /\ goal.kind # "navigate_waypoints" => worker.machine.state = "completed"

\* The record that the end of the mission clears, if it does.
EndClears ==
  CASE goal.kind = "cleaning" -> IF Canceling \/ ~Succeeds THEN {} ELSE {"cleaning"}
    [] goal.kind = "return_home" -> IF Canceling \/ Succeeds THEN {"return_home"} ELSE {}
    [] Recovering -> IF Canceling \/ ~Succeeds THEN {} ELSE {worker.record.kind}
    [] OTHER -> {}

FinishAction ==
  /\ At("finish")
  /\ FinishOutputs
  /\ goal' = [goal EXCEPT !.status = IF Canceling THEN "canceled"
                                     ELSE IF Succeeds THEN "succeeded" ELSE "aborted"]
  /\ IF EndClears = {} THEN UNCHANGED <<disk, trouble>>
     ELSE \E kind \in EndClears : Clear(kind)
  /\ worker' = Goes(worker, "reset")
  /\ UNCHANGED <<node, covered>>

\* resetRuntimeAfterWorker: only now is the mission no longer active.
Reset ==
  /\ At("reset")
  /\ node' = [Cleared(node) EXCEPT !.active = FALSE, !.preflight = FALSE,
                                   !.pause = FALSE, !.edge = FALSE]
  /\ worker' = IdleWorker
  /\ out' = [out EXCEPT !.late = 0]
  /\ UNCHANGED <<goal, disk, tracker, covered, trouble>>

Worker ==
  \/ Launch \/ Preflight \/ PlanCleaning \/ PlanWaypoint \/ PlanReturn \/ PlanRecovery
  \/ NothingLeft \/ StartLap \/ Ensure \/ Go \/ Turning \/ AwaitTurn \/ Track \/ Tracking
  \/ AwaitTrack \/ SleepsAgain \/ Resumes \/ RtkWaitEnds \/ TransferDone \/ WaypointReached
  \/ HomeReached \/ SegmentDone \/ LapDone \/ FinishAction \/ Reset

-----------------------------------------------------------------------------
(* The tracking node, and the loss of everything but the disk.              *)

ConfigureTracking ==
  /\ ~tracker.configured
  /\ tracker' = [tracker EXCEPT !.configured = TRUE]
  /\ UNCHANGED <<goal, node, worker, disk, out, covered, trouble>>

MaxReports == 1  \* bound: reports on their way
Reporting(code) == Append(tracker.reports, [generation |-> tracker.target.generation, code |-> code])

Idle(t) == [t EXCEPT !.active = FALSE, !.target = NoTarget, !.at = "new"]

\* onTarget: without a configuration it is refused under the generation of
\* the target before, which the mission does not wait for.
OnTarget ==
  /\ tracker.pending /\ Len(tracker.reports) < MaxReports
  /\ LET t == tracker.topic
     IN  tracker' =
           IF ~tracker.configured THEN [tracker EXCEPT !.pending = FALSE]
           ELSE IF t = NoTarget THEN Idle([tracker EXCEPT !.pending = FALSE])
           ELSE [tracker EXCEPT
                   !.pending = FALSE, !.active = TRUE, !.target = t, !.at = "new",
                   !.reports = Append(@, [generation |-> t.generation, code |-> "active"])]
  /\ UNCHANGED <<goal, node, worker, disk, out, covered, trouble>>

\* onRtkFix of the tracking node, for as long as a target is active.
Approaches(code) ==
  /\ tracker.active /\ Len(tracker.reports) < MaxReports
  /\ <<tracker.at, code>> \in {"new"} \X {"running", "near", "finished"} \cup
                              {"running"} \X {"near", "finished"} \cup {<<"near", "finished">>}
  /\ LET t == [tracker EXCEPT !.at = code, !.reports = Reporting(code)]
     IN  tracker' = IF code = "finished" THEN Idle(t) ELSE t
  /\ covered' = covered \cup IF code = "running" THEN {}
                             ELSE {tracker.target.mark} \ {NoTarget.mark}
  /\ UNCHANGED <<goal, node, worker, disk, out, trouble>>

ReportsRtkInvalid ==
  /\ tracker.active /\ Len(tracker.reports) < MaxReports /\ Trouble
  /\ tracker' = [tracker EXCEPT !.reports = Reporting("rtk_invalid")]
  /\ UNCHANGED <<goal, node, worker, disk, out, covered>>

\* The service is stopped or loses its power, and starts again.
Crash ==
  /\ Trouble
  /\ goal' = [goal EXCEPT !.status = "lost"]
  /\ node' = FreshNode
  /\ worker' = IdleWorker
  /\ tracker' = FreshTracker
  /\ out' = Quiet
  /\ UNCHANGED <<disk, covered>>

RunIds == 0..Len(Plans)
GoalsSent == IF goal.id < Len(Plans) THEN Plans[goal.id + 1] ELSE {}

Next ==
  \/ Configure
  \/ \E plan \in GoalsSent :
       \/ AcceptCleaning(plan) \/ AcceptWaypoints(plan) \/ AcceptReturnHome(plan)
       \/ \E wanted \in RunIds : AcceptRecover(plan, wanted)
  \/ RequestCancel \/ BecomesCanceling
  \/ Pause \/ Resume \/ OnFinalCommand
  \/ \E enable \in BOOLEAN : SetMaintenance(enable)
  \/ \E valid \in BOOLEAN : OnRtkFix(valid)
  \/ \E ok \in BOOLEAN : OnHardwareStatus(ok)
  \/ \E sensor \in {"rtk", "hardware"} : GoesStale(sensor)
  \/ OnTrackingStatus
  \/ \E state \in {"completed", "failed"} : OnCommandStatus(state)
  \/ Worker
  \/ ConfigureTracking \/ OnTarget \/ ReportsRtkInvalid
  \/ \E code \in {"running", "near", "finished"} : Approaches(code)
  \/ Crash

Spec == Init /\ [][Next]_vars

\* The worker is scheduled, fixes go on arriving, valid or not, and the
\* action server ends the cancel request it is answering.
FairSpec ==
  /\ Spec
  /\ WF_vars(Worker) /\ WF_vars(BecomesCanceling)
  /\ WF_vars(\E valid \in BOOLEAN : OnRtkFix(valid))

-----------------------------------------------------------------------------
Places ==
  {"idle", "launch", "preflight", "plan", "nothing_left", "lap", "ensure", "go", "turning",
   "await_turn", "track", "tracking", "await_track", "paused", "edge", "rtk", "advance",
   "lap_done", "finish", "reset"}
Driving == Places \ {"idle", "launch", "preflight", "plan", "nothing_left", "finish", "reset"}

\* Types; the worker has a place exactly while a mission is active, and waits
\* for a report only where it is turning or tracking.
TypeOK ==
  /\ goal.status \in {"none", "executing", "accepting_cancel", "canceling", "succeeded",
                      "canceled", "aborted", "lost"}
  /\ worker.at \in Places
  /\ node.active <=> worker.at # "idle"
  /\ node.turn # 0 => worker.at \in {"turning", "await_turn", "paused", "rtk"}
  /\ node.tracking # 0 => worker.at \in {"tracking", "await_track", "paused", "rtk"}
  /\ \A kind \in DOMAIN disk : disk[kind] # NoRecord => ValidRecord(disk[kind])

LapsBefore(r) ==
  {<<r.run, lap, segment>> : lap \in 0..(r.lap - 1), segment \in 0..(r.total - 1)}
Claimed(r) ==
  IF r = NoRecord THEN {}
  ELSE LapsBefore(r) \cup {<<r.run, r.lap, segment>> : segment \in 0..(r.next - 1)}

\* A checkpoint never says that a segment is done that the vehicle has not
\* driven to its end, or given up for an early contact: not after a crash
\* between driving and saving, not when a report of an earlier target arrives
\* late, after a cancel or a pause (onTrackingStatus, executeTracking,
\* saveCheckpoint).
ProgressIsReal == \A kind \in DOMAIN disk : Claimed(disk[kind]) \subseteq covered

\* A mission that is reported as successful has covered everything it was
\* asked for, over all laps, pauses, crashes and recoveries on the way: each
\* segment was driven to its end, or given up for an early contact with the
\* edge (MayBeGivenUp), which covers it too.
Asked ==
  CASE goal.kind = "navigate_waypoints" ->
         {<<goal.id, k, 0>> : k \in 0..(TourLength(goal.size, goal.loop, goal.laps) - 1)}
    [] Recovering -> LapsBefore([worker.record EXCEPT !.lap = worker.record.laps])
    [] OTHER -> {<<goal.id, lap, segment>> :
                   lap \in 0..(goal.laps - 1), segment \in 0..(goal.size - 1)}
SuccessIsComplete ==
  [][goal.status # "succeeded" /\ goal'.status = "succeeded" => Asked \subseteq covered]_vars

\* While the worker waits for a resume, a confirmation or the position, and
\* while there is no mission, nothing it ordered is in force: no motion, no
\* brush.  Its safety brake is in force only during the wait for the
\* position, so that it cannot hold the vehicle for ever.
WaitingIsStopped ==
  /\ worker.at \in {"idle", "paused", "edge", "rtk"} => out.motion = "none" /\ ~out.brush
  /\ out.safety => worker.at \in {"rtk", "finish"}
  /\ worker.at = "rtk" => out.safety

\* Between a pause request and the resume the worker gives at most the one
\* order to move it was about to give, wherever the request finds it.
PauseIsPrompt == out.late <= 1

\* The machine never refuses a step the worker takes: whatever the waits,
\* restarts and laps before, it is where executeTracking and execute need it.
MachineFollows == node.fault # "MISSION_STATE_ERROR"

\* A cleaning or a return that is being driven can be recovered after a
\* crash at any moment: its own record is on the disk and is chosen.
DrivenIsRecoverable ==
  worker.at \in Driving /\ goal.kind \in {"cleaning", "return_home"}
  => Recoverable(goal.id) # NoRecord /\ Recoverable(goal.id).kind = goal.kind

\* A cancel that was accepted ends the mission, also when it finds the worker
\* in a wait without time limit (onCancel).
CancelIsHonoured == goal.status = "canceling" ~> goal.status # "canceling"

\* The checkpoint of a run with several laps or without end can be saved in
\* every lap (test PreservesUnboundedLoopProgress).
ProgressCanBeSaved ==
  /\ SavesSegment => Saves(SegmentRecord)
  /\ At("lap_done") /\ ~LastLap => Saves(LapRecord)
=============================================================================
