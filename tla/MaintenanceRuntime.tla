-------------------------- MODULE MaintenanceRuntime --------------------------
(***************************************************************************)
(* The maintenance runtime inside the mission manager, whose callbacks run *)
(* under one mutex, together with the disk the maintenance store writes.   *)
(* The store is used as AtomicMaintenanceStore promises it; MaintenanceSt- *)
(* ore is shown to keep that promise.  The process may die between two     *)
(* callbacks or inside a store call, and the power may fail.               *)
(***************************************************************************)
EXTENDS MaintenanceRuntimeOps

CONSTANT Frame  \* frame sequence numbers of the lower machine
ASSUME RuntimeFrameAssumption == Frame \subseteq Nat

VARIABLES rt,        \* the fields of class MaintenanceRuntime
          content,   \* what a load would read now
          survivors  \* what a load may read after a loss of power

vars == <<rt, content, survivors>>

-----------------------------------------------------------------------------
Load == [kind |-> "load", requester |-> Nobody, generation |-> 0]
InitializeGenesis == [kind |-> "genesis", requester |-> Nobody, generation |-> 0]
Activate(r) == [kind |-> "activate", requester |-> r, generation |-> 0]
ReleaseOf(generation, r) ==
  [kind |-> "release", requester |-> r, generation |-> generation]

\* A store call from beginning to end, as AtomicMaintenanceStore allows it:
\* it fails, it declines, or it publishes and may harden what it decided.
StoreResults(op) ==
  LET d == Decision(op, content)
      unchanged(code, record) ==
        [code |-> code, committed |-> FALSE, record |-> record,
         content |-> content, survivors |-> survivors]
      published(code, outlives) ==
        [code |-> code, committed |-> TRUE, record |-> d.record,
         content |-> d.record, survivors |-> outlives]
  IN  {unchanged(code, NoRecord) : code \in {"io_error", "invalid"}}
      \cup IF d.writes
           THEN {published("ok", {d.record}), published("io_error", {d.record}),
                 published("io_error", survivors \cup {d.record})}
           ELSE {unchanged(code, d.record) : code \in {d.code, "io_error"}}

Disk(o) == content' = o.content /\ survivors' = o.survivors

Init ==
  /\ rt = NewRuntime
  /\ content \in Contents
  /\ survivors = {content}

\* The node's constructor initialises the runtime before any callback runs.
Start ==
  /\ ~rt.initialized
  /\ \E o \in StoreResults(Load), throws \in BOOLEAN :
       /\ rt' = Initialized(rt, o, TRUE, throws)
       /\ Disk(o)

\* onGoal, finish*Action and recovery report whether a mission is running.
MissionChanges ==
  /\ rt.initialized
  /\ \E idle, throws \in BOOLEAN : rt' = IdleSet(rt, idle, throws)
  /\ UNCHANGED <<content, survivors>>

\* onSetMaintenance, request->enable.
OnEnable ==
  \E r \in Requester, idle, throws, again \in BOOLEAN :
    LET set == IdleSet(rt, idle, FALSE)
    IN  /\ rt.initialized
        /\ IF Available(set)
           THEN \E o \in StoreResults(Activate(r)) :
                  rt' = EnabledBy(set, r, o, idle, throws, again) /\ Disk(o)
           ELSE rt' = set /\ UNCHANGED <<content, survivors>>

\* onSetMaintenance, !request->enable.
OnDisable ==
  \E r \in Requester, generation \in Generations, idle, throws \in BOOLEAN :
    LET set == IdleSet(rt, idle, FALSE)
    IN  /\ rt.initialized
        /\ IF Available(set) /\ generation # 0
           THEN \E o \in StoreResults(ReleaseOf(generation, r)) :
                  rt' = DisabledBy(set, generation, o, throws) /\ Disk(o)
           ELSE rt' = set /\ UNCHANGED <<content, survivors>>

OnFinalCommand ==
  /\ rt.initialized
  /\ \E generation \in Generations, id \in CommandId, safe, throws \in BOOLEAN :
       rt' = FinalCommandObserved(
               rt, [generation |-> generation, id |-> id, safe |-> safe], throws)
  /\ UNCHANGED <<content, survivors>>

OnCommandStatus ==
  /\ rt.initialized
  /\ \E generation \in Generations, id \in CommandId,
        state \in {"sent", "rejected"}, throws \in BOOLEAN :
       rt' = CommandStatusObserved(
               rt, [generation |-> generation, id |-> id, state |-> state], throws)
  /\ UNCHANGED <<content, survivors>>

OnHardwareStatus(publisher) ==
  /\ rt.initialized
  /\ IF Available(rt)
     THEN \E seq \in Frame, connected, throws \in BOOLEAN, zero \in SUBSET Outputs :
            rt' = HardwareObserved(rt, publisher, seq, connected, zero, throws)
     ELSE UNCHANGED rt
  /\ UNCHANGED <<content, survivors>>

PublishPeriodicState(idle, throws) ==
  /\ rt.initialized
  /\ rt' = HardwareRefreshed(IdleSet(rt, idle, FALSE), throws)
  /\ UNCHANGED <<content, survivors>>

\* The freshness timeout passes without a sample.
SampleAges ==
  /\ rt.latest.epoch # RevokedEpoch
  /\ rt' = [rt EXCEPT !.aged = TRUE]
  /\ UNCHANGED <<content, survivors>>

\* maintenance_store_init, run beside the node.
StoreInit ==
  /\ \E o \in StoreResults(InitializeGenesis) : Disk(o)
  /\ UNCHANGED rt

Crash ==
  /\ rt' = NewRuntime
  /\ UNCHANGED <<content, survivors>>

\* The process dies inside the store call of onSetMaintenance.
CrashInStore ==
  /\ Available(rt)
  /\ \E op \in {Activate(r) : r \in Requester}
             \cup {ReleaseOf(g, r) : g \in Generations \ {0}, r \in Requester} :
       \E o \in StoreResults(op) : Disk(o)
  /\ rt' = NewRuntime

PowerLoss ==
  /\ rt' = NewRuntime
  /\ content' \in survivors
  /\ survivors' = {content'}

\* Every step but that of a hardware sample.
OtherStep ==
  \/ Start
  \/ MissionChanges
  \/ OnEnable
  \/ OnDisable
  \/ OnFinalCommand
  \/ OnCommandStatus
  \/ \E idle, throws \in BOOLEAN : PublishPeriodicState(idle, throws)
  \/ SampleAges
  \/ StoreInit
  \/ Crash
  \/ CrashInStore
  \/ PowerLoss

Next ==
  \/ \E publisher \in Publisher \cup {NoPublisher} : OnHardwareStatus(publisher)
  \/ OtherStep

Spec == Init /\ [][Next]_vars

-----------------------------------------------------------------------------
\* The runtime and the disk keep their types.
TypeOK ==
  /\ rt \in Runtimes
  /\ content \in Contents
  /\ survivors \subseteq Contents

\* Without a latched fault the record, the gate and the admission agree with
\* the state file, however earlier store calls ended and wherever the
\* process died: missions are admitted only while no inhibitor is on disk,
\* and what the node publishes says so (enable, disable, restore,
\* applyUncertainActivation, refreshHealthySnapshot).
AgreesWithDisk ==
  Available(rt) =>
    /\ rt.record = content
    /\ content.code = "ok"
    /\ rt.gate.active = (content.owner # Nobody)
    /\ rt.gate.lastGeneration = content.last
    /\ rt.gate.active => rt.gate.generation = content.last
    /\ rt.closed = rt.gate.active
    /\ rt.snap = [fault |-> FALSE, closed |-> rt.closed, generation |-> content.last,
                  gateActive |-> rt.gate.active, ready |-> Ready(rt.gate)]

\* When the store fails under a running runtime, an inhibitor that is on disk,
\* even one that may not have been committed, is braked for and announced
\* (applyUncertainActivation, and a release that did not go through).
InhibitorIsBraked ==
  rt.cause = "store" /\ rt.record.code = "ok" /\ content.owner # Nobody
  => rt.gate.active /\ rt.snap.gateActive /\ rt.snap.generation = content.last

\* A latched fault keeps admission closed until the process restarts, and
\* whatever is requested or observed meanwhile, what is shown of it stays the
\* same: closed and not ready, and as a fault unless a second allocation
\* failed while the first failure was being reported (latchEmergencyFault
\* then shows the snapshot from before the fault again, closed as it was
\* before the store was asked).
FaultIsFinal ==
  [][/\ rt.fault => \/ rt' = NewRuntime
                    \/ rt'.fault /\ rt'.closed /\ rt'.snap = rt.snap
     /\ rt'.fault => /\ rt'.snap.closed /\ ~rt'.snap.ready
                     /\ rt'.snap.fault \/ rt'.cause = "exception"]_vars

\* Readiness is published only while the last sample of the publisher that
\* is current is a connected standstill, of the session the gate follows
\* (observeHardware of tracker, runtime and gate).
ReadyFollowsLivePublisher ==
  rt.snap.ready =>
    /\ SafeZero(rt.latest)
    /\ rt.latest.epoch = rt.tracker.epoch
    /\ rt.gate.epoch = rt.tracker.epoch

\* When the freshness of the last sample has run out, the next tick of the
\* timer withdraws readiness, whatever the gate has counted and whatever
\* commands and statuses arrived since, and no later tick restores it before
\* another sample arrives (publishPeriodicState, refreshHardware).
StaleReadinessEnds ==
  [][rt.aged /\ rt'.snap.ready =>
       \A idle, throws \in BOOLEAN : ~PublishPeriodicState(idle, throws)]_vars
=============================================================================
