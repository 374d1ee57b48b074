------------------------ MODULE MaintenanceRuntimeOps ------------------------
(***************************************************************************)
(* The class MaintenanceRuntime of cleanbot_mission as a value: it owns    *)
(* the maintenance gate, remembers the record the store last confirmed,    *)
(* tells the hardware publishers apart, and keeps the snapshot that is     *)
(* published.  One operator per method maps the runtime before the call to *)
(* the runtime after it.                                                   *)
(*                                                                         *)
(* Every method is noexcept and catches what it calls: throws says that an *)
(* allocation fails in the body, again that one fails while the fault is   *)
(* being reported.  o is the result of the store call (MaintenanceStoreRe- *)
(* sult).  Requester, reason and texts of the snapshot are left out, and   *)
(* so are the length checks of the request fields.                         *)
(***************************************************************************)
EXTENDS MaintenanceGateOps, MaintenanceRecords, PublisherEpochs

Snapshots ==
  [fault : BOOLEAN, closed : BOOLEAN, generation : Nat, gateActive : BOOLEAN,
   ready : BOOLEAN]

NoRecord == Unreadable("missing")
NoSample == [epoch |-> RevokedEpoch, seq |-> 0, fresh |-> FALSE, zero |-> {}]

\* Why a fault was latched: the store failed, a check that the code regards
\* as impossible failed, or an allocation failed.
Causes == {"none", "store", "inconsistent", "exception"}

\* record: record_ (NoRecord: no value); spare: emergency_fault_snapshot_;
\* latest: latest_hardware_, its fresh telling "connected"; aged: whether
\* the sample is older than the freshness timeout by now.
Runtimes ==
  [gate : GateRecords, initialized : BOOLEAN, fault : BOOLEAN, closed : BOOLEAN,
   cause : Causes, record : Contents, snap : Snapshots, spare : Snapshots,
   tracker : Trackers, latest : Samples, aged : BOOLEAN]

InitialSnapshot ==
  [fault |-> FALSE, closed |-> TRUE, generation |-> 0, gateActive |-> FALSE,
   ready |-> FALSE]

EmergencyFaultSnapshot == [InitialSnapshot EXCEPT !.fault = TRUE]

NewRuntime ==
  [gate |-> NewGate, initialized |-> FALSE, fault |-> FALSE, closed |-> TRUE,
   cause |-> "none", record |-> NoRecord, snap |-> InitialSnapshot,
   spare |-> EmergencyFaultSnapshot, tracker |-> NewTracker, latest |-> NoSample,
   aged |-> FALSE]

-----------------------------------------------------------------------------
SnapshotOf(g, fault) ==
  [fault |-> fault, closed |-> fault \/ g.active,
   generation |-> IF g.active THEN g.generation ELSE g.lastGeneration,
   gateActive |-> g.active, ready |-> ~fault /\ Ready(g)]

\* swapSnapshots exchanges the two snapshots.
LatchEmergencyFault(r) ==
  [r EXCEPT !.initialized = TRUE, !.fault = TRUE, !.closed = TRUE,
            !.cause = "exception", !.snap = r.spare, !.spare = r.snap]

LatchStoreFault(r, cause, throws) ==
  LET latched == [r EXCEPT !.initialized = TRUE, !.fault = TRUE, !.closed = TRUE]
  IN  IF throws THEN LatchEmergencyFault(latched)
      ELSE [latched EXCEPT !.cause = cause, !.snap = SnapshotOf(r.gate, TRUE)]

RefreshHealthySnapshot(r, throws) ==
  IF throws THEN LatchEmergencyFault(r)
  ELSE [r EXCEPT !.fault = FALSE, !.closed = r.gate.active,
                 !.snap = SnapshotOf(r.gate, FALSE)]

RestoreAdmissionFromRecord(r, throws) ==
  IF r.record.code # "ok" THEN LatchEmergencyFault(r)
  ELSE RefreshHealthySnapshot(r, throws)

\* Mutant of Available: a latched fault is no obstacle.
AvailableDespiteFault(r) == r.initialized

Available(r) == r.initialized /\ ~r.fault

IsOperationalFailure(code) == code \in {"missing", "invalid", "unsupported", "io_error"}

-----------------------------------------------------------------------------
\* initialize, restore: the record that was loaded becomes the gate's state.
Initialized(r, o, idle, throws) ==
  LET isActive == o.record.owner # Nobody
      begun    == [r EXCEPT !.initialized = TRUE]
  IN  IF r.initialized THEN r
      ELSE IF o.code # "ok" THEN LatchStoreFault(begun, "store", throws)
      ELSE IF o.record.code # "ok" \/ ~CanRestore(r.gate, o.record.last, isActive)
      THEN LatchStoreFault(begun, "inconsistent", throws)
      ELSE RefreshHealthySnapshot(
             [begun EXCEPT !.gate = Restored(r.gate, o.record.last, isActive, idle),
                           !.record = o.record], throws)

IdleSet(r, idle, throws) ==
  LET set == [r EXCEPT !.gate = WithMissionIdle(r.gate, idle)]
  IN  IF r.fault THEN r
      ELSE IF ~r.initialized THEN set
      ELSE RefreshHealthySnapshot(set, throws)

\* Mutant of Closing: the snapshot goes on showing an open admission.
ClosingUnseen(r) == [r EXCEPT !.closed = TRUE]

\* Admission is closed before the store is asked.
Closing(r) == [r EXCEPT !.closed = TRUE, !.snap.closed = TRUE]

\* Mutant of ApplyUncertainActivation: what may have been committed is dropped.
IgnoreUncertainActivation(r, o, idle, throws) == r

\* A result that may have been committed is braked for as if it had been.
ApplyUncertainActivation(r, o, idle, throws) ==
  LET request   == ~r.snap.gateActive
      requested == IF request
                   THEN [r EXCEPT !.gate = Requested(r.gate, o.record.last, idle)]
                   ELSE r
  IN  IF \/ ~o.committed
         \/ o.record.owner = Nobody
         \/ request /\ ~CanRequest(r.gate, o.record.last)
         \/ ~request /\ r.snap.generation # o.record.last
      THEN r
      ELSE IF throws THEN LatchEmergencyFault(requested)
      ELSE RefreshHealthySnapshot([requested EXCEPT !.record = o.record], FALSE)

EnabledBy(r, requester, o, idle, throws, again) ==
  LET c == Closing(r)
      requested == [c EXCEPT !.gate = Requested(c.gate, o.record.last, idle),
                             !.record = o.record]
      granted == /\ o.committed
                 /\ o.record.owner # Nobody
                 /\ CanRequest(c.gate, o.record.last)
      repeated == /\ c.snap.gateActive
                  /\ o.record.last = c.snap.generation
                  /\ o.record.owner = requester
  IN  IF ~Available(r) THEN r
      ELSE IF o.code = "ok"
      THEN IF granted THEN RefreshHealthySnapshot(requested, throws)
           ELSE LatchStoreFault(c, "inconsistent", throws)
      ELSE IF o.code = "already_active"
      THEN IF repeated THEN RefreshHealthySnapshot([c EXCEPT !.record = o.record], throws)
           ELSE LatchStoreFault(c, "inconsistent", throws)
      ELSE IF o.committed \/ IsOperationalFailure(o.code)
      THEN LatchStoreFault(ApplyUncertainActivation(c, o, idle, throws), "store", again)
      ELSE RestoreAdmissionFromRecord(c, throws)

DisabledBy(r, generation, o, throws) ==
  LET c == Closing(r)
      released == [c EXCEPT !.gate = Released(c.gate, generation), !.record = o.record]
  IN  IF ~Available(r) \/ generation = 0 THEN r
      ELSE IF o.code = "ok"
      THEN IF o.committed /\ o.record = Inactive(generation) /\ CanRelease(c.gate, generation)
           THEN RefreshHealthySnapshot(released, throws)
           ELSE LatchStoreFault(c, "inconsistent", throws)
      ELSE IF o.committed \/ IsOperationalFailure(o.code)
      THEN LatchStoreFault(c, "store", throws)
      ELSE RestoreAdmissionFromRecord(c, throws)

FinalCommandObserved(r, cmd, throws) ==
  IF ~Available(r) THEN r
  ELSE RestoreAdmissionFromRecord([r EXCEPT !.gate = AfterFinalCommand(@, cmd)], throws)

CommandStatusObserved(r, st, throws) ==
  IF ~Available(r) THEN r
  ELSE RestoreAdmissionFromRecord([r EXCEPT !.gate = AfterCommandStatus(@, st)], throws)

\* The sample of a publisher that cannot be numbered revokes what was known.
HardwareObserved(r, publisher, seq, connected, zero, throws) ==
  LET verdict  == Verdict(r.tracker, publisher)
      tracker  == Observed(r.tracker, publisher)
      revoked  == [NoSample EXCEPT !.seq = seq, !.zero = zero]
      evidence == [epoch |-> tracker.epoch, seq |-> seq, fresh |-> connected, zero |-> zero]
  IN  IF ~Available(r) \/ verdict = "retired" THEN r
      ELSE IF verdict # "accepted"
      THEN RestoreAdmissionFromRecord([r EXCEPT !.gate = AfterHardware(@, revoked)], throws)
      ELSE RestoreAdmissionFromRecord(
             [r EXCEPT !.tracker = tracker, !.latest = evidence, !.aged = FALSE,
                       !.gate = AfterHardware(@, evidence)], throws)

\* Mutant of HardwareRefreshed: the sample is not looked at again.
NeverRefreshed(r, throws) == r

HardwareRefreshed(r, throws) ==
  LET refreshed == [r.latest EXCEPT !.fresh = r.latest.fresh /\ ~r.aged]
  IN  IF ~Available(r) \/ r.latest.epoch = RevokedEpoch THEN r
      ELSE RestoreAdmissionFromRecord([r EXCEPT !.gate = AfterHardware(@, refreshed)], throws)
=============================================================================
