------------------------- MODULE MaintenanceGateOps -------------------------
(***************************************************************************)
(* The class MaintenanceGate of cleanbot_mission as a value: a record with *)
(* the fields of the class and one operator per method, each of which maps *)
(* the gate before the call to the gate after it.  The state machine       *)
(* MaintenanceGate and the runtime MaintenanceRuntime, whose handlers call *)
(* several methods in one step, are both written with these operators.     *)
(*                                                                         *)
(* Abstractions of the data:                                               *)
(*  - the three speeds of a hardware sample are the set of outputs that    *)
(*    read zero (Outputs: linear, angular and brush in the code);          *)
(*  - "connected" is part of "fresh", which is how the code reads it;      *)
(*  - generation, request_id and source of a piece of evidence are one     *)
(*    number, 0 when they do not all name one maintenance request;         *)
(*  - publisherEpoch = 0 stands for !has_publisher_epoch_ and              *)
(*    lastFrame = NoFrame for !has_last_frame_sequence_;                   *)
(*  - pending is total: "none" marks an id without an entry in the map.    *)
(***************************************************************************)
EXTENDS Integers, FiniteSets

CONSTANTS Outputs,         \* the outputs a hardware sample reports on
          CommandId,       \* the command ids the arbiter can publish
          PendingCapacity  \* kPendingStatusCapacity

ASSUME OutputsAssumption == Outputs # {}
ASSUME CommandIdAssumption == CommandId \subseteq Nat \ {0}
ASSUME PendingCapacityAssumption == PendingCapacity \in Nat

NoCommand == 0
NoFrame == -1
RevokedEpoch == 0

\* CommandExecutionStatus.state: what acknowledges a brake, what refuses it.
AckStates == {"sent", "acknowledged"}
FailureStates == {"rejected", "timed_out", "transport_lost", "superseded"}
StatusStates == AckStates \cup FailureStates \cup {"queued", "completed"}
Failures == FailureStates \cup {"none", "overflow"}
Verdicts == FailureStates \cup {"none", "acknowledged"}

FinalCommands == [generation : Nat, id : CommandId \cup {NoCommand}, safe : BOOLEAN]
Statuses == [generation : Nat, id : CommandId \cup {NoCommand}, state : StatusStates]
Samples == [epoch : Nat, seq : Nat, fresh : BOOLEAN, zero : SUBSET Outputs]

GateRecords ==
  [pristine : BOOLEAN, active : BOOLEAN, generation : Nat, lastGeneration : Nat,
   missionIdle : BOOLEAN, gateApplied : BOOLEAN,
   commandId : CommandId \cup {NoCommand}, acked : BOOLEAN, failure : Failures,
   pending : [CommandId -> Verdicts],
   observed : BOOLEAN, fresh : BOOLEAN, zero : SUBSET Outputs,
   epoch : Nat, lastFrame : Nat \cup {NoFrame}, zeroFrames : {0, 1, 2}]

NoPending == [c \in CommandId |-> "none"]

NewGate ==
  [pristine |-> TRUE, active |-> FALSE, generation |-> 0, lastGeneration |-> 0,
   missionIdle |-> FALSE, gateApplied |-> FALSE, commandId |-> NoCommand,
   acked |-> FALSE, failure |-> "none", pending |-> NoPending,
   observed |-> FALSE, fresh |-> FALSE, zero |-> {},
   epoch |-> RevokedEpoch, lastFrame |-> NoFrame, zeroFrames |-> 0]

-----------------------------------------------------------------------------
(* What the methods share.                                                 *)

ResetHardwareConfirmation(g) ==
  [g EXCEPT !.observed = FALSE, !.fresh = FALSE, !.zero = {}, !.zeroFrames = 0]

ResetHardwareEvidence(g) ==
  [ResetHardwareConfirmation(g) EXCEPT !.epoch = RevokedEpoch, !.lastFrame = NoFrame]

ResetEvidence(g) ==
  [ResetHardwareEvidence(g) EXCEPT
     !.gateApplied = FALSE, !.commandId = NoCommand, !.acked = FALSE,
     !.failure = "none", !.pending = NoPending]

LatchFailure(g, failure) ==
  [ResetHardwareConfirmation(g) EXCEPT
     !.failure = failure, !.acked = FALSE, !.pending = NoPending]

AcknowledgeCurrentCommand(g) ==
  IF g.acked THEN g ELSE [ResetHardwareConfirmation(g) EXCEPT !.acked = TRUE]

FailureForState(state) == IF state \in FailureStates THEN state ELSE "none"

\* Mutant of Heeds: a gate that has failed still takes evidence.
HeedsAfterFailure(g, generation) ==
  g.active /\ generation = g.generation

\* Evidence is heeded only by an active gate that has not failed, and only
\* when it names the current request.
Heeds(g, generation) ==
  g.active /\ g.failure = "none" /\ generation = g.generation

RememberPendingStatus(g, id, verdict) ==
  IF /\ g.pending[id] = "none"
     /\ Cardinality({c \in CommandId : g.pending[c] # "none"}) >= PendingCapacity
  THEN LatchFailure(g, "overflow")
  ELSE IF verdict \in FailureStates \/ g.pending[id] \notin FailureStates
       THEN [g EXCEPT !.pending[id] = verdict]
       ELSE g

\* Mutants of ApplyPendingStatus: a remembered status is forgotten; a
\* remembered refusal is taken for an acknowledgement.
ForgetPendingStatus(g, id) == g
TrustPendingStatus(g, id) ==
  IF g.pending[id] = "none" THEN g
  ELSE AcknowledgeCurrentCommand([g EXCEPT !.pending[id] = "none"])

ApplyPendingStatus(g, id) ==
  LET verdict == g.pending[id]
      erased  == [g EXCEPT !.pending[id] = "none"]
  IN  IF verdict = "none" THEN g
      ELSE IF verdict = "acknowledged" THEN AcknowledgeCurrentCommand(erased)
      ELSE LatchFailure(erased, verdict)

-----------------------------------------------------------------------------
(* The public methods.                                                     *)

CanRestore(g, last, isActive) == g.pristine /\ (isActive => last # 0)

\* Mutant of Restored: the inhibitor of the record is not restored.
RestoredInactive(g, last, isActive, idle) ==
  ResetEvidence([g EXCEPT !.pristine = FALSE, !.lastGeneration = last,
                          !.missionIdle = idle])

\* restorePersistentState: an active record carries its last generation.
Restored(g, last, isActive, idle) ==
  IF CanRestore(g, last, isActive)
  THEN ResetEvidence(
         [g EXCEPT !.pristine = FALSE, !.active = isActive,
                   !.generation = IF isActive THEN last ELSE 0,
                   !.lastGeneration = last, !.missionIdle = idle])
  ELSE g

CanRequest(g, generation) == generation # 0 /\ generation > g.lastGeneration

Requested(g, generation, idle) ==
  IF CanRequest(g, generation)
  THEN ResetEvidence(
         [g EXCEPT !.pristine = FALSE, !.active = TRUE,
                   !.generation = generation, !.lastGeneration = generation,
                   !.missionIdle = idle])
  ELSE g

CanRelease(g, generation) == g.active /\ generation = g.generation

Released(g, generation) ==
  IF CanRelease(g, generation)
  THEN ResetEvidence(
         [g EXCEPT !.active = FALSE, !.generation = 0, !.missionIdle = FALSE])
  ELSE g

WithMissionIdle(g, idle) ==
  [g EXCEPT !.pristine = g.pristine /\ idle = g.missionIdle, !.missionIdle = idle]

\* safe stands for an active brake command with every speed zero.
SafeBrake(cmd) == cmd.safe /\ cmd.id # NoCommand

AfterFinalCommand(g, cmd) ==
  LET changed == ~g.gateApplied \/ cmd.id # g.commandId
      applied == IF changed
                 THEN [ResetHardwareConfirmation(g) EXCEPT
                         !.gateApplied = TRUE, !.commandId = cmd.id, !.acked = FALSE]
                 ELSE g
  IN  IF ~Heeds(g, cmd.generation) THEN g
      ELSE IF ~SafeBrake(cmd)
      THEN [ResetHardwareConfirmation(g) EXCEPT
              !.gateApplied = FALSE, !.commandId = NoCommand, !.acked = FALSE]
      ELSE ApplyPendingStatus(applied, cmd.id)

AfterCommandStatus(g, st) ==
  LET failure == FailureForState(st.state)
      isAck   == st.state \in AckStates
      current == g.gateApplied /\ st.id = g.commandId
  IN  IF \/ ~Heeds(g, st.generation)
         \/ st.id = NoCommand
         \/ ~isAck /\ failure = "none"
      THEN g
      ELSE IF ~current
      THEN RememberPendingStatus(g, st.id, IF isAck THEN "acknowledged" ELSE failure)
      ELSE IF isAck THEN AcknowledgeCurrentCommand(g)
      ELSE LatchFailure(g, failure)

SafeZero(s) == s.fresh /\ s.zero = Outputs

\* Mutant of EnterSession: zero frames of the session that ended still count.
SessionKeepsCount(g, s) ==
  IF s.epoch > g.epoch THEN [g EXCEPT !.epoch = s.epoch, !.lastFrame = NoFrame] ELSE g

\* Mutant of EnterSession: the change of publisher goes unnoticed.
IgnoresSession(g, s) == g

\* A publisher not seen before starts its frame numbers afresh.
EnterSession(g, s) ==
  IF s.epoch > g.epoch
  THEN [ResetHardwareConfirmation(g) EXCEPT !.epoch = s.epoch, !.lastFrame = NoFrame]
  ELSE g

Later(s, frame) == IF s.seq > frame THEN s.seq ELSE frame

AfterHardware(g, s) ==
  LET e == EnterSession(g, s)
  IN  IF ~g.active \/ g.failure # "none" THEN g
      ELSE IF s.epoch = RevokedEpoch
      THEN [ResetHardwareConfirmation(g) EXCEPT !.observed = g.acked]
      ELSE IF s.epoch < g.epoch THEN g
      ELSE IF ~g.acked THEN [e EXCEPT !.lastFrame = Later(s, e.lastFrame)]
      ELSE IF ~SafeZero(s)
      THEN [e EXCEPT !.observed = TRUE, !.fresh = s.fresh, !.zero = s.zero,
                     !.zeroFrames = 0, !.lastFrame = Later(s, e.lastFrame)]
      ELSE IF s.seq <= e.lastFrame THEN e
      ELSE [e EXCEPT !.observed = TRUE, !.fresh = TRUE, !.zero = Outputs,
                     !.lastFrame = s.seq,
                     !.zeroFrames = IF e.zeroFrames = 2 THEN 2 ELSE e.zeroFrames + 1]

-----------------------------------------------------------------------------
(* snapshot(): readiness and the blocker that explains its absence.        *)

Ready(g) ==
  /\ g.active
  /\ g.missionIdle
  /\ g.gateApplied
  /\ g.acked
  /\ g.failure = "none"
  /\ g.observed
  /\ g.fresh
  /\ g.zero = Outputs
  /\ g.zeroFrames = 2

Blocker(g) ==
  IF ~g.active THEN "MAINTENANCE_INACTIVE"
  ELSE IF g.failure # "none" THEN g.failure
  ELSE IF ~g.missionIdle THEN "MISSION_BUSY"
  ELSE IF ~g.gateApplied THEN "COMMAND_GATE_NOT_APPLIED"
  ELSE IF ~g.acked THEN "BRAKE_ACK_PENDING"
  ELSE IF ~g.observed THEN "HARDWARE_SAMPLE_PENDING"
  ELSE IF ~g.fresh THEN "HARDWARE_NOT_FRESH"
  ELSE IF g.zero # Outputs THEN "HARDWARE_NOT_STOPPED"
  ELSE IF g.zeroFrames < 2 THEN "HARDWARE_CONFIRMATION_PENDING"
  ELSE "READY"
=============================================================================
