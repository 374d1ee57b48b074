------------------------- MODULE MaintenanceGate_proofs -------------------------
(***************************************************************************)
(* Proofs that every behaviour of MaintenanceGate keeps its types and that *)
(* a ready gate has earned its readiness, for all sets of generations,     *)
(* command ids, sessions, frames and outputs.                              *)
(***************************************************************************)
EXTENDS MaintenanceGate, FiniteSetTheorems, TLAPS

-----------------------------------------------------------------------------
(* The methods of the gate: each maps gate records to gate records, and    *)
(* what the evidence handlers do to the fields that the invariants relate. *)

LEMMA ResetHardwareConfirmationType ==
  ASSUME NEW g \in GateRecords
  PROVE  ResetHardwareConfirmation(g) \in GateRecords
BY DEF ResetHardwareConfirmation, GateRecords

LEMMA ResetHardwareEvidenceType ==
  ASSUME NEW g \in GateRecords
  PROVE  ResetHardwareEvidence(g) \in GateRecords
BY ResetHardwareConfirmationType
   DEF ResetHardwareEvidence, GateRecords, NoFrame, RevokedEpoch

LEMMA NoPendingType == NoPending \in [CommandId -> Verdicts]
BY DEF NoPending, Verdicts

LEMMA ResetEvidenceType ==
  ASSUME NEW g \in GateRecords
  PROVE  ResetEvidence(g) \in GateRecords
BY NoPendingType, ResetHardwareEvidenceType
   DEF ResetEvidence, GateRecords, NoCommand, Failures

LEMMA LatchFailureType ==
  ASSUME NEW g \in GateRecords, NEW f \in Failures
  PROVE  LatchFailure(g, f) \in GateRecords
BY NoPendingType, ResetHardwareConfirmationType DEF LatchFailure, GateRecords

LEMMA AcknowledgeType ==
  ASSUME NEW g \in GateRecords
  PROVE  AcknowledgeCurrentCommand(g) \in GateRecords
BY ResetHardwareConfirmationType DEF AcknowledgeCurrentCommand, GateRecords

LEMMA SetPendingType ==
  ASSUME NEW g \in GateRecords, NEW id \in CommandId, NEW v \in Verdicts
  PROVE  [g EXCEPT !.pending[id] = v] \in GateRecords
BY DEF GateRecords

LEMMA RememberType ==
  ASSUME NEW g \in GateRecords, NEW id \in CommandId, NEW v \in Verdicts
  PROVE  RememberPendingStatus(g, id, v) \in GateRecords
BY SetPendingType, LatchFailureType DEF RememberPendingStatus, Failures

LEMMA ApplyType ==
  ASSUME NEW g \in GateRecords, NEW id \in CommandId
  PROVE  ApplyPendingStatus(g, id) \in GateRecords
<1>1. g.pending[id] \in Verdicts
  BY DEF GateRecords
<1>2. [g EXCEPT !.pending[id] = "none"] \in GateRecords
  BY SetPendingType DEF Verdicts
<1>. QED
  BY <1>1, <1>2, AcknowledgeType, LatchFailureType
     DEF ApplyPendingStatus, Verdicts, Failures

LEMMA RestoredType ==
  ASSUME NEW g \in GateRecords, NEW last \in Nat,
         NEW isActive \in BOOLEAN, NEW idle \in BOOLEAN
  PROVE  Restored(g, last, isActive, idle) \in GateRecords
<1>. DEFINE generation == IF isActive THEN last ELSE 0
<1>1. generation \in Nat
  OBVIOUS
<1>. HIDE DEF generation
<1>2. [g EXCEPT !.pristine = FALSE, !.active = isActive, !.generation = generation,
                !.lastGeneration = last, !.missionIdle = idle] \in GateRecords
  BY <1>1 DEF GateRecords
<1>. QED
  BY <1>2, ResetEvidenceType DEF Restored, generation

LEMMA RequestedType ==
  ASSUME NEW g \in GateRecords, NEW generation \in Nat, NEW idle \in BOOLEAN
  PROVE  Requested(g, generation, idle) \in GateRecords
<1>1. [g EXCEPT !.pristine = FALSE, !.active = TRUE,
                !.generation = generation, !.lastGeneration = generation,
                !.missionIdle = idle] \in GateRecords
  BY DEF GateRecords
<1>. QED
  BY <1>1, ResetEvidenceType DEF Requested

LEMMA ReleasedType ==
  ASSUME NEW g \in GateRecords, NEW generation \in Nat
  PROVE  Released(g, generation) \in GateRecords
<1>1. [g EXCEPT !.active = FALSE, !.generation = 0, !.missionIdle = FALSE]
        \in GateRecords
  BY DEF GateRecords
<1>. QED
  BY <1>1, ResetEvidenceType DEF Released

LEMMA WithMissionIdleType ==
  ASSUME NEW g \in GateRecords, NEW idle \in BOOLEAN
  PROVE  WithMissionIdle(g, idle) \in GateRecords
<1>. DEFINE pristine == g.pristine /\ idle = g.missionIdle
<1>1. pristine \in BOOLEAN
  OBVIOUS
<1>. HIDE DEF pristine
<1>2. [g EXCEPT !.pristine = pristine, !.missionIdle = idle] \in GateRecords
  BY <1>1 DEF GateRecords
<1>. QED
  BY <1>2 DEF WithMissionIdle, pristine

LEMMA AfterFinalCommandType ==
  ASSUME NEW g \in GateRecords, NEW cmd \in FinalCommands
  PROVE  AfterFinalCommand(g, cmd) \in GateRecords
<1>1. ResetHardwareConfirmation(g) \in GateRecords
  BY ResetHardwareConfirmationType
<1>2. [ResetHardwareConfirmation(g) EXCEPT
         !.gateApplied = FALSE, !.commandId = NoCommand, !.acked = FALSE]
        \in GateRecords
  BY <1>1 DEF GateRecords
<1>3. [ResetHardwareConfirmation(g) EXCEPT
         !.gateApplied = TRUE, !.commandId = cmd.id, !.acked = FALSE]
        \in GateRecords
  BY <1>1 DEF GateRecords, FinalCommands
<1>4. cmd.id # NoCommand => cmd.id \in CommandId
  BY DEF FinalCommands
<1>. QED
  BY <1>2, <1>3, <1>4, ApplyType DEF AfterFinalCommand, SafeBrake

LEMMA AfterCommandStatusType ==
  ASSUME NEW g \in GateRecords, NEW st \in Statuses
  PROVE  AfterCommandStatus(g, st) \in GateRecords
<1>1. FailureForState(st.state) \in Failures
  BY DEF FailureForState, Failures
<1>2. CASE st.id = NoCommand
  BY <1>2 DEF AfterCommandStatus
<1>3. CASE st.id # NoCommand
  <2>. DEFINE v == IF st.state \in AckStates THEN "acknowledged"
                   ELSE FailureForState(st.state)
  <2>1. st.id \in CommandId
    BY <1>3 DEF Statuses
  <2>2. v \in Verdicts
    BY DEF FailureForState, Verdicts
  <2>. HIDE DEF v
  <2>3. RememberPendingStatus(g, st.id, v) \in GateRecords
    BY <2>1, <2>2, RememberType
  <2>4. LatchFailure(g, FailureForState(st.state)) \in GateRecords
    BY <1>1, LatchFailureType
  <2>. QED
    BY <2>3, <2>4, AcknowledgeType DEF AfterCommandStatus, v
<1>. QED
  BY <1>2, <1>3

LEMMA LaterType ==
  ASSUME NEW s \in Samples, NEW f \in Nat \cup {NoFrame}
  PROVE  Later(s, f) \in Nat \cup {NoFrame}
BY DEF Later, Samples

LEMMA EnterSessionType ==
  ASSUME NEW g \in GateRecords, NEW s \in Samples
  PROVE  EnterSession(g, s) \in GateRecords
<1>1. ResetHardwareConfirmation(g) \in GateRecords
  BY ResetHardwareConfirmationType
<1>2. [ResetHardwareConfirmation(g) EXCEPT !.epoch = s.epoch, !.lastFrame = NoFrame]
        \in GateRecords
  BY <1>1 DEF GateRecords, Samples
<1>. QED
  BY <1>2 DEF EnterSession

LEMMA AfterHardwareType ==
  ASSUME NEW g \in GateRecords, NEW s \in Samples
  PROVE  AfterHardware(g, s) \in GateRecords
<1>. DEFINE e == EnterSession(g, s)
            n == IF e.zeroFrames = 2 THEN 2 ELSE e.zeroFrames + 1
<1>1. e \in GateRecords
  BY EnterSessionType
<1>. HIDE DEF e
<1>2. Later(s, e.lastFrame) \in Nat \cup {NoFrame}
  BY <1>1, LaterType DEF GateRecords
<1>3. [ResetHardwareConfirmation(g) EXCEPT !.observed = g.acked] \in GateRecords
  BY ResetHardwareConfirmationType DEF GateRecords
<1>4. [e EXCEPT !.lastFrame = Later(s, e.lastFrame)] \in GateRecords
  BY <1>1, <1>2 DEF GateRecords
<1>5. [e EXCEPT !.observed = TRUE, !.fresh = s.fresh, !.zero = s.zero,
                !.zeroFrames = 0, !.lastFrame = Later(s, e.lastFrame)] \in GateRecords
  BY <1>1, <1>2 DEF GateRecords, Samples
<1>6. n \in {0, 1, 2}
  BY <1>1 DEF GateRecords
<1>. HIDE DEF n
<1>7. [e EXCEPT !.observed = TRUE, !.fresh = TRUE, !.zero = Outputs,
                !.lastFrame = s.seq, !.zeroFrames = n] \in GateRecords
  BY <1>1, <1>6 DEF GateRecords, Samples
<1>. QED
  BY <1>1, <1>3, <1>4, <1>5, <1>7 DEF AfterHardware, e, n

-----------------------------------------------------------------------------
\* A command the gate heeds and survives: an unsafe one withdraws the brake, a
\* safe one becomes current and consumes its remembered acknowledgement.
LEMMA FinalCommandEffect ==
  ASSUME NEW g \in GateRecords, NEW cmd \in FinalCommands,
         Heeds(g, cmd.generation),
         NEW h, h = AfterFinalCommand(g, cmd)
  PROVE  /\ h.active = g.active /\ h.generation = g.generation
         /\ h.epoch = g.epoch /\ h.lastFrame = g.lastFrame
         /\ ~SafeBrake(cmd) =>
              /\ ~h.gateApplied /\ ~h.acked
              /\ h.zeroFrames = 0
              /\ h.pending = g.pending
         /\ SafeBrake(cmd) /\ h.failure = "none" =>
              /\ cmd.id \in CommandId
              /\ h.gateApplied /\ h.commandId = cmd.id
              /\ g.pending[cmd.id] \notin FailureStates
              /\ h.pending = [g.pending EXCEPT ![cmd.id] = "none"]
              /\ h.acked => \/ g.acked /\ g.gateApplied /\ cmd.id = g.commandId
                            \/ g.pending[cmd.id] = "acknowledged"
              /\ \/ h.zeroFrames = 0
                 \/ /\ h.zeroFrames = g.zeroFrames
                    /\ h.acked = g.acked
                    /\ h.commandId = g.commandId
<1>1. CASE ~SafeBrake(cmd)
  BY <1>1 DEF AfterFinalCommand, ResetHardwareConfirmation, GateRecords
<1>2. CASE SafeBrake(cmd)
  <2>. DEFINE c == cmd.id
              changed == ~g.gateApplied \/ c # g.commandId
              a == IF changed
                   THEN [ResetHardwareConfirmation(g) EXCEPT
                           !.gateApplied = TRUE, !.commandId = c, !.acked = FALSE]
                   ELSE g
  <2>1. c \in CommandId
    BY <1>2 DEF SafeBrake, FinalCommands
  <2>2. h = ApplyPendingStatus(a, c)
    BY <1>2 DEF AfterFinalCommand
  <2>3. a \in GateRecords
    <3>1. [ResetHardwareConfirmation(g) EXCEPT
             !.gateApplied = TRUE, !.commandId = c, !.acked = FALSE] \in GateRecords
      BY <2>1, ResetHardwareConfirmationType DEF GateRecords
    <3>. QED
      BY <3>1
  <2>4. /\ a.active = g.active /\ a.generation = g.generation
        /\ a.epoch = g.epoch /\ a.lastFrame = g.lastFrame
        /\ a.failure = "none" /\ a.pending = g.pending
        /\ a.gateApplied /\ a.commandId = c
        /\ a.acked => g.acked /\ g.gateApplied /\ c = g.commandId
        /\ \/ a.zeroFrames = 0
           \/ /\ a.zeroFrames = g.zeroFrames
              /\ a.acked = g.acked
              /\ a.commandId = g.commandId
    BY DEF ResetHardwareConfirmation, GateRecords, Heeds
  <2>. HIDE DEF a
  <2>5. a.pending[c] \in Verdicts
    BY <2>1, <2>3 DEF GateRecords
  <2>6. CASE a.pending[c] = "none"
    <3>1. h = a
      BY <2>2, <2>6 DEF ApplyPendingStatus
    <3>2. h.pending = [g.pending EXCEPT ![c] = "none"]
      BY <2>1, <2>3, <2>4, <2>6, <3>1 DEF GateRecords
    <3>. QED
      BY <1>2, <2>1, <2>4, <2>6, <3>1, <3>2 DEF FailureStates
  <2>7. CASE a.pending[c] = "acknowledged"
    <3>. DEFINE e == [a EXCEPT !.pending[c] = "none"]
    <3>1. h = AcknowledgeCurrentCommand(e)
      BY <2>2, <2>7 DEF ApplyPendingStatus
    <3>2. e \in GateRecords
      BY <2>1, <2>3, SetPendingType DEF Verdicts
    <3>3. /\ e.active = a.active /\ e.generation = a.generation
          /\ e.epoch = a.epoch /\ e.lastFrame = a.lastFrame
          /\ e.failure = a.failure /\ e.gateApplied = a.gateApplied
          /\ e.commandId = a.commandId /\ e.acked = a.acked
          /\ e.zeroFrames = a.zeroFrames
          /\ e.pending = [a.pending EXCEPT ![c] = "none"]
      BY <2>3 DEF GateRecords
    <3>. HIDE DEF e
    <3>4. /\ h.active = e.active /\ h.generation = e.generation
          /\ h.epoch = e.epoch /\ h.lastFrame = e.lastFrame
          /\ h.failure = e.failure /\ h.gateApplied = e.gateApplied
          /\ h.commandId = e.commandId /\ h.pending = e.pending
          /\ \/ h.zeroFrames = 0
             \/ h.zeroFrames = e.zeroFrames /\ h.acked = e.acked
      BY <3>1, <3>2
         DEF AcknowledgeCurrentCommand, ResetHardwareConfirmation, GateRecords
    <3>. QED
      BY <1>2, <2>1, <2>4, <2>7, <3>3, <3>4 DEF FailureStates
  <2>8. CASE a.pending[c] \in FailureStates
    <3>. DEFINE e == [a EXCEPT !.pending[c] = "none"]
    <3>1. h = LatchFailure(e, a.pending[c])
      BY <2>2, <2>8 DEF ApplyPendingStatus, FailureStates
    <3>2. h.failure # "none"
      BY <2>3, <2>8, <3>1
         DEF LatchFailure, ResetHardwareConfirmation, GateRecords, FailureStates
    <3>3. /\ h.active = a.active /\ h.generation = a.generation
          /\ h.epoch = a.epoch /\ h.lastFrame = a.lastFrame
      BY <2>3, <3>1 DEF LatchFailure, ResetHardwareConfirmation, GateRecords
    <3>. QED
      BY <1>2, <2>4, <3>2, <3>3
  <2>. QED
    BY <2>5, <2>6, <2>7, <2>8 DEF Verdicts
<1>. QED
  BY <1>1, <1>2

\* A status the gate heeds and survives: a refusal is remembered under its
\* id, an acknowledgement is remembered or confirms the current command.
LEMMA CommandStatusEffect ==
  ASSUME NEW g \in GateRecords, NEW st \in Statuses,
         Heeds(g, st.generation),
         NEW h, h = AfterCommandStatus(g, st)
  PROVE  /\ h.active = g.active /\ h.generation = g.generation
         /\ h.epoch = g.epoch /\ h.lastFrame = g.lastFrame
         /\ h.failure = "none" =>
              /\ h.gateApplied = g.gateApplied /\ h.commandId = g.commandId
              /\ h.acked => \/ g.acked
                            \/ /\ st.state \in AckStates
                               /\ g.gateApplied /\ st.id = g.commandId
                               /\ st.id \in CommandId
              /\ \/ h.zeroFrames = 0
                 \/ h.zeroFrames = g.zeroFrames /\ h.acked = g.acked
              /\ st.state \in FailureStates /\ st.id \in CommandId =>
                   /\ h.pending[st.id] \in FailureStates
                   /\ ~(g.gateApplied /\ st.id = g.commandId)
              /\ \A c \in CommandId :
                   \/ h.pending[c] = g.pending[c]
                   \/ /\ c = st.id
                      /\ ~(g.gateApplied /\ c = g.commandId)
                      /\ \/ h.pending[c] \in FailureStates
                         \/ /\ h.pending[c] = "acknowledged"
                            /\ st.state \in AckStates
                            /\ g.pending[c] \notin FailureStates
<1>1. CASE \/ st.id = NoCommand
           \/ st.state \notin AckStates \cup FailureStates
  <2>1. h = g
    BY <1>1 DEF AfterCommandStatus, FailureForState, Heeds
  <2>2. ~(st.state \in FailureStates /\ st.id \in CommandId)
    BY <1>1, CommandIdAssumption DEF NoCommand
  <2>. QED
    BY <2>1, <2>2
<1>2. CASE st.id # NoCommand /\ st.state \in AckStates \cup FailureStates
  <2>1. st.id \in CommandId
    BY <1>2 DEF Statuses
  <2>2. /\ st.state \in FailureStates => st.state \notin AckStates
        /\ "none" \notin FailureStates /\ "none" \notin AckStates
        /\ "acknowledged" \notin FailureStates /\ "overflow" # "none"
    BY DEF AckStates, FailureStates
  <2>3. CASE g.gateApplied /\ st.id = g.commandId
    <3>1. CASE st.state \in AckStates
      <4>1. h = AcknowledgeCurrentCommand(g)
        BY <1>2, <2>3, <3>1 DEF AfterCommandStatus, Heeds, FailureForState
      <4>. QED
        BY <2>1, <2>2, <2>3, <3>1, <4>1
           DEF AcknowledgeCurrentCommand, ResetHardwareConfirmation, GateRecords
    <3>2. CASE st.state \in FailureStates
      <4>1. h = LatchFailure(g, st.state)
        BY <1>2, <2>2, <2>3, <3>2 DEF AfterCommandStatus, Heeds, FailureForState
      <4>. QED
        BY <2>2, <3>2, <4>1 DEF LatchFailure, ResetHardwareConfirmation, GateRecords
    <3>. QED
      BY <1>2, <3>1, <3>2
  <2>4. CASE ~(g.gateApplied /\ st.id = g.commandId)
    <3>. DEFINE v == IF st.state \in AckStates THEN "acknowledged" ELSE st.state
    <3>1. h = RememberPendingStatus(g, st.id, v)
      BY <1>2, <2>2, <2>4 DEF AfterCommandStatus, Heeds, FailureForState
    <3>2. /\ v \in FailureStates => v = st.state
          /\ v \notin FailureStates => v = "acknowledged" /\ st.state \in AckStates
          /\ st.state \in FailureStates => v \in FailureStates
      BY <1>2, <2>2
    <3>. HIDE DEF v
    <3>3. CASE h = LatchFailure(g, "overflow")
      BY <2>2, <3>3 DEF LatchFailure, ResetHardwareConfirmation, GateRecords
    <3>4. CASE /\ v \in FailureStates \/ g.pending[st.id] \notin FailureStates
               /\ h = [g EXCEPT !.pending[st.id] = v]
      BY <2>1, <2>2, <2>4, <3>2, <3>4 DEF GateRecords
    <3>5. CASE /\ v \notin FailureStates /\ g.pending[st.id] \in FailureStates
               /\ h = g
      BY <2>4, <3>2, <3>5
    <3>. QED
      BY <3>1, <3>3, <3>4, <3>5 DEF RememberPendingStatus
  <2>. QED
    BY <2>3, <2>4
<1>. QED
  BY <1>1, <1>2 DEF Statuses

\* What a sample does to an active gate that has not failed.
LEMMA HardwareEffect ==
  ASSUME NEW g \in GateRecords, NEW s \in Samples,
         g.active, g.failure = "none",
         NEW h, h = AfterHardware(g, s),
         NEW last, last = IF s.epoch > g.epoch THEN NoFrame ELSE g.lastFrame,
         NEW count, count = IF s.epoch > g.epoch THEN 0 ELSE g.zeroFrames
  PROVE  /\ h.active = g.active /\ h.generation = g.generation
         /\ h.failure = "none" /\ h.pending = g.pending
         /\ h.gateApplied = g.gateApplied /\ h.commandId = g.commandId
         /\ h.acked = g.acked
         /\ s.epoch = RevokedEpoch =>
              h.epoch = g.epoch /\ h.lastFrame = g.lastFrame /\ h.zeroFrames = 0
         /\ s.epoch # RevokedEpoch /\ s.epoch < g.epoch => h = g
         /\ s.epoch # RevokedEpoch /\ s.epoch >= g.epoch =>
              /\ h.epoch = s.epoch
              /\ ~g.acked => h.lastFrame = Later(s, last) /\ h.zeroFrames = count
              /\ g.acked /\ ~SafeZero(s) =>
                   h.lastFrame = Later(s, last) /\ h.zeroFrames = 0
              /\ g.acked /\ SafeZero(s) /\ s.seq <= last =>
                   h.lastFrame = last /\ h.zeroFrames = count
              /\ g.acked /\ SafeZero(s) /\ ~(s.seq <= last) =>
                   /\ h.lastFrame = s.seq
                   /\ h.zeroFrames = IF count = 2 THEN 2 ELSE count + 1
<1>. DEFINE e == EnterSession(g, s)
<1>1. CASE s.epoch = RevokedEpoch
  BY <1>1 DEF AfterHardware, ResetHardwareConfirmation, GateRecords
<1>2. CASE s.epoch # RevokedEpoch /\ s.epoch < g.epoch
  <2>1. h = g
    BY <1>2 DEF AfterHardware
  <2>2. ~(s.epoch >= g.epoch)
    BY <1>2 DEF GateRecords, Samples
  <2>. QED
    BY <1>2, <2>1, <2>2
<1>3. CASE s.epoch # RevokedEpoch /\ s.epoch >= g.epoch
  <2>1. ~(s.epoch < g.epoch)
    BY <1>3 DEF GateRecords, Samples
  <2>2. e \in GateRecords
    BY EnterSessionType
  <2>3. /\ e.active = g.active /\ e.generation = g.generation
        /\ e.failure = "none" /\ e.pending = g.pending
        /\ e.gateApplied = g.gateApplied /\ e.commandId = g.commandId
        /\ e.acked = g.acked
        /\ e.epoch = s.epoch /\ e.lastFrame = last /\ e.zeroFrames = count
    <3>1. CASE s.epoch > g.epoch
      BY <3>1 DEF EnterSession, ResetHardwareConfirmation, GateRecords
    <3>2. CASE ~(s.epoch > g.epoch)
      <4>1. e = g
        BY <3>2 DEF EnterSession
      <4>2. g.epoch = s.epoch
        BY <1>3, <3>2 DEF GateRecords, Samples
      <4>. QED
        BY <3>2, <4>1, <4>2
    <3>. QED
      BY <3>1, <3>2
  <2>. HIDE DEF e
  <2>4. CASE ~g.acked
    <3>1. h = [e EXCEPT !.lastFrame = Later(s, e.lastFrame)]
      BY <1>3, <2>1, <2>4 DEF AfterHardware, e
    <3>. QED
      BY <1>3, <2>1, <2>2, <2>3, <2>4, <3>1 DEF GateRecords
  <2>5. CASE g.acked /\ ~SafeZero(s)
    <3>1. h = [e EXCEPT !.observed = TRUE, !.fresh = s.fresh, !.zero = s.zero,
                        !.zeroFrames = 0, !.lastFrame = Later(s, e.lastFrame)]
      BY <1>3, <2>1, <2>5 DEF AfterHardware, e
    <3>2. /\ h.active = e.active /\ h.generation = e.generation
          /\ h.failure = e.failure /\ h.pending = e.pending
          /\ h.gateApplied = e.gateApplied /\ h.commandId = e.commandId
          /\ h.acked = e.acked /\ h.epoch = e.epoch
          /\ h.lastFrame = Later(s, e.lastFrame) /\ h.zeroFrames = 0
      BY <2>2, <3>1 DEF GateRecords
    <3>. QED
      BY <1>3, <2>1, <2>3, <2>5, <3>2
  <2>6. CASE g.acked /\ SafeZero(s) /\ s.seq <= last
    <3>1. h = e
      BY <1>3, <2>1, <2>3, <2>6 DEF AfterHardware, e
    <3>. QED
      BY <1>3, <2>1, <2>3, <2>6, <3>1
  <2>7. CASE g.acked /\ SafeZero(s) /\ ~(s.seq <= last)
    <3>. DEFINE n == IF e.zeroFrames = 2 THEN 2 ELSE e.zeroFrames + 1
    <3>1. h = [e EXCEPT !.observed = TRUE, !.fresh = TRUE, !.zero = Outputs,
                        !.lastFrame = s.seq, !.zeroFrames = n]
      BY <1>3, <2>1, <2>3, <2>7 DEF AfterHardware, e
    <3>2. n = IF count = 2 THEN 2 ELSE count + 1
      BY <2>3
    <3>. HIDE DEF n
    <3>3. /\ h.active = e.active /\ h.generation = e.generation
          /\ h.failure = e.failure /\ h.pending = e.pending
          /\ h.gateApplied = e.gateApplied /\ h.commandId = e.commandId
          /\ h.acked = e.acked /\ h.epoch = e.epoch
          /\ h.lastFrame = s.seq /\ h.zeroFrames = n
      BY <2>2, <3>1 DEF GateRecords
    <3>. QED
      BY <1>3, <2>1, <2>3, <2>7, <3>2, <3>3
  <2>. QED
    BY <2>4, <2>5, <2>6, <2>7
<1>4. s.epoch \in Nat /\ g.epoch \in Nat
  BY DEF Samples, GateRecords
<1>5. \/ s.epoch = RevokedEpoch
      \/ s.epoch # RevokedEpoch /\ s.epoch < g.epoch
      \/ s.epoch # RevokedEpoch /\ s.epoch >= g.epoch
  BY <1>4
<1>. QED
  BY <1>1, <1>2, <1>3, <1>5, Zenon

\* A gate without evidence, as its owner leaves it after every transition.
Blank(g) ==
  /\ ~g.gateApplied /\ ~g.acked /\ g.failure = "none"
  /\ g.pending = NoPending
  /\ g.zeroFrames = 0 /\ g.epoch = RevokedEpoch /\ g.lastFrame = NoFrame

LEMMA ResetEvidenceEffect ==
  ASSUME NEW g \in GateRecords
  PROVE  Blank(ResetEvidence(g))
BY DEF ResetEvidence, ResetHardwareEvidence, ResetHardwareConfirmation, GateRecords, Blank

\* The owner's transitions either are refused or leave a blank gate.
LEMMA OwnerEffect ==
  ASSUME NEW g \in GateRecords, NEW n \in Nat, NEW isActive \in BOOLEAN,
         NEW idle \in BOOLEAN
  PROVE  /\ IF CanRestore(g, n, isActive)
            THEN Blank(Restored(g, n, isActive, idle))
            ELSE Restored(g, n, isActive, idle) = g
         /\ IF CanRequest(g, n)
            THEN Blank(Requested(g, n, idle)) ELSE Requested(g, n, idle) = g
         /\ IF CanRelease(g, n)
            THEN Blank(Released(g, n)) ELSE Released(g, n) = g
<1>. DEFINE m == IF isActive THEN n ELSE 0
<1>1. m \in Nat
  OBVIOUS
<1>2. Restored(g, n, isActive, idle) =
        IF CanRestore(g, n, isActive)
        THEN ResetEvidence([g EXCEPT !.pristine = FALSE, !.active = isActive,
                                     !.generation = m, !.lastGeneration = n,
                                     !.missionIdle = idle])
        ELSE g
  BY DEF Restored
<1>. HIDE DEF m
<1>3. /\ [g EXCEPT !.pristine = FALSE, !.active = isActive, !.generation = m,
                   !.lastGeneration = n, !.missionIdle = idle] \in GateRecords
      /\ [g EXCEPT !.pristine = FALSE, !.active = TRUE, !.generation = n,
                   !.lastGeneration = n, !.missionIdle = idle] \in GateRecords
      /\ [g EXCEPT !.active = FALSE, !.generation = 0, !.missionIdle = FALSE]
           \in GateRecords
  BY <1>1 DEF GateRecords
<1>. QED
  BY <1>2, <1>3, ResetEvidenceEffect DEF Requested, Released

-----------------------------------------------------------------------------
(* The invariants.                                                         *)

Heeding == gate.active /\ gate.failure = "none"

\* What ReadyIsCorrelated needs to be inductive: an id with an entry in the
\* pending map is not the current one, its entry remembers every refusal,
\* and the current command was never refused.
CorrelationInv ==
  Heeding =>
    /\ gate.gateApplied =>
         /\ gate.commandId \in CommandId
         /\ gate.pending[gate.commandId] = "none"
         /\ seen.final.safe
         /\ seen.final.id = gate.commandId
    /\ gate.acked => gate.gateApplied /\ gate.commandId \in seen.acks
    /\ \A c \in CommandId :
         /\ gate.pending[c] = "acknowledged" => c \in seen.acks
         /\ c \in seen.fails => gate.pending[c] \in FailureStates

Counted(p) == p[1] = gate.epoch /\ seen.barred[gate.epoch] < p[2]

\* What ReadyIsConfirmed needs: lastFrame is the newest frame of the current
\* session, sessions not yet entered have delivered nothing, and every zero
\* frame counted is a recorded sample newer than the barred ones.
ConfirmationInv ==
  Heeding =>
    /\ gate.epoch \in Epoch \cup {RevokedEpoch}
    /\ gate.epoch = RevokedEpoch => gate.zeroFrames = 0
    /\ gate.epoch # RevokedEpoch => gate.lastFrame = seen.newest[gate.epoch]
    /\ \A e \in Epoch : e > gate.epoch => seen.newest[e] = NoFrame
    /\ \A e \in Epoch : seen.barred[e] <= seen.newest[e]
    /\ ~gate.acked => gate.zeroFrames = 0
    /\ gate.zeroFrames = 1 =>
         \E b \in seen.after : Counted(b) /\ b[2] = gate.lastFrame
    /\ gate.zeroFrames = 2 =>
         \E a, b \in seen.after :
           Counted(a) /\ Counted(b) /\ a[2] < b[2] /\ b[2] = gate.lastFrame

-----------------------------------------------------------------------------
LEMMA InputTypes ==
  /\ CommandInputs \subseteq FinalCommands
  /\ StatusInputs \subseteq Statuses
  /\ SampleInputs \subseteq Samples
<1>1. CommandInputs \subseteq FinalCommands
  BY GenerationAssumption DEF CommandInputs, FinalCommands
<1>2. StatusInputs \subseteq Statuses
  BY GenerationAssumption, InputStatesAssumption DEF StatusInputs, Statuses
<1>3. Epoch \cup {RevokedEpoch} \subseteq Nat /\ Frame \subseteq Nat
  BY EpochAssumption, FrameAssumption DEF RevokedEpoch
<1>4. SampleInputs \subseteq Samples
  BY <1>3 DEF SampleInputs, Samples
<1>. QED
  BY <1>1, <1>2, <1>4

LEMMA NothingSeenType == NothingSeen \in Histories
<1>1. NoFinal \in FinalCommands
  BY DEF NoFinal, FinalCommands
<1>2. [e \in Epoch |-> NoFrame] \in [Epoch -> Frame \cup {NoFrame}]
  OBVIOUS
<1>3. {} \in SUBSET CommandId /\ {} \in SUBSET (Epoch \X Frame)
  OBVIOUS
<1>. QED
  BY <1>1, <1>2, <1>3 DEF NothingSeen, Histories

LEMMA StartOverType ==
  ASSUME NEW h \in Histories
  PROVE  StartOver(h) \in Histories
BY DEF StartOver, Histories

LEMMA IfNewlyAckedType ==
  ASSUME NEW h \in Histories
  PROVE  IfNewlyAcked(h) \in Histories
<1>1. [NothingSeen EXCEPT !.acks = h.acks, !.fails = h.fails, !.final = h.final]
        \in Histories
  BY NothingSeenType DEF Histories
<1>. QED
  BY <1>1, StartOverType DEF IfNewlyAcked

LEMMA RecordedType ==
  ASSUME seen \in Histories, NEW st \in StatusInputs
  PROVE  Recorded(st) \in Histories
<1>. DEFINE acks == IF st.state \in AckStates THEN seen.acks \cup ({st.id} \cap CommandId)
                    ELSE seen.acks
            fails == IF st.state \in FailureStates
                     THEN seen.fails \cup ({st.id} \cap CommandId) ELSE seen.fails
<1>1. acks \subseteq CommandId /\ fails \subseteq CommandId
  BY DEF Histories
<1>2. Recorded(st) = [seen EXCEPT !.acks = acks, !.fails = fails]
  BY DEF Recorded, Histories
<1>. HIDE DEF acks, fails
<1>. QED
  BY <1>1, <1>2 DEF Histories

LEMMA NewestType ==
  ASSUME seen \in Histories, NEW s \in SampleInputs
  PROVE  [e \in Epoch |-> IF e = s.epoch THEN Later(s, seen.newest[e])
                          ELSE seen.newest[e]] \in [Epoch -> Frame \cup {NoFrame}]
BY DEF Histories, SampleInputs, Later

LEMMA SampledType ==
  ASSUME seen \in Histories, gate \in GateRecords, NEW s \in SampleInputs
  PROVE  Sampled(s) \in Histories
<1>. DEFINE newest == [e \in Epoch |-> IF e = s.epoch THEN Later(s, seen.newest[e])
                                       ELSE seen.newest[e]]
            h == [seen EXCEPT !.newest = newest]
<1>1. newest \in [Epoch -> Frame \cup {NoFrame}]
  BY NewestType
<1>. HIDE DEF newest
<1>2. h \in Histories
  BY <1>1 DEF Histories
<1>3. StartOver(h) \in Histories
  BY <1>2, StartOverType
<1>4. s.epoch # RevokedEpoch =>
        [h EXCEPT !.after = h.after \cup {<<s.epoch, s.seq>>}] \in Histories
  <2>. SUFFICES ASSUME s.epoch # RevokedEpoch
                PROVE  [h EXCEPT !.after = h.after \cup {<<s.epoch, s.seq>>}] \in Histories
    OBVIOUS
  <2>. DEFINE after == h.after \cup {<<s.epoch, s.seq>>}
  <2>1. <<s.epoch, s.seq>> \in Epoch \X Frame
    BY DEF SampleInputs
  <2>2. after \in SUBSET (Epoch \X Frame)
    BY <1>2, <2>1 DEF Histories
  <2>. HIDE DEF after, h
  <2>3. [h EXCEPT !.after = after] \in Histories
    BY <1>2, <2>2 DEF Histories
  <2>. QED
    BY <2>3 DEF after
<1>5. \/ Sampled(s) = h
      \/ Sampled(s) = StartOver(h)
      \/ /\ s.epoch # RevokedEpoch
         /\ Sampled(s) = [h EXCEPT !.after = @ \cup {<<s.epoch, s.seq>>}]
  BY DEF Sampled, newest
<1>. HIDE DEF h
<1>. QED
  BY <1>2, <1>3, <1>4, <1>5

\* The fields of the gate and the history keep their types.
THEOREM TypeCorrect == Spec => []TypeOK
<1>1. Init => TypeOK
  BY NothingSeenType, NoPendingType
     DEF Init, TypeOK, NewGate, GateRecords, NoCommand, Failures, RevokedEpoch, NoFrame
<1>2. TypeOK /\ [Next]_vars => TypeOK'
  <2>. SUFFICES ASSUME TypeOK, [Next]_vars
                PROVE  TypeOK'
    OBVIOUS
  <2>. USE DEF TypeOK
  <2>1. ASSUME NEW last \in Generation, NEW isActive \in BOOLEAN, NEW idle \in BOOLEAN,
               Restore(last, isActive, idle)
        PROVE  TypeOK'
    BY <2>1, GenerationAssumption, NothingSeenType, RestoredType DEF Restore
  <2>2. ASSUME NEW generation \in Generation, NEW idle \in BOOLEAN,
               Request(generation, idle)
        PROVE  TypeOK'
    BY <2>2, GenerationAssumption, NothingSeenType, RequestedType DEF Request
  <2>3. ASSUME NEW generation \in Generation, Release(generation)
        PROVE  TypeOK'
    BY <2>3, GenerationAssumption, NothingSeenType, ReleasedType DEF Release
  <2>4. ASSUME NEW idle \in BOOLEAN, SetMissionIdle(idle)
        PROVE  TypeOK'
    BY <2>4, WithMissionIdleType DEF SetMissionIdle
  <2>5. ASSUME NEW cmd \in CommandInputs, ObserveFinalCommand(cmd)
        PROVE  TypeOK'
    <3>1. gate' \in GateRecords
      BY <2>5, InputTypes, AfterFinalCommandType DEF ObserveFinalCommand
    <3>2. [seen EXCEPT !.final = cmd] \in Histories
      BY InputTypes DEF Histories
    <3>. QED
      BY <2>5, <3>1, <3>2, IfNewlyAckedType DEF ObserveFinalCommand
  <2>6. ASSUME NEW st \in StatusInputs, ObserveCommandStatus(st)
        PROVE  TypeOK'
    <3>1. gate' \in GateRecords
      BY <2>6, InputTypes, AfterCommandStatusType DEF ObserveCommandStatus
    <3>. QED
      BY <2>6, <3>1, RecordedType, IfNewlyAckedType DEF ObserveCommandStatus
  <2>7. ASSUME NEW s \in SampleInputs, ObserveHardware(s)
        PROVE  TypeOK'
    BY <2>7, InputTypes, AfterHardwareType, SampledType DEF ObserveHardware
  <2>8. CASE UNCHANGED vars
    BY <2>8 DEF vars
  <2>. QED
    BY <2>1, <2>2, <2>3, <2>4, <2>5, <2>6, <2>7, <2>8 DEF Next
<1>. QED
  BY <1>1, <1>2, PTL DEF Spec

-----------------------------------------------------------------------------
LEMMA NewGateBlank == Blank(NewGate)
BY DEF Blank, NewGate

\* After a transition of the owner both invariants hold again.
LEMMA BlankInv ==
  ASSUME Blank(gate), seen = NothingSeen
  PROVE  CorrelationInv /\ ConfirmationInv
<1>1. CorrelationInv
  BY DEF CorrelationInv, Blank, NoPending, NothingSeen
<1>2. ConfirmationInv
  <2>1. \A e \in Epoch : seen.newest[e] = NoFrame /\ seen.barred[e] = NoFrame
    BY DEF NothingSeen
  <2>. QED
    BY <2>1 DEF ConfirmationInv, Blank, NoFrame
<1>. QED
  BY <1>1, <1>2

\* IfNewlyAcked keeps what it is told of commands and statuses.
LEMMA IfNewlyAckedKeeps ==
  ASSUME NEW h \in Histories
  PROVE  /\ IfNewlyAcked(h).acks = h.acks
         /\ IfNewlyAcked(h).fails = h.fails
         /\ IfNewlyAcked(h).final = h.final
BY DEF IfNewlyAcked, StartOver, NothingSeen, Histories

LEMMA SampledKeeps ==
  ASSUME seen \in Histories, NEW s \in SampleInputs
  PROVE  /\ Sampled(s).acks = seen.acks
         /\ Sampled(s).fails = seen.fails
         /\ Sampled(s).final = seen.final
BY DEF Sampled, StartOver, Histories

LEMMA CorrelationStep ==
  TypeOK /\ CorrelationInv /\ [Next]_vars => CorrelationInv'
<1>. SUFFICES ASSUME TypeOK, CorrelationInv, [Next]_vars
              PROVE  CorrelationInv'
  OBVIOUS
<1>1. ASSUME NEW last \in Generation, NEW isActive \in BOOLEAN, NEW idle \in BOOLEAN,
             Restore(last, isActive, idle)
      PROVE  CorrelationInv'
  BY <1>1, GenerationAssumption, OwnerEffect
     DEF Restore, TypeOK, CorrelationInv, Heeding, Blank, NoPending, NothingSeen
<1>2. ASSUME NEW generation \in Generation, NEW idle \in BOOLEAN,
             Request(generation, idle)
      PROVE  CorrelationInv'
  BY <1>2, GenerationAssumption, OwnerEffect
     DEF Request, TypeOK, CorrelationInv, Heeding, Blank, NoPending, NothingSeen
<1>3. ASSUME NEW generation \in Generation, Release(generation)
      PROVE  CorrelationInv'
  BY <1>3, GenerationAssumption, OwnerEffect
     DEF Release, TypeOK, CorrelationInv, Heeding, Blank, NoPending, NothingSeen
<1>4. ASSUME NEW idle \in BOOLEAN, SetMissionIdle(idle)
      PROVE  CorrelationInv'
  BY <1>4 DEF SetMissionIdle, WithMissionIdle, CorrelationInv, Heeding, TypeOK, GateRecords
<1>5. ASSUME NEW cmd \in CommandInputs, ObserveFinalCommand(cmd)
      PROVE  CorrelationInv'
  <2>1. CASE ~Heeds(gate, cmd.generation)
    <3>1. gate' = gate
      BY <1>5, <2>1 DEF ObserveFinalCommand, AfterFinalCommand
    <3>2. CASE ~Heeding
      BY <3>1, <3>2 DEF CorrelationInv, Heeding
    <3>3. CASE Heeding
      <4>1. ~ForThisRequest(cmd.generation)
        BY <2>1, <3>3 DEF Heeding, Heeds, ForThisRequest
      <4>. QED
        BY <1>5, <3>1, <4>1 DEF ObserveFinalCommand, CorrelationInv, Heeding
    <3>. QED
      BY <3>2, <3>3
  <2>2. CASE Heeds(gate, cmd.generation)
    <3>. DEFINE told == [seen EXCEPT !.final = cmd]
    <3>1. told \in Histories
      BY InputTypes DEF TypeOK, Histories
    <3>2. seen' = IfNewlyAcked(told)
      BY <1>5, <2>2 DEF ObserveFinalCommand, ForThisRequest, Heeds
    <3>3. seen'.acks = seen.acks /\ seen'.fails = seen.fails /\ seen'.final = cmd
      BY <3>1, <3>2, IfNewlyAckedKeeps DEF TypeOK, Histories
    <3>4. gate' = AfterFinalCommand(gate, cmd) /\ cmd \in FinalCommands
      BY <1>5, InputTypes DEF ObserveFinalCommand
    <3>5. CASE ~SafeBrake(cmd)
      <4>1. ~gate'.gateApplied /\ ~gate'.acked /\ gate'.pending = gate.pending
        BY <2>2, <3>4, <3>5, FinalCommandEffect DEF TypeOK
      <4>2. Heeding
        BY <2>2 DEF Heeding, Heeds
      <4>. QED
        BY <3>3, <4>1, <4>2 DEF CorrelationInv
    <3>6. CASE SafeBrake(cmd) /\ gate'.failure = "none"
      <4>1. /\ cmd.id \in CommandId
            /\ gate'.gateApplied /\ gate'.commandId = cmd.id
            /\ gate.pending[cmd.id] \notin FailureStates
            /\ gate'.pending = [gate.pending EXCEPT ![cmd.id] = "none"]
            /\ gate'.acked => \/ gate.acked /\ gate.gateApplied /\ cmd.id = gate.commandId
                              \/ gate.pending[cmd.id] = "acknowledged"
        BY <2>2, <3>4, <3>6, FinalCommandEffect DEF TypeOK
      <4>2. gate.pending \in [CommandId -> Verdicts]
        BY DEF TypeOK, GateRecords
      <4>. QED
        BY <2>2, <3>3, <3>6, <4>1, <4>2
           DEF CorrelationInv, Heeding, Heeds, SafeBrake
    <3>7. CASE gate'.failure # "none"
      BY <3>7 DEF CorrelationInv, Heeding
    <3>. QED
      BY <3>5, <3>6, <3>7
  <2>. QED
    BY <2>1, <2>2
<1>6. ASSUME NEW st \in StatusInputs, ObserveCommandStatus(st)
      PROVE  CorrelationInv'
  <2>1. CASE ~Heeds(gate, st.generation)
    <3>1. gate' = gate
      BY <1>6, <2>1 DEF ObserveCommandStatus, AfterCommandStatus
    <3>2. CASE ~Heeding
      BY <3>1, <3>2 DEF CorrelationInv, Heeding
    <3>3. CASE Heeding
      <4>1. ~ForThisRequest(st.generation)
        BY <2>1, <3>3 DEF Heeding, Heeds, ForThisRequest
      <4>. QED
        BY <1>6, <3>1, <4>1 DEF ObserveCommandStatus, CorrelationInv, Heeding
    <3>. QED
      BY <3>2, <3>3
  <2>2. CASE Heeds(gate, st.generation)
    <3>1. Recorded(st) \in Histories
      BY RecordedType DEF TypeOK
    <3>2. seen' = IfNewlyAcked(Recorded(st))
      BY <1>6, <2>2 DEF ObserveCommandStatus, ForThisRequest, Heeds
    <3>3. /\ seen'.final = seen.final
          /\ seen.acks \subseteq seen'.acks
          /\ st.state \in AckStates /\ st.id \in CommandId => st.id \in seen'.acks
          /\ \A c \in seen'.fails :
               c \in seen.fails \/ (c = st.id /\ st.state \in FailureStates)
      <4>1. /\ Recorded(st).final = seen.final
            /\ Recorded(st).acks = IF st.state \in AckStates
                                   THEN seen.acks \cup ({st.id} \cap CommandId)
                                   ELSE seen.acks
            /\ Recorded(st).fails = IF st.state \in FailureStates
                                    THEN seen.fails \cup ({st.id} \cap CommandId)
                                    ELSE seen.fails
        BY DEF TypeOK, Recorded, Histories
      <4>. QED
        BY <3>1, <3>2, <4>1, IfNewlyAckedKeeps
    <3>4. gate' = AfterCommandStatus(gate, st) /\ st \in Statuses
      BY <1>6, InputTypes DEF ObserveCommandStatus
    <3>5. CASE gate'.failure = "none"
      <4>1. /\ gate'.gateApplied = gate.gateApplied /\ gate'.commandId = gate.commandId
            /\ gate'.acked => \/ gate.acked
                              \/ /\ st.state \in AckStates
                                 /\ gate.gateApplied /\ st.id = gate.commandId
                                 /\ st.id \in CommandId
            /\ st.state \in FailureStates /\ st.id \in CommandId =>
                 /\ gate'.pending[st.id] \in FailureStates
                 /\ ~(gate.gateApplied /\ st.id = gate.commandId)
            /\ \A c \in CommandId :
                 \/ gate'.pending[c] = gate.pending[c]
                 \/ /\ c = st.id
                    /\ ~(gate.gateApplied /\ c = gate.commandId)
                    /\ \/ gate'.pending[c] \in FailureStates
                       \/ /\ gate'.pending[c] = "acknowledged"
                          /\ st.state \in AckStates
                          /\ gate.pending[c] \notin FailureStates
        BY <2>2, <3>4, <3>5, CommandStatusEffect DEF TypeOK
      <4>2. /\ gate.gateApplied =>
                 /\ gate.commandId \in CommandId
                 /\ gate.pending[gate.commandId] = "none"
                 /\ seen.final.safe
                 /\ seen.final.id = gate.commandId
            /\ gate.acked => gate.gateApplied /\ gate.commandId \in seen.acks
            /\ \A c \in CommandId :
                 /\ gate.pending[c] = "acknowledged" => c \in seen.acks
                 /\ c \in seen.fails => gate.pending[c] \in FailureStates
        BY <2>2 DEF CorrelationInv, Heeding, Heeds
      <4>3. gate'.gateApplied =>
              /\ gate'.commandId \in CommandId
              /\ gate'.pending[gate'.commandId] = "none"
              /\ seen'.final.safe
              /\ seen'.final.id = gate'.commandId
        BY <3>3, <4>1, <4>2
      <4>4. gate'.acked => gate'.gateApplied /\ gate'.commandId \in seen'.acks
        BY <3>3, <4>1, <4>2
      <4>5. ASSUME NEW c \in CommandId
            PROVE  /\ gate'.pending[c] = "acknowledged" => c \in seen'.acks
                   /\ c \in seen'.fails => gate'.pending[c] \in FailureStates
        BY <3>3, <4>1, <4>2 DEF FailureStates
      <4>. QED
        BY <4>3, <4>4, <4>5 DEF CorrelationInv
    <3>. QED
      BY <3>5 DEF CorrelationInv, Heeding
  <2>. QED
    BY <2>1, <2>2
<1>7. ASSUME NEW s \in SampleInputs, ObserveHardware(s)
      PROVE  CorrelationInv'
  <2>1. seen'.acks = seen.acks /\ seen'.fails = seen.fails /\ seen'.final = seen.final
    BY <1>7, SampledKeeps DEF ObserveHardware, TypeOK
  <2>2. CASE ~Heeding
    BY <1>7, <2>2 DEF ObserveHardware, AfterHardware, CorrelationInv, Heeding
  <2>3. CASE Heeding
    <3>1. /\ gate'.pending = gate.pending /\ gate'.gateApplied = gate.gateApplied
          /\ gate'.commandId = gate.commandId /\ gate'.acked = gate.acked
      BY <1>7, <2>3, InputTypes, HardwareEffect DEF ObserveHardware, TypeOK, Heeding
    <3>. QED
      BY <2>1, <2>3, <3>1 DEF CorrelationInv
  <2>. QED
    BY <2>2, <2>3
<1>8. CASE UNCHANGED vars
  BY <1>8 DEF vars, CorrelationInv, Heeding
<1>. QED
  BY <1>1, <1>2, <1>3, <1>4, <1>5, <1>6, <1>7, <1>8 DEF Next

\* For all constants, a ready gate has braked under a command that was
\* acknowledged and never refused, whatever the order of deliveries.
THEOREM ReadyCorrelated == Spec => []ReadyIsCorrelated
<1>1. Init => CorrelationInv
  BY NewGateBlank, BlankInv DEF Init
<1>2. TypeOK /\ CorrelationInv => ReadyIsCorrelated
  BY DEF CorrelationInv, ReadyIsCorrelated, Ready, Heeding, FailureStates
<1>. QED
  BY <1>1, <1>2, TypeCorrect, CorrelationStep, PTL DEF Spec

-----------------------------------------------------------------------------
\* A delivered command or status leaves the session alone; a confirmation
\* that goes on keeps the recorded frames, any other starts from no frames.
LEMMA EvidenceKeepsConfirmation ==
  ASSUME TypeOK, TypeOK', ConfirmationInv, Heeding,
         NEW h \in Histories, seen' = IfNewlyAcked(h),
         h.newest = seen.newest, h.barred = seen.barred, h.after = seen.after,
         gate'.epoch = gate.epoch, gate'.lastFrame = gate.lastFrame,
         gate'.failure = "none" =>
           \/ gate'.zeroFrames = 0
           \/ /\ gate'.zeroFrames = gate.zeroFrames
              /\ gate'.acked = gate.acked
              /\ gate'.commandId = gate.commandId
  PROVE  ConfirmationInv'
<1>. SUFFICES ASSUME Heeding'
              PROVE  ConfirmationInv'
  BY DEF ConfirmationInv
<1>1. gate'.failure = "none"
  BY DEF Heeding
<1>2. seen'.newest = seen.newest
  BY <1>1 DEF IfNewlyAcked, StartOver, Histories
<1>3. \A e \in Epoch : /\ seen.newest[e] \in Frame \cup {NoFrame}
                       /\ seen.barred[e] \in Frame \cup {NoFrame}
  BY DEF TypeOK, Histories
<1>4. \A f \in Frame \cup {NoFrame} : f \in Int
  BY FrameAssumption DEF NoFrame
<1>5. CASE gate'.zeroFrames = 0
  <2>1. seen'.barred = seen.barred \/ seen'.barred = seen.newest
    BY <1>1 DEF IfNewlyAcked, StartOver, Histories
  <2>2. \A e \in Epoch : seen'.barred[e] <= seen'.newest[e]
    BY <1>2, <1>3, <1>4, <2>1 DEF ConfirmationInv
  <2>. QED
    BY <1>2, <1>5, <2>2 DEF ConfirmationInv
<1>6. CASE /\ gate'.zeroFrames = gate.zeroFrames
           /\ gate'.acked = gate.acked
           /\ gate'.commandId = gate.commandId
  <2>1. seen' = h
    BY <1>1, <1>6 DEF IfNewlyAcked, TypeOK, GateRecords
  <2>. QED
    BY <1>2, <1>6, <2>1 DEF ConfirmationInv, Counted
<1>. QED
  BY <1>1, <1>5, <1>6

\* The sample handler against the history: in every branch lastFrame follows
\* the newest frame of the session and a counted frame is a recorded one.
LEMMA HardwareConfirmationStep ==
  ASSUME TypeOK, TypeOK', ConfirmationInv,
         NEW s \in SampleInputs, ObserveHardware(s)
  PROVE  ConfirmationInv'
<1>1. CASE ~Heeding
  <2>1. gate' = gate
    BY <1>1 DEF ObserveHardware, AfterHardware, Heeding
  <2>. QED
    BY <1>1, <2>1 DEF ConfirmationInv, Heeding
<1>2. CASE Heeding
  <2>. DEFINE newest == [e \in Epoch |-> IF e = s.epoch THEN Later(s, seen.newest[e])
                                         ELSE seen.newest[e]]
              h == [seen EXCEPT !.newest = newest]
              last == IF s.epoch > gate.epoch THEN NoFrame ELSE gate.lastFrame
              count == IF s.epoch > gate.epoch THEN 0 ELSE gate.zeroFrames
              p == <<s.epoch, s.seq>>
  <2>1. gate' = AfterHardware(gate, s) /\ s \in Samples /\ gate \in GateRecords
    BY InputTypes DEF ObserveHardware, TypeOK
  <2>2. seen' = Sampled(s)
    BY <1>2 DEF ObserveHardware, Heeding
  <2>3. newest \in [Epoch -> Frame \cup {NoFrame}]
    BY NewestType DEF TypeOK
  <2>4. \A e \in Epoch :
          newest[e] = IF e = s.epoch THEN Later(s, seen.newest[e]) ELSE seen.newest[e]
    OBVIOUS
  <2>0. \A f \in Frame \cup {NoFrame} : f \in Int
    BY FrameAssumption DEF NoFrame
  <2>5. /\ s.epoch \in Epoch \cup {RevokedEpoch} /\ s.seq \in Nat
        /\ gate.epoch \in Nat /\ gate.zeroFrames \in {0, 1, 2}
        /\ gate.lastFrame \in Int /\ RevokedEpoch \notin Epoch
        /\ \A e \in Epoch : /\ seen.newest[e] \in Int /\ seen.barred[e] \in Int
                            /\ e \in Nat
    <3>1. s.epoch \in Epoch \cup {RevokedEpoch} /\ s.seq \in Nat
      BY FrameAssumption DEF SampleInputs
    <3>2. /\ gate.epoch \in Nat /\ gate.zeroFrames \in {0, 1, 2}
          /\ gate.lastFrame \in Int
      BY DEF TypeOK, GateRecords, NoFrame
    <3>3. RevokedEpoch \notin Epoch /\ \A e \in Epoch : e \in Nat
      BY EpochAssumption DEF RevokedEpoch
    <3>4. \A e \in Epoch : /\ seen.newest[e] \in Frame \cup {NoFrame}
                           /\ seen.barred[e] \in Frame \cup {NoFrame}
      BY DEF TypeOK, Histories
    <3>. QED
      BY <2>0, <3>1, <3>2, <3>3, <3>4
  <2>6. \A e \in Epoch : seen.newest[e] <= newest[e]
    BY <2>4, <2>5 DEF Later
  <2>7. \A e \in Epoch : e # s.epoch => newest[e] = seen.newest[e]
    BY <2>4
  <2>8. /\ h.newest = newest /\ h.barred = seen.barred /\ h.after = seen.after
    BY DEF TypeOK, Histories
  <2>9. /\ gate.epoch \in Epoch \cup {RevokedEpoch}
        /\ gate.epoch = RevokedEpoch => gate.zeroFrames = 0
        /\ gate.epoch # RevokedEpoch => gate.lastFrame = seen.newest[gate.epoch]
        /\ \A e \in Epoch : e > gate.epoch => seen.newest[e] = NoFrame
        /\ \A e \in Epoch : seen.barred[e] <= seen.newest[e]
        /\ ~gate.acked => gate.zeroFrames = 0
        /\ gate.zeroFrames = 1 =>
             \E b \in seen.after : Counted(b) /\ b[2] = gate.lastFrame
        /\ gate.zeroFrames = 2 =>
             \E a, b \in seen.after :
               Counted(a) /\ Counted(b) /\ a[2] < b[2] /\ b[2] = gate.lastFrame
    BY <1>2 DEF ConfirmationInv
  <2>10. \A e \in Epoch : newest[e] \in Int
    BY <2>0, <2>3
  <2>. HIDE DEF newest
  <2>11. /\ StartOver(h).newest = newest /\ StartOver(h).barred = newest
         /\ StartOver(h).after = {}
    BY <2>8 DEF StartOver, TypeOK, Histories
  <2>12. /\ [h EXCEPT !.after = h.after \cup {p}].newest = newest
         /\ [h EXCEPT !.after = h.after \cup {p}].barred = seen.barred
         /\ [h EXCEPT !.after = h.after \cup {p}].after = seen.after \cup {p}
    BY <2>8 DEF TypeOK, Histories
  <2>. HIDE DEF h
  <2>13. Heeding => gate.active /\ gate.failure = "none"
    BY DEF Heeding
  <2>14. CASE s.epoch = RevokedEpoch
    <3>1. seen' = StartOver(h)
      BY <2>2, <2>14 DEF Sampled, newest, h
    <3>2. /\ gate'.epoch = gate.epoch /\ gate'.lastFrame = gate.lastFrame
          /\ gate'.zeroFrames = 0 /\ gate'.acked = gate.acked
      BY <1>2, <2>1, <2>13, <2>14, HardwareEffect
    <3>3. \A e \in Epoch : newest[e] = seen.newest[e]
      BY <2>5, <2>7, <2>14
    <3>. QED
      BY <2>5, <2>9, <2>11, <3>1, <3>2, <3>3 DEF ConfirmationInv
  <2>15. CASE s.epoch # RevokedEpoch /\ s.epoch < gate.epoch
    <3>1. seen' = h
      BY <2>2, <2>15 DEF Sampled, newest, h
    <3>2. gate' = gate
      BY <2>1, <2>13, <1>2, <2>15 DEF AfterHardware
    <3>3. gate.epoch # s.epoch /\ \A e \in Epoch : e > gate.epoch => e # s.epoch
      BY <2>5, <2>15
    <3>4. \A e \in Epoch : seen'.barred[e] <= seen'.newest[e]
      BY <2>10, <2>5, <2>6, <2>8, <2>9, <3>1
    <3>. QED
      BY <2>5, <2>7, <2>8, <2>9, <3>1, <3>2, <3>3, <3>4 DEF ConfirmationInv, Counted
  <2>16. CASE s.epoch # RevokedEpoch /\ ~(s.epoch < gate.epoch)
    <3>1. s.epoch \in Epoch /\ s.epoch >= gate.epoch
      BY <2>5, <2>16
    <3>2. last = seen.newest[s.epoch] /\ last \in Int
      BY <2>5, <2>9, <2>16, <3>1
    <3>3. newest[s.epoch] = Later(s, last)
      BY <2>4, <3>1, <3>2
    <3>4. count = 0 \/ (count = gate.zeroFrames /\ s.epoch = gate.epoch)
      BY <2>5, <3>1
    <3>5. /\ gate'.epoch = s.epoch /\ gate'.acked = gate.acked
          /\ ~gate.acked => gate'.lastFrame = Later(s, last) /\ gate'.zeroFrames = count
          /\ gate.acked /\ ~SafeZero(s) =>
               gate'.lastFrame = Later(s, last) /\ gate'.zeroFrames = 0
          /\ gate.acked /\ SafeZero(s) /\ s.seq <= last =>
               gate'.lastFrame = last /\ gate'.zeroFrames = count
          /\ gate.acked /\ SafeZero(s) /\ ~(s.seq <= last) =>
               /\ gate'.lastFrame = s.seq
               /\ gate'.zeroFrames = IF count = 2 THEN 2 ELSE count + 1
      BY <1>2, <2>1, <2>13, <2>16, <3>1, HardwareEffect
    <3>6. \A e \in Epoch : e > gate'.epoch => newest[e] = NoFrame
      BY <2>5, <2>7, <2>9, <3>1, <3>5
    <3>. HIDE DEF last, count
    <3>7. CASE ~gate.acked \/ ~SafeZero(s)
      <4>1. seen' = StartOver(h)
        BY <2>2, <2>16, <3>7 DEF Sampled, newest, h
      <4>2. gate'.lastFrame = newest[s.epoch] /\ gate'.zeroFrames = 0
        BY <2>9, <3>3, <3>4, <3>5, <3>7
      <4>3. \A e \in Epoch : newest[e] <= newest[e]
        BY <2>10
      <4>. QED
        BY <2>5, <2>11, <3>1, <3>5, <3>6, <4>1, <4>2, <4>3 DEF ConfirmationInv
    <3>8. CASE gate.acked /\ SafeZero(s)
      <4>1. seen' = [h EXCEPT !.after = h.after \cup {p}]
        BY <2>2, <2>16, <3>8 DEF Sampled, newest, h
      <4>2. /\ seen'.newest = newest /\ seen'.barred = seen.barred
            /\ seen'.after = seen.after \cup {p}
        BY <2>12, <4>1
      <4>3. \A e \in Epoch : seen'.barred[e] <= seen'.newest[e]
        BY <2>10, <2>5, <2>6, <2>9, <4>2
      <4>4. gate'.lastFrame = newest[s.epoch]
        BY <2>5, <3>2, <3>3, <3>5, <3>8 DEF Later
      <4>5. /\ gate'.zeroFrames = 1 =>
                 \E b \in seen'.after : Counted(b)' /\ b[2] = gate'.lastFrame
            /\ gate'.zeroFrames = 2 =>
                 \E a, b \in seen'.after :
                   Counted(a)' /\ Counted(b)' /\ a[2] < b[2] /\ b[2] = gate'.lastFrame
        <5>1. s.epoch = gate.epoch => \A x : Counted(x) => Counted(x)'
          BY <3>5, <4>2 DEF Counted
        <5>2. CASE s.seq <= last
          <6>1. gate'.lastFrame = last /\ gate'.zeroFrames = count
            BY <3>5, <3>8, <5>2
          <6>2. s.epoch = gate.epoch => last = gate.lastFrame
            BY <2>5 DEF last
          <6>. QED
            BY <2>9, <3>4, <4>2, <5>1, <6>1, <6>2
        <5>3. CASE ~(s.seq <= last)
          <6>1. /\ gate'.lastFrame = s.seq
                /\ gate'.zeroFrames = IF count = 2 THEN 2 ELSE count + 1
            BY <3>5, <3>8, <5>3
          <6>2. last < s.seq
            BY <2>5, <3>2, <5>3
          <6>3. p[1] = s.epoch /\ p[2] = s.seq /\ p \in seen'.after
            BY <4>2
          <6>4. Counted(p)'
            <7>1. seen.barred[s.epoch] < s.seq
              BY <2>5, <2>9, <3>1, <3>2, <6>2
            <7>. QED
              BY <3>5, <4>2, <6>3, <7>1 DEF Counted
          <6>5. CASE count = 0
            BY <6>1, <6>3, <6>4, <6>5
          <6>6. CASE count \in {1, 2} /\ count = gate.zeroFrames /\ s.epoch = gate.epoch
            <7>1. last = gate.lastFrame
              BY <2>5, <6>6 DEF last
            <7>2. PICK a \in seen.after : Counted(a) /\ a[2] = gate.lastFrame
              BY <2>9, <6>6
            <7>3. a \in seen'.after /\ Counted(a)' /\ a[2] < p[2]
              BY <4>2, <5>1, <6>2, <6>3, <6>6, <7>1, <7>2
            <7>4. gate'.zeroFrames = 2
              BY <6>1, <6>6
            <7>. QED
              BY <6>1, <6>3, <6>4, <7>3, <7>4
          <6>. QED
            BY <2>5, <3>4, <6>5, <6>6
        <5>. QED
          BY <5>2, <5>3
      <4>. QED
        BY <2>5, <3>1, <3>5, <3>6, <3>8, <4>2, <4>3, <4>4, <4>5 DEF ConfirmationInv
    <3>. QED
      BY <3>7, <3>8
  <2>. QED
    BY <2>14, <2>15, <2>16
<1>. QED
  BY <1>1, <1>2

LEMMA ConfirmationStep ==
  TypeOK /\ TypeOK' /\ CorrelationInv /\ ConfirmationInv /\ [Next]_vars => ConfirmationInv'
<1>. SUFFICES ASSUME TypeOK, TypeOK', CorrelationInv, ConfirmationInv, [Next]_vars
              PROVE  ConfirmationInv'
  OBVIOUS
<1>1. ASSUME Blank(gate'), seen' = NothingSeen
      PROVE  ConfirmationInv'
  <2>1. \A e \in Epoch : seen'.newest[e] = NoFrame /\ seen'.barred[e] = NoFrame
    BY <1>1 DEF NothingSeen
  <2>. QED
    BY <1>1, <2>1 DEF ConfirmationInv, Blank, NoFrame
<1>2. ASSUME UNCHANGED vars
      PROVE  ConfirmationInv'
  BY <1>2 DEF vars, ConfirmationInv, Heeding, Counted
<1>3. ASSUME NEW last \in Generation, NEW isActive \in BOOLEAN, NEW idle \in BOOLEAN,
             Restore(last, isActive, idle)
      PROVE  ConfirmationInv'
  BY <1>1, <1>2, <1>3, GenerationAssumption, OwnerEffect DEF Restore, TypeOK, vars
<1>4. ASSUME NEW generation \in Generation, NEW idle \in BOOLEAN,
             Request(generation, idle)
      PROVE  ConfirmationInv'
  BY <1>1, <1>2, <1>4, GenerationAssumption, OwnerEffect DEF Request, TypeOK, vars
<1>5. ASSUME NEW generation \in Generation, Release(generation)
      PROVE  ConfirmationInv'
  BY <1>1, <1>2, <1>5, GenerationAssumption, OwnerEffect DEF Release, TypeOK, vars
<1>6. ASSUME NEW idle \in BOOLEAN, SetMissionIdle(idle)
      PROVE  ConfirmationInv'
  BY <1>6 DEF SetMissionIdle, WithMissionIdle, ConfirmationInv, Heeding, Counted,
              TypeOK, GateRecords
<1>7. ASSUME NEW cmd \in CommandInputs, ObserveFinalCommand(cmd)
      PROVE  ConfirmationInv'
  <2>1. CASE ~Heeding
    <3>1. gate' = gate
      BY <1>7, <2>1 DEF ObserveFinalCommand, AfterFinalCommand, Heeds, Heeding
    <3>. QED
      BY <2>1, <3>1 DEF ConfirmationInv, Heeding
  <2>2. CASE Heeding /\ ~Heeds(gate, cmd.generation)
    <3>1. gate' = gate
      BY <1>7, <2>2 DEF ObserveFinalCommand, AfterFinalCommand
    <3>2. seen' = seen
      BY <1>7, <2>2 DEF ObserveFinalCommand, Heeds, Heeding, ForThisRequest
    <3>. QED
      BY <1>2, <3>1, <3>2 DEF vars
  <2>3. CASE Heeding /\ Heeds(gate, cmd.generation)
    <3>. DEFINE told == [seen EXCEPT !.final = cmd]
    <3>1. told \in Histories
      BY InputTypes DEF TypeOK, Histories
    <3>2. /\ seen' = IfNewlyAcked(told)
          /\ told.newest = seen.newest /\ told.barred = seen.barred
          /\ told.after = seen.after
      BY <1>7, <2>3 DEF ObserveFinalCommand, ForThisRequest, Heeds, TypeOK, Histories
    <3>3. gate' = AfterFinalCommand(gate, cmd) /\ cmd \in FinalCommands
      BY <1>7, InputTypes DEF ObserveFinalCommand
    <3>4. /\ gate'.epoch = gate.epoch /\ gate'.lastFrame = gate.lastFrame
          /\ gate'.failure = "none" =>
               \/ gate'.zeroFrames = 0
               \/ /\ gate'.zeroFrames = gate.zeroFrames
                  /\ gate'.acked = gate.acked
                  /\ gate'.commandId = gate.commandId
      BY <2>3, <3>3, FinalCommandEffect DEF TypeOK
    <3>. HIDE DEF told
    <3>. QED
      BY <2>3, <3>1, <3>2, <3>4, EvidenceKeepsConfirmation
  <2>. QED
    BY <2>1, <2>2, <2>3
<1>8. ASSUME NEW st \in StatusInputs, ObserveCommandStatus(st)
      PROVE  ConfirmationInv'
  <2>1. CASE ~Heeding
    <3>1. gate' = gate
      BY <1>8, <2>1 DEF ObserveCommandStatus, AfterCommandStatus, Heeds, Heeding
    <3>. QED
      BY <2>1, <3>1 DEF ConfirmationInv, Heeding
  <2>2. CASE Heeding /\ ~Heeds(gate, st.generation)
    <3>1. gate' = gate
      BY <1>8, <2>2 DEF ObserveCommandStatus, AfterCommandStatus
    <3>2. seen' = seen
      BY <1>8, <2>2 DEF ObserveCommandStatus, Heeds, Heeding, ForThisRequest
    <3>. QED
      BY <1>2, <3>1, <3>2 DEF vars
  <2>3. CASE Heeding /\ Heeds(gate, st.generation)
    <3>1. Recorded(st) \in Histories
      BY RecordedType DEF TypeOK
    <3>2. /\ seen' = IfNewlyAcked(Recorded(st))
          /\ Recorded(st).newest = seen.newest /\ Recorded(st).barred = seen.barred
          /\ Recorded(st).after = seen.after
      BY <1>8, <2>3
         DEF ObserveCommandStatus, ForThisRequest, Heeds, TypeOK, Histories, Recorded
    <3>3. gate' = AfterCommandStatus(gate, st) /\ st \in Statuses
      BY <1>8, InputTypes DEF ObserveCommandStatus
    <3>4. /\ gate'.epoch = gate.epoch /\ gate'.lastFrame = gate.lastFrame
          /\ gate'.failure = "none" =>
               \/ gate'.zeroFrames = 0
               \/ /\ gate'.zeroFrames = gate.zeroFrames
                  /\ gate'.acked = gate.acked
                  /\ gate'.commandId = gate.commandId
      BY <2>3, <3>3, CommandStatusEffect DEF TypeOK
    <3>. QED
      BY <2>3, <3>1, <3>2, <3>4, EvidenceKeepsConfirmation
  <2>. QED
    BY <2>1, <2>2, <2>3
<1>9. ASSUME NEW s \in SampleInputs, ObserveHardware(s)
      PROVE  ConfirmationInv'
  BY <1>9, HardwareConfirmationStep
<1>. QED
  BY <1>2, <1>3, <1>4, <1>5, <1>6, <1>7, <1>8, <1>9 DEF Next

\* For all constants, a ready gate has seen two distinct fresh zero frames of
\* the current session, both newer than every frame barred by the brake's
\* acknowledgement or by a contrary sample.
THEOREM ReadyConfirmed == Spec => []ReadyIsConfirmed
<1>1. Init => CorrelationInv /\ ConfirmationInv
  BY NewGateBlank, BlankInv DEF Init
<1>2. TypeOK /\ ConfirmationInv => ReadyIsConfirmed
  BY DEF ConfirmationInv, ReadyIsConfirmed, Ready, Heeding, Counted
<1>. QED
  BY <1>1, <1>2, TypeCorrect, CorrelationStep, ConfirmationStep, PTL DEF Spec

-----------------------------------------------------------------------------
\* What FailsClosed needs: only an active request can have failed, an active
\* gate is no longer pristine, so it cannot be restored, and its generation is
\* taken, so it cannot be requested again.
LatchInv ==
  /\ gate.generation <= gate.lastGeneration
  /\ gate.active => ~gate.pristine /\ gate.generation # 0
  /\ gate.failure # "none" => gate.active

\* Owner fields an evidence handler never touches.
SameRequest(g, h) ==
  /\ h.pristine = g.pristine /\ h.active = g.active
  /\ h.generation = g.generation /\ h.lastGeneration = g.lastGeneration

LEMMA EvidenceKeepsRequest ==
  ASSUME NEW g \in GateRecords
  PROVE  /\ \A cmd \in FinalCommands : SameRequest(g, AfterFinalCommand(g, cmd))
         /\ \A st \in Statuses : SameRequest(g, AfterCommandStatus(g, st))
         /\ \A s \in Samples : SameRequest(g, AfterHardware(g, s))
<1>1. ASSUME NEW k \in GateRecords
      PROVE  /\ SameRequest(k, ResetHardwareConfirmation(k))
             /\ SameRequest(k, AcknowledgeCurrentCommand(k))
             /\ \A f \in Failures : SameRequest(k, LatchFailure(k, f))
             /\ \A c \in CommandId, v \in Verdicts :
                  SameRequest(k, [k EXCEPT !.pending[c] = v])
  BY DEF SameRequest, ResetHardwareConfirmation, AcknowledgeCurrentCommand,
         LatchFailure, GateRecords
<1>2. ASSUME NEW c \in CommandId, NEW k \in GateRecords
      PROVE  SameRequest(k, ApplyPendingStatus(k, c))
  <2>. DEFINE e == [k EXCEPT !.pending[c] = "none"]
  <2>1. e \in GateRecords /\ SameRequest(k, e)
    BY <1>1, SetPendingType DEF Verdicts
  <2>2. k.pending[c] \in Verdicts
    BY DEF GateRecords
  <2>3. k.pending[c] \in Failures \cup {"acknowledged"}
    BY <2>2 DEF Verdicts, Failures
  <2>. HIDE DEF e
  <2>4. /\ SameRequest(e, AcknowledgeCurrentCommand(e))
        /\ k.pending[c] \in Failures => SameRequest(e, LatchFailure(e, k.pending[c]))
    BY <1>1, <2>1
  <2>5. \/ ApplyPendingStatus(k, c) = k
        \/ ApplyPendingStatus(k, c) = AcknowledgeCurrentCommand(e)
        \/ /\ k.pending[c] \in Failures
           /\ ApplyPendingStatus(k, c) = LatchFailure(e, k.pending[c])
    BY <2>3 DEF ApplyPendingStatus, e
  <2>. QED
    BY <2>1, <2>4, <2>5 DEF SameRequest
<1>3. ASSUME NEW cmd \in FinalCommands
      PROVE  SameRequest(g, AfterFinalCommand(g, cmd))
  <2>. DEFINE r == ResetHardwareConfirmation(g)
              a == [r EXCEPT !.gateApplied = TRUE, !.commandId = cmd.id, !.acked = FALSE]
              b == [r EXCEPT !.gateApplied = FALSE, !.commandId = NoCommand, !.acked = FALSE]
  <2>1. r \in GateRecords /\ SameRequest(g, r)
    BY <1>1, ResetHardwareConfirmationType
  <2>. HIDE DEF r
  <2>2. /\ a \in GateRecords
        /\ SameRequest(r, a) /\ SameRequest(r, b)
    BY <2>1 DEF GateRecords, FinalCommands, SameRequest
  <2>. HIDE DEF a, b
  <2>3. SameRequest(g, a) /\ SameRequest(g, b)
    BY <2>1, <2>2 DEF SameRequest
  <2>4. SafeBrake(cmd) => cmd.id \in CommandId
    BY DEF SafeBrake, FinalCommands
  <2>5. SafeBrake(cmd) => /\ SameRequest(g, ApplyPendingStatus(a, cmd.id))
                          /\ SameRequest(g, ApplyPendingStatus(g, cmd.id))
    BY <1>2, <2>2, <2>3, <2>4 DEF SameRequest
  <2>6. \/ AfterFinalCommand(g, cmd) = g
        \/ AfterFinalCommand(g, cmd) = b
        \/ /\ SafeBrake(cmd)
           /\ \/ AfterFinalCommand(g, cmd) = ApplyPendingStatus(a, cmd.id)
              \/ AfterFinalCommand(g, cmd) = ApplyPendingStatus(g, cmd.id)
    BY DEF AfterFinalCommand, a, b, r
  <2>. QED
    BY <2>3, <2>5, <2>6 DEF SameRequest
<1>4. ASSUME NEW st \in Statuses
      PROVE  SameRequest(g, AfterCommandStatus(g, st))
  <2>1. \A f \in FailureStates : f \in Failures /\ f \in Verdicts
    BY DEF Failures, Verdicts
  <2>2. "overflow" \in Failures /\ "acknowledged" \in Verdicts
    BY DEF Failures, Verdicts
  <2>3. \A c \in CommandId, v \in Verdicts : SameRequest(g, RememberPendingStatus(g, c, v))
    BY <1>1, <2>2 DEF RememberPendingStatus, SameRequest
  <2>4. FailureForState(st.state) \in FailureStates \/ FailureForState(st.state) = "none"
    BY DEF FailureForState
  <2>5. st.id # NoCommand => st.id \in CommandId
    BY DEF Statuses
  <2>6. \/ AfterCommandStatus(g, st) = g
        \/ AfterCommandStatus(g, st) = AcknowledgeCurrentCommand(g)
        \/ \E f \in FailureStates : AfterCommandStatus(g, st) = LatchFailure(g, f)
        \/ \E c \in CommandId, v \in Verdicts :
             AfterCommandStatus(g, st) = RememberPendingStatus(g, c, v)
    <3>. DEFINE f == FailureForState(st.state)
    <3>. HIDE DEF f
    <3>1. f \in FailureStates \/ f = "none"
      BY <2>4 DEF f
    <3>2. CASE \/ ~Heeds(g, st.generation) \/ st.id = NoCommand
               \/ st.state \notin AckStates /\ f = "none"
      BY <3>2 DEF AfterCommandStatus, f
    <3>3. CASE /\ Heeds(g, st.generation) /\ st.id # NoCommand
               /\ st.state \in AckStates
      <4>1. st.id \in CommandId
        BY <2>5, <3>3
      <4>2. CASE g.gateApplied /\ st.id = g.commandId
        BY <3>3, <4>2 DEF AfterCommandStatus
      <4>3. CASE ~(g.gateApplied /\ st.id = g.commandId)
        <5>1. AfterCommandStatus(g, st) = RememberPendingStatus(g, st.id, "acknowledged")
          BY <3>3, <4>3 DEF AfterCommandStatus
        <5>. QED
          BY <2>2, <4>1, <5>1
      <4>. QED
        BY <4>2, <4>3
    <3>4. CASE /\ Heeds(g, st.generation) /\ st.id # NoCommand
               /\ st.state \notin AckStates /\ f # "none"
      <4>1. st.id \in CommandId /\ f \in FailureStates /\ f \in Verdicts
        BY <2>1, <2>5, <3>1, <3>4
      <4>2. CASE g.gateApplied /\ st.id = g.commandId
        <5>1. AfterCommandStatus(g, st) = LatchFailure(g, f)
          BY <3>4, <4>2 DEF AfterCommandStatus, f
        <5>. QED
          BY <4>1, <5>1
      <4>3. CASE ~(g.gateApplied /\ st.id = g.commandId)
        <5>1. AfterCommandStatus(g, st) = RememberPendingStatus(g, st.id, f)
          BY <3>4, <4>3 DEF AfterCommandStatus, f
        <5>. QED
          BY <4>1, <5>1
      <4>. QED
        BY <4>2, <4>3
    <3>. QED
      BY <3>2, <3>3, <3>4, Zenon
  <2>. QED
    BY <1>1, <2>1, <2>3, <2>6 DEF SameRequest
<1>5. ASSUME NEW s \in Samples
      PROVE  SameRequest(g, AfterHardware(g, s))
  BY DEF SameRequest, AfterHardware, EnterSession, ResetHardwareConfirmation,
         Samples, GateRecords
<1>. QED
  BY <1>3, <1>4, <1>5

LEMMA OwnerRequests ==
  ASSUME NEW g \in GateRecords, NEW n \in Nat, NEW isActive \in BOOLEAN,
         NEW idle \in BOOLEAN, NEW h \in GateRecords
  PROVE  /\ h = Restored(g, n, isActive, idle) /\ CanRestore(g, n, isActive) =>
              /\ ~h.pristine /\ h.active = isActive /\ h.lastGeneration = n
              /\ h.generation = IF isActive THEN n ELSE 0
         /\ h = Requested(g, n, idle) /\ CanRequest(g, n) =>
              ~h.pristine /\ h.active /\ h.lastGeneration = n /\ h.generation = n
         /\ h = Released(g, n) /\ CanRelease(g, n) =>
              ~h.active /\ h.lastGeneration = g.lastGeneration /\ h.generation = 0
<1>1. ASSUME NEW k \in GateRecords
      PROVE  SameRequest(k, ResetEvidence(k))
  BY DEF SameRequest, ResetEvidence, ResetHardwareEvidence, ResetHardwareConfirmation,
         GateRecords
<1>2. ASSUME h = Restored(g, n, isActive, idle), CanRestore(g, n, isActive)
      PROVE  /\ ~h.pristine /\ h.active = isActive /\ h.lastGeneration = n
             /\ h.generation = IF isActive THEN n ELSE 0
  <2>. DEFINE m == IF isActive THEN n ELSE 0
              k == [g EXCEPT !.pristine = FALSE, !.active = isActive, !.generation = m,
                             !.lastGeneration = n, !.missionIdle = idle]
  <2>1. m \in Nat
    OBVIOUS
  <2>2. h = ResetEvidence(k)
    BY <1>2 DEF Restored
  <2>. HIDE DEF m
  <2>3. k \in GateRecords
    BY <2>1 DEF GateRecords
  <2>4. /\ ~k.pristine /\ k.active = isActive
        /\ k.lastGeneration = n /\ k.generation = m
    BY Zenon DEF GateRecords
  <2>. HIDE DEF k
  <2>. QED
    BY <1>1, <2>2, <2>3, <2>4 DEF SameRequest, m
<1>3. ASSUME h = Requested(g, n, idle), CanRequest(g, n)
      PROVE  ~h.pristine /\ h.active /\ h.lastGeneration = n /\ h.generation = n
  <2>. DEFINE k == [g EXCEPT !.pristine = FALSE, !.active = TRUE, !.generation = n,
                             !.lastGeneration = n, !.missionIdle = idle]
  <2>1. h = ResetEvidence(k)
    BY <1>3 DEF Requested
  <2>2. /\ k \in GateRecords /\ ~k.pristine /\ k.active
        /\ k.lastGeneration = n /\ k.generation = n
    BY DEF GateRecords
  <2>. HIDE DEF k
  <2>. QED
    BY <1>1, <2>1, <2>2 DEF SameRequest
<1>4. ASSUME h = Released(g, n), CanRelease(g, n)
      PROVE  ~h.active /\ h.lastGeneration = g.lastGeneration /\ h.generation = 0
  <2>. DEFINE k == [g EXCEPT !.active = FALSE, !.generation = 0, !.missionIdle = FALSE]
  <2>1. h = ResetEvidence(k)
    BY <1>4 DEF Released
  <2>2. /\ k \in GateRecords /\ ~k.active
        /\ k.lastGeneration = g.lastGeneration /\ k.generation = 0
    BY DEF GateRecords
  <2>. HIDE DEF k
  <2>. QED
    BY <1>1, <2>1, <2>2 DEF SameRequest
<1>. QED
  BY <1>2, <1>3, <1>4

-----------------------------------------------------------------------------
LEMMA LatchStep ==
  TypeOK /\ TypeOK' /\ LatchInv /\ [Next]_vars =>
    /\ LatchInv'
    /\ gate.failure # "none" /\ gate'.generation = gate.generation
       => gate'.failure = gate.failure /\ ~Ready(gate')
<1>. SUFFICES ASSUME TypeOK, TypeOK', LatchInv, [Next]_vars
              PROVE  /\ LatchInv'
                     /\ gate.failure # "none" /\ gate'.generation = gate.generation
                        => gate'.failure = gate.failure
  BY DEF Ready
<1>1. /\ gate \in GateRecords /\ gate' \in GateRecords
      /\ gate.generation \in Nat /\ gate.lastGeneration \in Nat
  BY DEF TypeOK, GateRecords
<1>2. ASSUME gate' = gate
      PROVE  LatchInv' /\ gate'.failure = gate.failure
  BY <1>2 DEF LatchInv
<1>3. ASSUME NEW last \in Generation, NEW isActive \in BOOLEAN, NEW idle \in BOOLEAN,
             Restore(last, isActive, idle)
      PROVE  /\ LatchInv'
             /\ gate.failure # "none" => gate'.failure = gate.failure
  <2>1. last \in Nat /\ gate' = Restored(gate, last, isActive, idle)
    BY <1>3, GenerationAssumption DEF Restore
  <2>2. CASE ~CanRestore(gate, last, isActive)
    BY <1>2, <2>1, <2>2 DEF Restored
  <2>3. CASE CanRestore(gate, last, isActive)
    <3>1. gate.pristine /\ (isActive => last # 0)
      BY <2>3 DEF CanRestore
    <3>2. /\ ~gate'.pristine /\ gate'.active = isActive /\ gate'.lastGeneration = last
          /\ gate'.generation = IF isActive THEN last ELSE 0
      BY <1>1, <2>1, <2>3, OwnerRequests
    <3>3. gate'.failure = "none"
      BY <1>1, <2>1, <2>3, OwnerEffect DEF Blank
    <3>. QED
      BY <2>1, <3>1, <3>2, <3>3 DEF LatchInv
  <2>. QED
    BY <2>2, <2>3
<1>4. ASSUME NEW generation \in Generation, NEW idle \in BOOLEAN,
             Request(generation, idle)
      PROVE  /\ LatchInv'
             /\ gate'.generation = gate.generation => gate'.failure = gate.failure
  <2>1. generation \in Nat /\ gate' = Requested(gate, generation, idle)
    BY <1>4, GenerationAssumption DEF Request
  <2>2. CASE ~CanRequest(gate, generation)
    BY <1>2, <2>1, <2>2 DEF Requested
  <2>3. CASE CanRequest(gate, generation)
    <3>1. generation # 0 /\ generation > gate.lastGeneration
      BY <2>3 DEF CanRequest
    <3>2. /\ ~gate'.pristine /\ gate'.active /\ gate'.lastGeneration = generation
          /\ gate'.generation = generation
      BY <1>1, <2>1, <2>3, OwnerRequests
    <3>3. gate'.failure = "none"
      BY <1>1, <2>1, <2>3, OwnerEffect DEF Blank
    <3>. QED
      BY <1>1, <2>1, <3>1, <3>2, <3>3 DEF LatchInv
  <2>. QED
    BY <2>2, <2>3
<1>5. ASSUME NEW generation \in Generation, Release(generation)
      PROVE  /\ LatchInv'
             /\ gate'.generation = gate.generation => gate'.failure = gate.failure
  <2>1. generation \in Nat /\ gate' = Released(gate, generation)
    BY <1>5, GenerationAssumption DEF Release
  <2>2. CASE ~CanRelease(gate, generation)
    BY <1>2, <2>1, <2>2 DEF Released
  <2>3. CASE CanRelease(gate, generation)
    <3>1. gate.active /\ gate.generation # 0
      BY <2>3 DEF CanRelease, LatchInv
    <3>2. /\ ~gate'.active /\ gate'.lastGeneration = gate.lastGeneration
          /\ gate'.generation = 0
      BY <1>1, <2>1, <2>3, OwnerRequests
    <3>3. gate'.failure = "none"
      BY <1>1, <2>1, <2>3, OwnerEffect DEF Blank
    <3>. QED
      BY <1>1, <3>1, <3>2, <3>3 DEF LatchInv
  <2>. QED
    BY <2>2, <2>3
<1>6. ASSUME NEW idle \in BOOLEAN, SetMissionIdle(idle)
      PROVE  LatchInv' /\ gate'.failure = gate.failure
  BY <1>1, <1>6 DEF SetMissionIdle, WithMissionIdle, LatchInv, GateRecords
<1>7. ASSUME SameRequest(gate, gate'), gate.active => gate.failure = "none" \/ gate' = gate,
             ~gate.active => gate' = gate
      PROVE  /\ LatchInv'
             /\ gate.failure # "none" => gate'.failure = gate.failure
  BY <1>7 DEF SameRequest, LatchInv
<1>8. ASSUME NEW cmd \in CommandInputs, ObserveFinalCommand(cmd)
      PROVE  /\ LatchInv'
             /\ gate.failure # "none" => gate'.failure = gate.failure
  <2>1. gate' = AfterFinalCommand(gate, cmd) /\ cmd \in FinalCommands
    BY <1>8, InputTypes DEF ObserveFinalCommand
  <2>2. ~Heeding => gate' = gate
    BY <2>1 DEF AfterFinalCommand, Heeds, Heeding
  <2>3. SameRequest(gate, gate')
    BY <1>1, <2>1, EvidenceKeepsRequest
  <2>. QED
    BY <1>7, <2>2, <2>3 DEF Heeding
<1>9. ASSUME NEW st \in StatusInputs, ObserveCommandStatus(st)
      PROVE  /\ LatchInv'
             /\ gate.failure # "none" => gate'.failure = gate.failure
  <2>1. gate' = AfterCommandStatus(gate, st) /\ st \in Statuses
    BY <1>9, InputTypes DEF ObserveCommandStatus
  <2>2. ~Heeding => gate' = gate
    BY <2>1 DEF AfterCommandStatus, Heeds, Heeding
  <2>3. SameRequest(gate, gate')
    BY <1>1, <2>1, EvidenceKeepsRequest
  <2>. QED
    BY <1>7, <2>2, <2>3 DEF Heeding
<1>10. ASSUME NEW s \in SampleInputs, ObserveHardware(s)
       PROVE  /\ LatchInv'
              /\ gate.failure # "none" => gate'.failure = gate.failure
  <2>1. gate' = AfterHardware(gate, s) /\ s \in Samples
    BY <1>10, InputTypes DEF ObserveHardware
  <2>2. ~Heeding => gate' = gate
    BY <2>1 DEF AfterHardware, Heeding
  <2>3. SameRequest(gate, gate')
    BY <1>1, <2>1, EvidenceKeepsRequest
  <2>. QED
    BY <1>7, <2>2, <2>3 DEF Heeding
<1>. QED
  BY <1>2, <1>3, <1>4, <1>5, <1>6, <1>8, <1>9, <1>10 DEF Next, vars

\* For all constants, no evidence revives a request whose brake has failed.
THEOREM FailureLatched == Spec => FailsClosed
<1>1. Init => LatchInv
  BY DEF Init, NewGate, LatchInv
<1>. QED
  BY <1>1, TypeCorrect, LatchStep, PTL DEF Spec, FailsClosed

-----------------------------------------------------------------------------
(* The order of a command and its status.  Either both orders end in a      *)
(* refusal, or both in an acknowledgement that still has to be confirmed,   *)
(* or they leave the same gate.                                             *)

Refused(g) == g.failure # "none" /\ g.acked = FALSE
Unconfirmed(g) == g.failure = "none" /\ g.acked = TRUE /\ g.zeroFrames = 0

SameOutcome(g, h) ==
  /\ g.acked = h.acked
  /\ (g.failure = "none") = (h.failure = "none")
  /\ Ready(g) = Ready(h)

LEMMA OutcomesAgree ==
  ASSUME NEW g, NEW h,
         \/ Refused(g) /\ Refused(h)
         \/ Unconfirmed(g) /\ Unconfirmed(h)
         \/ g = h
  PROVE  SameOutcome(g, h)
<1>1. CASE Refused(g) /\ Refused(h)
  <2>1. ~Ready(g) /\ ~Ready(h)
    BY <1>1 DEF Refused, Ready
  <2>2. g.acked = h.acked /\ (g.failure = "none") = (h.failure = "none")
    BY <1>1 DEF Refused
  <2>3. Ready(g) = Ready(h)
    BY <2>1 DEF Ready
  <2>. QED
    BY <2>2, <2>3 DEF SameOutcome
<1>2. CASE Unconfirmed(g) /\ Unconfirmed(h)
  <2>1. ~Ready(g) /\ ~Ready(h)
    BY <1>2 DEF Unconfirmed, Ready
  <2>2. g.acked = h.acked /\ (g.failure = "none") = (h.failure = "none")
    BY <1>2 DEF Unconfirmed
  <2>3. Ready(g) = Ready(h)
    BY <2>1 DEF Ready
  <2>. QED
    BY <2>2, <2>3 DEF SameOutcome
<1>3. CASE g = h
  BY <1>3 DEF SameOutcome
<1>. QED
  BY <1>1, <1>2, <1>3

SameCommand(g, h) ==
  /\ g.active = h.active /\ g.generation = h.generation /\ g.failure = h.failure
  /\ g.gateApplied = h.gateApplied /\ g.commandId = h.commandId

\* A refusal ends the request; what was acknowledged stays so.
LEMMA LatchRefuses ==
  ASSUME NEW g \in GateRecords, NEW f \in FailureStates
  PROVE  Refused(LatchFailure(g, f))
BY DEF Refused, LatchFailure, ResetHardwareConfirmation, GateRecords, FailureStates

LEMMA AcknowledgeEffect ==
  ASSUME NEW g \in GateRecords
  PROVE  /\ g.acked => AcknowledgeCurrentCommand(g) = g
         /\ g.failure = "none" /\ ~g.acked =>
              Unconfirmed(AcknowledgeCurrentCommand(g))
         /\ SameCommand(AcknowledgeCurrentCommand(g), g)
         /\ AcknowledgeCurrentCommand(g).pending = g.pending
BY DEF AcknowledgeCurrentCommand, ResetHardwareConfirmation, Unconfirmed, SameCommand,
       GateRecords

LEMMA AcknowledgeAcks ==
  ASSUME NEW g \in GateRecords
  PROVE  AcknowledgeCurrentCommand(g).acked = TRUE
BY DEF AcknowledgeCurrentCommand, ResetHardwareConfirmation, GateRecords

LEMMA FailedGateIsDeaf ==
  ASSUME NEW g, NEW cmd, NEW st, g.failure # "none"
  PROVE  AfterFinalCommand(g, cmd) = g /\ AfterCommandStatus(g, st) = g
BY DEF AfterFinalCommand, AfterCommandStatus, Heeds

\* What a status says of a brake.
IsVerdict(st) == st.state \in AckStates \cup FailureStates
VerdictOf(st) == IF st.state \in AckStates THEN "acknowledged" ELSE st.state
Settle(g, verdict) ==
  IF verdict = "acknowledged" THEN AcknowledgeCurrentCommand(g) ELSE LatchFailure(g, verdict)

LEMMA CurrentStatus ==
  ASSUME NEW g, NEW st, Heeds(g, st.generation), st.id # NoCommand, IsVerdict(st),
         g.gateApplied, st.id = g.commandId
  PROVE  AfterCommandStatus(g, st) = Settle(g, VerdictOf(st))
<1>1. st.state \notin AckStates => FailureForState(st.state) = st.state /\ st.state # "none"
  BY DEF IsVerdict, FailureForState, FailureStates
<1>2. st.state \notin AckStates => st.state # "acknowledged"
  BY DEF AckStates
<1>. QED
  BY <1>1, <1>2 DEF AfterCommandStatus, Settle, VerdictOf

LEMMA EarlyStatus ==
  ASSUME NEW g, NEW st, Heeds(g, st.generation), st.id # NoCommand, IsVerdict(st),
         ~(g.gateApplied /\ st.id = g.commandId)
  PROVE  AfterCommandStatus(g, st) = RememberPendingStatus(g, st.id, VerdictOf(st))
<1>1. st.state \notin AckStates => FailureForState(st.state) = st.state /\ st.state # "none"
  BY DEF IsVerdict, FailureForState, FailureStates
<1>. QED
  BY <1>1 DEF AfterCommandStatus, VerdictOf

Erased(g, id) == [g EXCEPT !.pending[id] = "none"]

LEMMA ApplySettles ==
  ASSUME NEW g, NEW id
  PROVE  ApplyPendingStatus(g, id) =
           IF g.pending[id] = "none" THEN g ELSE Settle(Erased(g, id), g.pending[id])
BY DEF ApplyPendingStatus, Settle, Erased

LEMMA ErasedEffect ==
  ASSUME NEW g \in GateRecords, NEW id \in CommandId
  PROVE  /\ Erased(g, id) \in GateRecords
         /\ SameCommand(Erased(g, id), g) /\ Erased(g, id).acked = g.acked
<1>1. Erased(g, id) \in GateRecords
  BY SetPendingType DEF Erased, Verdicts
<1>. QED
  BY <1>1 DEF Erased, SameCommand, GateRecords

\* A brake that the gate already applies.
LEMMA RepeatedCommand ==
  ASSUME NEW g, NEW cmd, Heeds(g, cmd.generation), SafeBrake(cmd),
         g.gateApplied, g.commandId = cmd.id
  PROVE  AfterFinalCommand(g, cmd) = ApplyPendingStatus(g, cmd.id)
BY DEF AfterFinalCommand

\* A verdict for the command that is applied, before or after one that was
\* remembered for it.
LEMMA SettlingCommutes ==
  ASSUME NEW g \in GateRecords, g.gateApplied,
         NEW cmd, cmd.id \in CommandId, g.commandId = cmd.id, SafeBrake(cmd),
         Heeds(g, cmd.generation),
         NEW st, st.id = cmd.id, st.generation = cmd.generation, IsVerdict(st)
  PROVE  SameOutcome(AfterFinalCommand(AfterCommandStatus(g, st), cmd),
                     AfterCommandStatus(AfterFinalCommand(g, cmd), st))
<1>. DEFINE id == cmd.id
            v == VerdictOf(st)
            p == g.pending[id]
            S == AfterCommandStatus(g, st)
            A == AfterFinalCommand(g, cmd)
            statusFirst == AfterFinalCommand(S, cmd)
            commandFirst == AfterCommandStatus(A, st)
<1>1. st.id # NoCommand /\ g.failure = "none"
  BY DEF SafeBrake, Heeds
<1>2. S = Settle(g, v)
  BY <1>1, CurrentStatus
<1>3. A = IF p = "none" THEN g ELSE Settle(Erased(g, id), p)
  BY RepeatedCommand, ApplySettles
<1>4. /\ v \in FailureStates \/ v = "acknowledged"
      /\ p \in FailureStates \/ p = "acknowledged" \/ p = "none"
  BY DEF VerdictOf, IsVerdict, GateRecords, Verdicts
<1>5. "acknowledged" \notin FailureStates /\ "none" \notin FailureStates
  BY DEF FailureStates
<1>6. /\ Erased(g, id) \in GateRecords
      /\ SameCommand(Erased(g, id), g) /\ Erased(g, id).acked = g.acked
  BY ErasedEffect
<1>7. ASSUME p = "acknowledged"
      PROVE  /\ A = AcknowledgeCurrentCommand(Erased(g, id)) /\ A \in GateRecords
             /\ Heeds(A, st.generation) /\ A.gateApplied /\ A.commandId = st.id
             /\ A.failure = "none"
  <2>1. A = AcknowledgeCurrentCommand(Erased(g, id))
    BY <1>3, <1>7 DEF Settle
  <2>2. A \in GateRecords
    BY <1>6, <2>1, AcknowledgeType
  <2>. HIDE DEF A
  <2>3. SameCommand(A, g)
    BY <1>6, <2>1, AcknowledgeEffect DEF SameCommand
  <2>. QED
    BY <1>1, <2>1, <2>2, <2>3 DEF Heeds, SameCommand
<1>8. ASSUME p \in FailureStates
      PROVE  Refused(A) /\ commandFirst = A
  <2>1. A = LatchFailure(Erased(g, id), p)
    BY <1>3, <1>5, <1>8 DEF Settle
  <2>2. Refused(A)
    BY <1>6, <1>8, <2>1, LatchRefuses
  <2>. QED
    BY <2>2, FailedGateIsDeaf DEF Refused
<1>9. CASE v \in FailureStates
  <2>1. S = LatchFailure(g, v)
    BY <1>2, <1>5, <1>9 DEF Settle
  <2>2. Refused(S)
    BY <1>9, <2>1, LatchRefuses
  <2>3. statusFirst = S
    BY <2>2, FailedGateIsDeaf DEF Refused
  <2>4. CASE p = "none"
    <3>1. commandFirst = S
      BY <1>3, <2>4
    <3>. QED
      BY <2>2, <2>3, <3>1, OutcomesAgree
  <2>5. CASE p = "acknowledged"
    <3>1. commandFirst = Settle(A, v)
      BY <1>1, <1>7, <2>5, CurrentStatus
    <3>2. commandFirst = LatchFailure(A, v)
      BY <1>5, <1>9, <3>1 DEF Settle
    <3>3. Refused(commandFirst)
      BY <1>7, <1>9, <2>5, <3>2, LatchRefuses
    <3>. QED
      BY <2>2, <2>3, <3>3, OutcomesAgree
  <2>6. CASE p \in FailureStates
    BY <1>8, <2>2, <2>3, <2>6, OutcomesAgree
  <2>. QED
    BY <1>4, <2>4, <2>5, <2>6
<1>10. CASE v = "acknowledged"
  <2>1. S = AcknowledgeCurrentCommand(g)
    BY <1>2, <1>10 DEF Settle
  <2>2. /\ S \in GateRecords /\ S.pending[id] = p
        /\ SameCommand(S, g)
    BY <2>1, AcknowledgeType, AcknowledgeEffect
  <2>3. Heeds(S, cmd.generation) /\ S.gateApplied /\ S.commandId = cmd.id
    BY <2>2 DEF Heeds, SameCommand
  <2>4. statusFirst = IF p = "none" THEN S ELSE Settle(Erased(S, id), p)
    BY <2>2, <2>3, RepeatedCommand, ApplySettles
  <2>5. S.acked = TRUE
    BY <2>1, AcknowledgeAcks
  <2>6. /\ Erased(S, id) \in GateRecords
        /\ SameCommand(Erased(S, id), S) /\ Erased(S, id).acked = S.acked
    BY <2>2, ErasedEffect
  <2>7. CASE p = "none"
    <3>1. statusFirst = S /\ commandFirst = S
      BY <1>3, <2>4, <2>7
    <3>. QED
      BY <2>5, <3>1, OutcomesAgree
  <2>8. CASE p \in FailureStates
    <3>1. statusFirst = LatchFailure(Erased(S, id), p)
      BY <1>5, <2>4, <2>8 DEF Settle
    <3>2. Refused(statusFirst)
      BY <2>6, <2>8, <3>1, LatchRefuses
    <3>. QED
      BY <1>8, <2>8, <3>2, OutcomesAgree
  <2>9. CASE p = "acknowledged"
    <3>1. statusFirst = Erased(S, id)
      <4>1. statusFirst = AcknowledgeCurrentCommand(Erased(S, id))
        BY <2>4, <2>9 DEF Settle
      <4>2. Erased(S, id).acked = TRUE
        BY <2>5, <2>6
      <4>. QED
        BY <2>6, <4>1, <4>2, AcknowledgeEffect
    <3>2. commandFirst = A
      <4>1. commandFirst = AcknowledgeCurrentCommand(A)
        BY <1>1, <1>7, <1>10, <2>9, CurrentStatus DEF Settle
      <4>2. A.acked
        BY <1>6, <1>7, <2>9, AcknowledgeAcks
      <4>. QED
        BY <1>7, <2>9, <4>1, <4>2, AcknowledgeEffect
    <3>3. CASE g.acked
      <4>1. S = g
        BY <2>1, <3>3, AcknowledgeEffect
      <4>2. A = Erased(g, id)
        BY <1>6, <1>7, <2>9, <3>3, AcknowledgeEffect
      <4>. QED
        BY <2>5, <2>6, <3>1, <3>2, <4>1, <4>2, OutcomesAgree
    <3>4. CASE ~g.acked
      <4>1. Unconfirmed(S)
        BY <1>1, <2>1, <3>4, AcknowledgeEffect
      <4>2. Unconfirmed(Erased(S, id))
        BY <2>2, <2>6, <4>1 DEF Unconfirmed, Erased, SameCommand, GateRecords
      <4>3. Unconfirmed(A)
        BY <1>1, <1>6, <1>7, <2>9, <3>4, AcknowledgeEffect DEF SameCommand
      <4>. QED
        BY <3>1, <3>2, <4>2, <4>3, OutcomesAgree
    <3>. QED
      BY <3>3, <3>4
  <2>. QED
    BY <1>4, <2>7, <2>8, <2>9
<1>. QED
  BY <1>4, <1>9, <1>10

\* The statuses that wait for their command, of which there is a bounded number.
Waiting(g) == {c \in CommandId : g.pending[c] # "none"}
Bounded(g) == IsFiniteSet(Waiting(g)) /\ Cardinality(Waiting(g)) <= PendingCapacity

\* A brake that the gate has not applied yet starts the confirmation over.
Applying(g, id) ==
  [ResetHardwareConfirmation(g) EXCEPT !.gateApplied = TRUE, !.commandId = id, !.acked = FALSE]

LEMMA NewCommand ==
  ASSUME NEW g, NEW cmd, Heeds(g, cmd.generation), SafeBrake(cmd),
         ~(g.gateApplied /\ cmd.id = g.commandId)
  PROVE  AfterFinalCommand(g, cmd) = ApplyPendingStatus(Applying(g, cmd.id), cmd.id)
BY DEF AfterFinalCommand, Applying

LEMMA ApplyingEffect ==
  ASSUME NEW g \in GateRecords, NEW id \in CommandId
  PROVE  /\ Applying(g, id) \in GateRecords
         /\ Applying(g, id).active = g.active
         /\ Applying(g, id).generation = g.generation
         /\ Applying(g, id).failure = g.failure
         /\ Applying(g, id).pending = g.pending
         /\ Applying(g, id).gateApplied /\ Applying(g, id).commandId = id
         /\ ~Applying(g, id).acked
BY DEF Applying, ResetHardwareConfirmation, GateRecords

\* What is remembered of an id after one more verdict: a refusal stays.
Remembered(old, verdict) ==
  IF verdict \in FailureStates \/ old \notin FailureStates THEN verdict ELSE old

LEMMA RememberEffect ==
  ASSUME NEW g \in GateRecords, NEW id \in CommandId, NEW v \in Verdicts,
         Bounded(g), Cardinality(Waiting(g)) < PendingCapacity
  PROVE  LET r == RememberPendingStatus(g, id, v)
         IN  /\ r \in GateRecords /\ SameCommand(r, g)
             /\ r.pending[id] = Remembered(g.pending[id], v)
<1>1. Cardinality(Waiting(g)) \in Nat
  BY FS_CardinalityType DEF Bounded
<1>2. ~(Cardinality({c \in CommandId : g.pending[c] # "none"}) >= PendingCapacity)
  BY <1>1, PendingCapacityAssumption DEF Waiting
<1>3. RememberPendingStatus(g, id, v) =
        IF v \in FailureStates \/ g.pending[id] \notin FailureStates
        THEN [g EXCEPT !.pending[id] = v] ELSE g
  BY <1>2 DEF RememberPendingStatus
<1>. QED
  BY <1>3 DEF SameCommand, Remembered, GateRecords

LEMMA OrderIsIrrelevant ==
  ASSUME NEW g \in GateRecords, NEW cmd, cmd.id \in CommandId, SafeBrake(cmd),
         NEW st, st.id = cmd.id, st.generation = cmd.generation,
         Bounded(g), Cardinality(Waiting(g)) < PendingCapacity
  PROVE  SameOutcome(AfterFinalCommand(AfterCommandStatus(g, st), cmd),
                     AfterCommandStatus(AfterFinalCommand(g, cmd), st))
<1>. DEFINE id == cmd.id
            v == VerdictOf(st)
            p == g.pending[id]
            S == AfterCommandStatus(g, st)
            A == AfterFinalCommand(g, cmd)
            statusFirst == AfterFinalCommand(S, cmd)
            commandFirst == AfterCommandStatus(A, st)
<1>1. CASE ~Heeds(g, cmd.generation)
  <2>1. S = g /\ A = g
    BY <1>1 DEF AfterCommandStatus, AfterFinalCommand
  <2>. QED
    BY <2>1, OutcomesAgree
<1>2. CASE ~IsVerdict(st)
  <2>1. \A h : AfterCommandStatus(h, st) = h
    BY <1>2 DEF AfterCommandStatus, IsVerdict, FailureForState
  <2>. QED
    BY <2>1, OutcomesAgree
<1>3. CASE /\ Heeds(g, cmd.generation) /\ IsVerdict(st)
           /\ g.gateApplied /\ cmd.id = g.commandId
  BY <1>3, SettlingCommutes
<1>4. CASE /\ Heeds(g, cmd.generation) /\ IsVerdict(st)
           /\ ~(g.gateApplied /\ cmd.id = g.commandId)
  <2>. DEFINE B == Applying(g, id)
              R == Applying(S, id)
              q == Remembered(p, v)
  <2>1. st.id # NoCommand /\ g.failure = "none"
    BY <1>4 DEF SafeBrake, Heeds
  <2>2. /\ v \in FailureStates \/ v = "acknowledged"
        /\ p \in FailureStates \/ p = "acknowledged" \/ p = "none"
    BY <1>4 DEF VerdictOf, IsVerdict, GateRecords, Verdicts
  <2>3. "acknowledged" \notin FailureStates /\ "none" \notin FailureStates
    BY DEF FailureStates
  <2>4. S \in GateRecords /\ SameCommand(S, g) /\ S.pending[id] = q
    <3>1. S = RememberPendingStatus(g, id, v)
      BY <1>4, <2>1, EarlyStatus
    <3>2. v \in Verdicts
      BY <2>2 DEF Verdicts
    <3>. QED
      BY <3>1, <3>2, RememberEffect
  <2>5. q \in FailureStates \/ q = "acknowledged"
    BY <2>2 DEF Remembered
  <2>6. /\ R \in GateRecords /\ R.failure = "none" /\ ~R.acked /\ R.pending[id] = q
        /\ B \in GateRecords /\ B.failure = "none" /\ ~B.acked /\ B.pending[id] = p
        /\ B.gateApplied /\ B.commandId = id /\ Heeds(B, st.generation)
    <3>1. /\ R \in GateRecords /\ R.failure = S.failure /\ ~R.acked /\ R.pending = S.pending
      BY <2>4, ApplyingEffect
    <3>2. /\ B \in GateRecords /\ B.failure = g.failure /\ ~B.acked /\ B.pending = g.pending
          /\ B.gateApplied /\ B.commandId = id
          /\ B.active = g.active /\ B.generation = g.generation
      BY ApplyingEffect
    <3>. HIDE DEF R, B, S
    <3>. QED
      BY <1>4, <2>1, <2>4, <3>1, <3>2 DEF SameCommand, Heeds
  <2>7. statusFirst = Settle(Erased(R, id), q)
    <3>1. statusFirst = ApplyPendingStatus(R, id)
      <4>1. Heeds(S, cmd.generation) /\ ~(S.gateApplied /\ cmd.id = S.commandId)
        BY <1>4, <2>4 DEF SameCommand, Heeds
      <4>. QED
        BY <4>1, NewCommand
    <3>. QED
      BY <2>3, <2>5, <2>6, <3>1, ApplySettles
  <2>8. A = IF p = "none" THEN B ELSE Settle(Erased(B, id), p)
    BY <1>4, <2>6, NewCommand, ApplySettles
  <2>9. /\ Erased(R, id) \in GateRecords /\ SameCommand(Erased(R, id), R)
        /\ Erased(R, id).acked = R.acked
        /\ Erased(B, id) \in GateRecords /\ SameCommand(Erased(B, id), B)
        /\ Erased(B, id).acked = B.acked
    BY <2>6, ErasedEffect
  <2>. HIDE DEF R, B, S, A
  <2>10. CASE p \in FailureStates
    <3>1. Refused(A)
      BY <2>3, <2>8, <2>9, <2>10, LatchRefuses DEF Settle
    <3>2. commandFirst = A
      BY <3>1, FailedGateIsDeaf DEF Refused
    <3>3. q \in FailureStates
      BY <2>10 DEF Remembered
    <3>4. statusFirst = LatchFailure(Erased(R, id), q)
      BY <2>3, <2>7, <3>3 DEF Settle
    <3>5. Refused(statusFirst)
      BY <2>9, <3>3, <3>4, LatchRefuses
    <3>. QED
      BY <3>1, <3>2, <3>5, OutcomesAgree DEF S, A
  <2>11. CASE p \notin FailureStates
    <3>1. q = v
      BY <2>11 DEF Remembered
    <3>2. /\ A \in GateRecords /\ A.failure = "none" /\ Heeds(A, st.generation)
          /\ A.gateApplied /\ A.commandId = st.id
      <4>1. CASE p = "none"
        BY <2>6, <2>8, <4>1
      <4>2. CASE p = "acknowledged"
        <5>1. A = AcknowledgeCurrentCommand(Erased(B, id))
          BY <2>8, <4>2 DEF Settle
        <5>2. A \in GateRecords /\ SameCommand(A, Erased(B, id))
          BY <2>9, <5>1, AcknowledgeType, AcknowledgeEffect
        <5>. QED
          BY <2>6, <2>9, <5>2 DEF SameCommand, Heeds
      <4>. QED
        BY <2>2, <2>11, <4>1, <4>2
    <3>3. commandFirst = Settle(A, v)
      BY <1>4, <2>1, <3>2, CurrentStatus
    <3>4. CASE v \in FailureStates
      <4>1. commandFirst = LatchFailure(A, v) /\ statusFirst = LatchFailure(Erased(R, id), v)
        BY <2>3, <2>7, <3>1, <3>3, <3>4 DEF Settle
      <4>2. Refused(commandFirst) /\ Refused(statusFirst)
        BY <2>9, <3>2, <3>4, <4>1, LatchRefuses
      <4>. QED
        BY <4>2, OutcomesAgree DEF S, A
    <3>5. CASE v = "acknowledged"
      <4>1. Unconfirmed(statusFirst)
        <5>1. statusFirst = AcknowledgeCurrentCommand(Erased(R, id))
          BY <2>7, <3>1, <3>5 DEF Settle
        <5>2. Erased(R, id).failure = "none" /\ ~Erased(R, id).acked
          BY <2>6, <2>9 DEF SameCommand
        <5>. QED
          BY <2>9, <5>1, <5>2, AcknowledgeEffect
      <4>2. commandFirst = AcknowledgeCurrentCommand(A)
        BY <3>3, <3>5 DEF Settle
      <4>3. CASE p = "none"
        <5>1. A.failure = "none" /\ ~A.acked
          BY <2>6, <2>8, <4>3
        <5>2. Unconfirmed(commandFirst)
          BY <3>2, <4>2, <5>1, AcknowledgeEffect
        <5>. QED
          BY <4>1, <5>2, OutcomesAgree DEF S, A
      <4>4. CASE p = "acknowledged"
        <5>1. A = AcknowledgeCurrentCommand(Erased(B, id))
          BY <2>8, <4>4 DEF Settle
        <5>2. Erased(B, id).failure = "none" /\ ~Erased(B, id).acked
          BY <2>6, <2>9 DEF SameCommand
        <5>3. Unconfirmed(A)
          BY <2>9, <5>1, <5>2, AcknowledgeEffect
        <5>4. commandFirst = A
          BY <3>2, <4>2, <5>3, AcknowledgeEffect DEF Unconfirmed
        <5>. QED
          BY <4>1, <5>3, <5>4, OutcomesAgree DEF S, A
      <4>. QED
        BY <2>2, <2>11, <4>3, <4>4
    <3>. QED
      BY <2>2, <3>4, <3>5
  <2>. QED
    BY <2>10, <2>11
<1>. QED
  BY <1>1, <1>2, <1>3, <1>4

-----------------------------------------------------------------------------
(* No more statuses wait for their command than there is room for.          *)

LEMMA NoneWaiting == ASSUME NEW g, g.pending = NoPending PROVE Bounded(g)
<1>1. Waiting(g) = {}
  BY DEF Waiting, NoPending
<1>. QED
  BY <1>1, FS_EmptySet, PendingCapacityAssumption DEF Bounded

LEMMA FewerWaiting ==
  ASSUME NEW g, NEW h, Bounded(g), Waiting(h) \subseteq Waiting(g)
  PROVE  Bounded(h)
<1>1. /\ IsFiniteSet(Waiting(h)) /\ Cardinality(Waiting(h)) \in Nat
      /\ Cardinality(Waiting(g)) \in Nat
      /\ Cardinality(Waiting(h)) <= Cardinality(Waiting(g))
  BY FS_Subset, FS_CardinalityType DEF Bounded
<1>. QED
  BY <1>1, PendingCapacityAssumption DEF Bounded

LEMMA SameWaiting == ASSUME NEW g, NEW h, Bounded(g), h.pending = g.pending PROVE Bounded(h)
BY FewerWaiting DEF Waiting

LEMMA RememberBounded ==
  ASSUME NEW g \in GateRecords, NEW id \in CommandId, NEW v \in Verdicts, v # "none",
         Bounded(g)
  PROVE  Bounded(RememberPendingStatus(g, id, v))
<1>. DEFINE h == [g EXCEPT !.pending[id] = v]
<1>1. Cardinality(Waiting(g)) \in Nat
  BY FS_CardinalityType DEF Bounded
<1>2. Waiting(h) = Waiting(g) \cup {id}
  BY DEF Waiting, GateRecords
<1>3. CASE g.pending[id] # "none"
  <2>1. Waiting(h) = Waiting(g)
    BY <1>2, <1>3 DEF Waiting
  <2>2. Bounded(h)
    BY <2>1, FewerWaiting
  <2>. QED
    BY <1>3, <2>2 DEF RememberPendingStatus
<1>4. CASE g.pending[id] = "none"
  <2>1. CASE Cardinality(Waiting(g)) >= PendingCapacity
    <3>1. RememberPendingStatus(g, id, v) = LatchFailure(g, "overflow")
      BY <1>4, <2>1 DEF RememberPendingStatus, Waiting
    <3>2. LatchFailure(g, "overflow").pending = NoPending
      BY DEF LatchFailure, ResetHardwareConfirmation, GateRecords
    <3>. QED
      BY <3>1, <3>2, NoneWaiting
  <2>2. CASE ~(Cardinality(Waiting(g)) >= PendingCapacity)
    <3>1. RememberPendingStatus(g, id, v) = h
      BY <1>4, <2>2 DEF RememberPendingStatus, Waiting, FailureStates
    <3>2. IsFiniteSet(Waiting(h)) /\ Cardinality(Waiting(h)) = Cardinality(Waiting(g)) + 1
      <4>1. id \notin Waiting(g)
        BY <1>4 DEF Waiting
      <4>. QED
        BY <1>2, <4>1, FS_AddElement DEF Bounded
    <3>3. Cardinality(Waiting(h)) <= PendingCapacity
      BY <1>1, <2>2, <3>2, PendingCapacityAssumption
    <3>. QED
      BY <3>1, <3>2, <3>3 DEF Bounded
  <2>. QED
    BY <2>1, <2>2
<1>. QED
  BY <1>3, <1>4

LEMMA ApplyBounded ==
  ASSUME NEW g \in GateRecords, NEW id \in CommandId, Bounded(g)
  PROVE  Bounded(ApplyPendingStatus(g, id))
<1>. DEFINE e == Erased(g, id)
<1>1. e \in GateRecords
  BY ErasedEffect
<1>2. Waiting(e) \subseteq Waiting(g)
  BY DEF Waiting, Erased, GateRecords
<1>3. Bounded(e)
  BY <1>2, FewerWaiting
<1>4. AcknowledgeCurrentCommand(e).pending = e.pending
  BY <1>1, AcknowledgeEffect
<1>5. \A f : LatchFailure(e, f).pending = NoPending
  BY <1>1 DEF LatchFailure, ResetHardwareConfirmation, GateRecords
<1>6. \/ ApplyPendingStatus(g, id) = g
      \/ ApplyPendingStatus(g, id) = AcknowledgeCurrentCommand(e)
      \/ \E f : ApplyPendingStatus(g, id) = LatchFailure(e, f)
  BY DEF ApplyPendingStatus, Erased
<1>. HIDE DEF e
<1>. QED
  BY <1>3, <1>4, <1>5, <1>6, NoneWaiting, SameWaiting

LEMMA FinalCommandBounded ==
  ASSUME NEW g \in GateRecords, NEW cmd \in FinalCommands, Bounded(g)
  PROVE  Bounded(AfterFinalCommand(g, cmd))
<1>1. CASE ~Heeds(g, cmd.generation)
  BY <1>1 DEF AfterFinalCommand
<1>2. CASE Heeds(g, cmd.generation) /\ ~SafeBrake(cmd)
  <2>1. AfterFinalCommand(g, cmd).pending = g.pending
    BY <1>2 DEF AfterFinalCommand, ResetHardwareConfirmation, GateRecords
  <2>. QED
    BY <2>1, SameWaiting
<1>3. CASE Heeds(g, cmd.generation) /\ SafeBrake(cmd)
  <2>1. cmd.id \in CommandId
    BY <1>3 DEF SafeBrake, FinalCommands
  <2>2. CASE g.gateApplied /\ cmd.id = g.commandId
    BY <1>3, <2>1, <2>2, RepeatedCommand, ApplyBounded
  <2>3. CASE ~(g.gateApplied /\ cmd.id = g.commandId)
    <3>1. Applying(g, cmd.id) \in GateRecords /\ Bounded(Applying(g, cmd.id))
      BY <2>1, ApplyingEffect, SameWaiting
    <3>. QED
      BY <1>3, <2>1, <2>3, <3>1, NewCommand, ApplyBounded
  <2>. QED
    BY <2>2, <2>3
<1>. QED
  BY <1>1, <1>2, <1>3

LEMMA CommandStatusBounded ==
  ASSUME NEW g \in GateRecords, NEW st \in Statuses, Bounded(g)
  PROVE  Bounded(AfterCommandStatus(g, st))
<1>1. CASE ~Heeds(g, st.generation) \/ st.id = NoCommand \/ ~IsVerdict(st)
  <2>1. AfterCommandStatus(g, st) = g
    BY <1>1 DEF AfterCommandStatus, IsVerdict, FailureForState
  <2>. QED
    BY <2>1
<1>2. CASE /\ Heeds(g, st.generation) /\ st.id # NoCommand /\ IsVerdict(st)
           /\ g.gateApplied /\ st.id = g.commandId
  <2>1. AfterCommandStatus(g, st) = Settle(g, VerdictOf(st))
    BY <1>2, CurrentStatus
  <2>2. AcknowledgeCurrentCommand(g).pending = g.pending
    BY AcknowledgeEffect
  <2>3. LatchFailure(g, VerdictOf(st)).pending = NoPending
    BY DEF LatchFailure, ResetHardwareConfirmation, GateRecords
  <2>. QED
    BY <2>1, <2>2, <2>3, NoneWaiting, SameWaiting DEF Settle
<1>3. CASE /\ Heeds(g, st.generation) /\ st.id # NoCommand /\ IsVerdict(st)
           /\ ~(g.gateApplied /\ st.id = g.commandId)
  <2>1. AfterCommandStatus(g, st) = RememberPendingStatus(g, st.id, VerdictOf(st))
    BY <1>3, EarlyStatus
  <2>2. st.id \in CommandId
    BY <1>3 DEF Statuses
  <2>3. VerdictOf(st) \in Verdicts /\ VerdictOf(st) # "none"
    BY <1>3 DEF VerdictOf, IsVerdict, Verdicts, FailureStates
  <2>. QED
    BY <2>1, <2>2, <2>3, RememberBounded
<1>. QED
  BY <1>1, <1>2, <1>3

LEMMA HardwareBounded ==
  ASSUME NEW g \in GateRecords, NEW s, Bounded(g)
  PROVE  Bounded(AfterHardware(g, s))
<1>. DEFINE e == EnterSession(g, s)
<1>1. e.pending = g.pending
  BY DEF EnterSession, ResetHardwareConfirmation, GateRecords
<1>2. AfterHardware(g, s).pending = e.pending
  BY <1>1 DEF AfterHardware, EnterSession, ResetHardwareConfirmation, GateRecords
<1>. QED
  BY <1>1, <1>2, SameWaiting

LEMMA OwnerBounded ==
  ASSUME NEW g \in GateRecords, Bounded(g), NEW n \in Nat, NEW isActive \in BOOLEAN,
         NEW idle \in BOOLEAN
  PROVE  /\ Bounded(Restored(g, n, isActive, idle))
         /\ Bounded(Requested(g, n, idle))
         /\ Bounded(Released(g, n))
BY OwnerEffect, NoneWaiting DEF Blank

\* However many statuses come before their commands, and whatever becomes of
\* the commands, the gate remembers no more than it has room for
\* (rememberPendingStatus: kPendingStatusCapacity).
THEOREM WaitingIsBounded == Spec => []Bounded(gate)
<1>1. Init => Bounded(gate)
  BY NoneWaiting DEF Init, NewGate
<1>2. TypeOK /\ Bounded(gate) /\ [Next]_vars => Bounded(gate)'
  <2>. SUFFICES ASSUME gate \in GateRecords, Bounded(gate), [Next]_vars
                PROVE  Bounded(gate')
    BY DEF TypeOK, Bounded, Waiting
  <2>1. ASSUME NEW last \in Generation, NEW isActive \in BOOLEAN, NEW idle \in BOOLEAN,
               Restore(last, isActive, idle)
        PROVE  Bounded(gate')
    BY <2>1, GenerationAssumption, OwnerBounded DEF Restore
  <2>2. ASSUME NEW generation \in Generation, NEW idle \in BOOLEAN,
               Request(generation, idle)
        PROVE  Bounded(gate')
    BY <2>2, GenerationAssumption, OwnerBounded DEF Request
  <2>3. ASSUME NEW generation \in Generation, Release(generation)
        PROVE  Bounded(gate')
    BY <2>3, GenerationAssumption, OwnerBounded DEF Release
  <2>4. ASSUME NEW idle \in BOOLEAN, SetMissionIdle(idle)
        PROVE  Bounded(gate')
    <3>1. gate'.pending = gate.pending
      BY <2>4 DEF SetMissionIdle, WithMissionIdle, GateRecords
    <3>. QED
      BY <3>1, SameWaiting
  <2>5. ASSUME NEW cmd \in CommandInputs, ObserveFinalCommand(cmd)
        PROVE  Bounded(gate')
    BY <2>5, InputTypes, FinalCommandBounded DEF ObserveFinalCommand
  <2>6. ASSUME NEW st \in StatusInputs, ObserveCommandStatus(st)
        PROVE  Bounded(gate')
    BY <2>6, InputTypes, CommandStatusBounded DEF ObserveCommandStatus
  <2>7. ASSUME NEW s \in SampleInputs, ObserveHardware(s)
        PROVE  Bounded(gate')
    BY <2>7, HardwareBounded DEF ObserveHardware
  <2>8. CASE UNCHANGED vars
    BY <2>8 DEF vars
  <2>. QED
    BY <2>1, <2>2, <2>3, <2>4, <2>5, <2>6, <2>7, <2>8 DEF Next
<1>. QED
  BY <1>1, <1>2, TypeCorrect, PTL DEF Spec

\* In every reachable gate with room to remember one, a status that comes just
\* before its brake command has the effect it has just after it.
THEOREM StatusOrderKept == Spec => []StatusOrderIsIrrelevant
<1>1. TypeOK /\ Bounded(gate) => StatusOrderIsIrrelevant
  <2>. SUFFICES ASSUME TypeOK, Bounded(gate), NEW cmd \in CommandInputs, NEW st \in StatusInputs,
                       SafeBrake(cmd), st.id = cmd.id, st.generation = cmd.generation,
                       Cardinality({c \in CommandId : gate.pending[c] # "none"})
                         < PendingCapacity
                PROVE  SameOutcome(AfterFinalCommand(AfterCommandStatus(gate, st), cmd),
                                   AfterCommandStatus(AfterFinalCommand(gate, cmd), st))
    BY DEF StatusOrderIsIrrelevant, SameOutcome
  <2>1. cmd.id \in CommandId
    BY DEF CommandInputs, SafeBrake
  <2>. QED
    BY <2>1, OrderIsIrrelevant DEF TypeOK, Waiting
<1>. QED
  BY <1>1, TypeCorrect, WaitingIsBounded, PTL
=============================================================================
