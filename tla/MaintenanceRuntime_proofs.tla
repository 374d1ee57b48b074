----------------------- MODULE MaintenanceRuntime_proofs -----------------------
(***************************************************************************)
(* The safety properties of the maintenance runtime, for any requesters,   *)
(* publishers, commands, frames and generations.                           *)
(*                                                                         *)
(* A runtime is new, healthy or faulty.  A healthy one is aligned with the *)
(* state file and publishes what its gate says; a faulty one stays closed  *)
(* and, when the store was the cause, brakes for what is on the disk.      *)
(* Beside that runs what the gate's evidence says about the publishers,    *)
(* and at the end how the tracker's table agrees with who was heard.       *)
(***************************************************************************)
EXTENDS MaintenancePublishers, FiniteSetTheorems, TLAPS

-----------------------------------------------------------------------------
(* The methods of the gate map gate records to gate records.              *)

LEMMA ResetHardwareConfirmationType ==
  ASSUME NEW g \in GateRecords
  PROVE  ResetHardwareConfirmation(g) \in GateRecords
BY DEF ResetHardwareConfirmation, GateRecords

LEMMA ResetHardwareEvidenceType ==
  ASSUME NEW g \in GateRecords
  PROVE  ResetHardwareEvidence(g) \in GateRecords
BY ResetHardwareConfirmationType
   DEF ResetHardwareEvidence, GateRecords, NoFrame, RevokedEpoch

LEMMA NoPendingType == NoPending \in [CommandId -> Verdicts]
BY DEF NoPending, Verdicts

LEMMA ResetEvidenceType ==
  ASSUME NEW g \in GateRecords
  PROVE  ResetEvidence(g) \in GateRecords
BY NoPendingType, ResetHardwareEvidenceType
   DEF ResetEvidence, GateRecords, NoCommand, Failures

LEMMA LatchFailureType ==
  ASSUME NEW g \in GateRecords, NEW f \in Failures
  PROVE  LatchFailure(g, f) \in GateRecords
BY NoPendingType, ResetHardwareConfirmationType DEF LatchFailure, GateRecords

LEMMA AcknowledgeType ==
  ASSUME NEW g \in GateRecords
  PROVE  AcknowledgeCurrentCommand(g) \in GateRecords
BY ResetHardwareConfirmationType DEF AcknowledgeCurrentCommand, GateRecords

LEMMA SetPendingType ==
  ASSUME NEW g \in GateRecords, NEW id \in CommandId, NEW v \in Verdicts
  PROVE  [g EXCEPT !.pending[id] = v] \in GateRecords
BY DEF GateRecords

LEMMA RememberType ==
  ASSUME NEW g \in GateRecords, NEW id \in CommandId, NEW v \in Verdicts
  PROVE  RememberPendingStatus(g, id, v) \in GateRecords
BY SetPendingType, LatchFailureType DEF RememberPendingStatus, Failures

LEMMA ApplyType ==
  ASSUME NEW g \in GateRecords, NEW id \in CommandId
  PROVE  ApplyPendingStatus(g, id) \in GateRecords
<1>1. g.pending[id] \in Verdicts
  BY DEF GateRecords
<1>2. [g EXCEPT !.pending[id] = "none"] \in GateRecords
  BY SetPendingType DEF Verdicts
<1>. QED
  BY <1>1, <1>2, AcknowledgeType, LatchFailureType
     DEF ApplyPendingStatus, Verdicts, Failures

LEMMA WithMissionIdleType ==
  ASSUME NEW g \in GateRecords, NEW idle \in BOOLEAN
  PROVE  WithMissionIdle(g, idle) \in GateRecords
<1>. DEFINE pristine == g.pristine /\ idle = g.missionIdle
<1>1. pristine \in BOOLEAN
  OBVIOUS
<1>. HIDE DEF pristine
<1>2. [g EXCEPT !.pristine = pristine, !.missionIdle = idle] \in GateRecords
  BY <1>1 DEF GateRecords
<1>. QED
  BY <1>2 DEF WithMissionIdle, pristine

LEMMA AfterFinalCommandType ==
  ASSUME NEW g \in GateRecords, NEW cmd \in FinalCommands
  PROVE  AfterFinalCommand(g, cmd) \in GateRecords
<1>1. ResetHardwareConfirmation(g) \in GateRecords
  BY ResetHardwareConfirmationType
<1>2. [ResetHardwareConfirmation(g) EXCEPT
         !.gateApplied = FALSE, !.commandId = NoCommand, !.acked = FALSE]
        \in GateRecords
  BY <1>1 DEF GateRecords
<1>3. [ResetHardwareConfirmation(g) EXCEPT
         !.gateApplied = TRUE, !.commandId = cmd.id, !.acked = FALSE]
        \in GateRecords
  BY <1>1 DEF GateRecords, FinalCommands
<1>4. cmd.id # NoCommand => cmd.id \in CommandId
  BY DEF FinalCommands
<1>. QED
  BY <1>2, <1>3, <1>4, ApplyType DEF AfterFinalCommand, SafeBrake

LEMMA AfterCommandStatusType ==
  ASSUME NEW g \in GateRecords, NEW st \in Statuses
  PROVE  AfterCommandStatus(g, st) \in GateRecords
<1>1. FailureForState(st.state) \in Failures
  BY DEF FailureForState, Failures
<1>2. CASE st.id = NoCommand
  BY <1>2 DEF AfterCommandStatus
<1>3. CASE st.id # NoCommand
  <2>. DEFINE v == IF st.state \in AckStates THEN "acknowledged"
                   ELSE FailureForState(st.state)
  <2>1. st.id \in CommandId
    BY <1>3 DEF Statuses
  <2>2. v \in Verdicts
    BY DEF FailureForState, Verdicts
  <2>. HIDE DEF v
  <2>3. RememberPendingStatus(g, st.id, v) \in GateRecords
    BY <2>1, <2>2, RememberType
  <2>4. LatchFailure(g, FailureForState(st.state)) \in GateRecords
    BY <1>1, LatchFailureType
  <2>. QED
    BY <2>3, <2>4, AcknowledgeType DEF AfterCommandStatus, v
<1>. QED
  BY <1>2, <1>3

LEMMA LaterType ==
  ASSUME NEW s \in Samples, NEW f \in Nat \cup {NoFrame}
  PROVE  Later(s, f) \in Nat \cup {NoFrame}
BY DEF Later, Samples

LEMMA EnterSessionType ==
  ASSUME NEW g \in GateRecords, NEW s \in Samples
  PROVE  EnterSession(g, s) \in GateRecords
<1>1. ResetHardwareConfirmation(g) \in GateRecords
  BY ResetHardwareConfirmationType
<1>2. [ResetHardwareConfirmation(g) EXCEPT !.epoch = s.epoch, !.lastFrame = NoFrame]
        \in GateRecords
  BY <1>1 DEF GateRecords, Samples
<1>. QED
  BY <1>2 DEF EnterSession

LEMMA AfterHardwareType ==
  ASSUME NEW g \in GateRecords, NEW s \in Samples
  PROVE  AfterHardware(g, s) \in GateRecords
<1>. DEFINE e == EnterSession(g, s)
            n == IF e.zeroFrames = 2 THEN 2 ELSE e.zeroFrames + 1
<1>1. e \in GateRecords
  BY EnterSessionType
<1>. HIDE DEF e
<1>2. Later(s, e.lastFrame) \in Nat \cup {NoFrame}
  BY <1>1, LaterType DEF GateRecords
<1>3. [ResetHardwareConfirmation(g) EXCEPT !.observed = g.acked] \in GateRecords
  BY ResetHardwareConfirmationType DEF GateRecords
<1>4. [e EXCEPT !.lastFrame = Later(s, e.lastFrame)] \in GateRecords
  BY <1>1, <1>2 DEF GateRecords
<1>5. [e EXCEPT !.observed = TRUE, !.fresh = s.fresh, !.zero = s.zero,
                !.zeroFrames = 0, !.lastFrame = Later(s, e.lastFrame)] \in GateRecords
  BY <1>1, <1>2 DEF GateRecords, Samples
<1>6. n \in {0, 1, 2}
  BY <1>1 DEF GateRecords
<1>. HIDE DEF n
<1>7. [e EXCEPT !.observed = TRUE, !.fresh = TRUE, !.zero = Outputs,
                !.lastFrame = s.seq, !.zeroFrames = n] \in GateRecords
  BY <1>1, <1>6 DEF GateRecords, Samples
<1>. QED
  BY <1>1, <1>3, <1>4, <1>5, <1>7 DEF AfterHardware, e, n

-----------------------------------------------------------------------------
(* What the methods of the gate leave alone.                               *)

\* The request a gate is for.
SameRequest(h, g) ==
  /\ h.active = g.active /\ h.generation = g.generation
  /\ h.lastGeneration = g.lastGeneration

\* Hardware evidence counts for an acknowledged request that has not failed.
FreshIsEarned(g) == g.fresh => g.active /\ g.acked /\ g.failure = "none"

\* What evidence there is was there before, and of the same session.
NothingFresher(h, g) ==
  /\ h.fresh => g.fresh /\ h.zero = g.zero /\ h.epoch = g.epoch
  /\ h.epoch \in {RevokedEpoch, g.epoch}

LEMMA ConfirmationReset ==
  ASSUME NEW g \in GateRecords, NEW h, h = ResetHardwareConfirmation(g)
  PROVE  /\ h \in GateRecords /\ SameRequest(h, g) /\ ~h.fresh /\ h.epoch = g.epoch
         /\ h.acked = g.acked /\ h.failure = g.failure /\ h.observed = FALSE
BY DEF ResetHardwareConfirmation, GateRecords, SameRequest

LEMMA FailureLatchedShape ==
  ASSUME NEW g \in GateRecords, NEW f \in Failures, NEW h, h = LatchFailure(g, f)
  PROVE  SameRequest(h, g) /\ ~h.fresh /\ h.epoch = g.epoch
<1>. DEFINE k == ResetHardwareConfirmation(g)
<1>1. k \in GateRecords /\ SameRequest(k, g) /\ ~k.fresh /\ k.epoch = g.epoch
  BY ConfirmationReset
<1>2. h = [k EXCEPT !.failure = f, !.acked = FALSE, !.pending = NoPending]
  BY DEF LatchFailure
<1>. HIDE DEF k
<1>. QED
  BY <1>1, <1>2 DEF GateRecords, SameRequest

LEMMA AcknowledgedShape ==
  ASSUME NEW g \in GateRecords, NEW h, h = AcknowledgeCurrentCommand(g)
  PROVE  /\ SameRequest(h, g) /\ h.epoch = g.epoch /\ h.failure = g.failure
         /\ h = g \/ ~h.fresh
<1>. DEFINE k == ResetHardwareConfirmation(g)
<1>1. /\ k \in GateRecords /\ SameRequest(k, g) /\ ~k.fresh /\ k.epoch = g.epoch
      /\ k.failure = g.failure
  BY ConfirmationReset
<1>2. h = IF g.acked THEN g ELSE [k EXCEPT !.acked = TRUE]
  BY DEF AcknowledgeCurrentCommand
<1>. HIDE DEF k
<1>. QED
  BY <1>1, <1>2 DEF GateRecords, SameRequest

LEMMA PendingShape ==
  ASSUME NEW g \in GateRecords, NEW id \in CommandId, NEW v \in Verdicts,
         NEW h, h = [g EXCEPT !.pending[id] = v]
  PROVE  /\ h \in GateRecords /\ SameRequest(h, g) /\ h.fresh = g.fresh
         /\ h.zero = g.zero /\ h.epoch = g.epoch /\ h.acked = g.acked
         /\ h.failure = g.failure
BY DEF GateRecords, SameRequest

LEMMA AppliedShape ==
  ASSUME NEW g \in GateRecords, NEW id \in CommandId, NEW h, h = ApplyPendingStatus(g, id)
  PROVE  /\ SameRequest(h, g) /\ h.epoch = g.epoch
         /\ ~h.fresh \/ (h.fresh = g.fresh /\ h.zero = g.zero /\ h.acked = g.acked
                         /\ h.failure = g.failure)
<1>. DEFINE k == [g EXCEPT !.pending[id] = "none"]
<1>1. g.pending[id] \in Verdicts
  BY DEF GateRecords
<1>2. /\ k \in GateRecords /\ SameRequest(k, g) /\ k.fresh = g.fresh
      /\ k.zero = g.zero /\ k.epoch = g.epoch /\ k.acked = g.acked
      /\ k.failure = g.failure
  BY PendingShape DEF Verdicts
<1>3. h = IF g.pending[id] = "none" THEN g
          ELSE IF g.pending[id] = "acknowledged" THEN AcknowledgeCurrentCommand(k)
          ELSE LatchFailure(k, g.pending[id])
  BY DEF ApplyPendingStatus
<1>. HIDE DEF k
<1>4. CASE g.pending[id] = "none"
  BY <1>3, <1>4 DEF SameRequest
<1>5. CASE g.pending[id] = "acknowledged"
  BY <1>2, <1>3, <1>5, AcknowledgedShape DEF SameRequest
<1>6. CASE g.pending[id] \in FailureStates
  <2>1. g.pending[id] \in Failures /\ h = LatchFailure(k, g.pending[id])
    BY <1>3, <1>6 DEF Failures, FailureStates
  <2>. QED
    BY <1>2, <2>1, FailureLatchedShape DEF SameRequest
<1>. QED
  BY <1>1, <1>4, <1>5, <1>6 DEF Verdicts

LEMMA FinalCommandShape ==
  ASSUME NEW g \in GateRecords, NEW cmd \in FinalCommands, FreshIsEarned(g),
         NEW h, h = AfterFinalCommand(g, cmd)
  PROVE  h \in GateRecords /\ SameRequest(h, g) /\ FreshIsEarned(h) /\ NothingFresher(h, g)
<1>. DEFINE k == ResetHardwareConfirmation(g)
            changed == ~g.gateApplied \/ cmd.id # g.commandId
            fresh == [k EXCEPT !.gateApplied = TRUE, !.commandId = cmd.id, !.acked = FALSE]
            applied == IF changed THEN fresh ELSE g
            unsafe == [k EXCEPT !.gateApplied = FALSE, !.commandId = NoCommand,
                                !.acked = FALSE]
<1>1. h \in GateRecords
  BY AfterFinalCommandType
<1>2. /\ k \in GateRecords /\ SameRequest(k, g) /\ ~k.fresh /\ k.epoch = g.epoch
  BY ConfirmationReset
<1>3. h = IF ~Heeds(g, cmd.generation) THEN g
          ELSE IF ~SafeBrake(cmd) THEN unsafe ELSE ApplyPendingStatus(applied, cmd.id)
  BY DEF AfterFinalCommand
<1>. HIDE DEF k
<1>4. CASE ~Heeds(g, cmd.generation)
  BY <1>1, <1>3, <1>4 DEF SameRequest, NothingFresher
<1>5. CASE Heeds(g, cmd.generation) /\ ~SafeBrake(cmd)
  <2>1. SameRequest(unsafe, g) /\ ~unsafe.fresh /\ unsafe.epoch = g.epoch
    BY <1>2 DEF GateRecords, SameRequest
  <2>. QED
    BY <1>1, <1>3, <1>5, <2>1 DEF FreshIsEarned, NothingFresher
<1>6. CASE Heeds(g, cmd.generation) /\ SafeBrake(cmd)
  <2>1. cmd.id \in CommandId
    BY <1>6 DEF SafeBrake, FinalCommands
  <2>2. /\ fresh \in GateRecords /\ SameRequest(fresh, g) /\ ~fresh.fresh
        /\ fresh.epoch = g.epoch
    BY <1>2, <2>1 DEF GateRecords, SameRequest
  <2>. HIDE DEF fresh
  <2>3. /\ applied \in GateRecords /\ SameRequest(applied, g) /\ applied.epoch = g.epoch
        /\ applied = g \/ ~applied.fresh
    BY <2>2 DEF SameRequest
  <2>. HIDE DEF applied
  <2>4. h = ApplyPendingStatus(applied, cmd.id)
    BY <1>3, <1>6
  <2>5. /\ SameRequest(h, applied) /\ h.epoch = applied.epoch
        /\ ~h.fresh \/ (h.fresh = applied.fresh /\ h.zero = applied.zero
                        /\ h.acked = applied.acked /\ h.failure = applied.failure)
    BY <2>1, <2>3, <2>4, AppliedShape
  <2>. QED
    BY <1>1, <2>3, <2>5 DEF SameRequest, FreshIsEarned, NothingFresher
<1>. QED
  BY <1>4, <1>5, <1>6

LEMMA CommandStatusShape ==
  ASSUME NEW g \in GateRecords, NEW st \in Statuses, FreshIsEarned(g),
         NEW h, h = AfterCommandStatus(g, st)
  PROVE  h \in GateRecords /\ SameRequest(h, g) /\ FreshIsEarned(h) /\ NothingFresher(h, g)
<1>1. h \in GateRecords
  BY AfterCommandStatusType
<1>. DEFINE failure == FailureForState(st.state)
            isAck == st.state \in AckStates
            verdict == IF isAck THEN "acknowledged" ELSE failure
<1>2. CASE h = g
  BY <1>1, <1>2 DEF SameRequest, NothingFresher
<1>3. CASE h = AcknowledgeCurrentCommand(g)
  BY <1>1, <1>3, AcknowledgedShape DEF FreshIsEarned, NothingFresher, SameRequest
<1>4. ASSUME NEW f \in Failures, h = LatchFailure(g, f)
      PROVE  SameRequest(h, g) /\ FreshIsEarned(h) /\ NothingFresher(h, g)
  BY <1>4, FailureLatchedShape DEF FreshIsEarned, NothingFresher
<1>5. CASE st.id # NoCommand /\ h = RememberPendingStatus(g, st.id, verdict)
           /\ verdict \in Verdicts
  <2>. HIDE DEF verdict
  <2>1. st.id \in CommandId
    BY <1>5 DEF Statuses
  <2>2. CASE h = LatchFailure(g, "overflow")
    BY <1>1, <1>4, <2>2 DEF Failures
  <2>3. CASE h = [g EXCEPT !.pending[st.id] = verdict]
    BY <1>1, <1>5, <2>1, <2>3, PendingShape DEF SameRequest, FreshIsEarned, NothingFresher
  <2>. QED
    BY <1>2, <1>5, <2>2, <2>3 DEF RememberPendingStatus
<1>6. failure \in FailureStates \cup {"none"}
  BY DEF FailureForState
<1>7. CASE isAck \/ failure # "none"
  <2>1. verdict \in Verdicts /\ (~isAck => failure \in Failures)
    BY <1>6, <1>7 DEF Verdicts, Failures
  <2>2. \/ h = g
        \/ st.id # NoCommand /\ h = RememberPendingStatus(g, st.id, verdict)
        \/ h = AcknowledgeCurrentCommand(g)
        \/ ~isAck /\ h = LatchFailure(g, failure)
    BY <1>7 DEF AfterCommandStatus
  <2>. HIDE DEF verdict, failure, isAck
  <2>. QED
    BY <1>1, <1>2, <1>3, <1>4, <1>5, <2>1, <2>2
<1>8. CASE ~isAck /\ failure = "none"
  BY <1>2, <1>8 DEF AfterCommandStatus
<1>. QED
  BY <1>7, <1>8

LEMMA SessionShape ==
  ASSUME NEW g \in GateRecords, NEW s \in Samples, g.epoch <= s.epoch,
         NEW e, e = EnterSession(g, s)
  PROVE  /\ e \in GateRecords /\ SameRequest(e, g) /\ e.epoch = s.epoch
         /\ e.acked = g.acked /\ e.failure = g.failure
         /\ e.fresh => g.fresh
<1>. DEFINE k == ResetHardwareConfirmation(g)
<1>1. /\ k \in GateRecords /\ SameRequest(k, g) /\ ~k.fresh /\ k.epoch = g.epoch
      /\ k.acked = g.acked /\ k.failure = g.failure
  BY ConfirmationReset
<1>2. e \in GateRecords
  BY EnterSessionType
<1>3. e = IF s.epoch > g.epoch THEN [k EXCEPT !.epoch = s.epoch, !.lastFrame = NoFrame]
          ELSE g
  BY DEF EnterSession
<1>. HIDE DEF k
<1>4. CASE s.epoch > g.epoch
  BY <1>1, <1>2, <1>3, <1>4 DEF GateRecords, SameRequest
<1>5. CASE ~(s.epoch > g.epoch)
  BY <1>2, <1>3, <1>5 DEF GateRecords, Samples, SameRequest
<1>. QED
  BY <1>4, <1>5

\* A sample of the current session, or of none: what is fresh then is its own.
LEMMA HardwareShape ==
  ASSUME NEW g \in GateRecords, NEW s \in Samples, FreshIsEarned(g),
         s.epoch = RevokedEpoch \/ g.epoch <= s.epoch,
         NEW h, h = AfterHardware(g, s)
  PROVE  /\ h \in GateRecords /\ SameRequest(h, g) /\ FreshIsEarned(h)
         /\ h.epoch \in {g.epoch, s.epoch}
         /\ s.epoch = RevokedEpoch => h.epoch = g.epoch
         /\ h.fresh => /\ s.fresh /\ s.epoch # RevokedEpoch /\ h.epoch = s.epoch
                       /\ h.zero = Outputs => SafeZero(s)
<1>. DEFINE e == EnterSession(g, s)
            k == ResetHardwareConfirmation(g)
            later == Later(s, e.lastFrame)
            count == IF e.zeroFrames = 2 THEN 2 ELSE e.zeroFrames + 1
<1>1. h \in GateRecords
  BY AfterHardwareType
<1>2. CASE ~g.active \/ g.failure # "none"
  BY <1>1, <1>2 DEF AfterHardware, SameRequest, FreshIsEarned
<1>3. CASE g.active /\ g.failure = "none" /\ s.epoch = RevokedEpoch
  <2>1. h = [k EXCEPT !.observed = g.acked]
    BY <1>3 DEF AfterHardware
  <2>2. k \in GateRecords /\ SameRequest(k, g) /\ ~k.fresh /\ k.epoch = g.epoch
    BY ConfirmationReset
  <2>. HIDE DEF k
  <2>3. SameRequest(h, g) /\ ~h.fresh /\ h.epoch = g.epoch
    BY <2>1, <2>2 DEF GateRecords, SameRequest
  <2>. QED
    BY <1>1, <2>3 DEF FreshIsEarned
<1>4. CASE g.active /\ g.failure = "none" /\ s.epoch # RevokedEpoch
  <2>1. /\ e \in GateRecords /\ SameRequest(e, g) /\ e.epoch = s.epoch
        /\ e.acked = g.acked /\ e.failure = g.failure
        /\ e.fresh => g.fresh
    BY <1>4, SessionShape
  <2>2. ~(s.epoch < g.epoch)
    BY <1>4 DEF GateRecords, Samples
  <2>3. h = IF ~g.acked THEN [e EXCEPT !.lastFrame = later]
            ELSE IF ~SafeZero(s)
            THEN [e EXCEPT !.observed = TRUE, !.fresh = s.fresh, !.zero = s.zero,
                           !.zeroFrames = 0, !.lastFrame = later]
            ELSE IF s.seq <= e.lastFrame THEN e
            ELSE [e EXCEPT !.observed = TRUE, !.fresh = TRUE, !.zero = Outputs,
                           !.lastFrame = s.seq, !.zeroFrames = count]
    BY <1>4, <2>2 DEF AfterHardware
  <2>. HIDE DEF e, later, count
  <2>4. CASE ~g.acked
    <3>1. SameRequest(h, g) /\ h.epoch = s.epoch /\ h.fresh = e.fresh
      BY <2>1, <2>3, <2>4 DEF GateRecords, SameRequest
    <3>2. ~h.fresh
      BY <2>1, <2>4, <3>1 DEF FreshIsEarned
    <3>. QED
      BY <1>1, <1>4, <3>1, <3>2 DEF FreshIsEarned
  <2>5. CASE g.acked /\ ~SafeZero(s)
    <3>1. /\ SameRequest(h, g) /\ h.epoch = s.epoch /\ h.fresh = s.fresh /\ h.zero = s.zero
          /\ h.acked = e.acked /\ h.failure = e.failure
      <4>1. h = [e EXCEPT !.observed = TRUE, !.fresh = s.fresh, !.zero = s.zero,
                          !.zeroFrames = 0, !.lastFrame = later]
        BY <2>3, <2>5
      <4>. QED
        BY <2>1, <4>1 DEF GateRecords, SameRequest
    <3>2. ~(h.fresh /\ h.zero = Outputs)
      BY <2>5, <3>1 DEF SafeZero
    <3>3. FreshIsEarned(h)
      BY <1>4, <2>1, <2>5, <3>1 DEF FreshIsEarned, SameRequest
    <3>. QED
      BY <1>1, <1>4, <3>1, <3>2, <3>3
  <2>6. CASE g.acked /\ SafeZero(s) /\ s.seq <= e.lastFrame
    <3>1. h = e
      BY <2>3, <2>6
    <3>2. FreshIsEarned(h)
      BY <1>4, <2>1, <2>6, <3>1 DEF FreshIsEarned, SameRequest
    <3>. QED
      BY <1>1, <1>4, <2>1, <2>6, <3>1, <3>2 DEF SafeZero
  <2>7. CASE g.acked /\ SafeZero(s) /\ ~(s.seq <= e.lastFrame)
    <3>1. /\ SameRequest(h, g) /\ h.epoch = s.epoch
          /\ h.acked = e.acked /\ h.failure = e.failure
      <4>1. h = [e EXCEPT !.observed = TRUE, !.fresh = TRUE, !.zero = Outputs,
                          !.lastFrame = s.seq, !.zeroFrames = count]
        BY <2>3, <2>7
      <4>. QED
        BY <2>1, <4>1 DEF GateRecords, SameRequest
    <3>2. FreshIsEarned(h)
      BY <1>4, <2>1, <2>7, <3>1 DEF FreshIsEarned, SameRequest
    <3>. QED
      BY <1>1, <1>4, <2>7, <3>1, <3>2 DEF SafeZero
  <2>. QED
    BY <2>4, <2>5, <2>6, <2>7
<1>. QED
  BY <1>2, <1>3, <1>4

LEMMA IdleShape ==
  ASSUME NEW g \in GateRecords, NEW idle \in BOOLEAN, NEW h, h = WithMissionIdle(g, idle)
  PROVE  /\ h \in GateRecords /\ SameRequest(h, g) /\ h.fresh = g.fresh /\ h.zero = g.zero
         /\ h.epoch = g.epoch /\ h.acked = g.acked /\ h.failure = g.failure
<1>1. h \in GateRecords
  BY WithMissionIdleType
<1>. QED
  BY <1>1 DEF WithMissionIdle, GateRecords, SameRequest

LEMMA BlankShape ==
  ASSUME NEW g \in GateRecords, NEW h, h = ResetEvidence(g)
  PROVE  h \in GateRecords /\ SameRequest(h, g) /\ ~h.fresh /\ h.epoch = RevokedEpoch
<1>1. h \in GateRecords
  BY ResetEvidenceType
<1>. DEFINE k == ResetHardwareConfirmation(g)
            l == [k EXCEPT !.epoch = RevokedEpoch, !.lastFrame = NoFrame]
<1>2. k \in GateRecords /\ SameRequest(k, g) /\ ~k.fresh
  BY ConfirmationReset
<1>3. h = [l EXCEPT !.gateApplied = FALSE, !.commandId = NoCommand, !.acked = FALSE,
                    !.failure = "none", !.pending = NoPending]
  BY DEF ResetEvidence, ResetHardwareEvidence
<1>. HIDE DEF k
<1>4. l \in GateRecords /\ SameRequest(l, k) /\ l.fresh = k.fresh /\ l.epoch = RevokedEpoch
  BY <1>2 DEF GateRecords, SameRequest, NoFrame, RevokedEpoch
<1>. HIDE DEF l
<1>5. SameRequest(h, l) /\ h.fresh = l.fresh /\ h.epoch = l.epoch
  BY <1>3, <1>4 DEF GateRecords, SameRequest
<1>. QED
  BY <1>1, <1>2, <1>4, <1>5 DEF SameRequest

LEMMA RequestedShape ==
  ASSUME NEW g \in GateRecords, NEW n \in Nat, NEW idle \in BOOLEAN, CanRequest(g, n),
         NEW h, h = Requested(g, n, idle)
  PROVE  /\ h \in GateRecords /\ h.active /\ h.generation = n /\ h.lastGeneration = n
         /\ ~h.fresh /\ h.epoch = RevokedEpoch
<1>. DEFINE k == [g EXCEPT !.pristine = FALSE, !.active = TRUE, !.generation = n,
                           !.lastGeneration = n, !.missionIdle = idle]
<1>1. /\ k \in GateRecords /\ k.active /\ k.generation = n /\ k.lastGeneration = n
  BY DEF GateRecords
<1>2. h = ResetEvidence(k)
  BY DEF Requested
<1>. HIDE DEF k
<1>. QED
  BY <1>1, <1>2, BlankShape DEF SameRequest

LEMMA ReleasedShape ==
  ASSUME NEW g \in GateRecords, NEW n \in Nat, CanRelease(g, n), NEW h, h = Released(g, n)
  PROVE  /\ h \in GateRecords /\ ~h.active /\ h.lastGeneration = g.lastGeneration
         /\ ~h.fresh /\ h.epoch = RevokedEpoch
<1>. DEFINE k == [g EXCEPT !.active = FALSE, !.generation = 0, !.missionIdle = FALSE]
<1>1. k \in GateRecords /\ ~k.active /\ k.lastGeneration = g.lastGeneration
  BY DEF GateRecords
<1>2. h = ResetEvidence(k)
  BY DEF Released
<1>. HIDE DEF k
<1>. QED
  BY <1>1, <1>2, BlankShape DEF SameRequest

\* The state restored from a record.
CanRestoreFrom(g, c) == CanRestore(g, c.last, c.owner # Nobody)
RestoredFrom(g, c, idle) == Restored(g, c.last, c.owner # Nobody, idle)

LEMMA RestoredShape ==
  ASSUME NEW g \in GateRecords, NEW c, c.last \in Nat, NEW idle \in BOOLEAN,
         CanRestoreFrom(g, c), NEW h, h = RestoredFrom(g, c, idle)
  PROVE  /\ h \in GateRecords
         /\ h.active <=> c.owner # Nobody
         /\ h.active => h.generation = c.last
         /\ h.lastGeneration = c.last /\ ~h.fresh /\ h.epoch = RevokedEpoch
<1>. DEFINE isActive == c.owner # Nobody
            m == IF isActive THEN c.last ELSE 0
            k == [g EXCEPT !.pristine = FALSE, !.active = isActive, !.generation = m,
                           !.lastGeneration = c.last, !.missionIdle = idle]
<1>1. /\ m \in Nat /\ (isActive => m = c.last) /\ isActive \in BOOLEAN
      /\ isActive <=> c.owner # Nobody
  OBVIOUS
<1>2. h = ResetEvidence(k)
  BY DEF Restored, RestoredFrom, CanRestoreFrom
<1>. HIDE DEF m, isActive
<1>3. /\ k \in GateRecords /\ k.active = isActive /\ k.generation = m
      /\ k.lastGeneration = c.last
  BY <1>1 DEF GateRecords
<1>. HIDE DEF k
<1>. QED
  BY <1>1, <1>2, <1>3, BlankShape DEF SameRequest

-----------------------------------------------------------------------------
(* The runtime: what it carries from call to call, and how a call ends.    *)

Carried(h, r) ==
  /\ h.gate = r.gate /\ h.record = r.record
  /\ h.tracker = r.tracker /\ h.latest = r.latest /\ h.aged = r.aged

\* Record and gate are those of the state file.
Aligned(r, c) ==
  /\ r.record = c /\ c.code = "ok"
  /\ r.gate.active <=> c.owner # Nobody
  /\ r.gate.lastGeneration = c.last
  /\ r.gate.active => r.gate.generation = c.last

HealthySnapshot(g) == SnapshotOf(g, FALSE)
FaultSnapshot(g) == SnapshotOf(g, TRUE)

\* What is shown while admission is closed.
Shut(snap) == snap.closed /\ ~snap.ready

Healthy(r, c) ==
  /\ r.initialized /\ ~r.fault /\ r.cause = "none"
  /\ Aligned(r, c)
  /\ r.closed <=> r.gate.active
  /\ r.snap = HealthySnapshot(r.gate)
  /\ Shut(r.spare)

Faulty(r) ==
  /\ r.initialized /\ r.fault /\ r.closed /\ Shut(r.snap)
  /\ r.snap.fault \/ r.cause = "exception"

\* After a failure of the store: an inhibitor on the disk is braked for.
Braked(r, c) ==
  r.cause = "store" /\ r.record.code = "ok" /\ c.owner # Nobody
  => r.gate.active /\ r.snap.gateActive /\ r.snap.generation = c.last

LEMMA RuntimeFields ==
  ASSUME NEW r \in Runtimes
  PROVE  /\ r.gate \in GateRecords /\ r.initialized \in BOOLEAN /\ r.fault \in BOOLEAN
         /\ r.closed \in BOOLEAN /\ r.cause \in Causes /\ r.record \in Contents
         /\ r.snap \in Snapshots /\ r.spare \in Snapshots /\ r.tracker \in Trackers
         /\ r.latest \in Samples /\ r.aged \in BOOLEAN
BY DEF Runtimes

LEMMA SnapshotType ==
  ASSUME NEW g \in GateRecords, NEW fault \in BOOLEAN,
         NEW s, s = SnapshotOf(g, fault)
  PROVE  /\ s \in Snapshots
         /\ s.fault = fault /\ s.gateActive = g.active
         /\ s.generation = IF g.active THEN g.generation ELSE g.lastGeneration
         /\ s.closed <=> fault \/ g.active
         /\ s.ready <=> ~fault /\ Ready(g)
<1>. DEFINE generation == IF g.active THEN g.generation ELSE g.lastGeneration
            closed == fault \/ g.active
            ready == ~fault /\ Ready(g)
<1>1. generation \in Nat /\ closed \in BOOLEAN /\ ready \in BOOLEAN /\ g.active \in BOOLEAN
  BY DEF GateRecords, Ready
<1>2. s = [fault |-> fault, closed |-> closed, generation |-> generation,
           gateActive |-> g.active, ready |-> ready]
  BY DEF SnapshotOf
<1>3. /\ closed <=> fault \/ g.active
      /\ ready <=> ~fault /\ Ready(g)
      /\ generation = IF g.active THEN g.generation ELSE g.lastGeneration
  OBVIOUS
<1>. HIDE DEF generation, closed, ready
<1>. QED
  BY <1>1, <1>2, <1>3 DEF Snapshots

LEMMA HealthySnapshotType ==
  ASSUME NEW g \in GateRecords
  PROVE  HealthySnapshot(g) \in Snapshots /\ (HealthySnapshot(g).ready <=> Ready(g))
BY SnapshotType DEF HealthySnapshot

LEMMA FaultSnapshotType ==
  ASSUME NEW g \in GateRecords
  PROVE  /\ FaultSnapshot(g) \in Snapshots /\ Shut(FaultSnapshot(g))
         /\ FaultSnapshot(g).fault
         /\ FaultSnapshot(g).gateActive = g.active
         /\ g.active => FaultSnapshot(g).generation = g.generation
BY SnapshotType DEF FaultSnapshot, Shut

LEMMA EmergencyShape ==
  ASSUME NEW r \in Runtimes, NEW h, h = LatchEmergencyFault(r)
  PROVE  /\ h \in Runtimes /\ Carried(h, r)
         /\ h.initialized /\ h.fault /\ h.closed /\ h.cause = "exception"
         /\ h.snap = r.spare /\ h.spare = r.snap
BY DEF LatchEmergencyFault, Runtimes, Carried, Causes

LEMMA StoreFaultShape ==
  ASSUME NEW r \in Runtimes, NEW cause \in Causes, NEW throws \in BOOLEAN,
         NEW h, h = LatchStoreFault(r, cause, throws)
  PROVE  /\ h \in Runtimes /\ Carried(h, r)
         /\ h.initialized /\ h.fault /\ h.closed
         /\ IF throws THEN h.cause = "exception" /\ h.snap = r.spare
            ELSE h.cause = cause /\ h.snap = FaultSnapshot(r.gate)
<1>. DEFINE latched == [r EXCEPT !.initialized = TRUE, !.fault = TRUE, !.closed = TRUE]
            snap == FaultSnapshot(r.gate)
<1>1. /\ latched \in Runtimes /\ Carried(latched, r) /\ latched.spare = r.spare
      /\ latched.initialized /\ latched.fault /\ latched.closed
  BY DEF Runtimes, Carried
<1>2. snap \in Snapshots
  BY RuntimeFields, FaultSnapshotType
<1>3. snap = FaultSnapshot(latched.gate)
  BY <1>1 DEF Carried
<1>4. h = IF throws THEN LatchEmergencyFault(latched)
          ELSE [latched EXCEPT !.cause = cause, !.snap = snap]
  BY <1>3 DEF LatchStoreFault, FaultSnapshot
<1>5. snap = FaultSnapshot(r.gate)
  OBVIOUS
<1>. HIDE DEF latched, snap
<1>6. CASE throws
  BY <1>1, <1>4, <1>6, EmergencyShape DEF Carried
<1>7. CASE ~throws
  <2>1. /\ h \in Runtimes /\ Carried(h, latched) /\ h.cause = cause /\ h.snap = snap
        /\ h.initialized = latched.initialized /\ h.fault = latched.fault
        /\ h.closed = latched.closed
    BY <1>1, <1>2, <1>4, <1>7 DEF Runtimes, Carried
  <2>. QED
    BY <1>1, <1>5, <1>7, <2>1 DEF Carried
<1>. QED
  BY <1>6, <1>7

LEMMA RefreshShape ==
  ASSUME NEW r \in Runtimes, NEW throws \in BOOLEAN,
         NEW h, h = RefreshHealthySnapshot(r, throws)
  PROVE  /\ h \in Runtimes /\ Carried(h, r)
         /\ throws => /\ h.initialized /\ h.fault /\ h.closed /\ h.cause = "exception"
                      /\ h.snap = r.spare /\ h.spare = r.snap
         /\ ~throws => /\ h.initialized = r.initialized /\ ~h.fault /\ h.cause = r.cause
                       /\ h.closed = r.gate.active /\ h.snap = HealthySnapshot(r.gate)
                       /\ h.spare = r.spare
<1>. DEFINE snap == HealthySnapshot(r.gate)
<1>1. snap \in Snapshots /\ r.gate.active \in BOOLEAN
  BY RuntimeFields, HealthySnapshotType DEF GateRecords
<1>2. h = IF throws THEN LatchEmergencyFault(r)
          ELSE [r EXCEPT !.fault = FALSE, !.closed = r.gate.active, !.snap = snap]
  BY DEF RefreshHealthySnapshot, HealthySnapshot
<1>3. snap = HealthySnapshot(r.gate)
  OBVIOUS
<1>. HIDE DEF snap
<1>4. CASE throws
  BY <1>2, <1>4, EmergencyShape
<1>5. CASE ~throws
  <2>1. h = [r EXCEPT !.fault = FALSE, !.closed = r.gate.active, !.snap = snap]
    BY <1>2, <1>5
  <2>. QED
    BY <1>1, <1>3, <1>5, <2>1 DEF Runtimes, Carried
<1>. QED
  BY <1>4, <1>5

-----------------------------------------------------------------------------
\* The end of a call that may have run out of memory.
Ended(h, c) == Healthy(h, c) \/ (Faulty(h) /\ h.cause = "exception")

LEMMA Refreshed ==
  ASSUME NEW r \in Runtimes, NEW c \in Contents, NEW throws \in BOOLEAN,
         r.initialized, r.cause = "none", Aligned(r, c), Shut(r.spare),
         NEW h, h = RefreshHealthySnapshot(r, throws)
  PROVE  /\ h \in Runtimes /\ Carried(h, r) /\ Ended(h, c)
         /\ ~throws => Healthy(h, c)
<1>1. CASE throws
  <2>1. /\ h \in Runtimes /\ Carried(h, r)
        /\ throws => /\ h.initialized /\ h.fault /\ h.closed /\ h.cause = "exception"
                     /\ h.snap = r.spare /\ h.spare = r.snap
    BY RefreshShape
  <2>2. Shut(h.snap)
    BY <1>1, <2>1
  <2>. QED
    BY <1>1, <2>1, <2>2 DEF Ended, Faulty
<1>2. CASE ~throws
  <2>1. /\ h \in Runtimes /\ Carried(h, r) /\ h.initialized /\ ~h.fault /\ h.cause = "none"
        /\ h.closed = r.gate.active /\ h.snap = HealthySnapshot(r.gate)
        /\ h.spare = r.spare
    BY <1>2, RefreshShape
  <2>2. Aligned(h, c) /\ h.gate = r.gate
    BY <2>1 DEF Aligned, Carried
  <2>3. h.closed <=> h.gate.active
    BY <2>1, <2>2
  <2>4. h.snap = HealthySnapshot(h.gate) /\ Shut(h.spare)
    BY <2>1, <2>2
  <2>5. Healthy(h, c)
    BY <2>1, <2>2, <2>3, <2>4 DEF Healthy
  <2>. QED
    BY <2>1, <2>5 DEF Ended
<1>. QED
  BY <1>1, <1>2

LEMMA AdmissionRestored ==
  ASSUME NEW r \in Runtimes, NEW c \in Contents, NEW throws \in BOOLEAN,
         r.initialized, r.cause = "none", Aligned(r, c), Shut(r.spare),
         NEW h, h = RestoreAdmissionFromRecord(r, throws)
  PROVE  h \in Runtimes /\ Carried(h, r) /\ Ended(h, c)
<1>1. h = RefreshHealthySnapshot(r, throws)
  BY DEF RestoreAdmissionFromRecord, Aligned
<1>. QED
  BY <1>1, Refreshed

LEMMA StoreFaulted ==
  ASSUME NEW r \in Runtimes, NEW cause \in Causes, NEW throws \in BOOLEAN,
         Shut(r.spare), NEW h, h = LatchStoreFault(r, cause, throws)
  PROVE  /\ h \in Runtimes /\ Carried(h, r) /\ Faulty(h)
         /\ h.cause \in {cause, "exception"}
         /\ h.cause # "exception" => h.snap = FaultSnapshot(r.gate)
<1>1. Shut(FaultSnapshot(r.gate)) /\ FaultSnapshot(r.gate).fault
  BY RuntimeFields, FaultSnapshotType
<1>2. CASE throws
  BY <1>2, StoreFaultShape DEF Faulty
<1>3. CASE ~throws
  BY <1>1, <1>3, StoreFaultShape DEF Faulty
<1>. QED
  BY <1>2, <1>3

\* A gate with the same request takes the place of the runtime's.
LEMMA GateReplaced ==
  ASSUME NEW r \in Runtimes, NEW g \in GateRecords, NEW h, h = [r EXCEPT !.gate = g]
  PROVE  /\ h \in Runtimes /\ h.gate = g /\ h.initialized = r.initialized
         /\ h.fault = r.fault /\ h.closed = r.closed /\ h.cause = r.cause
         /\ h.record = r.record /\ h.snap = r.snap /\ h.spare = r.spare
         /\ h.tracker = r.tracker /\ h.latest = r.latest /\ h.aged = r.aged
BY DEF Runtimes

LEMMA RecordReplaced ==
  ASSUME NEW r \in Runtimes, NEW c \in Contents, NEW h, h = [r EXCEPT !.record = c]
  PROVE  /\ h \in Runtimes /\ h.gate = r.gate /\ h.initialized = r.initialized
         /\ h.fault = r.fault /\ h.closed = r.closed /\ h.cause = r.cause
         /\ h.record = c /\ h.snap = r.snap /\ h.spare = r.spare
         /\ h.tracker = r.tracker /\ h.latest = r.latest /\ h.aged = r.aged
BY DEF Runtimes

\* The gate's evidence is that of the publisher that is current.
Evident(r) ==
  /\ FreshIsEarned(r.gate)
  /\ r.gate.epoch <= r.tracker.epoch
  /\ r.latest.epoch \in {RevokedEpoch, r.tracker.epoch}
  /\ r.tracker.current # NoPublisher => r.tracker.epoch # 0
  /\ r.gate.fresh /\ r.gate.zero = Outputs =>
       /\ SafeZero(r.latest)
       /\ r.latest.epoch = r.tracker.epoch /\ r.gate.epoch = r.tracker.epoch
  /\ r.aged => r.latest.epoch # RevokedEpoch

LEMMA EvidenceCarried ==
  ASSUME NEW r, Evident(r), NEW h, Carried(h, r) PROVE Evident(h)
BY DEF Evident, Carried

LEMMA NothingFresherIsEvident ==
  ASSUME NEW r \in Runtimes, Evident(r), NEW g \in GateRecords, FreshIsEarned(g),
         NothingFresher(g, r.gate), NEW h, h = [r EXCEPT !.gate = g]
  PROVE  Evident(h)
<1>1. /\ h.gate = g /\ h.tracker = r.tracker /\ h.latest = r.latest /\ h.aged = r.aged
  BY GateReplaced
<1>2. g.epoch <= r.tracker.epoch
  BY RuntimeFields DEF Evident, NothingFresher, RevokedEpoch, Trackers
<1>. QED
  BY <1>1, <1>2 DEF Evident, NothingFresher

-----------------------------------------------------------------------------
(* The observers.                                                          *)

LEMMA Observing ==
  ASSUME NEW r \in Runtimes, NEW c \in Contents, Healthy(r, c), NEW throws \in BOOLEAN,
         NEW g \in GateRecords, SameRequest(g, r.gate),
         NEW k, k = [r EXCEPT !.gate = g],
         NEW h, h \in {RestoreAdmissionFromRecord(k, throws), RefreshHealthySnapshot(k, throws)}
  PROVE  h \in Runtimes /\ Carried(h, k) /\ Ended(h, c) /\ k \in Runtimes
<1>1. /\ k \in Runtimes /\ k.gate = g /\ k.initialized /\ k.cause = "none"
      /\ k.record = r.record /\ Shut(k.spare)
  BY GateReplaced DEF Healthy
<1>2. Aligned(k, c)
  BY <1>1 DEF Healthy, Aligned, SameRequest
<1>. QED
  BY <1>1, <1>2, Refreshed, AdmissionRestored

LEMMA IdleSetShape ==
  ASSUME NEW r \in Runtimes, NEW c \in Contents, Healthy(r, c), Evident(r),
         NEW idle \in BOOLEAN, NEW throws \in BOOLEAN, NEW h, h = IdleSet(r, idle, throws)
  PROVE  /\ h \in Runtimes /\ Ended(h, c) /\ Evident(h)
         /\ h.latest = r.latest /\ h.aged = r.aged /\ h.tracker = r.tracker
         /\ ~throws => Healthy(h, c)
<1>. DEFINE g == WithMissionIdle(r.gate, idle)
            k == [r EXCEPT !.gate = g]
<1>1. /\ g \in GateRecords /\ SameRequest(g, r.gate) /\ g.fresh = r.gate.fresh
      /\ g.zero = r.gate.zero /\ g.epoch = r.gate.epoch /\ g.acked = r.gate.acked
      /\ g.failure = r.gate.failure
  <2>1. r.gate \in GateRecords /\ g = WithMissionIdle(r.gate, idle)
    BY RuntimeFields
  <2>. HIDE DEF g
  <2>. QED
    BY <2>1, IdleShape
<1>2. h = RefreshHealthySnapshot(k, throws)
  <2>1. r.initialized /\ ~r.fault
    BY DEF Healthy
  <2>. QED
    BY <2>1 DEF IdleSet
<1>. HIDE DEF g
<1>3. FreshIsEarned(g) /\ NothingFresher(g, r.gate)
  BY <1>1 DEF Evident, FreshIsEarned, NothingFresher, SameRequest
<1>4. Evident(k) /\ k.latest = r.latest /\ k.aged = r.aged /\ k.tracker = r.tracker
  BY <1>1, <1>3, NothingFresherIsEvident, GateReplaced
<1>5. k = [r EXCEPT !.gate = g]
  OBVIOUS
<1>. HIDE DEF k
<1>6. h \in Runtimes /\ Carried(h, k) /\ Ended(h, c)
  BY <1>1, <1>2, <1>5, Observing
<1>7. ~throws => Healthy(h, c)
  <2>1. /\ k \in Runtimes /\ k.gate = g /\ k.initialized /\ k.cause = "none"
        /\ k.record = r.record /\ Shut(k.spare)
    BY <1>1, <1>5, GateReplaced DEF Healthy
  <2>2. Aligned(k, c)
    BY <1>1, <2>1 DEF Healthy, Aligned, SameRequest
  <2>. QED
    BY <1>2, <2>1, <2>2, Refreshed
<1>. QED
  BY <1>4, <1>6, <1>7, EvidenceCarried DEF Carried

LEMMA FinalCommandStep ==
  ASSUME NEW r \in Runtimes, NEW c \in Contents, Healthy(r, c), Evident(r),
         NEW cmd \in FinalCommands, NEW throws \in BOOLEAN,
         NEW h, h = FinalCommandObserved(r, cmd, throws)
  PROVE  h \in Runtimes /\ Ended(h, c) /\ Evident(h)
<1>. DEFINE g == AfterFinalCommand(r.gate, cmd)
            k == [r EXCEPT !.gate = g]
<1>1. /\ g \in GateRecords /\ SameRequest(g, r.gate) /\ FreshIsEarned(g)
      /\ NothingFresher(g, r.gate)
  <2>1. r.gate \in GateRecords /\ FreshIsEarned(r.gate)
    BY RuntimeFields DEF Evident
  <2>. QED
    BY <2>1, FinalCommandShape
<1>2. h = RestoreAdmissionFromRecord(k, throws)
  BY DEF FinalCommandObserved, Healthy, Available
<1>3. k = [r EXCEPT !.gate = g]
  OBVIOUS
<1>. HIDE DEF g, k
<1>4. Evident(k)
  BY <1>1, <1>3, NothingFresherIsEvident
<1>5. h \in Runtimes /\ Carried(h, k) /\ Ended(h, c)
  BY <1>1, <1>2, <1>3, Observing
<1>. QED
  BY <1>4, <1>5, EvidenceCarried

LEMMA CommandStatusStep ==
  ASSUME NEW r \in Runtimes, NEW c \in Contents, Healthy(r, c), Evident(r),
         NEW st \in Statuses, NEW throws \in BOOLEAN,
         NEW h, h = CommandStatusObserved(r, st, throws)
  PROVE  h \in Runtimes /\ Ended(h, c) /\ Evident(h)
<1>. DEFINE g == AfterCommandStatus(r.gate, st)
            k == [r EXCEPT !.gate = g]
<1>1. /\ g \in GateRecords /\ SameRequest(g, r.gate) /\ FreshIsEarned(g)
      /\ NothingFresher(g, r.gate)
  <2>1. r.gate \in GateRecords /\ FreshIsEarned(r.gate)
    BY RuntimeFields DEF Evident
  <2>. QED
    BY <2>1, CommandStatusShape
<1>2. h = RestoreAdmissionFromRecord(k, throws)
  BY DEF CommandStatusObserved, Healthy, Available
<1>3. k = [r EXCEPT !.gate = g]
  OBVIOUS
<1>. HIDE DEF g, k
<1>4. Evident(k)
  BY <1>1, <1>3, NothingFresherIsEvident
<1>5. h \in Runtimes /\ Carried(h, k) /\ Ended(h, c)
  BY <1>1, <1>2, <1>3, Observing
<1>. QED
  BY <1>4, <1>5, EvidenceCarried

\* A sample of the current publisher, or of nobody, reaches the gate.
Feeds(r, s) ==
  \/ s.epoch = RevokedEpoch
  \/ /\ s.epoch = r.tracker.epoch /\ s.epoch = r.latest.epoch
     /\ SafeZero(s) => SafeZero(r.latest)

LEMMA SampleStep ==
  ASSUME NEW r \in Runtimes, NEW c \in Contents, Healthy(r, c), FreshIsEarned(r.gate),
         r.gate.epoch <= r.tracker.epoch,
         r.tracker.current # NoPublisher => r.tracker.epoch # 0,
         r.latest.epoch \in {RevokedEpoch, r.tracker.epoch},
         r.aged => r.latest.epoch # RevokedEpoch,
         NEW s \in Samples, NEW throws \in BOOLEAN,
         Feeds(r, s), NEW g, g = AfterHardware(r.gate, s), NEW k, k = [r EXCEPT !.gate = g],
         NEW h, h = RestoreAdmissionFromRecord(k, throws)
  PROVE  /\ h \in Runtimes /\ Ended(h, c) /\ Evident(h)
         /\ h.latest = r.latest /\ h.aged = r.aged /\ h.tracker = r.tracker
         /\ ~s.fresh => ~h.gate.fresh
<1>1. r.gate \in GateRecords /\ r.tracker \in Trackers
  BY RuntimeFields
<1>2. /\ g \in GateRecords /\ SameRequest(g, r.gate) /\ FreshIsEarned(g)
      /\ g.epoch \in {r.gate.epoch, s.epoch}
      /\ s.epoch = RevokedEpoch => g.epoch = r.gate.epoch
      /\ g.fresh => /\ s.fresh /\ s.epoch # RevokedEpoch /\ g.epoch = s.epoch
                    /\ g.zero = Outputs => SafeZero(s)
  <2>1. s.epoch = RevokedEpoch \/ r.gate.epoch <= s.epoch
    BY DEF Feeds
  <2>. QED
    BY <1>1, <2>1, HardwareShape
<1>3. /\ k.gate = g /\ k.tracker = r.tracker /\ k.latest = r.latest /\ k.aged = r.aged
  BY <1>2, GateReplaced
<1>4. Evident(k)
  <2>1. g.epoch <= r.tracker.epoch
    BY <1>1, <1>2 DEF GateRecords, Trackers, Feeds
  <2>2. ASSUME g.fresh, g.zero = Outputs
        PROVE  /\ SafeZero(r.latest) /\ r.latest.epoch = r.tracker.epoch
               /\ g.epoch = r.tracker.epoch
    BY <1>2, <2>2 DEF Feeds
  <2>. QED
    BY <1>2, <1>3, <2>1, <2>2 DEF Evident
<1>5. h \in Runtimes /\ Carried(h, k) /\ Ended(h, c)
  BY <1>2, Observing
<1>. QED
  BY <1>2, <1>3, <1>4, <1>5, EvidenceCarried DEF Carried

LEMMA TrackerStep ==
  ASSUME NEW t \in Trackers, NEW p \in Publisher \cup {NoPublisher},
         Verdict(t, p) = "accepted", t.current # NoPublisher => t.epoch # 0,
         NEW u, u = Observed(t, p)
  PROVE  u \in Trackers /\ t.epoch <= u.epoch /\ u.epoch # 0
<1>1. /\ t.epoch \in 0 .. MaximumEpoch /\ t.retired \in SUBSET Publisher
      /\ t.current \in Publisher \cup {NoPublisher} /\ MaximumEpoch \in Nat
  BY MaximaAssumption DEF Trackers
<1>2. CASE p = t.current
  <2>1. u = t /\ t.current # NoPublisher
    BY <1>2 DEF Observed, Verdict
  <2>. QED
    BY <1>1, <2>1
<1>3. CASE p # t.current
  <2>. DEFINE retired == t.retired \cup ({t.current} \ {NoPublisher})
  <2>1. t.epoch < MaximumEpoch
    BY <1>1, <1>3 DEF Verdict
  <2>2. retired \in SUBSET Publisher
    BY <1>1
  <2>3. u = [current |-> p, epoch |-> t.epoch + 1, retired |-> retired]
    BY <1>3 DEF Observed, Succeeds
  <2>. HIDE DEF retired
  <2>. QED
    BY <1>1, <2>1, <2>2, <2>3 DEF Trackers
<1>. QED
  BY <1>2, <1>3

LEMMA HardwareStep ==
  ASSUME NEW r \in Runtimes, NEW c \in Contents, Healthy(r, c), Evident(r),
         NEW publisher \in Publisher \cup {NoPublisher}, NEW seq \in Nat,
         NEW connected \in BOOLEAN, NEW zero \in SUBSET Outputs, NEW throws \in BOOLEAN,
         NEW h, h = HardwareObserved(r, publisher, seq, connected, zero, throws)
  PROVE  h \in Runtimes /\ Ended(h, c) /\ Evident(h)
<1>. DEFINE verdict == Verdict(r.tracker, publisher)
            tracker == Observed(r.tracker, publisher)
            revoked == [NoSample EXCEPT !.seq = seq, !.zero = zero]
            evidence == [epoch |-> tracker.epoch, seq |-> seq, fresh |-> connected,
                         zero |-> zero]
            g == AfterHardware(r.gate, revoked)
            k == [r EXCEPT !.gate = g]
            g1 == AfterHardware(r.gate, evidence)
            r1 == [r EXCEPT !.tracker = tracker, !.latest = evidence, !.aged = FALSE]
            k1 == [r1 EXCEPT !.gate = g1]
<1>1. Available(r) /\ r.tracker \in Trackers
  BY RuntimeFields DEF Available, Healthy
<1>2. CASE verdict = "retired"
  BY <1>1, <1>2 DEF HardwareObserved, Ended
<1>3. CASE verdict \notin {"retired", "accepted"}
  <2>1. h = RestoreAdmissionFromRecord(k, throws)
    BY <1>1, <1>3 DEF HardwareObserved
  <2>2. revoked \in Samples /\ revoked.epoch = RevokedEpoch
    BY DEF NoSample, Samples, RevokedEpoch
  <2>3. g = AfterHardware(r.gate, revoked) /\ k = [r EXCEPT !.gate = g]
    OBVIOUS
  <2>. HIDE DEF revoked, g, k
  <2>4. Feeds(r, revoked)
    BY <2>2 DEF Feeds
  <2>5. /\ FreshIsEarned(r.gate) /\ r.gate.epoch <= r.tracker.epoch
        /\ r.tracker.current # NoPublisher => r.tracker.epoch # 0
        /\ r.latest.epoch \in {RevokedEpoch, r.tracker.epoch}
        /\ r.aged => r.latest.epoch # RevokedEpoch
    BY DEF Evident
  <2>. QED
    BY <2>1, <2>2, <2>3, <2>4, <2>5, SampleStep
<1>4. CASE verdict = "accepted"
  <2>1. tracker \in Trackers /\ r.tracker.epoch <= tracker.epoch /\ tracker.epoch # 0
    BY <1>1, <1>4, TrackerStep DEF Evident
  <2>2. h = RestoreAdmissionFromRecord(
              [r EXCEPT !.tracker = tracker, !.latest = evidence, !.aged = FALSE,
                        !.gate = g1], throws)
    BY <1>1, <1>4 DEF HardwareObserved
  <2>. HIDE DEF tracker
  <2>3. evidence \in Samples /\ evidence.epoch = tracker.epoch
    BY <2>1 DEF Samples, Trackers
  <2>. HIDE DEF evidence
  <2>4. /\ r1 \in Runtimes /\ r1.gate = r.gate /\ r1.tracker = tracker
        /\ r1.latest = evidence /\ ~r1.aged
        /\ r1.initialized = r.initialized /\ r1.fault = r.fault /\ r1.closed = r.closed
        /\ r1.cause = r.cause /\ r1.record = r.record /\ r1.snap = r.snap
        /\ r1.spare = r.spare
    BY <2>1, <2>3 DEF Runtimes
  <2>5. h = RestoreAdmissionFromRecord(k1, throws)
    BY <2>2
  <2>6. g1 = AfterHardware(r1.gate, evidence) /\ k1 = [r1 EXCEPT !.gate = g1]
    BY <2>4
  <2>. HIDE DEF r1, g1, k1
  <2>7. Healthy(r1, c)
    BY <2>4 DEF Healthy, Aligned
  <2>8. FreshIsEarned(r1.gate) /\ r1.gate.epoch <= r1.tracker.epoch
    <3>1. r.gate \in GateRecords /\ r.gate.epoch <= r.tracker.epoch
      BY RuntimeFields DEF Evident
    <3>2. r.gate.epoch <= tracker.epoch
      BY <1>1, <2>1, <3>1 DEF GateRecords, Trackers
    <3>. QED
      BY <2>4, <3>2 DEF Evident
  <2>9. Feeds(r1, evidence)
    BY <2>3, <2>4 DEF Feeds
  <2>10. /\ r1.tracker.current # NoPublisher => r1.tracker.epoch # 0
         /\ r1.latest.epoch \in {RevokedEpoch, r1.tracker.epoch}
         /\ r1.aged => r1.latest.epoch # RevokedEpoch
    BY <2>1, <2>3, <2>4
  <2>. QED
    BY <2>3, <2>4, <2>5, <2>6, <2>7, <2>8, <2>9, <2>10, SampleStep
<1>. QED
  BY <1>2, <1>3, <1>4

\* The look at the last sample again: one that is too old is not fresh.
LEMMA RefreshStep ==
  ASSUME NEW r \in Runtimes, NEW c \in Contents, Healthy(r, c), Evident(r),
         NEW throws \in BOOLEAN, NEW h, h = HardwareRefreshed(r, throws)
  PROVE  /\ h \in Runtimes /\ Ended(h, c) /\ Evident(h)
         /\ r.aged => ~h.gate.fresh
<1>. DEFINE refreshed == [r.latest EXCEPT !.fresh = r.latest.fresh /\ ~r.aged]
            g == AfterHardware(r.gate, refreshed)
            k == [r EXCEPT !.gate = g]
<1>1. Available(r)
  BY DEF Available, Healthy
<1>2. CASE r.latest.epoch = RevokedEpoch
  <2>1. h = r /\ ~r.aged
    BY <1>1, <1>2 DEF HardwareRefreshed, Evident
  <2>. QED
    BY <2>1 DEF Ended
<1>3. CASE r.latest.epoch # RevokedEpoch
  <2>1. h = RestoreAdmissionFromRecord(k, throws)
    BY <1>1, <1>3 DEF HardwareRefreshed
  <2>2. /\ refreshed \in Samples /\ refreshed.epoch = r.latest.epoch
        /\ SafeZero(refreshed) => SafeZero(r.latest)
        /\ r.aged => ~refreshed.fresh
    <3>. DEFINE fresh == r.latest.fresh /\ ~r.aged
    <3>1. /\ r.latest \in Samples /\ fresh \in BOOLEAN /\ (fresh => r.latest.fresh)
          /\ r.aged => ~fresh
      BY RuntimeFields
    <3>2. refreshed = [r.latest EXCEPT !.fresh = fresh]
      OBVIOUS
    <3>. HIDE DEF fresh, refreshed
    <3>3. /\ refreshed \in Samples /\ refreshed.epoch = r.latest.epoch
          /\ (refreshed.fresh <=> fresh) /\ refreshed.zero = r.latest.zero
      BY <3>1, <3>2 DEF Samples
    <3>. QED
      BY <3>1, <3>3 DEF SafeZero
  <2>3. g = AfterHardware(r.gate, refreshed) /\ k = [r EXCEPT !.gate = g]
    OBVIOUS
  <2>. HIDE DEF refreshed, g, k
  <2>4. refreshed.epoch = r.tracker.epoch
    BY <1>3, <2>2 DEF Evident
  <2>5. /\ FreshIsEarned(r.gate) /\ r.gate.epoch <= r.tracker.epoch
        /\ r.tracker.current # NoPublisher => r.tracker.epoch # 0
        /\ r.latest.epoch \in {RevokedEpoch, r.tracker.epoch}
        /\ r.aged => r.latest.epoch # RevokedEpoch
    BY DEF Evident
  <2>6. /\ h \in Runtimes /\ Ended(h, c) /\ Evident(h)
        /\ ~refreshed.fresh => ~h.gate.fresh
    <3>1. /\ refreshed.epoch = r.tracker.epoch /\ refreshed.epoch = r.latest.epoch
          /\ SafeZero(refreshed) => SafeZero(r.latest)
      BY <2>2, <2>4
    <3>2. refreshed \in Samples
      BY <2>2
    <3>3. Available(r) /\ Healthy(r, c) /\ Feeds(r, refreshed)
      BY <1>1, <3>1 DEF Feeds
    <3>. QED
      BY <2>1, <2>3, <2>5, <3>3, <3>2, SampleStep
  <2>. QED
    BY <2>2, <2>6
<1>. QED
  BY <1>2, <1>3

-----------------------------------------------------------------------------
(* The store calls.                                                        *)

\* A call that changed nothing, or one that published a decision.
Declined(o, c) == ~o.committed /\ o.content = c /\ o.code # "ok"
Published(o, next) ==
  /\ o.committed /\ o.content = next /\ o.record = next /\ o.code \in {"ok", "io_error"}

Sound(o) == o.record \in Contents /\ o.content \in Contents /\ o.survivors \subseteq Contents

LEMMA ContentShape ==
  ASSUME NEW c \in Contents
  PROVE  /\ c.last \in Nat /\ c.last \in Generations
         /\ c.owner # Nobody => c.last # 0
         /\ c.code = "ok" => Inactive(c.last) \in Contents
BY MaxGenerationAssumption DEF Contents, Generations, Inactive, Nobody

LEMMA ActivationOutcome ==
  ASSUME content \in Contents, survivors \subseteq Contents, content.code = "ok",
         NEW q \in Requester, NEW o \in StoreResults(Activate(q))
  PROVE  /\ Sound(o)
         /\ \/ Declined(o, content) /\ (o.code = "already_active" => o.record = content)
            \/ /\ content.owner = Nobody
               /\ Published(o, Active(content.last + 1, q))
<1>. DEFINE d == Decision(Activate(q), content)
            next == Active(content.last + 1, q)
<1>1. d = ActivateDecision(q, content)
  BY DEF Decision, Activate
<1>2. /\ content.last \in Nat /\ content.last <= MaxGeneration /\ q # Nobody
      /\ NoRecord \in Contents
  BY MaxGenerationAssumption, RequesterAssumption
     DEF Contents, Generations, NoRecord, Unreadable, Nobody
<1>3. CASE d.writes
  <2>1. /\ d.record = next /\ content.owner = Nobody
        /\ content.last # MaxGeneration
    BY <1>1, <1>3 DEF ActivateDecision, Successor, Answers, Writes, Nobody
  <2>2. next \in Contents
    BY <1>2, <2>1, MaxGenerationAssumption DEF Contents, Active, Generations
  <2>. HIDE DEF next
  <2>3. \/ /\ ~o.committed /\ o.content = content /\ o.code \in {"io_error", "invalid"}
           /\ o.record = NoRecord /\ o.survivors = survivors
        \/ /\ o.committed /\ o.content = next /\ o.record = next
           /\ o.code \in {"ok", "io_error"}
           /\ o.survivors \in {{next}, survivors \cup {next}}
    BY <1>3, <2>1 DEF StoreResults
  <2>. QED
    BY <1>2, <2>1, <2>2, <2>3 DEF Sound, Declined, Published, next
<1>4. CASE ~d.writes
  <2>1. d.code # "ok" /\ d.record = content
    BY <1>1, <1>4 DEF ActivateDecision, Answers, Writes
  <2>2. /\ ~o.committed /\ o.content = content /\ o.survivors = survivors
        /\ \/ o.code \in {"io_error", "invalid"} /\ o.record = NoRecord
           \/ o.code \in {d.code, "io_error"} /\ o.record = content
    BY <1>4, <2>1 DEF StoreResults
  <2>. QED
    BY <1>2, <2>1, <2>2 DEF Sound, Declined
<1>. QED
  BY <1>3, <1>4

LEMMA ReleaseOutcome ==
  ASSUME content \in Contents, survivors \subseteq Contents, content.code = "ok",
         NEW q \in Requester, NEW n \in Generations, NEW o \in StoreResults(ReleaseOf(n, q))
  PROVE  /\ Sound(o)
         /\ \/ Declined(o, content)
            \/ content.last = n /\ Published(o, Inactive(content.last))
<1>. DEFINE d == Decision(ReleaseOf(n, q), content)
            next == Inactive(content.last)
<1>1. d = ReleaseDecision(n, q, content)
  BY DEF Decision, ReleaseOf
<1>2. NoRecord \in Contents /\ next \in Contents
  BY MaxGenerationAssumption, ContentShape
     DEF Contents, Generations, NoRecord, Unreadable, Nobody
<1>3. CASE d.writes
  <2>1. d.record = next /\ content.last = n
    BY <1>1, <1>3 DEF ReleaseDecision, Answers, Writes
  <2>. HIDE DEF next
  <2>2. \/ /\ ~o.committed /\ o.content = content /\ o.code \in {"io_error", "invalid"}
           /\ o.record = NoRecord /\ o.survivors = survivors
        \/ /\ o.committed /\ o.content = next /\ o.record = next
           /\ o.code \in {"ok", "io_error"}
           /\ o.survivors \in {{next}, survivors \cup {next}}
    BY <1>3, <2>1 DEF StoreResults
  <2>. QED
    BY <1>2, <2>1, <2>2 DEF Sound, Declined, Published, next
<1>4. CASE ~d.writes
  <2>1. d.code # "ok" /\ d.record = content
    BY <1>1, <1>4 DEF ReleaseDecision, Answers, Writes
  <2>2. /\ ~o.committed /\ o.content = content /\ o.survivors = survivors
        /\ \/ o.code \in {"io_error", "invalid"} /\ o.record = NoRecord
           \/ o.code \in {d.code, "io_error"} /\ o.record = content
    BY <1>4, <2>1 DEF StoreResults
  <2>. QED
    BY <1>2, <2>1, <2>2 DEF Sound, Declined
<1>. QED
  BY <1>3, <1>4

LEMMA LoadOutcome ==
  ASSUME content \in Contents, survivors \subseteq Contents,
         NEW o \in StoreResults(Load)
  PROVE  /\ o.content = content /\ o.survivors = survivors /\ o.record \in Contents
         /\ o.code = "ok" => o.record = content
<1>1. Decision(Load, content) = Answers(content.code, content)
  BY DEF Decision, Load
<1>2. NoRecord \in Contents
  BY MaxGenerationAssumption DEF Contents, Generations, NoRecord, Unreadable, Nobody
<1>3. /\ o.content = content /\ o.survivors = survivors
      /\ \/ o.code \in {"io_error", "invalid"} /\ o.record = NoRecord
         \/ o.record = content
  BY <1>1 DEF StoreResults, Answers
<1>. QED
  BY <1>2, <1>3

LEMMA GenesisOutcome ==
  ASSUME content \in Contents, survivors \subseteq Contents,
         NEW o \in StoreResults(InitializeGenesis)
  PROVE  /\ o.content \in Contents /\ o.survivors \subseteq Contents
         /\ \/ o.content = content
            \/ content.code = "missing" /\ o.content = Genesis
<1>. DEFINE d == Decision(InitializeGenesis, content)
<1>1. d = GenesisDecision(content)
  BY DEF Decision, InitializeGenesis
<1>2. Genesis \in Contents
  BY MaxGenerationAssumption DEF Contents, Genesis, Inactive, Generations, Nobody
<1>3. CASE d.writes
  <2>1. d.record = Genesis /\ content.code = "missing"
    BY <1>1, <1>3 DEF GenesisDecision, Answers, Writes
  <2>. HIDE DEF Genesis
  <2>2. \/ o.content = content /\ o.survivors = survivors
        \/ o.content = Genesis /\ o.survivors \in {{Genesis}, survivors \cup {Genesis}}
    BY <1>3, <2>1 DEF StoreResults
  <2>. QED
    BY <1>2, <2>1, <2>2
<1>4. CASE ~d.writes
  BY <1>4 DEF StoreResults
<1>. QED
  BY <1>3, <1>4

-----------------------------------------------------------------------------
(* Enabling and disabling.                                                 *)

\* The invariant of a started runtime.
Started(r, c) == Healthy(r, c) \/ (Faulty(r) /\ Braked(r, c))

\* Admission is closed; everything else is as in a healthy runtime.
Waiting(k, c) ==
  /\ k \in Runtimes /\ k.initialized /\ k.cause = "none" /\ Aligned(k, c)
  /\ Shut(k.spare) /\ ~k.fault
  /\ k.snap.closed
  /\ k.snap.ready => k.gate.active
  /\ k.snap.gateActive = k.gate.active

LEMMA ClosingShape ==
  ASSUME NEW r \in Runtimes, NEW c \in Contents, Healthy(r, c), NEW k, k = Closing(r)
  PROVE  Waiting(k, c) /\ Carried(k, r) /\ k.spare = r.spare
<1>. DEFINE snap == [r.snap EXCEPT !.closed = TRUE]
<1>1. /\ snap \in Snapshots /\ snap.ready = r.snap.ready /\ snap.closed
      /\ snap.gateActive = r.snap.gateActive
  BY RuntimeFields DEF Snapshots
<1>2. k = [r EXCEPT !.closed = TRUE, !.snap = snap]
  BY DEF Closing, Runtimes
<1>. HIDE DEF snap
<1>3. /\ k \in Runtimes /\ Carried(k, r) /\ k.snap = snap /\ k.cause = r.cause
      /\ k.initialized = r.initialized /\ k.spare = r.spare /\ k.fault = r.fault
  BY <1>1, <1>2 DEF Runtimes, Carried
<1>4. (r.snap.ready => r.gate.active) /\ r.snap.gateActive = r.gate.active
  BY RuntimeFields, SnapshotType DEF Healthy, HealthySnapshot, Ready
<1>5. Aligned(k, c)
  BY <1>3 DEF Healthy, Aligned, Carried
<1>. QED
  BY <1>1, <1>3, <1>4, <1>5 DEF Healthy, Waiting, Carried

\* A fault of the store brakes for the inhibitor the gate has.
LEMMA BrakedByGate ==
  ASSUME NEW r \in Runtimes, NEW c \in Contents, Shut(r.spare), NEW throws \in BOOLEAN,
         c.owner # Nobody => r.gate.active /\ r.gate.generation = c.last,
         NEW h, h = LatchStoreFault(r, "store", throws)
  PROVE  h \in Runtimes /\ Carried(h, r) /\ Faulty(h) /\ Braked(h, c)
<1>1. /\ h \in Runtimes /\ Carried(h, r) /\ Faulty(h)
      /\ h.cause # "exception" => h.snap = FaultSnapshot(r.gate)
  BY StoreFaulted DEF Causes
<1>2. r.gate \in GateRecords
  BY RuntimeFields
<1>. QED
  BY <1>1, <1>2, FaultSnapshotType DEF Braked, Carried

LEMMA ImpossibleStep ==
  ASSUME NEW k, NEW c \in Contents, NEW b \in Contents, Waiting(k, c),
         NEW throws \in BOOLEAN, NEW h, h = LatchStoreFault(k, "inconsistent", throws)
  PROVE  h \in Runtimes /\ Carried(h, k) /\ Started(h, b)
<1>1. /\ h \in Runtimes /\ Carried(h, k) /\ Faulty(h)
      /\ h.cause \in {"inconsistent", "exception"}
  BY StoreFaulted DEF Causes, Waiting
<1>. QED
  BY <1>1 DEF Started, Braked

\* A gate without evidence cannot contradict it.
LEMMA BlankIsEvident ==
  ASSUME NEW k \in Runtimes, Evident(k), NEW h, ~h.gate.fresh, h.gate.epoch = RevokedEpoch,
         h.tracker = k.tracker, h.latest = k.latest, h.aged = k.aged
  PROVE  Evident(h)
<1>1. k.tracker.epoch \in Nat
  BY RuntimeFields, MaximaAssumption DEF Trackers
<1>. QED
  BY <1>1 DEF Evident, FreshIsEarned, RevokedEpoch

\* An activation that failed but may have been committed.
LEMMA UncertainStep ==
  ASSUME NEW k, NEW c \in Contents, Waiting(k, c), Evident(k), NEW o,
         o.committed, o.record \in Contents, o.record.code = "ok",
         o.record.owner # Nobody, o.record.last = c.last + 1, c.owner = Nobody,
         NEW idle \in BOOLEAN, NEW throws \in BOOLEAN,
         NEW h, h = ApplyUncertainActivation(k, o, idle, throws)
  PROVE  /\ h \in Runtimes /\ Evident(h) /\ Shut(h.spare)
         /\ h.gate.active /\ h.gate.generation = o.record.last
<1>. DEFINE g == Requested(k.gate, o.record.last, idle)
            r == [k EXCEPT !.gate = g]
            s == [k EXCEPT !.gate = g, !.record = o.record]
<1>1. /\ ~k.gate.active /\ k.gate.lastGeneration = c.last /\ c.last \in Nat
      /\ ~k.snap.gateActive /\ Shut(k.snap)
  BY ContentShape DEF Waiting, Aligned, Shut
<1>2. CanRequest(k.gate, o.record.last)
  BY <1>1 DEF CanRequest
<1>3. /\ g \in GateRecords /\ r \in Runtimes /\ k \in Runtimes
      /\ g.active /\ g.generation = o.record.last /\ ~g.fresh /\ g.epoch = RevokedEpoch
  <2>1. k \in Runtimes /\ k.gate \in GateRecords /\ o.record.last \in Nat
    BY <1>1, RuntimeFields DEF Waiting
  <2>2. /\ g \in GateRecords /\ g.active /\ g.generation = o.record.last /\ ~g.fresh
        /\ g.epoch = RevokedEpoch
    BY <1>2, <2>1, RequestedShape
  <2>. QED
    BY <2>1, <2>2, GateReplaced
<1>4. h = IF throws THEN LatchEmergencyFault(r) ELSE RefreshHealthySnapshot(s, FALSE)
  <2>1. k \in Runtimes /\ k.gate \in GateRecords
    BY RuntimeFields DEF Waiting
  <2>2. [r EXCEPT !.record = o.record] = s
    BY <2>1 DEF Runtimes
  <2>. HIDE DEF s
  <2>. QED
    BY <1>1, <1>2, <2>2 DEF ApplyUncertainActivation
<1>5. s = [k EXCEPT !.gate = Requested(k.gate, o.record.last, idle), !.record = o.record]
  OBVIOUS
<1>6. r = [k EXCEPT !.gate = g]
  OBVIOUS
<1>. HIDE DEF g, r, s
<1>7. CASE throws
  <2>1. /\ r.gate = g /\ r.snap = k.snap /\ r.tracker = k.tracker /\ r.latest = k.latest
        /\ r.aged = k.aged
    BY <1>3, <1>6, GateReplaced DEF Waiting
  <2>2. h \in Runtimes /\ Carried(h, r) /\ h.spare = r.snap
    BY <1>3, <1>4, <1>7, EmergencyShape
  <2>. QED
    BY <1>1, <1>3, <2>1, <2>2, BlankIsEvident DEF Carried
<1>8. CASE ~throws
  <2>1. h = RefreshHealthySnapshot(s, FALSE)
    BY <1>4, <1>8
  <2>2. /\ s \in Runtimes /\ s.gate = g /\ s.spare = k.spare /\ s.tracker = k.tracker
        /\ s.latest = k.latest /\ s.aged = k.aged
    <3>1. s = [k EXCEPT !.gate = g, !.record = o.record]
      BY DEF s
    <3>. QED
      BY <1>3, <3>1 DEF Waiting, Runtimes
  <2>3. h \in Runtimes /\ Carried(h, s) /\ h.spare = s.spare
    BY <2>1, <2>2, RefreshShape
  <2>. QED
    BY <1>3, <2>2, <2>3, BlankIsEvident DEF Carried, Waiting
<1>. QED
  BY <1>7, <1>8

LEMMA EnableStep ==
  ASSUME TypeOK, NEW r \in Runtimes, Healthy(r, content), Evident(r),
         NEW q \in Requester, NEW o \in StoreResults(Activate(q)),
         NEW idle \in BOOLEAN, NEW throws \in BOOLEAN, NEW again \in BOOLEAN,
         NEW h, h = EnabledBy(r, q, o, idle, throws, again)
  PROVE  /\ h \in Runtimes /\ Started(h, o.content) /\ Evident(h) /\ Sound(o)
<1>. DEFINE k == Closing(r)
            granted == /\ o.committed /\ o.record.owner # Nobody
                       /\ CanRequest(k.gate, o.record.last)
            g == Requested(k.gate, o.record.last, idle)
            requested == [k EXCEPT !.gate = g, !.record = o.record]
            same == [k EXCEPT !.record = o.record]
            repeated == /\ k.snap.gateActive /\ o.record.last = k.snap.generation
                        /\ o.record.owner = q
            uncertain == ApplyUncertainActivation(k, o, idle, throws)
<1>1. /\ content \in Contents /\ survivors \subseteq Contents /\ content.code = "ok"
      /\ Available(r)
  BY DEF TypeOK, Healthy, Aligned, Available
<1>2. /\ Sound(o)
      /\ \/ Declined(o, content) /\ (o.code = "already_active" => o.record = content)
         \/ /\ content.owner = Nobody
            /\ Published(o, Active(content.last + 1, q))
  BY <1>1, ActivationOutcome
<1>3. Waiting(k, content) /\ Carried(k, r)
  BY <1>1, ClosingShape
<1>4. h = IF o.code = "ok"
          THEN IF granted THEN RefreshHealthySnapshot(requested, throws)
               ELSE LatchStoreFault(k, "inconsistent", throws)
          ELSE IF o.code = "already_active"
          THEN IF repeated THEN RefreshHealthySnapshot(same, throws)
               ELSE LatchStoreFault(k, "inconsistent", throws)
          ELSE IF o.committed \/ IsOperationalFailure(o.code)
          THEN LatchStoreFault(uncertain, "store", again)
          ELSE RestoreAdmissionFromRecord(k, throws)
  BY <1>1 DEF EnabledBy
<1>5. /\ g = Requested(k.gate, o.record.last, idle)
      /\ requested = [k EXCEPT !.gate = g, !.record = o.record]
      /\ same = [k EXCEPT !.record = o.record]
      /\ uncertain = ApplyUncertainActivation(k, o, idle, throws)
      /\ granted => /\ o.committed /\ o.record.owner # Nobody
                    /\ CanRequest(k.gate, o.record.last)
  OBVIOUS
<1>. HIDE DEF k, granted, g, requested, same, repeated, uncertain
<1>6. Evident(k) /\ k \in Runtimes /\ o.record \in Contents /\ o.content \in Contents
  BY <1>2, <1>3, EvidenceCarried DEF Waiting, Sound
<1>7. k.initialized /\ k.cause = "none" /\ Aligned(k, content) /\ Shut(k.spare)
  BY <1>3 DEF Waiting
<1>8. o.committed => /\ content.owner = Nobody /\ o.content = o.record
                     /\ o.record.code = "ok" /\ o.record.owner # Nobody
                     /\ o.record.last = content.last + 1
                     /\ o.code \in {"ok", "io_error"}
  BY <1>2, RequesterAssumption DEF Declined, Published, Active, Nobody
<1>9. ~o.committed => /\ o.content = content /\ o.code # "ok"
                      /\ o.code = "already_active" => o.record = content
  BY <1>2 DEF Declined, Published
<1>10. CASE h = LatchStoreFault(k, "inconsistent", throws)
  <2>1. h \in Runtimes /\ Carried(h, k) /\ Started(h, o.content)
    BY <1>1, <1>3, <1>6, <1>10, ImpossibleStep
  <2>. QED
    BY <1>2, <1>6, <2>1, EvidenceCarried
<1>11. CASE o.code = "ok" /\ granted
  <2>1. o.committed /\ CanRequest(k.gate, o.record.last)
    BY <1>5, <1>11
  <2>2. h = RefreshHealthySnapshot(requested, throws)
    BY <1>4, <1>11
  <2>3. /\ requested \in Runtimes /\ requested.initialized /\ requested.cause = "none"
        /\ Shut(requested.spare) /\ Aligned(requested, o.record) /\ Evident(requested)
    <3>1. k.gate \in GateRecords /\ o.record.last \in Nat
      BY <1>6, RuntimeFields, ContentShape
    <3>2. /\ g \in GateRecords /\ g.active /\ g.generation = o.record.last
          /\ g.lastGeneration = o.record.last /\ ~g.fresh /\ g.epoch = RevokedEpoch
      BY <1>5, <2>1, <3>1, RequestedShape
    <3>3. /\ requested \in Runtimes /\ requested.gate = g /\ requested.record = o.record
          /\ requested.initialized /\ requested.cause = "none"
          /\ requested.spare = k.spare /\ requested.tracker = k.tracker
          /\ requested.latest = k.latest /\ requested.aged = k.aged
      BY <1>5, <1>6, <1>7, <3>2 DEF Runtimes
    <3>4. Aligned(requested, o.record)
      BY <1>8, <2>1, <3>2, <3>3 DEF Aligned
    <3>5. Evident(requested)
      BY <1>6, <3>2, <3>3, BlankIsEvident
    <3>. QED
      BY <1>7, <3>3, <3>4, <3>5
  <2>4. h \in Runtimes /\ Carried(h, requested) /\ Ended(h, o.record)
    BY <1>6, <2>2, <2>3, Refreshed
  <2>. QED
    BY <1>2, <1>8, <2>1, <2>3, <2>4, EvidenceCarried DEF Started, Ended, Braked
<1>12. CASE o.code = "already_active" /\ repeated
  <2>1. h = RefreshHealthySnapshot(same, throws)
    BY <1>4, <1>12
  <2>2. ~o.committed /\ o.record = content /\ o.content = content
    BY <1>8, <1>9, <1>12
  <2>3. /\ same \in Runtimes /\ Carried(same, k) /\ same.initialized
        /\ same.cause = "none" /\ Shut(same.spare) /\ Aligned(same, content)
    BY <1>5, <1>6, <1>7, <2>2, RecordReplaced DEF Aligned, Carried
  <2>4. h \in Runtimes /\ Carried(h, same) /\ Ended(h, content)
    BY <1>1, <2>1, <2>3, Refreshed
  <2>. QED
    BY <1>2, <1>6, <2>2, <2>3, <2>4, EvidenceCarried DEF Started, Ended, Braked
<1>13. CASE /\ o.code \notin {"ok", "already_active"}
            /\ o.committed \/ IsOperationalFailure(o.code)
  <2>1. h = LatchStoreFault(uncertain, "store", again)
    BY <1>4, <1>13
  <2>2. /\ uncertain \in Runtimes /\ Evident(uncertain) /\ Shut(uncertain.spare)
        /\ o.content.owner # Nobody =>
             /\ uncertain.gate.active /\ uncertain.gate.generation = o.content.last
    <3>1. CASE o.committed
      <4>1. /\ uncertain \in Runtimes /\ Evident(uncertain) /\ Shut(uncertain.spare)
            /\ uncertain.gate.active /\ uncertain.gate.generation = o.record.last
        BY <1>1, <1>3, <1>5, <1>6, <1>8, <3>1, UncertainStep
      <4>. QED
        BY <1>8, <3>1, <4>1
    <3>2. CASE ~o.committed
      <4>1. uncertain = k
        BY <1>5, <3>2 DEF ApplyUncertainActivation
      <4>. QED
        BY <1>6, <1>7, <1>9, <3>2, <4>1 DEF Aligned
    <3>. QED
      BY <3>1, <3>2
  <2>3. h \in Runtimes /\ Carried(h, uncertain) /\ Faulty(h) /\ Braked(h, o.content)
    BY <1>6, <2>1, <2>2, BrakedByGate
  <2>. QED
    BY <1>2, <2>2, <2>3, EvidenceCarried DEF Started
<1>14. CASE /\ o.code \notin {"ok", "already_active"}
            /\ ~(o.committed \/ IsOperationalFailure(o.code))
  <2>1. h = RestoreAdmissionFromRecord(k, throws)
    BY <1>4, <1>14
  <2>2. h \in Runtimes /\ Carried(h, k) /\ Ended(h, content)
    BY <1>1, <1>6, <1>7, <2>1, AdmissionRestored
  <2>3. o.content = content
    BY <1>9, <1>14
  <2>. QED
    BY <1>2, <1>6, <2>2, <2>3, EvidenceCarried DEF Started, Ended, Braked
<1>. QED
  BY <1>4, <1>10, <1>11, <1>12, <1>13, <1>14

LEMMA DisableStep ==
  ASSUME TypeOK, NEW r \in Runtimes, Healthy(r, content), Evident(r),
         NEW q \in Requester, NEW n \in Generations, n # 0,
         NEW o \in StoreResults(ReleaseOf(n, q)), NEW throws \in BOOLEAN,
         NEW h, h = DisabledBy(r, n, o, throws)
  PROVE  /\ h \in Runtimes /\ Started(h, o.content) /\ Evident(h) /\ Sound(o)
<1>. DEFINE k == Closing(r)
            granted == /\ o.committed /\ o.record = Inactive(n)
                       /\ CanRelease(k.gate, n)
            g == Released(k.gate, n)
            released == [k EXCEPT !.gate = g, !.record = o.record]
<1>1. /\ content \in Contents /\ survivors \subseteq Contents /\ content.code = "ok"
      /\ Available(r)
  BY DEF TypeOK, Healthy, Aligned, Available
<1>2. /\ Sound(o)
      /\ \/ Declined(o, content)
         \/ content.last = n /\ Published(o, Inactive(content.last))
  BY <1>1, ReleaseOutcome
<1>3. Waiting(k, content) /\ Carried(k, r)
  BY <1>1, ClosingShape
<1>4. h = IF o.code = "ok"
          THEN IF granted THEN RefreshHealthySnapshot(released, throws)
               ELSE LatchStoreFault(k, "inconsistent", throws)
          ELSE IF o.committed \/ IsOperationalFailure(o.code)
          THEN LatchStoreFault(k, "store", throws)
          ELSE RestoreAdmissionFromRecord(k, throws)
  BY <1>1 DEF DisabledBy
<1>5. /\ g = Released(k.gate, n)
      /\ released = [k EXCEPT !.gate = g, !.record = o.record]
      /\ granted => o.committed /\ o.record = Inactive(n) /\ CanRelease(k.gate, n)
  OBVIOUS
<1>. HIDE DEF k, granted, g, released
<1>6. Evident(k) /\ k \in Runtimes /\ o.record \in Contents /\ o.content \in Contents
  BY <1>2, <1>3, EvidenceCarried DEF Waiting, Sound
<1>7. k.initialized /\ k.cause = "none" /\ Aligned(k, content) /\ Shut(k.spare)
  BY <1>3 DEF Waiting
<1>8. o.committed => /\ content.last = n /\ o.content = o.record
                     /\ o.record = Inactive(content.last)
  BY <1>2 DEF Declined, Published
<1>9. ~o.committed => o.content = content
  BY <1>2 DEF Declined, Published
<1>10. CASE h = LatchStoreFault(k, "inconsistent", throws)
  <2>1. h \in Runtimes /\ Carried(h, k) /\ Started(h, o.content)
    BY <1>1, <1>3, <1>6, <1>10, ImpossibleStep
  <2>. QED
    BY <1>2, <1>6, <2>1, EvidenceCarried
<1>11. CASE o.code = "ok" /\ granted
  <2>1. o.committed /\ CanRelease(k.gate, n)
    BY <1>5, <1>11
  <2>2. h = RefreshHealthySnapshot(released, throws)
    BY <1>4, <1>11
  <2>3. /\ g \in GateRecords /\ ~g.active /\ g.lastGeneration = k.gate.lastGeneration
        /\ ~g.fresh /\ g.epoch = RevokedEpoch
    <3>1. k.gate \in GateRecords /\ n \in Nat
      BY <1>6, RuntimeFields, MaxGenerationAssumption DEF Generations
    <3>. QED
      BY <1>5, <2>1, <3>1, ReleasedShape
  <2>4. /\ released \in Runtimes /\ released.gate = g /\ released.record = o.record
        /\ released.initialized /\ released.cause = "none" /\ Shut(released.spare)
        /\ released.tracker = k.tracker /\ released.latest = k.latest
        /\ released.aged = k.aged
    BY <1>5, <1>6, <1>7, <2>3 DEF Runtimes
  <2>5. Aligned(released, o.content)
    BY <1>7, <1>8, <2>1, <2>3, <2>4 DEF Aligned, Inactive
  <2>6. h \in Runtimes /\ Carried(h, released) /\ Ended(h, o.content)
    BY <1>6, <2>2, <2>4, <2>5, Refreshed
  <2>7. Evident(released)
    BY <1>6, <2>3, <2>4, BlankIsEvident
  <2>. QED
    BY <1>2, <2>6, <2>7, EvidenceCarried DEF Started, Ended, Braked
<1>12. CASE o.code # "ok" /\ (o.committed \/ IsOperationalFailure(o.code))
  <2>1. h = LatchStoreFault(k, "store", throws)
    BY <1>4, <1>12
  <2>2. o.content.owner # Nobody => k.gate.active /\ k.gate.generation = o.content.last
    BY <1>7, <1>8, <1>9 DEF Aligned, Inactive
  <2>3. h \in Runtimes /\ Carried(h, k) /\ Faulty(h) /\ Braked(h, o.content)
    BY <1>6, <1>7, <2>1, <2>2, BrakedByGate
  <2>. QED
    BY <1>2, <1>6, <2>3, EvidenceCarried DEF Started
<1>13. CASE o.code # "ok" /\ ~(o.committed \/ IsOperationalFailure(o.code))
  <2>1. h = RestoreAdmissionFromRecord(k, throws)
    BY <1>4, <1>13
  <2>2. h \in Runtimes /\ Carried(h, k) /\ Ended(h, content)
    BY <1>1, <1>6, <1>7, <2>1, AdmissionRestored
  <2>3. o.content = content
    BY <1>9, <1>13
  <2>. QED
    BY <1>2, <1>6, <2>2, <2>3, EvidenceCarried DEF Started, Ended, Braked
<1>. QED
  BY <1>4, <1>10, <1>11, <1>12, <1>13

LEMMA NewRuntimeShape ==
  /\ NewRuntime \in Runtimes /\ Evident(NewRuntime)
<1>1. NewGate \in GateRecords /\ ~NewGate.fresh /\ NewGate.epoch = RevokedEpoch
  BY NoPendingType, CommandIdAssumption
     DEF NewGate, GateRecords, Failures, FailureStates, RevokedEpoch
<1>2. NewTracker \in Trackers /\ NewTracker.epoch = 0 /\ NewTracker.current = NoPublisher
  BY MaximaAssumption DEF NewTracker, Trackers
<1>3. NoSample \in Samples /\ NoSample.epoch = RevokedEpoch
  BY DEF NoSample, Samples, RevokedEpoch
<1>4. NoRecord \in Contents
  BY MaxGenerationAssumption DEF Contents, Generations, NoRecord, Unreadable, Nobody
<1>5. InitialSnapshot \in Snapshots /\ EmergencyFaultSnapshot \in Snapshots
  BY DEF InitialSnapshot, EmergencyFaultSnapshot, Snapshots
<1>6. NewRuntime \in Runtimes
  BY <1>1, <1>2, <1>3, <1>4, <1>5 DEF NewRuntime, Runtimes, Causes
<1>7. /\ NewRuntime.gate = NewGate /\ NewRuntime.tracker = NewTracker
      /\ NewRuntime.latest = NoSample /\ ~NewRuntime.aged
  BY DEF NewRuntime
<1>8. Evident(NewRuntime)
  BY <1>1, <1>2, <1>3, <1>7 DEF Evident, FreshIsEarned, RevokedEpoch
<1>. QED
  BY <1>6, <1>8

LEMMA StartStep ==
  ASSUME TypeOK, NEW o \in StoreResults(Load), NEW idle \in BOOLEAN,
         NEW throws \in BOOLEAN, NEW h, h = Initialized(NewRuntime, o, idle, throws)
  PROVE  h \in Runtimes /\ Started(h, content) /\ Evident(h)
<1>. DEFINE begun == [NewRuntime EXCEPT !.initialized = TRUE]
            g == RestoredFrom(NewRuntime.gate, o.record, idle)
            restored == [begun EXCEPT !.gate = g, !.record = o.record]
            can == CanRestoreFrom(NewRuntime.gate, o.record)
<1>1. /\ content \in Contents /\ o.record \in Contents
      /\ o.code = "ok" => o.record = content
  BY LoadOutcome DEF TypeOK
<1>2. NewRuntime \in Runtimes /\ Evident(NewRuntime)
  BY NewRuntimeShape
<1>3. h = IF o.code # "ok" THEN LatchStoreFault(begun, "store", throws)
          ELSE IF o.record.code # "ok" \/ ~can
          THEN LatchStoreFault(begun, "inconsistent", throws)
          ELSE RefreshHealthySnapshot(restored, throws)
  <2>1. ~NewRuntime.initialized /\ begun.gate = NewRuntime.gate
    BY DEF NewRuntime
  <2>. QED
    BY <2>1 DEF Initialized, RestoredFrom, CanRestoreFrom
<1>4. /\ NewRuntime.record = NoRecord /\ NewRuntime.cause = "none"
      /\ Shut(NewRuntime.spare)
  BY DEF NewRuntime, EmergencyFaultSnapshot, InitialSnapshot, Shut
<1>5. /\ begun \in Runtimes /\ Carried(begun, NewRuntime) /\ begun.initialized
      /\ begun.record.code # "ok" /\ begun.cause = "none" /\ Shut(begun.spare)
  <2>1. /\ begun \in Runtimes /\ Carried(begun, NewRuntime) /\ begun.initialized
        /\ begun.record = NewRuntime.record /\ begun.cause = NewRuntime.cause
        /\ begun.spare = NewRuntime.spare
    BY <1>2 DEF Runtimes, Carried
  <2>2. NoRecord.code # "ok"
    BY DEF NoRecord, Unreadable
  <2>. QED
    BY <1>4, <2>1, <2>2
<1>6. Evident(begun)
  BY <1>2, <1>5, EvidenceCarried
<1>7. /\ g = RestoredFrom(NewRuntime.gate, o.record, idle)
      /\ restored = [begun EXCEPT !.gate = g, !.record = o.record]
      /\ can => CanRestoreFrom(NewRuntime.gate, o.record)
  OBVIOUS
<1>. HIDE DEF begun, g, restored, can
<1>8. CASE o.code # "ok"
  <2>1. h = LatchStoreFault(begun, "store", throws)
    BY <1>3, <1>8
  <2>2. h \in Runtimes /\ Carried(h, begun) /\ Faulty(h)
    BY <1>5, <2>1, StoreFaulted DEF Causes
  <2>3. Braked(h, content)
    BY <1>5, <2>2 DEF Braked, Carried
  <2>. QED
    BY <1>6, <2>2, <2>3, EvidenceCarried DEF Started
<1>9. CASE o.code = "ok" /\ (o.record.code # "ok" \/ ~can)
  <2>1. h = LatchStoreFault(begun, "inconsistent", throws)
    BY <1>3, <1>9
  <2>2. /\ h \in Runtimes /\ Carried(h, begun) /\ Faulty(h)
        /\ h.cause \in {"inconsistent", "exception"}
    BY <1>5, <2>1, StoreFaulted DEF Causes
  <2>. QED
    BY <1>6, <2>2, EvidenceCarried DEF Started, Braked
<1>10. CASE o.code = "ok" /\ o.record.code = "ok" /\ can
  <2>1. h = RefreshHealthySnapshot(restored, throws)
    BY <1>3, <1>10
  <2>2. /\ g \in GateRecords
        /\ g.active <=> o.record.owner # Nobody
        /\ g.active => g.generation = o.record.last
        /\ g.lastGeneration = o.record.last /\ ~g.fresh /\ g.epoch = RevokedEpoch
    <3>1. NewRuntime.gate \in GateRecords /\ o.record.last \in Nat
      BY <1>1, <1>2, RuntimeFields, ContentShape
    <3>2. CanRestoreFrom(NewRuntime.gate, o.record)
      BY <1>7, <1>10
    <3>. QED
      BY <1>7, <3>1, <3>2, RestoredShape
  <2>3. /\ restored \in Runtimes /\ restored.gate = g /\ restored.record = o.record
        /\ restored.initialized /\ restored.cause = "none" /\ Shut(restored.spare)
        /\ restored.tracker = begun.tracker /\ restored.latest = begun.latest
        /\ restored.aged = begun.aged
    BY <1>1, <1>5, <1>7, <2>2 DEF Runtimes
  <2>4. Aligned(restored, content)
    BY <1>1, <1>7, <1>10, <2>2, <2>3 DEF Aligned
  <2>5. h \in Runtimes /\ Carried(h, restored) /\ Ended(h, content)
    BY <1>1, <2>1, <2>3, <2>4, Refreshed
  <2>6. Evident(restored)
    BY <1>5, <1>6, <2>2, <2>3, BlankIsEvident
  <2>. QED
    BY <2>5, <2>6, EvidenceCarried DEF Started, Ended, Braked
<1>. QED
  BY <1>8, <1>9, <1>10

-----------------------------------------------------------------------------
(* The inductive invariant.                                                *)

Inv ==
  /\ TypeOK
  /\ rt = NewRuntime \/ Started(rt, content)
  /\ Evident(rt)

\* What becomes of a runtime with a latched fault.
FaultKept ==
  rt.fault => rt' \in {rt, NewRuntime, [rt EXCEPT !.aged = TRUE]}

LEMMA NewRuntimeFields ==
  /\ ~NewRuntime.initialized /\ ~NewRuntime.fault /\ ~NewRuntime.snap.ready
  /\ NewRuntime.cause = "none" /\ NewRuntime.latest.epoch = RevokedEpoch
  /\ ~NewRuntime.aged
BY DEF NewRuntime, InitialSnapshot, NoSample

\* A runtime is healthy, has a latched fault, or has not been started.
LEMMA Cases ==
  ASSUME Inv
  PROVE  /\ rt \in Runtimes /\ content \in Contents
         /\ \/ rt = NewRuntime /\ ~rt.initialized /\ ~rt.fault /\ ~Available(rt)
            \/ Healthy(rt, content) /\ rt.initialized /\ ~rt.fault /\ Available(rt)
            \/ /\ Faulty(rt) /\ Braked(rt, content)
               /\ rt.initialized /\ rt.fault /\ ~Available(rt)
BY NewRuntimeFields DEF Inv, TypeOK, Started, Healthy, Faulty, Available

LEMMA Unmoved ==
  ASSUME Inv, rt' = rt, content' = content, survivors' = survivors
  PROVE  Inv' /\ FaultKept
BY DEF Inv, TypeOK, FaultKept

LEMMA Moved ==
  ASSUME Inv, ~rt.fault, rt' \in Runtimes, Ended(rt', content), Evident(rt'),
         content' = content, survivors' = survivors
  PROVE  Inv' /\ FaultKept
BY DEF Inv, TypeOK, FaultKept, Ended, Started, Braked

LEMMA Renewed ==
  ASSUME Inv, rt' = NewRuntime, content' \in Contents, survivors' \subseteq Contents
  PROVE  Inv' /\ FaultKept
<1>1. NewRuntime \in Runtimes /\ Evident(NewRuntime)
  BY NewRuntimeShape
<1>2. TypeOK'
  BY <1>1 DEF TypeOK
<1>3. Evident(rt)'
  BY <1>1
<1>. QED
  BY <1>2, <1>3 DEF Inv, FaultKept

LEMMA StartInv ==
  ASSUME Inv, Start PROVE Inv' /\ FaultKept
<1>. DEFINE idle == TRUE
<1>1. PICK o \in StoreResults(Load), throws \in BOOLEAN :
        rt' = Initialized(rt, o, idle, throws) /\ Disk(o)
  BY DEF Start
<1>2. rt = NewRuntime /\ TypeOK /\ ~rt.fault
  BY Cases DEF Start, Inv
<1>3. content' = content /\ survivors' = survivors
  BY <1>1, <1>2, LoadOutcome DEF Disk, TypeOK
<1>4. idle \in BOOLEAN
  OBVIOUS
<1>. HIDE DEF idle
<1>5. rt' \in Runtimes /\ Started(rt', content) /\ Evident(rt')
  BY <1>1, <1>2, <1>4, StartStep
<1>. QED
  BY <1>2, <1>3, <1>5 DEF Inv, TypeOK, FaultKept

LEMMA MissionChangesInv ==
  ASSUME Inv, MissionChanges PROVE Inv' /\ FaultKept
<1>1. PICK idle \in BOOLEAN, throws \in BOOLEAN : rt' = IdleSet(rt, idle, throws)
  BY DEF MissionChanges
<1>2. rt.initialized /\ content' = content /\ survivors' = survivors
  BY DEF MissionChanges
<1>3. CASE rt.fault
  BY <1>1, <1>2, <1>3, Unmoved DEF IdleSet
<1>4. CASE ~rt.fault
  <2>1. Healthy(rt, content) /\ Evident(rt) /\ rt \in Runtimes /\ content \in Contents
    BY <1>2, <1>4, Cases DEF Inv
  <2>2. rt' \in Runtimes /\ Ended(rt', content) /\ Evident(rt')
    BY <1>1, <2>1, IdleSetShape
  <2>. QED
    BY <1>2, <1>4, <2>2, Moved
<1>. QED
  BY <1>3, <1>4

\* The mission manager tells whether it is idle at the start of a service
\* call and of a tick, before anything else can run out of memory.
Told(r, idle) == IdleSet(r, idle, FALSE)

LEMMA ToldStep ==
  ASSUME Inv, rt.initialized, NEW idle \in BOOLEAN, NEW r, r = Told(rt, idle)
  PROVE  /\ r \in Runtimes /\ Evident(r) /\ r.aged = rt.aged /\ r.latest = rt.latest
         /\ \/ Healthy(r, content) /\ ~rt.fault /\ Available(r)
            \/ r = rt /\ rt.fault /\ ~Available(r)
<1>. DEFINE throws == FALSE
<1>1. throws \in BOOLEAN /\ ~throws
  OBVIOUS
<1>2. r = IdleSet(rt, idle, throws)
  BY DEF Told
<1>. HIDE DEF throws
<1>3. CASE rt.fault
  BY <1>2, <1>3, Cases DEF IdleSet, Inv
<1>4. CASE ~rt.fault
  <2>1. Healthy(rt, content) /\ Evident(rt) /\ rt \in Runtimes /\ content \in Contents
    BY <1>4, Cases DEF Inv
  <2>2. /\ r \in Runtimes /\ Evident(r) /\ r.latest = rt.latest /\ r.aged = rt.aged
        /\ Healthy(r, content)
    BY <1>1, <1>2, <2>1, IdleSetShape
  <2>. QED
    BY <1>4, <2>2 DEF Available, Healthy
<1>. QED
  BY <1>3, <1>4

LEMMA OnEnableInv ==
  ASSUME Inv, OnEnable PROVE Inv' /\ FaultKept
<1>1. PICK q \in Requester, idle \in BOOLEAN, throws \in BOOLEAN, again \in BOOLEAN :
        /\ rt.initialized
        /\ IF Available(Told(rt, idle))
           THEN \E o \in StoreResults(Activate(q)) :
                  rt' = EnabledBy(Told(rt, idle), q, o, idle, throws, again) /\ Disk(o)
           ELSE rt' = Told(rt, idle) /\ UNCHANGED <<content, survivors>>
  BY DEF OnEnable, Told
<1>. DEFINE r == Told(rt, idle)
<1>2. /\ r \in Runtimes /\ Evident(r)
      /\ \/ Healthy(r, content) /\ ~rt.fault /\ Available(r)
         \/ r = rt /\ rt.fault /\ ~Available(r)
  BY <1>1, ToldStep
<1>3. IF Available(r)
      THEN \E o \in StoreResults(Activate(q)) :
             rt' = EnabledBy(r, q, o, idle, throws, again) /\ Disk(o)
      ELSE rt' = r /\ UNCHANGED <<content, survivors>>
  BY <1>1
<1>. HIDE DEF r
<1>4. CASE ~Available(r)
  BY <1>2, <1>3, <1>4, Unmoved
<1>5. CASE Available(r)
  <2>1. PICK o \in StoreResults(Activate(q)) :
          rt' = EnabledBy(r, q, o, idle, throws, again) /\ Disk(o)
    BY <1>3, <1>5
  <2>2. TypeOK /\ Healthy(r, content) /\ Evident(r) /\ r \in Runtimes /\ ~rt.fault
    BY <1>2, <1>5 DEF Inv
  <2>3. rt' \in Runtimes /\ Started(rt', o.content) /\ Evident(rt') /\ Sound(o)
    BY <2>1, <2>2, EnableStep
  <2>. QED
    BY <2>1, <2>2, <2>3 DEF Disk, Sound, Inv, TypeOK, FaultKept
<1>. QED
  BY <1>4, <1>5

LEMMA OnDisableInv ==
  ASSUME Inv, OnDisable PROVE Inv' /\ FaultKept
<1>1. PICK q \in Requester, n \in Generations, idle \in BOOLEAN, throws \in BOOLEAN :
        /\ rt.initialized
        /\ IF Available(Told(rt, idle)) /\ n # 0
           THEN \E o \in StoreResults(ReleaseOf(n, q)) :
                  rt' = DisabledBy(Told(rt, idle), n, o, throws) /\ Disk(o)
           ELSE rt' = Told(rt, idle) /\ UNCHANGED <<content, survivors>>
  BY DEF OnDisable, Told
<1>. DEFINE r == Told(rt, idle)
<1>2. /\ r \in Runtimes /\ Evident(r)
      /\ \/ Healthy(r, content) /\ ~rt.fault /\ Available(r)
         \/ r = rt /\ rt.fault /\ ~Available(r)
  BY <1>1, ToldStep
<1>3. IF Available(r) /\ n # 0
      THEN \E o \in StoreResults(ReleaseOf(n, q)) :
             rt' = DisabledBy(r, n, o, throws) /\ Disk(o)
      ELSE rt' = r /\ UNCHANGED <<content, survivors>>
  BY <1>1
<1>. HIDE DEF r
<1>4. CASE ~(Available(r) /\ n # 0)
  <2>1. rt' = r /\ content' = content /\ survivors' = survivors
    BY <1>3, <1>4
  <2>2. CASE r = rt
    BY <2>1, <2>2, Unmoved
  <2>3. CASE Healthy(r, content) /\ ~rt.fault
    BY <1>2, <2>1, <2>3, Moved DEF Ended
  <2>. QED
    BY <1>2, <2>2, <2>3
<1>5. CASE Available(r) /\ n # 0
  <2>1. PICK o \in StoreResults(ReleaseOf(n, q)) :
          rt' = DisabledBy(r, n, o, throws) /\ Disk(o)
    BY <1>3, <1>5
  <2>2. TypeOK /\ Healthy(r, content) /\ Evident(r) /\ r \in Runtimes /\ ~rt.fault
    BY <1>2, <1>5 DEF Inv
  <2>3. rt' \in Runtimes /\ Started(rt', o.content) /\ Evident(rt') /\ Sound(o)
    BY <1>5, <2>1, <2>2, DisableStep
  <2>. QED
    BY <2>1, <2>2, <2>3 DEF Disk, Sound, Inv, TypeOK, FaultKept
<1>. QED
  BY <1>4, <1>5

\* An observation changes the runtime as long as no fault is latched.
LEMMA OnFinalCommandInv ==
  ASSUME Inv, OnFinalCommand PROVE Inv' /\ FaultKept
<1>1. PICK n \in Generations, id \in CommandId, safe \in BOOLEAN, throws \in BOOLEAN :
        rt' = FinalCommandObserved(
                rt, [generation |-> n, id |-> id, safe |-> safe], throws)
  BY DEF OnFinalCommand
<1>. DEFINE cmd == [generation |-> n, id |-> id, safe |-> safe]
<1>2. cmd \in FinalCommands
  BY MaxGenerationAssumption DEF FinalCommands, Generations
<1>3. /\ rt' = FinalCommandObserved(rt, cmd, throws)
      /\ rt.initialized /\ content' = content /\ survivors' = survivors
  BY <1>1 DEF OnFinalCommand
<1>. HIDE DEF cmd
<1>4. CASE rt.fault
  BY <1>3, <1>4, Unmoved DEF FinalCommandObserved, Available
<1>5. CASE ~rt.fault
  <2>1. Healthy(rt, content) /\ Evident(rt) /\ rt \in Runtimes /\ content \in Contents
    BY <1>3, <1>5, Cases DEF Inv
  <2>2. rt' \in Runtimes /\ Ended(rt', content) /\ Evident(rt')
    BY <1>2, <1>3, <2>1, FinalCommandStep
  <2>. QED
    BY <1>3, <1>5, <2>2, Moved
<1>. QED
  BY <1>4, <1>5

LEMMA OnCommandStatusInv ==
  ASSUME Inv, OnCommandStatus PROVE Inv' /\ FaultKept
<1>1. PICK n \in Generations, id \in CommandId, state \in {"sent", "rejected"},
           throws \in BOOLEAN :
        rt' = CommandStatusObserved(
                rt, [generation |-> n, id |-> id, state |-> state], throws)
  BY DEF OnCommandStatus
<1>. DEFINE st == [generation |-> n, id |-> id, state |-> state]
<1>2. st \in Statuses
  BY MaxGenerationAssumption
     DEF Statuses, Generations, StatusStates, AckStates, FailureStates
<1>3. /\ rt' = CommandStatusObserved(rt, st, throws)
      /\ rt.initialized /\ content' = content /\ survivors' = survivors
  BY <1>1 DEF OnCommandStatus
<1>. HIDE DEF st
<1>4. CASE rt.fault
  BY <1>3, <1>4, Unmoved DEF CommandStatusObserved, Available
<1>5. CASE ~rt.fault
  <2>1. Healthy(rt, content) /\ Evident(rt) /\ rt \in Runtimes /\ content \in Contents
    BY <1>3, <1>5, Cases DEF Inv
  <2>2. rt' \in Runtimes /\ Ended(rt', content) /\ Evident(rt')
    BY <1>2, <1>3, <2>1, CommandStatusStep
  <2>. QED
    BY <1>3, <1>5, <2>2, Moved
<1>. QED
  BY <1>4, <1>5

LEMMA OnHardwareStatusInv ==
  ASSUME Inv, NEW publisher \in Publisher \cup {NoPublisher}, OnHardwareStatus(publisher)
  PROVE  Inv' /\ FaultKept
<1>1. rt.initialized /\ content' = content /\ survivors' = survivors
  BY DEF OnHardwareStatus
<1>2. CASE ~Available(rt)
  BY <1>1, <1>2, Unmoved DEF OnHardwareStatus
<1>3. CASE Available(rt)
  <2>1. PICK seq \in Frame, connected \in BOOLEAN, throws \in BOOLEAN,
            zero \in SUBSET Outputs :
          rt' = HardwareObserved(rt, publisher, seq, connected, zero, throws)
    BY <1>3 DEF OnHardwareStatus
  <2>2. seq \in Nat
    BY RuntimeFrameAssumption
  <2>3. /\ Healthy(rt, content) /\ Evident(rt) /\ rt \in Runtimes /\ content \in Contents
        /\ ~rt.fault
    BY <1>3, Cases DEF Inv
  <2>4. rt' \in Runtimes /\ Ended(rt', content) /\ Evident(rt')
    BY <2>1, <2>2, <2>3, HardwareStep
  <2>. QED
    BY <1>1, <2>3, <2>4, Moved
<1>. QED
  BY <1>2, <1>3

\* A tick ends with what it publishes: nothing is ready on an old sample.
LEMMA TickInv ==
  ASSUME Inv, NEW idle \in BOOLEAN, NEW throws \in BOOLEAN,
         PublishPeriodicState(idle, throws)
  PROVE  Inv' /\ FaultKept /\ (rt.aged => ~rt'.snap.ready)
<1>. DEFINE r == Told(rt, idle)
<1>1. /\ rt.initialized /\ content' = content /\ survivors' = survivors
      /\ rt' = HardwareRefreshed(r, throws)
  BY DEF PublishPeriodicState, Told
<1>2. /\ r \in Runtimes /\ Evident(r) /\ r.aged = rt.aged
      /\ \/ Healthy(r, content) /\ ~rt.fault /\ Available(r)
         \/ r = rt /\ rt.fault /\ ~Available(r)
  BY <1>1, ToldStep
<1>. HIDE DEF r
<1>3. CASE ~Available(r)
  <2>1. rt' = rt
    BY <1>1, <1>2, <1>3 DEF HardwareRefreshed
  <2>2. ~rt.snap.ready
    BY <1>2, <1>3, Cases DEF Faulty, Shut
  <2>. QED
    BY <1>1, <2>1, <2>2, Unmoved
<1>4. CASE Healthy(r, content) /\ ~rt.fault
  <2>1. content \in Contents
    BY Cases
  <2>2. /\ rt' \in Runtimes /\ Ended(rt', content) /\ Evident(rt')
        /\ r.aged => ~rt'.gate.fresh
    BY <1>1, <1>2, <1>4, <2>1, RefreshStep
  <2>3. ~rt'.gate.fresh => ~rt'.snap.ready
    <3>1. CASE Healthy(rt', content)
      BY <2>2, <3>1, RuntimeFields, HealthySnapshotType DEF Healthy, Ready
    <3>2. CASE Faulty(rt')
      BY <3>2 DEF Faulty, Shut
    <3>. QED
      BY <2>2, <3>1, <3>2 DEF Ended
  <2>. QED
    BY <1>1, <1>2, <1>4, <2>2, <2>3, Moved
<1>. QED
  BY <1>2, <1>3, <1>4

LEMMA SampleAgesInv ==
  ASSUME Inv, SampleAges PROVE Inv' /\ FaultKept
<1>. DEFINE aged == [rt EXCEPT !.aged = TRUE]
<1>1. /\ rt' = aged /\ content' = content /\ survivors' = survivors
      /\ rt.latest.epoch # RevokedEpoch
  BY DEF SampleAges
<1>2. /\ aged \in Runtimes /\ aged.gate = rt.gate /\ aged.initialized = rt.initialized
      /\ aged.fault = rt.fault /\ aged.closed = rt.closed /\ aged.cause = rt.cause
      /\ aged.record = rt.record /\ aged.snap = rt.snap /\ aged.spare = rt.spare
      /\ aged.tracker = rt.tracker /\ aged.latest = rt.latest
  BY Cases DEF Runtimes
<1>3. FaultKept
  BY <1>1 DEF FaultKept
<1>. HIDE DEF aged
<1>4. rt # NewRuntime
  BY <1>1, NewRuntimeFields
<1>5. Started(aged, content)
  BY <1>2, <1>4 DEF Inv, Started, Healthy, Faulty, Braked, Aligned
<1>6. Evident(aged)
  BY <1>1, <1>2 DEF Inv, Evident
<1>. QED
  BY <1>1, <1>2, <1>3, <1>5, <1>6 DEF Inv, TypeOK

LEMMA StoreInitInv ==
  ASSUME Inv, StoreInit PROVE Inv' /\ FaultKept
<1>1. PICK o \in StoreResults(InitializeGenesis) : Disk(o)
  BY DEF StoreInit
<1>2. /\ content' \in Contents /\ survivors' \subseteq Contents
      /\ content' = content \/ (content.code = "missing" /\ content' = Genesis)
  BY <1>1, GenesisOutcome DEF Disk, Inv, TypeOK
<1>3. rt' = rt
  BY DEF StoreInit
<1>4. Healthy(rt, content) => content' = content
  BY <1>2 DEF Healthy, Aligned
<1>5. Braked(rt, content) => Braked(rt, content')
  BY <1>2 DEF Braked, Genesis, Inactive
<1>. QED
  BY <1>2, <1>3, <1>4, <1>5 DEF Inv, TypeOK, Started, FaultKept

LEMMA CrashInv ==
  ASSUME Inv, Crash \/ CrashInStore \/ PowerLoss PROVE Inv' /\ FaultKept
<1>1. CASE Crash
  BY <1>1, Renewed DEF Crash, Inv, TypeOK
<1>2. CASE CrashInStore
  <2>1. TypeOK /\ content.code = "ok" /\ rt' = NewRuntime
    BY <1>2, Cases DEF CrashInStore, Inv, Healthy, Aligned
  <2>2. PICK op \in {Activate(r) : r \in Requester}
                    \cup {ReleaseOf(g, r) : g \in Generations \ {0}, r \in Requester} :
          \E o \in StoreResults(op) : Disk(o)
    BY <1>2 DEF CrashInStore
  <2>3. PICK o \in StoreResults(op) : Disk(o)
    BY <2>2
  <2>4. Sound(o)
    <3>1. CASE op \in {Activate(r) : r \in Requester}
      <4>1. PICK q \in Requester : op = Activate(q)
        BY <3>1
      <4>. QED
        BY <2>1, <2>3, <4>1, ActivationOutcome DEF TypeOK
    <3>2. CASE op \in {ReleaseOf(g, r) : g \in Generations \ {0}, r \in Requester}
      <4>1. PICK n \in Generations, q \in Requester : op = ReleaseOf(n, q)
        BY <3>2
      <4>. QED
        BY <2>1, <2>3, <4>1, ReleaseOutcome DEF TypeOK
    <3>. QED
      BY <2>2, <3>1, <3>2
  <2>. QED
    BY <2>1, <2>3, <2>4, Renewed DEF Sound, Disk
<1>3. CASE PowerLoss
  BY <1>3, Renewed DEF PowerLoss, Inv, TypeOK
<1>. QED
  BY <1>1, <1>2, <1>3

LEMMA InitInv == Init => Inv
<1>. SUFFICES ASSUME Init PROVE Inv
  OBVIOUS
<1>1. rt = NewRuntime /\ content \in Contents /\ survivors = {content}
  BY DEF Init
<1>. QED
  BY <1>1, NewRuntimeShape DEF Inv, TypeOK

LEMMA NextInv ==
  ASSUME Inv, [Next]_vars PROVE Inv' /\ FaultKept
<1>1. CASE Start
  BY <1>1, StartInv
<1>2. CASE MissionChanges
  BY <1>2, MissionChangesInv
<1>3. CASE OnEnable
  BY <1>3, OnEnableInv
<1>4. CASE OnDisable
  BY <1>4, OnDisableInv
<1>5. CASE OnFinalCommand
  BY <1>5, OnFinalCommandInv
<1>6. CASE OnCommandStatus
  BY <1>6, OnCommandStatusInv
<1>7. CASE \E publisher \in Publisher \cup {NoPublisher} : OnHardwareStatus(publisher)
  BY <1>7, OnHardwareStatusInv
<1>8. CASE \E idle, throws \in BOOLEAN : PublishPeriodicState(idle, throws)
  <2>1. PICK idle \in BOOLEAN, throws \in BOOLEAN : PublishPeriodicState(idle, throws)
    BY <1>8
  <2>. QED
    BY <2>1, TickInv
<1>9. CASE SampleAges
  BY <1>9, SampleAgesInv
<1>10. CASE StoreInit
  BY <1>10, StoreInitInv
<1>11. CASE Crash \/ CrashInStore \/ PowerLoss
  BY <1>11, CrashInv
<1>12. CASE UNCHANGED vars
  BY <1>12, Unmoved DEF vars
<1>. QED
  BY <1>1, <1>2, <1>3, <1>4, <1>5, <1>6, <1>7, <1>8, <1>9, <1>10, <1>11, <1>12
     DEF Next, OtherStep

LEMMA Invariance == Spec => []Inv
<1>1. Init => Inv
  BY InitInv
<1>2. Inv /\ [Next]_vars => Inv'
  BY NextInv
<1>. QED
  BY <1>1, <1>2, PTL DEF Spec

-----------------------------------------------------------------------------
(* What follows.                                                           *)

\* Runtime, state file and survivors keep their types.
THEOREM TypeCorrect == Spec => []TypeOK
<1>1. Inv => TypeOK
  BY DEF Inv
<1>. QED
  BY <1>1, Invariance, PTL

\* Without a latched fault, record, gate, admission and what is published
\* agree with the state file, across failed calls, crashes and power losses.
THEOREM AgreesDisk == Spec => []AgreesWithDisk
<1>1. Inv => AgreesWithDisk
  <2>. SUFFICES ASSUME Inv, Available(rt) PROVE AgreesWithDisk
    BY DEF AgreesWithDisk
  <2>1. Healthy(rt, content) /\ rt \in Runtimes
    BY Cases
  <2>2. /\ rt.gate \in GateRecords /\ rt.closed \in BOOLEAN /\ rt.snap \in Snapshots
        /\ rt.gate.active \in BOOLEAN
    BY <2>1, RuntimeFields DEF GateRecords
  <2>3. /\ rt.record = content /\ content.code = "ok"
        /\ rt.gate.active <=> content.owner # Nobody
        /\ rt.gate.lastGeneration = content.last
        /\ rt.gate.active => rt.gate.generation = content.last
        /\ rt.closed <=> rt.gate.active
    BY <2>1 DEF Healthy, Aligned
  <2>4. Ready(rt.gate) \in BOOLEAN
    BY DEF Ready
  <2>5. /\ rt.snap.fault = FALSE /\ rt.snap.closed = rt.closed
        /\ rt.snap.generation = content.last /\ rt.snap.gateActive = rt.gate.active
        /\ rt.snap.ready = Ready(rt.gate)
    <3>. DEFINE fault == FALSE
    <3>1. rt.snap = SnapshotOf(rt.gate, fault) /\ fault \in BOOLEAN /\ ~fault
      BY <2>1 DEF Healthy, HealthySnapshot
    <3>. HIDE DEF fault
    <3>2. /\ rt.snap.fault = fault /\ rt.snap.gateActive = rt.gate.active
          /\ rt.snap.generation = IF rt.gate.active THEN rt.gate.generation
                                  ELSE rt.gate.lastGeneration
          /\ rt.snap.closed <=> fault \/ rt.gate.active
          /\ rt.snap.ready <=> ~fault /\ Ready(rt.gate)
      BY <2>2, <3>1, SnapshotType
    <3>. QED
      BY <2>2, <2>3, <2>4, <3>1, <3>2 DEF Snapshots
  <2>6. rt.snap = [fault |-> FALSE, closed |-> rt.closed, generation |-> content.last,
                   gateActive |-> rt.gate.active, ready |-> Ready(rt.gate)]
    BY <2>2, <2>5 DEF Snapshots
  <2>. QED
    BY <2>2, <2>3, <2>6 DEF AgreesWithDisk
<1>. QED
  BY <1>1, Invariance, PTL

\* An inhibitor on the disk, even one that a failed call may have left there,
\* is braked for and announced while the store is at fault.
THEOREM InhibitorBraked == Spec => []InhibitorIsBraked
<1>1. Inv => InhibitorIsBraked
  BY NewRuntimeFields DEF Inv, Started, Healthy, Braked, InhibitorIsBraked
<1>. QED
  BY <1>1, Invariance, PTL

LEMMA ReadyIsEvident ==
  ASSUME Inv PROVE ReadyFollowsLivePublisher
<1>. SUFFICES ASSUME rt.snap.ready PROVE ReadyFollowsLivePublisher
  BY DEF ReadyFollowsLivePublisher
<1>1. Healthy(rt, content) /\ rt \in Runtimes
  BY Cases, NewRuntimeFields DEF Faulty, Shut
<1>2. Ready(rt.gate)
  BY <1>1, RuntimeFields, HealthySnapshotType DEF Healthy
<1>. QED
  BY <1>2 DEF Inv, Evident, Ready, ReadyFollowsLivePublisher

\* Readiness is published only on a connected standstill that the publisher
\* which is current has reported.
THEOREM LivePublisher == Spec => []ReadyFollowsLivePublisher
<1>1. Inv => ReadyFollowsLivePublisher
  BY ReadyIsEvident
<1>. QED
  BY <1>1, Invariance, PTL

\* Nothing that is requested or observed withdraws a latched fault or changes
\* what is shown of it, and what is shown is closed.
THEOREM FaultStays == Spec => FaultIsFinal
<1>. DEFINE Kept ==
              /\ rt.fault => \/ rt' = NewRuntime
                             \/ rt'.fault /\ rt'.closed /\ rt'.snap = rt.snap
              /\ rt'.fault => /\ rt'.snap.closed /\ ~rt'.snap.ready
                              /\ rt'.snap.fault \/ rt'.cause = "exception"
<1>1. Inv /\ [Next]_vars => Kept
  <2>. SUFFICES ASSUME Inv, [Next]_vars PROVE Kept
    OBVIOUS
  <2>1. Inv' /\ FaultKept
    BY NextInv
  <2>2. ASSUME rt.fault
        PROVE  rt' = NewRuntime \/ (rt'.fault /\ rt'.closed /\ rt'.snap = rt.snap)
    <3>1. rt' \in {rt, NewRuntime, [rt EXCEPT !.aged = TRUE]}
      BY <2>1, <2>2 DEF FaultKept
    <3>2. Faulty(rt) /\ rt \in Runtimes
      BY <2>2, Cases
    <3>. QED
      BY <3>1, <3>2 DEF Faulty, Runtimes
  <2>3. ASSUME rt'.fault
        PROVE  /\ rt'.snap.closed /\ ~rt'.snap.ready
               /\ rt'.snap.fault \/ rt'.cause = "exception"
    <3>1. Faulty(rt')
      BY <2>1, <2>3, NewRuntimeFields DEF Inv, Started, Healthy
    <3>. QED
      BY <3>1 DEF Faulty, Shut
  <2>. QED
    BY <2>2, <2>3
<1>2. Kept => [Kept]_vars
  OBVIOUS
<1>. QED
  BY <1>1, <1>2, Invariance, PTL DEF Spec, FaultIsFinal

\* The tick after the freshness has run out withdraws readiness.
THEOREM StaleEnds == Spec => StaleReadinessEnds
<1>1. Inv => [rt.aged /\ rt'.snap.ready =>
                \A idle, throws \in BOOLEAN : ~PublishPeriodicState(idle, throws)]_vars
  BY TickInv
<1>. QED
  BY <1>1, Invariance, PTL DEF Spec, StaleReadinessEnds

-----------------------------------------------------------------------------
(* The publishers.  Only a sample changes the tracker.                     *)

HasTracker(r) == "tracker" \in DOMAIN r

\* h is r with fields other than the tracker changed.
SameTracker(h, r) == HasTracker(r) => HasTracker(h) /\ h.tracker = r.tracker

LEMMA FaultTracker ==
  ASSUME NEW r, NEW cause, NEW throws
  PROVE  /\ SameTracker(LatchEmergencyFault(r), r)
         /\ SameTracker(LatchStoreFault(r, cause, throws), r)
         /\ SameTracker(RefreshHealthySnapshot(r, throws), r)
         /\ SameTracker(RestoreAdmissionFromRecord(r, throws), r)
BY DEF SameTracker, HasTracker, LatchEmergencyFault, LatchStoreFault,
       RefreshHealthySnapshot, RestoreAdmissionFromRecord

LEMMA ClosingTracker ==
  ASSUME NEW r, HasTracker(r)
  PROVE  HasTracker(Closing(r)) /\ Closing(r).tracker = r.tracker
BY DEF HasTracker, Closing

LEMMA IdleTracker ==
  ASSUME NEW r, NEW idle, NEW throws, HasTracker(r)
  PROVE  SameTracker(IdleSet(r, idle, throws), r)
<1>. DEFINE g == WithMissionIdle(r.gate, idle)
            k == [r EXCEPT !.gate = g]
<1>1. IdleSet(r, idle, throws) \in {r, k, RefreshHealthySnapshot(k, throws)}
  BY DEF IdleSet
<1>. HIDE DEF g
<1>2. HasTracker(k) /\ k.tracker = r.tracker
  BY DEF HasTracker
<1>. HIDE DEF k
<1>3. SameTracker(RefreshHealthySnapshot(k, throws), k)
  BY FaultTracker
<1>. QED
  BY <1>1, <1>2, <1>3 DEF SameTracker

LEMMA EnableTracker ==
  ASSUME NEW r, NEW q, NEW o, NEW idle, NEW throws, NEW again, HasTracker(r)
  PROVE  SameTracker(EnabledBy(r, q, o, idle, throws, again), r)
<1>. DEFINE k == Closing(r)
            g == Requested(k.gate, o.record.last, idle)
            m == [k EXCEPT !.gate = g]
            n == [k EXCEPT !.gate = g, !.record = o.record]
            n1 == [k EXCEPT !.record = o.record]
            n2 == [m EXCEPT !.record = o.record]
            u == ApplyUncertainActivation(k, o, idle, throws)
            all == {k, u, n, n1}
            h == EnabledBy(r, q, o, idle, throws, again)
            no == FALSE
<1>1. HasTracker(k) /\ k.tracker = r.tracker
  BY ClosingTracker
<1>2. u \in {k, LatchEmergencyFault(m), LatchEmergencyFault(k),
             RefreshHealthySnapshot(n2, no), RefreshHealthySnapshot(n1, no)}
  BY DEF ApplyUncertainActivation
<1>3. \/ h = r
      \/ \E j \in all :
           h \in {RefreshHealthySnapshot(j, throws), LatchStoreFault(j, "inconsistent", throws),
                  LatchStoreFault(j, "store", again), RestoreAdmissionFromRecord(j, throws)}
  BY DEF EnabledBy
<1>. HIDE DEF k, g, u, h, no
<1>4. /\ HasTracker(m) /\ m.tracker = k.tracker
      /\ HasTracker(n) /\ n.tracker = k.tracker
      /\ HasTracker(n1) /\ n1.tracker = k.tracker
  BY <1>1 DEF HasTracker
<1>5. HasTracker(n2) /\ n2.tracker = m.tracker
  <2>. HIDE DEF m
  <2>. QED
    BY <1>4 DEF HasTracker
<1>. HIDE DEF m, n, n1, n2
<1>6. /\ SameTracker(LatchEmergencyFault(m), m) /\ SameTracker(LatchEmergencyFault(k), k)
      /\ SameTracker(RefreshHealthySnapshot(n2, no), n2)
      /\ SameTracker(RefreshHealthySnapshot(n1, no), n1)
  BY FaultTracker
<1>7. HasTracker(u) /\ u.tracker = r.tracker
  BY <1>1, <1>2, <1>4, <1>5, <1>6 DEF SameTracker
<1>8. \A j \in all : HasTracker(j) /\ j.tracker = r.tracker
  BY <1>1, <1>4, <1>7
<1>. HIDE DEF all
<1>9. SameTracker(h, r)
  BY <1>3, <1>8, FaultTracker DEF SameTracker
<1>. QED
  BY <1>9 DEF h

LEMMA DisableTracker ==
  ASSUME NEW r, NEW n, NEW o, NEW throws, HasTracker(r)
  PROVE  SameTracker(DisabledBy(r, n, o, throws), r)
<1>. DEFINE k == Closing(r)
            g == Released(k.gate, n)
            m == [k EXCEPT !.gate = g, !.record = o.record]
            all == {k, m}
            h == DisabledBy(r, n, o, throws)
<1>1. HasTracker(k) /\ k.tracker = r.tracker
  BY ClosingTracker
<1>2. \/ h = r
      \/ \E j \in all :
           h \in {RefreshHealthySnapshot(j, throws), LatchStoreFault(j, "inconsistent", throws),
                  LatchStoreFault(j, "store", throws), RestoreAdmissionFromRecord(j, throws)}
  BY DEF DisabledBy
<1>. HIDE DEF k, g, h
<1>3. HasTracker(m) /\ m.tracker = k.tracker
  BY <1>1 DEF HasTracker
<1>. HIDE DEF m
<1>4. \A j \in all : HasTracker(j) /\ j.tracker = r.tracker
  BY <1>1, <1>3
<1>. HIDE DEF all
<1>5. SameTracker(h, r)
  BY <1>2, <1>4, FaultTracker DEF SameTracker
<1>. QED
  BY <1>5 DEF h

LEMMA ObserverTracker ==
  ASSUME NEW r, NEW g, NEW throws, HasTracker(r), NEW k, k = [r EXCEPT !.gate = g],
         NEW h, h = RestoreAdmissionFromRecord(k, throws)
  PROVE  SameTracker(h, r)
<1>1. HasTracker(k) /\ k.tracker = r.tracker
  BY DEF HasTracker
<1>2. SameTracker(h, k)
  BY FaultTracker
<1>. QED
  BY <1>1, <1>2 DEF SameTracker

LEMMA FinalCommandTracker ==
  ASSUME NEW r, NEW x, NEW throws, HasTracker(r)
  PROVE  SameTracker(FinalCommandObserved(r, x, throws), r)
<1>. DEFINE g == AfterFinalCommand(r.gate, x)
            k == [r EXCEPT !.gate = g]
            h == RestoreAdmissionFromRecord(k, throws)
<1>1. FinalCommandObserved(r, x, throws) \in {r, h}
  BY DEF FinalCommandObserved
<1>. HIDE DEF g
<1>2. SameTracker(h, r)
  <2>1. k = [r EXCEPT !.gate = g] /\ h = RestoreAdmissionFromRecord(k, throws)
    OBVIOUS
  <2>. HIDE DEF k, h
  <2>. QED
    BY <2>1, ObserverTracker
<1>. HIDE DEF h
<1>. QED
  BY <1>1, <1>2 DEF SameTracker

LEMMA CommandStatusTracker ==
  ASSUME NEW r, NEW x, NEW throws, HasTracker(r)
  PROVE  SameTracker(CommandStatusObserved(r, x, throws), r)
<1>. DEFINE g == AfterCommandStatus(r.gate, x)
            k == [r EXCEPT !.gate = g]
            h == RestoreAdmissionFromRecord(k, throws)
<1>1. CommandStatusObserved(r, x, throws) \in {r, h}
  BY DEF CommandStatusObserved
<1>. HIDE DEF g
<1>2. SameTracker(h, r)
  <2>1. k = [r EXCEPT !.gate = g] /\ h = RestoreAdmissionFromRecord(k, throws)
    OBVIOUS
  <2>. HIDE DEF k, h
  <2>. QED
    BY <2>1, ObserverTracker
<1>. HIDE DEF h
<1>. QED
  BY <1>1, <1>2 DEF SameTracker

LEMMA RefreshedTracker ==
  ASSUME NEW r, NEW throws, HasTracker(r)
  PROVE  SameTracker(HardwareRefreshed(r, throws), r)
<1>. DEFINE g == AfterHardware(r.gate, [r.latest EXCEPT !.fresh = r.latest.fresh /\ ~r.aged])
            k == [r EXCEPT !.gate = g]
            h == RestoreAdmissionFromRecord(k, throws)
<1>1. HardwareRefreshed(r, throws) \in {r, h}
  BY DEF HardwareRefreshed
<1>. HIDE DEF g
<1>2. SameTracker(h, r)
  <2>1. k = [r EXCEPT !.gate = g] /\ h = RestoreAdmissionFromRecord(k, throws)
    OBVIOUS
  <2>. HIDE DEF k, h
  <2>. QED
    BY <2>1, ObserverTracker
<1>. HIDE DEF h
<1>. QED
  BY <1>1, <1>2 DEF SameTracker

LEMMA InitializedTracker ==
  ASSUME NEW r, NEW o, NEW idle, NEW throws, HasTracker(r)
  PROVE  SameTracker(Initialized(r, o, idle, throws), r)
<1>. DEFINE k == [r EXCEPT !.initialized = TRUE]
            g == Restored(r.gate, o.record.last, o.record.owner # Nobody, idle)
            m == [k EXCEPT !.gate = g, !.record = o.record]
            h == Initialized(r, o, idle, throws)
            f1 == LatchStoreFault(k, "store", throws)
            f2 == LatchStoreFault(k, "inconsistent", throws)
            f3 == RefreshHealthySnapshot(m, throws)
<1>1. h \in {r, f1, f2, f3}
  BY DEF Initialized
<1>2. HasTracker(k) /\ k.tracker = r.tracker
  BY DEF HasTracker
<1>. HIDE DEF k, g
<1>3. HasTracker(m) /\ m.tracker = k.tracker
  BY <1>2 DEF HasTracker
<1>. HIDE DEF m
<1>4. SameTracker(f1, k) /\ SameTracker(f2, k) /\ SameTracker(f3, m)
  BY FaultTracker
<1>. HIDE DEF f1, f2, f3
<1>. QED
  BY <1>1, <1>2, <1>3, <1>4 DEF SameTracker

\* A runtime at work after a step was at work before it with the same
\* tracker, or has just been started with a new one.
LEMMA OtherTracker ==
  ASSUME Inv, OtherStep \/ UNCHANGED vars, Available(rt')
  PROVE  \/ Available(rt) /\ rt'.tracker = rt.tracker
         \/ ~Available(rt) /\ rt'.tracker = NewTracker
<1>1. HasTracker(rt)
  BY Cases DEF Runtimes, HasTracker
<1>2. ASSUME rt.initialized, rt'.tracker = rt.tracker
      PROVE  Available(rt) /\ rt'.tracker = rt.tracker
  <2>1. FaultKept
    BY NextInv DEF Next
  <2>2. ~rt.fault
    <3>. SUFFICES ASSUME rt.fault PROVE FALSE
      OBVIOUS
    <3>1. rt' \in {rt, NewRuntime, [rt EXCEPT !.aged = TRUE]}
      BY <2>1 DEF FaultKept
    <3>2. rt \in Runtimes
      BY Cases
    <3>. QED
      BY <3>1, <3>2, NewRuntimeFields DEF Available, Runtimes
  <2>. QED
    BY <1>2, <2>2 DEF Available
<1>3. CASE Start
  <2>1. PICK o \in StoreResults(Load), throws \in BOOLEAN :
          rt' = Initialized(rt, o, TRUE, throws)
    BY <1>3 DEF Start
  <2>2. rt = NewRuntime /\ ~Available(rt)
    BY <1>3, Cases DEF Start
  <2>3. rt'.tracker = rt.tracker
    BY <1>1, <2>1, InitializedTracker DEF SameTracker
  <2>4. NewRuntime.tracker = NewTracker
    BY DEF NewRuntime
  <2>. QED
    BY <2>2, <2>3, <2>4
<1>4. CASE MissionChanges
  <2>1. rt'.tracker = rt.tracker
    BY <1>1, <1>4, IdleTracker DEF MissionChanges, SameTracker
  <2>. QED
    BY <1>2, <1>4, <2>1 DEF MissionChanges
<1>5. CASE OnEnable
  <2>1. PICK q \in Requester, idle \in BOOLEAN, throws \in BOOLEAN, again \in BOOLEAN :
          \/ rt' = Told(rt, idle)
          \/ \E o \in StoreResults(Activate(q)) :
               rt' = EnabledBy(Told(rt, idle), q, o, idle, throws, again)
    BY <1>5 DEF OnEnable, Told
  <2>2. HasTracker(Told(rt, idle)) /\ Told(rt, idle).tracker = rt.tracker
    BY <1>1, IdleTracker DEF SameTracker, Told
  <2>3. rt'.tracker = rt.tracker
    BY <2>1, <2>2, EnableTracker DEF SameTracker
  <2>. QED
    BY <1>2, <1>5, <2>3 DEF OnEnable
<1>6. CASE OnDisable
  <2>1. PICK q \in Requester, n \in Generations, idle \in BOOLEAN, throws \in BOOLEAN :
          \/ rt' = Told(rt, idle)
          \/ \E o \in StoreResults(ReleaseOf(n, q)) :
               rt' = DisabledBy(Told(rt, idle), n, o, throws)
    BY <1>6 DEF OnDisable, Told
  <2>2. HasTracker(Told(rt, idle)) /\ Told(rt, idle).tracker = rt.tracker
    BY <1>1, IdleTracker DEF SameTracker, Told
  <2>3. rt'.tracker = rt.tracker
    BY <2>1, <2>2, DisableTracker DEF SameTracker
  <2>. QED
    BY <1>2, <1>6, <2>3 DEF OnDisable
<1>7. CASE OnFinalCommand
  <2>1. rt'.tracker = rt.tracker
    BY <1>1, <1>7, FinalCommandTracker DEF OnFinalCommand, SameTracker
  <2>. QED
    BY <1>2, <1>7, <2>1 DEF OnFinalCommand
<1>8. CASE OnCommandStatus
  <2>1. rt'.tracker = rt.tracker
    BY <1>1, <1>8, CommandStatusTracker DEF OnCommandStatus, SameTracker
  <2>. QED
    BY <1>2, <1>8, <2>1 DEF OnCommandStatus
<1>9. CASE \E idle, throws \in BOOLEAN : PublishPeriodicState(idle, throws)
  <2>1. PICK idle \in BOOLEAN, throws \in BOOLEAN : PublishPeriodicState(idle, throws)
    BY <1>9
  <2>2. rt.initialized /\ rt' = HardwareRefreshed(Told(rt, idle), throws)
    BY <2>1 DEF PublishPeriodicState, Told
  <2>3. HasTracker(Told(rt, idle)) /\ Told(rt, idle).tracker = rt.tracker
    BY <1>1, IdleTracker DEF SameTracker, Told
  <2>4. rt'.tracker = rt.tracker
    BY <2>2, <2>3, RefreshedTracker DEF SameTracker
  <2>. QED
    BY <1>2, <2>2, <2>4
<1>10. CASE SampleAges
  <2>1. rt.initialized
    BY <1>10, Cases, NewRuntimeFields DEF SampleAges
  <2>2. rt'.tracker = rt.tracker
    BY <1>1, <1>10 DEF SampleAges, HasTracker
  <2>. QED
    BY <1>2, <2>1, <2>2
<1>11. CASE StoreInit \/ UNCHANGED vars
  BY <1>11 DEF StoreInit, vars
<1>12. CASE Crash \/ CrashInStore \/ PowerLoss
  BY <1>12, NewRuntimeFields DEF Crash, CrashInStore, PowerLoss, Available
<1>. QED
  BY <1>3, <1>4, <1>5, <1>6, <1>7, <1>8, <1>9, <1>10, <1>11, <1>12 DEF OtherStep

Full(hs) == Cardinality(hs) > MaximumEpoch \/ Cardinality(hs) > MaximumRetired + 1

\* The tracker's table against the publishers that were heard: as long as
\* there is room it holds them all, and the one that came last is current.
Enrolled(t, hs, last) ==
  /\ hs \subseteq Publisher /\ IsFiniteSet(hs)
  /\ t.current # NoPublisher => t.current \in hs
  /\ t.retired \subseteq hs
  /\ ~Full(hs) =>
       /\ hs = t.retired \cup ({t.current} \ {NoPublisher})
       /\ last = t.current /\ t.current \notin t.retired
       /\ t.epoch = Cardinality(hs)

Roll == IF Available(rt) THEN Enrolled(rt.tracker, heard, newest)
        ELSE heard = {} /\ newest = NoPublisher

LEMMA NewRoll == Enrolled(NewTracker, {}, NoPublisher)
BY FS_EmptySet DEF Enrolled, NewTracker

\* A publisher that was heard before is numbered or was never given a number.
LEMMA FamiliarRoll ==
  ASSUME NEW t \in Trackers, NEW hs, NEW last, Enrolled(t, hs, last),
         NEW p \in hs \cup {NoPublisher}
  PROVE  Enrolled(Observed(t, p), hs, last)
<1>1. CASE Verdict(t, p) # "accepted" \/ p = t.current
  <2>1. Observed(t, p) = t
    BY <1>1 DEF Observed
  <2>. QED
    BY <2>1
<1>2. CASE Verdict(t, p) = "accepted" /\ p # t.current
  <2>. DEFINE u == Observed(t, p)
  <2>1. u = Succeeds(t, p)
    BY <1>2 DEF Observed
  <2>2. /\ u.current = p /\ u.retired = t.retired \cup ({t.current} \ {NoPublisher})
    BY <2>1 DEF Succeeds
  <2>3. p \in hs /\ p \notin t.retired
    BY <1>2 DEF Verdict, Enrolled
  <2>4. Full(hs)
    BY <1>2, <2>3 DEF Enrolled
  <2>. HIDE DEF u
  <2>5. Enrolled(u, hs, last)
    BY <2>2, <2>3, <2>4 DEF Enrolled
  <2>. QED
    BY <2>5 DEF u
<1>. QED
  BY <1>1, <1>2

\* A newcomer is numbered as long as there is room.
LEMMA NewcomerRoll ==
  ASSUME NEW t \in Trackers, NEW hs, NEW last, Enrolled(t, hs, last),
         NEW p \in Publisher, p \notin hs, NEW all, all = hs \cup {p}
  PROVE  Enrolled(Observed(t, p), all, p)
<1>. DEFINE u == Observed(t, p)
<1>1. /\ t.current \in Publisher \cup {NoPublisher} /\ t.retired \subseteq Publisher
      /\ t.epoch \in 0 .. MaximumEpoch
  BY DEF Trackers
<1>2. /\ IsFiniteSet(hs) /\ hs \subseteq Publisher /\ IsFiniteSet(t.retired)
      /\ IsFiniteSet(all) /\ Cardinality(all) = Cardinality(hs) + 1
      /\ Cardinality(hs) \in Nat
  BY FS_AddElement, FS_Subset, FS_CardinalityType DEF Enrolled
<1>3. p # NoPublisher /\ p # t.current /\ p \notin t.retired
  BY PublisherAssumption, <1>1 DEF Enrolled
<1>4. /\ u \in {t, Succeeds(t, p)}
      /\ Verdict(t, p) = "accepted" => u = Succeeds(t, p)
  BY <1>3 DEF Observed
<1>5. /\ Succeeds(t, p).current = p /\ Succeeds(t, p).epoch = t.epoch + 1
      /\ Succeeds(t, p).retired = t.retired \cup ({t.current} \ {NoPublisher})
  BY DEF Succeeds
<1>. HIDE DEF u
<1>6. /\ all \subseteq Publisher
      /\ u.current # NoPublisher => u.current \in all
      /\ u.retired \subseteq all
  BY <1>2, <1>4, <1>5 DEF Enrolled
<1>7. ASSUME ~Full(all)
      PROVE  /\ all = u.retired \cup ({u.current} \ {NoPublisher})
             /\ p = u.current /\ u.current \notin u.retired
             /\ u.epoch = Cardinality(all)
  <2>1. /\ Cardinality(hs) + 1 <= MaximumEpoch /\ Cardinality(hs) <= MaximumRetired
        /\ ~Full(hs)
    BY <1>2, <1>7, MaximaAssumption DEF Full
  <2>2. /\ hs = t.retired \cup ({t.current} \ {NoPublisher})
        /\ t.current \notin t.retired /\ t.epoch = Cardinality(hs)
    BY <2>1 DEF Enrolled
  <2>3. t.current # NoPublisher => Cardinality(t.retired) < MaximumRetired
    <3>. SUFFICES ASSUME t.current # NoPublisher
                  PROVE  Cardinality(t.retired) < MaximumRetired
      OBVIOUS
    <3>1. hs = t.retired \cup {t.current}
      BY <2>2
    <3>2. Cardinality(hs) = Cardinality(t.retired) + 1 /\ Cardinality(t.retired) \in Nat
      BY <1>2, <2>2, <3>1, FS_AddElement, FS_CardinalityType
    <3>. QED
      BY <1>2, <2>1, <3>2, MaximaAssumption
  <2>4. Verdict(t, p) = "accepted"
    <3>1. ~(t.epoch >= MaximumEpoch)
      BY <1>2, <2>1, <2>2, MaximaAssumption
    <3>2. ~(t.current # NoPublisher /\ Cardinality(t.retired) >= MaximumRetired)
      BY <1>2, <2>3, FS_CardinalityType, MaximaAssumption
    <3>. QED
      BY <1>3, <3>1, <3>2 DEF Verdict
  <2>5. u.current = p /\ u.epoch = t.epoch + 1 /\ u.retired = hs
    BY <1>4, <1>5, <2>2, <2>4
  <2>. QED
    BY <1>2, <1>3, <2>2, <2>5
<1>8. Enrolled(u, all, p)
  BY <1>2, <1>6, <1>7 DEF Enrolled
<1>. QED
  BY <1>8 DEF u

\* The first sample of a session leaves no gate ready.
LEMMA NewcomerUnready ==
  ASSUME NEW g \in GateRecords, NEW s \in Samples,
         s.epoch = RevokedEpoch \/ g.epoch < s.epoch,
         NEW h, h = AfterHardware(g, s)
  PROVE  ~Ready(h)
<1>. DEFINE k == ResetHardwareConfirmation(g)
            e == EnterSession(g, s)
            count == IF e.zeroFrames = 2 THEN 2 ELSE e.zeroFrames + 1
            later == Later(s, e.lastFrame)
<1>1. k \in GateRecords /\ ~k.fresh /\ k.zeroFrames = 0 /\ k.acked = g.acked
  BY DEF ResetHardwareConfirmation, GateRecords
<1>2. CASE ~g.active \/ g.failure # "none"
  BY <1>2 DEF AfterHardware, Ready
<1>3. CASE g.active /\ g.failure = "none" /\ s.epoch = RevokedEpoch
  <2>1. h = [k EXCEPT !.observed = g.acked]
    BY <1>3 DEF AfterHardware
  <2>. HIDE DEF k
  <2>2. ~h.fresh
    BY <1>1, <2>1 DEF GateRecords
  <2>. QED
    BY <2>2 DEF Ready
<1>4. CASE g.active /\ g.failure = "none" /\ s.epoch # RevokedEpoch
  <2>1. g.epoch < s.epoch /\ ~(s.epoch < g.epoch) /\ s.epoch > g.epoch
    BY <1>4 DEF GateRecords, Samples
  <2>2. e = [k EXCEPT !.epoch = s.epoch, !.lastFrame = NoFrame]
    BY <2>1 DEF EnterSession
  <2>3. h = IF ~g.acked THEN [e EXCEPT !.lastFrame = later]
            ELSE IF ~SafeZero(s)
            THEN [e EXCEPT !.observed = TRUE, !.fresh = s.fresh, !.zero = s.zero,
                           !.zeroFrames = 0, !.lastFrame = later]
            ELSE IF s.seq <= e.lastFrame THEN e
            ELSE [e EXCEPT !.observed = TRUE, !.fresh = TRUE, !.zero = Outputs,
                           !.lastFrame = s.seq, !.zeroFrames = count]
    BY <1>4, <2>1 DEF AfterHardware
  <2>. HIDE DEF k
  <2>4. e \in GateRecords
    BY EnterSessionType
  <2>5. count = IF e.zeroFrames = 2 THEN 2 ELSE e.zeroFrames + 1
    OBVIOUS
  <2>. HIDE DEF e, later, count
  <2>6. e.zeroFrames = 0 /\ ~e.fresh
    BY <1>1, <2>2 DEF GateRecords
  <2>7. count = 1
    BY <2>5, <2>6
  <2>8. h.zeroFrames # 2
    BY <2>3, <2>4, <2>6, <2>7 DEF GateRecords
  <2>. QED
    BY <2>8 DEF Ready
<1>. QED
  BY <1>2, <1>3, <1>4

\* A newcomer is given a number higher than any the gate knows, or none.
LEMMA NewcomerNumber ==
  ASSUME NEW t \in Trackers, NEW p \in Publisher, p # t.current, p \notin t.retired
  PROVE  \/ Verdict(t, p) \notin {"accepted", "retired"}
         \/ /\ Verdict(t, p) = "accepted"
            /\ Observed(t, p) = Succeeds(t, p)
            /\ Observed(t, p).epoch = t.epoch + 1
BY PublisherAssumption DEF Verdict, Observed, Succeeds

\* After the sample of a newcomer nothing is published as ready.
LEMMA NewcomerStep ==
  ASSUME Inv, Enrolled(rt.tracker, heard, newest), Healthy(rt, content),
         NEW p \in Publisher, p \notin heard,
         NEW seq \in Nat, NEW connected \in BOOLEAN, NEW zero \in SUBSET Outputs,
         NEW throws \in BOOLEAN,
         rt' = HardwareObserved(rt, p, seq, connected, zero, throws)
  PROVE  ~rt'.snap.ready
<1>. DEFINE t == rt.tracker
            u == Observed(t, p)
            revoked == [NoSample EXCEPT !.seq = seq, !.zero = zero]
            evidence == [epoch |-> u.epoch, seq |-> seq, fresh |-> connected,
                         zero |-> zero]
            g == AfterHardware(rt.gate, revoked)
            k == [rt EXCEPT !.gate = g]
            g1 == AfterHardware(rt.gate, evidence)
            k1 == [rt EXCEPT !.tracker = u, !.latest = evidence, !.aged = FALSE, !.gate = g1]
<1>1. /\ rt \in Runtimes /\ t \in Trackers /\ rt.gate \in GateRecords /\ content \in Contents
      /\ Available(rt) /\ Evident(rt) /\ rt.gate.epoch <= t.epoch /\ Shut(rt.spare)
      /\ rt.record.code = "ok"
  BY Cases, RuntimeFields DEF Inv, Evident, Healthy, Available, Aligned
<1>2. t.epoch \in Nat /\ rt.gate.epoch \in Nat
  BY <1>1, MaximaAssumption DEF Trackers, GateRecords
<1>3. p # t.current /\ p \notin t.retired
  BY PublisherAssumption, <1>1 DEF Enrolled, Trackers
<1>4. revoked \in Samples /\ revoked.epoch = RevokedEpoch
  BY DEF NoSample, Samples, RevokedEpoch
<1>5. ASSUME NEW m \in Runtimes, ~Ready(m.gate), Shut(m.spare), m.record.code = "ok",
             rt' = RestoreAdmissionFromRecord(m, throws)
      PROVE  ~rt'.snap.ready
  <2>1. rt' = RefreshHealthySnapshot(m, throws)
    BY <1>5 DEF RestoreAdmissionFromRecord
  <2>2. /\ throws => rt'.snap = m.spare
        /\ ~throws => rt'.snap = HealthySnapshot(m.gate)
    BY <1>5, <2>1, RefreshShape
  <2>. QED
    BY <1>5, <2>2, RuntimeFields, HealthySnapshotType DEF Shut
<1>6. CASE Verdict(t, p) \notin {"accepted", "retired"}
  <2>1. rt' = RestoreAdmissionFromRecord(k, throws)
    BY <1>1, <1>6 DEF HardwareObserved
  <2>2. g = AfterHardware(rt.gate, revoked) /\ k = [rt EXCEPT !.gate = g]
    OBVIOUS
  <2>. HIDE DEF revoked, g, k
  <2>3. g \in GateRecords /\ ~Ready(g)
    BY <1>1, <1>4, <2>2, AfterHardwareType, NewcomerUnready
  <2>4. k \in Runtimes /\ k.gate = g /\ k.spare = rt.spare /\ k.record = rt.record
    BY <1>1, <2>2, <2>3, GateReplaced
  <2>. QED
    BY <1>1, <1>5, <2>1, <2>3, <2>4
<1>7. CASE Verdict(t, p) = "accepted"
  <2>1. u.epoch = t.epoch + 1 /\ u \in Trackers
    BY <1>1, <1>3, <1>7, NewcomerNumber, TrackerStep DEF Evident
  <2>2. rt' = RestoreAdmissionFromRecord(k1, throws)
    BY <1>1, <1>7 DEF HardwareObserved
  <2>. HIDE DEF u
  <2>3. evidence \in Samples /\ evidence.epoch = t.epoch + 1
    BY <1>2, <2>1 DEF Samples
  <2>4. /\ g1 = AfterHardware(rt.gate, evidence)
        /\ k1 = [rt EXCEPT !.tracker = u, !.latest = evidence, !.aged = FALSE, !.gate = g1]
    OBVIOUS
  <2>. HIDE DEF evidence, g1, k1, t
  <2>5. g1 \in GateRecords
    BY <1>1, <2>3, <2>4, AfterHardwareType
  <2>6. ~Ready(g1)
    <3>1. rt.gate.epoch < evidence.epoch
      BY <1>1, <1>2, <2>3
    <3>. QED
      BY <1>1, <2>3, <2>4, <3>1, NewcomerUnready
  <2>7. k1 \in Runtimes /\ k1.gate = g1 /\ k1.spare = rt.spare /\ k1.record = rt.record
    BY <1>1, <2>1, <2>3, <2>4, <2>5 DEF Runtimes
  <2>. QED
    BY <1>1, <1>5, <2>2, <2>6, <2>7
<1>. QED
  BY <1>3, <1>6, <1>7, <1>1, NewcomerNumber

\* The table agrees with who was heard, and newcomers are heeded.
LEMMA HeardStep ==
  ASSUME Inv, Roll, NEW p \in Publisher \cup {NoPublisher}, OnHardwareStatus(p), Hears(p)
  PROVE  Roll' /\ (newest' # newest => ~rt'.snap.ready)
<1>1. Inv'
  BY OnHardwareStatusInv
<1>2. ~Available(rt') => ~rt'.snap.ready
  BY <1>1, NewRuntimeFields DEF Inv, Started, Healthy, Faulty, Shut, Available
<1>3. CASE ~Available(rt')
  BY <1>2, <1>3 DEF Hears, Remembers, Forgets, Roll
<1>4. CASE Available(rt')
  <2>1. Available(rt)
    BY <1>4 DEF OnHardwareStatus
  <2>2. PICK seq \in Frame, connected \in BOOLEAN, throws \in BOOLEAN,
             zero \in SUBSET Outputs :
          rt' = HardwareObserved(rt, p, seq, connected, zero, throws)
    BY <2>1 DEF OnHardwareStatus
  <2>3. /\ Healthy(rt, content) /\ rt \in Runtimes /\ rt.tracker \in Trackers
        /\ Enrolled(rt.tracker, heard, newest) /\ seq \in Nat
    BY <2>1, Cases, RuntimeFields, RuntimeFrameAssumption DEF Roll
  <2>4. rt'.tracker = Observed(rt.tracker, p)
    <3>. DEFINE u == Observed(rt.tracker, p)
                revoked == [NoSample EXCEPT !.seq = seq, !.zero = zero]
                evidence == [epoch |-> u.epoch, seq |-> seq, fresh |-> connected,
                             zero |-> zero]
                g == AfterHardware(rt.gate, revoked)
                k == [rt EXCEPT !.gate = g]
                g1 == AfterHardware(rt.gate, evidence)
                k1 == [rt EXCEPT !.tracker = u, !.latest = evidence, !.aged = FALSE,
                                 !.gate = g1]
    <3>1. \/ Verdict(rt.tracker, p) # "accepted"
             /\ rt' \in {rt, RestoreAdmissionFromRecord(k, throws)}
          \/ rt' = RestoreAdmissionFromRecord(k1, throws)
      BY <2>1, <2>2 DEF HardwareObserved
    <3>2. Verdict(rt.tracker, p) # "accepted" => u = rt.tracker
      BY DEF Observed
    <3>. HIDE DEF u, revoked, evidence, g, g1
    <3>3. /\ HasTracker(k) /\ k.tracker = rt.tracker
          /\ HasTracker(k1) /\ k1.tracker = u
      BY <2>3 DEF Runtimes, HasTracker
    <3>. HIDE DEF k, k1
    <3>4. rt'.tracker = u
      BY <3>1, <3>2, <3>3, FaultTracker DEF SameTracker
    <3>. QED
      BY <3>4 DEF u
  <2>5. CASE p \in heard \cup {NoPublisher}
    <3>1. heard' = heard /\ newest' = newest
      BY <1>4, <2>5 DEF Hears, Remembers
    <3>2. Enrolled(Observed(rt.tracker, p), heard, newest)
      BY <2>3, <2>5, FamiliarRoll
    <3>. QED
      BY <1>4, <2>4, <3>1, <3>2 DEF Roll
  <2>6. CASE p \notin heard \cup {NoPublisher}
    <3>1. heard' = heard \cup {p} /\ newest' = p /\ p \in Publisher /\ p \notin heard
      BY <1>4, <2>6 DEF Hears
    <3>2. Enrolled(Observed(rt.tracker, p), heard', newest')
      BY <2>3, <3>1, NewcomerRoll
    <3>3. ~rt'.snap.ready
      BY <2>2, <2>3, <3>1, NewcomerStep
    <3>. QED
      BY <1>4, <2>4, <3>2, <3>3 DEF Roll
  <2>. QED
    BY <2>5, <2>6
<1>. QED
  BY <1>3, <1>4

LEMMA OtherRoll ==
  ASSUME Inv, Roll, \/ OtherStep /\ Remembers
                    \/ UNCHANGED pvars
  PROVE  Roll' /\ (newest' # newest => ~rt'.snap.ready)
<1>1. Inv' /\ (OtherStep \/ UNCHANGED vars)
  BY NextInv DEF Next, pvars, vars
<1>2. CASE ~Available(rt')
  <2>1. ~rt'.snap.ready
    BY <1>1, <1>2, NewRuntimeFields DEF Inv, Started, Healthy, Faulty, Shut, Available
  <2>2. heard' = {} /\ newest' = NoPublisher
    BY <1>2 DEF Remembers, Forgets, Roll, pvars
  <2>. QED
    BY <1>2, <2>1, <2>2 DEF Roll
<1>3. CASE Available(rt')
  <2>1. heard' = heard /\ newest' = newest
    BY <1>3 DEF Remembers, pvars
  <2>2. \/ Available(rt) /\ rt'.tracker = rt.tracker
        \/ ~Available(rt) /\ rt'.tracker = NewTracker
    BY <1>1, <1>3, OtherTracker
  <2>3. Enrolled(rt'.tracker, heard, newest)
    BY <2>2, NewRoll DEF Roll
  <2>. QED
    BY <1>3, <2>1, <2>3 DEF Roll
<1>. QED
  BY <1>2, <1>3

\* A hardware driver that appears withdraws readiness at once, and as long as
\* the table has room only the one that appeared last can earn it again.
THEOREM SuccessorsHeeded == PSpec => SuccessorsAreHeeded
<1>. DEFINE Heeded == /\ newest' # newest => ~rt'.snap.ready
                      /\ rt'.snap.ready =>
                           /\ ReadyFollowsLivePublisher'
                           /\ rt'.tracker.current = newest' \/ Crowded'
<1>1. PInit => Init /\ Roll
  BY NewRuntimeFields DEF PInit, Init, Roll, Available
<1>2. [PNext]_pvars => [Next]_vars
  BY DEF PNext, Next, pvars, vars
<1>3. PSpec => Spec
  BY <1>1, <1>2, PTL DEF PSpec, Spec
<1>4. Inv /\ Roll /\ [PNext]_pvars
        => Roll' /\ (newest' # newest => ~rt'.snap.ready)
  <2>. SUFFICES ASSUME Inv, Roll, [PNext]_pvars
                PROVE  Roll' /\ (newest' # newest => ~rt'.snap.ready)
    OBVIOUS
  <2>1. ASSUME NEW p \in Publisher \cup {NoPublisher}, OnHardwareStatus(p), Hears(p)
        PROVE  Roll' /\ (newest' # newest => ~rt'.snap.ready)
    BY <2>1, HeardStep
  <2>2. CASE (OtherStep /\ Remembers) \/ UNCHANGED pvars
    BY <2>2, OtherRoll
  <2>. QED
    BY <2>1, <2>2 DEF PNext
<1>5. PSpec => []Roll
  <2>1. Inv /\ Roll /\ [PNext]_pvars => Roll'
    BY <1>4
  <2>. QED
    BY <1>1, <1>3, <2>1, Invariance, PTL DEF PSpec
<1>. DEFINE Now == rt.snap.ready =>
                     /\ ReadyFollowsLivePublisher
                     /\ rt.tracker.current = newest \/ Crowded
<1>6. Inv /\ Roll => Now
  <2>. SUFFICES ASSUME Inv, Roll, rt.snap.ready PROVE Now
    OBVIOUS
  <2>1. Available(rt)
    BY Cases, NewRuntimeFields DEF Faulty, Shut
  <2>2. ReadyFollowsLivePublisher
    BY ReadyIsEvident
  <2>3. rt.tracker.current = newest \/ Crowded
    BY <2>1 DEF Roll, Enrolled, Full, Crowded
  <2>. QED
    BY <2>2, <2>3
<1>7. Inv /\ Roll /\ Now' /\ [PNext]_pvars => [Heeded]_pvars
  BY <1>4
<1>8. PSpec => []Now
  BY <1>3, <1>5, <1>6, Invariance, PTL
<1>9. PSpec => [][Heeded]_pvars
  BY <1>3, <1>5, <1>7, <1>8, Invariance, PTL DEF PSpec
<1>. QED
  BY <1>9 DEF SuccessorsAreHeeded
=============================================================================
