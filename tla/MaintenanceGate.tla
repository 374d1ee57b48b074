-------------------------- MODULE MaintenanceGate --------------------------
(***************************************************************************)
(* The maintenance gate as a state machine: its owner may restore, request *)
(* and release it and report whether the mission is idle, and the three    *)
(* evidence streams (final commands, command statuses, hardware samples)   *)
(* reach it in any order, repeated, late, or from a session that ended:    *)
(* the three topics are not ordered with respect to one another.           *)
(*                                                                         *)
(* The history variable seen records what was delivered since the gate was *)
(* last restored, requested or released, independently of what the gate    *)
(* makes of it.  The properties relate the gate to that history.           *)
(***************************************************************************)
EXTENDS MaintenanceGateOps

CONSTANTS Generation,  \* generations a caller may name
          Epoch,       \* publisher sessions the epoch tracker may number
          Frame,       \* frame sequence numbers of the lower machine
          InputStates  \* statuses delivered; the gate treats refusals alike

ASSUME GenerationAssumption == Generation \subseteq Nat
ASSUME EpochAssumption == Epoch \subseteq Nat \ {0}
ASSUME FrameAssumption == Frame \subseteq Nat
ASSUME InputStatesAssumption == InputStates \subseteq StatusStates

VARIABLES gate,  \* the fields of class MaintenanceGate
          seen   \* history: the evidence delivered for the current request

vars == <<gate, seen>>

CommandInputs == [generation : Generation, id : CommandId \cup {NoCommand}, safe : BOOLEAN]
StatusInputs ==
  [generation : Generation, id : CommandId \cup {NoCommand}, state : InputStates]
SampleInputs ==
  [epoch : Epoch \cup {RevokedEpoch}, seq : Frame, fresh : BOOLEAN, zero : SUBSET Outputs]

NoFinal == [generation |-> 0, id |-> NoCommand, safe |-> FALSE]

\* acks, fails: command ids acknowledged, refused; final: the last command;
\* newest: the highest frame of each session; barred: newest as it was when
\* the confirmation last had to start over; after: safe samples since then.
Histories ==
  [acks : SUBSET CommandId, fails : SUBSET CommandId,
   final : FinalCommands,
   newest : [Epoch -> Frame \cup {NoFrame}],
   barred : [Epoch -> Frame \cup {NoFrame}],
   after : SUBSET (Epoch \X Frame)]

NothingSeen ==
  [acks |-> {}, fails |-> {}, final |-> NoFinal,
   newest |-> [e \in Epoch |-> NoFrame], barred |-> [e \in Epoch |-> NoFrame],
   after |-> {}]

StartOver(h) == [h EXCEPT !.barred = h.newest, !.after = {}]

\* The confirmation starts over when the gate takes a new acknowledgement;
\* the frames of a failed request are not recorded.
IfNewlyAcked(h) ==
  IF gate'.failure # "none"
  THEN [NothingSeen EXCEPT !.acks = h.acks, !.fails = h.fails, !.final = h.final]
  ELSE IF gate'.acked /\ (~gate.acked \/ gate'.commandId # gate.commandId)
  THEN StartOver(h) ELSE h

ForThisRequest(generation) == gate.active /\ generation = gate.generation

-----------------------------------------------------------------------------
Init ==
  /\ gate = NewGate
  /\ seen = NothingSeen

Restore(last, isActive, idle) ==
  /\ gate' = Restored(gate, last, isActive, idle)
  /\ seen' = IF CanRestore(gate, last, isActive) THEN NothingSeen ELSE seen

Request(generation, idle) ==
  /\ gate' = Requested(gate, generation, idle)
  /\ seen' = IF CanRequest(gate, generation) THEN NothingSeen ELSE seen

Release(generation) ==
  /\ gate' = Released(gate, generation)
  /\ seen' = IF CanRelease(gate, generation) THEN NothingSeen ELSE seen

SetMissionIdle(idle) ==
  /\ gate' = WithMissionIdle(gate, idle)
  /\ UNCHANGED seen

ObserveFinalCommand(cmd) ==
  /\ gate' = AfterFinalCommand(gate, cmd)
  /\ seen' = IF ForThisRequest(cmd.generation)
             THEN IfNewlyAcked([seen EXCEPT !.final = cmd])
             ELSE seen

Recorded(st) ==
  [seen EXCEPT
     !.acks  = IF st.state \in AckStates THEN @ \cup ({st.id} \cap CommandId) ELSE @,
     !.fails = IF st.state \in FailureStates THEN @ \cup ({st.id} \cap CommandId) ELSE @]

ObserveCommandStatus(st) ==
  /\ gate' = AfterCommandStatus(gate, st)
  /\ seen' = IF ForThisRequest(st.generation) THEN IfNewlyAcked(Recorded(st)) ELSE seen

\* A sample of a session that is over proves nothing either way.  A sample
\* that comes before the acknowledgement, or is not a fresh zero, bars every
\* frame up to the newest one from counting.
Sampled(s) ==
  LET newest == [e \in Epoch |-> IF e = s.epoch THEN Later(s, seen.newest[e])
                                 ELSE seen.newest[e]]
      h == [seen EXCEPT !.newest = newest]
  IN  IF s.epoch # RevokedEpoch /\ s.epoch < gate.epoch THEN h
      ELSE IF ~gate.acked \/ ~SafeZero(s) \/ s.epoch = RevokedEpoch THEN StartOver(h)
      ELSE [h EXCEPT !.after = @ \cup {<<s.epoch, s.seq>>}]

ObserveHardware(s) ==
  /\ gate' = AfterHardware(gate, s)
  /\ seen' = IF gate.active /\ gate.failure = "none" THEN Sampled(s) ELSE seen

Next ==
  \/ \E last \in Generation, isActive, idle \in BOOLEAN : Restore(last, isActive, idle)
  \/ \E generation \in Generation, idle \in BOOLEAN : Request(generation, idle)
  \/ \E generation \in Generation : Release(generation)
  \/ \E idle \in BOOLEAN : SetMissionIdle(idle)
  \/ \E cmd \in CommandInputs : ObserveFinalCommand(cmd)
  \/ \E st \in StatusInputs : ObserveCommandStatus(st)
  \/ \E s \in SampleInputs : ObserveHardware(s)

Spec == Init /\ [][Next]_vars

-----------------------------------------------------------------------------
\* The fields of the gate keep their types; at most two zero frames count.
TypeOK == gate \in GateRecords /\ seen \in Histories

\* A ready gate has braked under the command the arbiter last published for
\* this request, and whatever order the command and its statuses arrived in,
\* that command was acknowledged and never refused (observeCommandStatus,
\* rememberPendingStatus, applyPendingStatus).
ReadyIsCorrelated ==
  Ready(gate) =>
    /\ seen.final.safe
    /\ seen.final.id = gate.commandId
    /\ gate.commandId \in seen.acks \ seen.fails

\* A ready gate has seen, in the current publisher session, two distinct
\* fresh zero frames, both newer than every frame that arrived before the
\* brake was acknowledged or up to the last contrary sample
\* (observeHardware: pre-ack, duplicate, late and retired frames).
ReadyIsConfirmed ==
  Ready(gate) =>
    \E a, b \in seen.after :
      /\ a[1] = gate.epoch /\ b[1] = gate.epoch
      /\ seen.barred[gate.epoch] < a[2]
      /\ a[2] < b[2]

\* Once a brake has failed, no evidence revives the request: the failure is
\* the same until the gate is released or requested anew (latchFailure).
FailsClosed ==
  [][gate.failure # "none" /\ gate'.generation = gate.generation
     => gate'.failure = gate.failure /\ ~Ready(gate')]_vars

\* Statuses travel on another topic than commands.  A status that comes just
\* before its brake command has the effect it has just after it, as long as
\* there is room to remember it (rememberPendingStatus, applyPendingStatus).
StatusOrderIsIrrelevant ==
  \A cmd \in CommandInputs, st \in StatusInputs :
    (/\ SafeBrake(cmd)
     /\ st.id = cmd.id
     /\ st.generation = cmd.generation
     /\ Cardinality({c \in CommandId : gate.pending[c] # "none"}) < PendingCapacity)
    => LET statusFirst  == AfterFinalCommand(AfterCommandStatus(gate, st), cmd)
           commandFirst == AfterCommandStatus(AfterFinalCommand(gate, cmd), st)
       IN  /\ statusFirst.acked = commandFirst.acked
           /\ (statusFirst.failure = "none") = (commandFirst.failure = "none")
           /\ Ready(statusFirst) = Ready(commandFirst)
=============================================================================
