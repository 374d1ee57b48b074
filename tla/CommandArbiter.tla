---------------------------- MODULE CommandArbiter ----------------------------
(***************************************************************************)
(* The command arbiter as a state machine.  Its topics are not ordered     *)
(* with respect to one another, a message may be delivered late, and the   *)
(* configuration arrives at some time after the node has started.          *)
(*                                                                         *)
(* The history variable heard records what was delivered, independently of *)
(* what the arbiter makes of it.                                           *)
(***************************************************************************)
EXTENDS CommandArbiterOps

CONSTANT Generation  \* maintenance generations
ASSUME GenerationAssumption == Generation \subseteq Nat

VARIABLES arbiter, heard

vars == <<arbiter, heard>>

\* stops: emergency stops, delivered after the configuration, that no newer
\* intent has answered; intent: the source that last showed intent; released:
\* generations whose clamp was lifted.
Histories ==
  [stops : SUBSET Stamp, intent : Operators \cup {Nobody}, released : SUBSET Generation]

NothingHeard == [stops |-> {}, intent |-> Nobody, released |-> {}]

\* What the nodes publish: stop and safety commands never move the vehicle.
Inputs(s) == {cmd \in Commands : s \in {"emergency", "safety"} => ~cmd.moves}

Init == arbiter = NewArbiter /\ heard = NothingHeard

Clamped == arbiter.coordinator.gate.active

\* An intent counts when the arbiter may act on it: it is configured, no
\* maintenance is in force, and no stop is newer.
Answers(s, cmd) ==
  /\ s \in Operators /\ cmd.active /\ cmd.intent
  /\ arbiter.configured /\ ~Clamped
  /\ \A t \in heard.stops : cmd.stamp > t

Command(s, cmd) ==
  /\ arbiter' = OnCommand(arbiter, s, cmd)
  /\ heard' = IF StopsVehicle(s, cmd) /\ arbiter.configured
              THEN [heard EXCEPT !.stops = @ \cup {cmd.stamp}, !.intent = Nobody]
              ELSE IF Answers(s, cmd) THEN [heard EXCEPT !.stops = {}, !.intent = s]
              ELSE heard

Brush(enabled, intent) ==
  /\ arbiter' = OnBrush(arbiter, enabled, intent)
  /\ UNCHANGED heard

MaintenanceState(active, generation, p) ==
  /\ arbiter' = OnMaintenanceState(arbiter, active, generation, p)
  /\ heard' = [heard EXCEPT
                 !.intent = IF arbiter'.coordinator.gate # arbiter.coordinator.gate
                            THEN Nobody ELSE @,
                 !.released = IF Clamped /\ ~arbiter'.coordinator.gate.active
                              THEN @ \cup {arbiter.coordinator.gate.generation} ELSE @]

Configure ==
  /\ ~arbiter.configured
  /\ arbiter' = Configured(arbiter)
  /\ UNCHANGED heard

\* No message from an operator for as long as its lease.
LeaseExpires(s) ==
  /\ arbiter.core.slots[s].leased
  /\ arbiter' = LeaseExpired(arbiter, s)
  /\ UNCHANGED heard

\* The timer, every 50 ms.
Tick ==
  /\ arbiter' = PublishedIfChanged(arbiter)
  /\ UNCHANGED heard

Next ==
  \/ \E s \in Source : \E cmd \in Inputs(s) : Command(s, cmd)
  \/ \E enabled, intent \in BOOLEAN : Brush(enabled, intent)
  \/ \E active \in BOOLEAN, generation \in Generation,
        p \in Publisher \cup {NoPublisher} : MaintenanceState(active, generation, p)
  \/ Configure
  \/ \E s \in Source \cap Operators : LeaseExpires(s)
  \/ Tick

Spec == Init /\ [][Next]_vars
FairSpec == Spec /\ WF_vars(Tick)

-----------------------------------------------------------------------------
TypeOK == arbiter \in Arbiters /\ heard \in Histories

\* After an emergency stop nothing moves and the brush is off until an
\* operator command with intent, issued later than every stop, arrives,
\* whatever is replayed, released or renewed in between (update, output).
StopHolds ==
  heard.stops # {} => ~arbiter.last.moves /\ ~arbiter.last.brush

\* The vehicle moves for the operator source that last showed intent, never
\* for one that merely goes on sending (operator_mode_).
MotionIsByLastIntent ==
  arbiter.last.moves /\ arbiter.last.from \in Operators
  => heard.intent \in {Nobody, arbiter.last.from}

\* As soon as the gate is known to be closed the last command published is
\* the brake of its generation, or that of an arbiter without configuration,
\* also when the state came before the configuration (set_maintenance,
\* applyCachedMaintenanceState).
ClampIsPublished ==
  Clamped =>
    /\ ~arbiter.last.moves /\ ~arbiter.last.brush
    /\ arbiter.configured =>
         /\ arbiter.last.from = "maintenance"
         /\ arbiter.last.request = arbiter.coordinator.gate.generation

\* A maintenance state that is replayed, or comes from a publisher that was
\* replaced, never closes the gate for a generation that was released.
ReleasedStaysReleased ==
  Clamped => arbiter.coordinator.gate.generation \notin heard.released

\* When the leases of all operators have run out, the motion they commanded
\* ends or somebody commands again ("brakes when the lease has expired").
LeasedMotionEnds ==
  (arbiter.last.moves /\ arbiter.last.from \in Operators
   /\ \A s \in Source \cap Operators : ~arbiter.core.slots[s].leased)
  ~> (~arbiter.last.moves
      \/ \E s \in Source \cap Operators : arbiter.core.slots[s].leased)

=============================================================================
