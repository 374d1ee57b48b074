-------------------------- MODULE CommandArbiterOps --------------------------
(***************************************************************************)
(* The command arbiter of cleanbot_control as a value: the core with its   *)
(* slots, leases, software stop and operator mode; the maintenance gate    *)
(* cache; the coordinator that tells the mission manager's sessions apart; *)
(* and the node that publishes what the core puts out when it changes.     *)
(*                                                                         *)
(* Abstractions of the data: a command is its stamp, its flags and whether *)
(* it moves the vehicle or brakes; a slot knows whether its lease is still *)
(* running; the brush is on or off.  Every publisher in the repository     *)
(* stamps its commands, so the comparison by command id, for commands      *)
(* without a stamp, is left out.                                           *)
(***************************************************************************)
EXTENDS Naturals, PublisherEpochs

CONSTANTS Source,  \* the command topics in use
          Stamp    \* stamps of the publishers' clock, in milliseconds

\* The order in which output() asks the slots.
Rank == [emergency |-> 1, safety |-> 2, manual |-> 3, mission |-> 4, vision |-> 5]
Operators == {"manual", "mission", "vision"}
ASSUME SourceAssumption == Source \subseteq DOMAIN Rank
ASSUME StampAssumption == Stamp \subseteq Nat \ {0}

Nobody == "nobody"

Commands == [stamp : Stamp, active : BOOLEAN, intent : BOOLEAN, moves : BOOLEAN]
Slots == [present : BOOLEAN, moves : BOOLEAN, leased : BOOLEAN]
Caches == [known : BOOLEAN, active : BOOLEAN, generation : Nat]
Cores ==
  [slots : [Source -> Slots], stopped : BOOLEAN, boundary : Stamp \cup {0},
   mode : (Operators \cap Source) \cup {Nobody}, brush : BOOLEAN, gate : Caches]

\* from: the source of the command in force, or why there is none.
Outputs ==
  [from : Source \cup {"config", "maintenance", "stop", "brush_only", "idle"},
   request : Nat, moves : BOOLEAN, brush : BOOLEAN]

Empty == [present |-> FALSE, moves |-> FALSE, leased |-> FALSE]
NewCache == [known |-> FALSE, active |-> FALSE, generation |-> 0]
NewCore ==
  [slots |-> [s \in Source |-> Empty], stopped |-> FALSE, boundary |-> 0,
   mode |-> Nobody, brush |-> FALSE, gate |-> NewCache]

-----------------------------------------------------------------------------
(* MaintenanceGateCache.                                                   *)

\* Mutant of CacheAccepts: a generation that was released may clamp again.
AcceptsReleased(g, active, generation) ==
  /\ generation # 0
  /\ IF active THEN g.known => generation >= g.generation
     ELSE g.known /\ g.active /\ generation = g.generation

\* A newer generation clamps; only its own release lifts it.
CacheAccepts(g, active, generation) ==
  /\ generation # 0
  /\ IF active
     THEN g.known => \/ generation > g.generation
                     \/ g.active /\ generation = g.generation
     ELSE g.known /\ g.active /\ generation = g.generation

CacheUpdated(g, active, generation) ==
  IF CacheAccepts(g, active, generation)
  THEN [known |-> TRUE, active |-> active, generation |-> generation]
  ELSE g

-----------------------------------------------------------------------------
(* CommandArbiterCore.                                                     *)

Cleared(c, sources) ==
  [c EXCEPT !.slots = [s \in Source |-> IF s \in sources THEN Empty ELSE c.slots[s]]]

Stopped(c, stamp) ==
  [Cleared(c, Source) EXCEPT
     !.stopped = TRUE, !.brush = FALSE, !.mode = Nobody,
     !.boundary = IF stamp > c.boundary THEN stamp ELSE c.boundary]

\* Mutant of IsNewerThanStop: the stamp is not compared.
AnyIntent(c, cmd) == TRUE

IsNewerThanStop(c, cmd) == cmd.stamp > c.boundary

\* Mutant of Admits: commands without intent pass whoever is in control.
AdmitsAnySource(c, s, cmd) ==
  c.stopped => s \in Operators /\ cmd.intent /\ IsNewerThanStop(c, cmd)

\* After a stop only a newer operator command with intent is admitted; an
\* operator command without intent only from the source in control.
Admits(c, s, cmd) ==
  IF c.stopped THEN s \in Operators /\ cmd.intent /\ IsNewerThanStop(c, cmd)
  ELSE s \in Operators /\ ~cmd.intent => c.mode \in {Nobody, s}

\* The operator who shows intent takes over from the others.
TakenOver(c, s, cmd) ==
  IF s \in Operators /\ cmd.intent
  THEN [Cleared(c, Operators) EXCEPT !.stopped = FALSE, !.mode = s]
  ELSE c

StopsVehicle(s, cmd) == s = "emergency" /\ cmd.active /\ ~cmd.moves

Accepts(c, s, cmd) ==
  \/ StopsVehicle(s, cmd)
  \/ ~c.gate.active /\ (cmd.active => Admits(c, s, cmd))

CommandUpdated(c, s, cmd) ==
  IF StopsVehicle(s, cmd) THEN Stopped(c, cmd.stamp)
  ELSE IF ~Accepts(c, s, cmd) THEN c
  ELSE IF ~cmd.active THEN [c EXCEPT !.slots[s].present = FALSE]
  ELSE [TakenOver(c, s, cmd) EXCEPT
          !.slots[s] = [present |-> TRUE, moves |-> cmd.moves, leased |-> TRUE]]

BrushSet(c, enabled, intent) ==
  IF c.gate.active \/ (~intent /\ c.stopped) THEN c ELSE [c EXCEPT !.brush = enabled]

MaintenanceSet(c, active, generation) ==
  LET updated == [c EXCEPT !.gate = CacheUpdated(c.gate, active, generation)]
  IN  IF ~CacheAccepts(c.gate, active, generation) THEN c
      ELSE IF active = c.gate.active /\ generation = c.gate.generation THEN updated
      ELSE [Cleared(updated, Source) EXCEPT !.mode = Nobody, !.brush = FALSE]

\* Mutant of SlotActive: the lease of an operator never ends.
SlotPresent(c, s) == c.slots[s].present

\* Only the slots of operators are leased.
SlotActive(c, s) == c.slots[s].present /\ (s \in Operators => c.slots[s].leased)

Braking(from) == [from |-> from, request |-> 0, moves |-> FALSE, brush |-> FALSE]

\* The active slot that comes first wins; braking, it turns the brush off.
Output(c) ==
  LET contenders == {s \in Source : SlotActive(c, s)}
      winner == CHOOSE s \in contenders : \A t \in contenders : Rank[s] <= Rank[t]
      moves  == c.slots[winner].moves
  IN  IF c.gate.active
      THEN [Braking("maintenance") EXCEPT !.request = c.gate.generation]
      ELSE IF c.stopped THEN Braking("stop")
      ELSE IF contenders # {}
      THEN [Braking(winner) EXCEPT !.moves = moves, !.brush = moves /\ c.brush]
      ELSE IF c.brush THEN [Braking("brush_only") EXCEPT !.brush = TRUE]
      ELSE Braking("idle")

-----------------------------------------------------------------------------
(* MaintenancePublisherCoordinator.                                        *)

Coordinators == [gate : Caches, tracker : Trackers, tracked : BOOLEAN]
NewCoordinator == [gate |-> NewCache, tracker |-> NewTracker, tracked |-> FALSE]

RepeatsRelease(k, active, generation, p) ==
  /\ p # NoPublisher /\ p = k.tracker.current
  /\ k.gate.known /\ ~k.gate.active
  /\ ~active /\ generation = k.gate.generation

\* A publisher without an identity may only open the gate, and only as long
\* as no publisher with one has been heard.
Heard(k, active, generation, p) ==
  IF Verdict(k.tracker, p) = "invalid"
  THEN ~k.tracked /\ active /\ CacheAccepts(k.gate, TRUE, generation)
  ELSE /\ k.tracked \/ active
       /\ \/ RepeatsRelease(k, active, generation, p)
          \/ /\ Verdict(k.tracker, p) = "accepted"
             /\ CacheAccepts(k.gate, active, generation)

Coordinated(k, active, generation, p) ==
  IF ~Heard(k, active, generation, p) \/ RepeatsRelease(k, active, generation, p) THEN k
  ELSE IF p = NoPublisher
  THEN [k EXCEPT !.gate = CacheUpdated(k.gate, active, generation)]
  ELSE [gate |-> CacheUpdated(k.gate, active, generation),
        tracker |-> Observed(k.tracker, p), tracked |-> TRUE]

\* force_republish: a new session is told of the clamp once more.
ForcesRepublish(k, active, generation, p) ==
  /\ Heard(k, active, generation, p)
  /\ p # NoPublisher /\ p # k.tracker.current
  /\ CacheUpdated(k.gate, active, generation).active

-----------------------------------------------------------------------------
(* CommandArbiterNode.                                                     *)

NoOutput == [Braking("idle") EXCEPT !.moves = TRUE, !.brush = TRUE]

Arbiters ==
  [configured : BOOLEAN, core : Cores, coordinator : Coordinators,
   cached : [active : BOOLEAN, generation : Nat], last : Outputs]

InForce(a) == IF a.configured THEN Output(a.core) ELSE Braking("config")

\* publishIfChanged: last is both last_output_ and what was last published;
\* Publishes says that a message is sent.
Publishes(a) == a.last # InForce(a)
PublishedIfChanged(a) == [a EXCEPT !.last = InForce(a)]

NewArbiter ==
  PublishedIfChanged(
    [configured |-> FALSE, core |-> NewCore, coordinator |-> NewCoordinator,
     cached |-> [active |-> FALSE, generation |-> 0], last |-> NoOutput])

OnCommand(a, s, cmd) ==
  IF ~a.configured THEN PublishedIfChanged(a)
  ELSE IF Accepts(a.core, s, cmd)
  THEN PublishedIfChanged([a EXCEPT !.core = CommandUpdated(@, s, cmd)])
  ELSE a

OnBrush(a, enabled, intent) ==
  PublishedIfChanged(
    IF a.configured THEN [a EXCEPT !.core = BrushSet(@, enabled, intent)] ELSE a)

\* A message that is not heard changes nothing; one that comes before the
\* configuration is cached for the core that is yet to be built.
OnMaintenanceState(a, active, generation, p) ==
  LET heard == [a EXCEPT !.coordinator = Coordinated(@, active, generation, p),
                         !.cached = [active |-> active, generation |-> generation]]
  IN  IF ~Heard(a.coordinator, active, generation, p) THEN a
      ELSE IF ~a.configured THEN heard
      ELSE PublishedIfChanged([heard EXCEPT !.core = MaintenanceSet(@, active, generation)])

\* Mutant of Configured: the maintenance state heard so far is not applied.
ConfiguredUnaware(a) ==
  IF a.configured THEN a
  ELSE PublishedIfChanged([a EXCEPT !.core = NewCore, !.configured = TRUE])

\* configure: the core is built once, with the maintenance state heard so far.
Configured(a) ==
  LET core == IF a.coordinator.gate.known
              THEN MaintenanceSet(NewCore, a.cached.active, a.cached.generation)
              ELSE NewCore
  IN  IF a.configured THEN a
      ELSE PublishedIfChanged([a EXCEPT !.core = core, !.configured = TRUE])

LeaseExpired(a, s) == [a EXCEPT !.core.slots[s].leased = FALSE]
=============================================================================
