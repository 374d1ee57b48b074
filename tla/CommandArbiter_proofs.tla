------------------------- MODULE CommandArbiter_proofs -------------------------
(***************************************************************************)
(* Proofs about the command arbiter, for any sources, stamps, generations  *)
(* and publishers.                                                         *)
(***************************************************************************)
EXTENDS CommandArbiter, TLAPS

-----------------------------------------------------------------------------
(* What the core puts out.                                                 *)

LEMMA CoreFields ==
  ASSUME NEW c \in Cores
  PROVE  /\ c.slots \in [Source -> Slots] /\ c.stopped \in BOOLEAN
         /\ c.boundary \in Stamp \cup {0} /\ c.boundary \in Nat
         /\ c.mode \in (Operators \cap Source) \cup {Nobody} /\ c.brush \in BOOLEAN
         /\ c.gate \in Caches
         /\ c.gate.active \in BOOLEAN /\ c.gate.known \in BOOLEAN /\ c.gate.generation \in Nat
<1>1. /\ c.slots \in [Source -> Slots] /\ c.stopped \in BOOLEAN
      /\ c.boundary \in Stamp \cup {0} /\ c.gate \in Caches
      /\ c.mode \in (Operators \cap Source) \cup {Nobody} /\ c.brush \in BOOLEAN
  BY DEF Cores
<1>2. c.boundary \in Nat
  <2>1. Stamp \cup {0} \subseteq Nat
    BY StampAssumption
  <2>. QED
    BY <1>1, <2>1
<1>3. c.gate.active \in BOOLEAN /\ c.gate.known \in BOOLEAN /\ c.gate.generation \in Nat
  BY <1>1 DEF Caches
<1>. QED
  BY <1>1, <1>2, <1>3

First(S) == CHOOSE s \in S : \A t \in S : Rank[s] <= Rank[t]

\* The ranks order the sources, so that one of the contenders comes first.
LEMMA FirstExists == ASSUME NEW S \in SUBSET Source, S # {} PROVE First(S) \in S
<1>1. \E s \in S : \A t \in S : Rank[s] <= Rank[t]
  <2>1. /\ Rank["emergency"] = 1 /\ Rank["safety"] = 2 /\ Rank["manual"] = 3
        /\ Rank["mission"] = 4 /\ Rank["vision"] = 5
        /\ S \subseteq {"emergency", "safety", "manual", "mission", "vision"}
    BY SourceAssumption DEF Rank
  <2>2. CASE "emergency" \in S
    BY <2>1, <2>2
  <2>3. CASE "emergency" \notin S /\ "safety" \in S
    BY <2>1, <2>3
  <2>4. CASE "emergency" \notin S /\ "safety" \notin S /\ "manual" \in S
    BY <2>1, <2>4
  <2>5. CASE S \subseteq {"mission", "vision"} /\ "mission" \in S
    BY <2>1, <2>5
  <2>6. CASE S \subseteq {"vision"}
    <3>1. S = {"vision"}
      BY <2>6
    <3>. QED
      BY <2>1, <3>1
  <2>. QED
    BY <2>1, <2>2, <2>3, <2>4, <2>5, <2>6
<1>. QED
  BY <1>1 DEF First

LEMMA OutputShape ==
  ASSUME NEW c \in Cores
  PROVE  /\ Output(c) \in Outputs
         /\ c.gate.active => /\ Output(c).from = "maintenance"
                             /\ Output(c).request = c.gate.generation
         /\ c.gate.active \/ c.stopped => ~Output(c).moves /\ ~Output(c).brush
         /\ Output(c).moves =>
              Output(c).from \in Source /\ c.slots[Output(c).from].present
<1>. DEFINE contenders == {s \in Source : SlotActive(c, s)}
            winner == First(contenders)
            moves == c.slots[winner].moves
<1>1. Output(c) =
        IF c.gate.active THEN [Braking("maintenance") EXCEPT !.request = c.gate.generation]
        ELSE IF c.stopped THEN Braking("stop")
        ELSE IF contenders # {}
        THEN [Braking(winner) EXCEPT !.moves = moves, !.brush = moves /\ c.brush]
        ELSE IF c.brush THEN [Braking("brush_only") EXCEPT !.brush = TRUE]
        ELSE Braking("idle")
  BY DEF Output, First
<1>2. contenders # {} =>
        winner \in Source /\ c.slots[winner].present /\ moves \in BOOLEAN
  <2>. SUFFICES ASSUME contenders # {}
                PROVE  winner \in Source /\ c.slots[winner].present /\ moves \in BOOLEAN
    OBVIOUS
  <2>1. winner \in contenders
    BY FirstExists
  <2>2. winner \in Source /\ c.slots[winner].present
    BY <2>1 DEF SlotActive
  <2>. QED
    BY <2>2, CoreFields DEF Slots
<1>. HIDE DEF contenders, winner, moves
<1>3. c.gate.active \in BOOLEAN /\ c.gate.generation \in Nat /\ c.stopped \in BOOLEAN
      /\ c.brush \in BOOLEAN
  BY CoreFields
<1>4. CASE c.gate.active
  BY <1>1, <1>3, <1>4 DEF Braking, Outputs
<1>5. CASE ~c.gate.active /\ (c.stopped \/ contenders = {})
  <2>1. Braking("stop") \in Outputs /\ Braking("idle") \in Outputs
        /\ [Braking("brush_only") EXCEPT !.brush = TRUE] \in Outputs
    BY DEF Braking, Outputs
  <2>2. CASE c.stopped
    BY <1>1, <1>5, <2>1, <2>2 DEF Braking
  <2>3. CASE ~c.stopped /\ c.brush
    BY <1>1, <1>5, <2>1, <2>3 DEF Braking
  <2>4. CASE ~c.stopped /\ ~c.brush
    BY <1>1, <1>5, <2>1, <2>4 DEF Braking
  <2>. QED
    BY <1>3, <2>2, <2>3, <2>4
<1>6. CASE ~c.gate.active /\ ~c.stopped /\ contenders # {}
  <2>. DEFINE brush == moves /\ c.brush
  <2>1. brush \in BOOLEAN
    OBVIOUS
  <2>2. Output(c) = [from |-> winner, request |-> 0, moves |-> moves, brush |-> brush]
    BY <1>1, <1>6 DEF Braking
  <2>. HIDE DEF brush
  <2>. QED
    BY <1>2, <1>6, <2>1, <2>2 DEF Outputs
<1>. QED
  BY <1>4, <1>5, <1>6

-----------------------------------------------------------------------------
(* What the core's methods do to its fields.                               *)

LEMMA NewCoreShape ==
  /\ NewCore \in Cores /\ NewCore.gate = NewCache /\ ~NewCore.stopped
  /\ NewCore.mode = Nobody /\ NewCore.boundary = 0
BY DEF NewCore, NewCache, Empty, Cores, Slots, Caches

LEMMA ClearedShape ==
  ASSUME NEW c \in Cores, NEW S
  PROVE  /\ Cleared(c, S) \in Cores
         /\ \A s \in Source : Cleared(c, S).slots[s] = IF s \in S THEN Empty ELSE c.slots[s]
         /\ Cleared(c, S).stopped = c.stopped /\ Cleared(c, S).boundary = c.boundary
         /\ Cleared(c, S).mode = c.mode /\ Cleared(c, S).brush = c.brush
         /\ Cleared(c, S).gate = c.gate
<1>. DEFINE slots == [s \in Source |-> IF s \in S THEN Empty ELSE c.slots[s]]
<1>1. Empty \in Slots
  BY DEF Empty, Slots
<1>2. slots \in [Source -> Slots]
  BY <1>1, CoreFields
<1>3. \A s \in Source : slots[s] = IF s \in S THEN Empty ELSE c.slots[s]
  OBVIOUS
<1>4. Cleared(c, S) = [c EXCEPT !.slots = slots]
  BY DEF Cleared
<1>. HIDE DEF slots
<1>. QED
  BY <1>2, <1>3, <1>4 DEF Cores

\* A stop empties every slot and remembers the latest stamp.
LEMMA StoppedShape ==
  ASSUME NEW c \in Cores, NEW stamp \in Stamp
  PROVE  /\ Stopped(c, stamp) \in Cores /\ Stopped(c, stamp).stopped
         /\ Stopped(c, stamp).boundary >= stamp /\ Stopped(c, stamp).boundary >= c.boundary
         /\ Stopped(c, stamp).gate = c.gate
<1>. DEFINE d == Cleared(c, Source)
            boundary == IF stamp > c.boundary THEN stamp ELSE c.boundary
<1>1. d \in Cores /\ d.gate = c.gate
  BY ClearedShape
<1>2. stamp \in Nat /\ c.boundary \in Nat /\ c.boundary \in Stamp \cup {0}
  BY StampAssumption, CoreFields
<1>3. /\ boundary \in Stamp \cup {0} /\ boundary >= stamp /\ boundary >= c.boundary
  BY <1>2
<1>4. Stopped(c, stamp) = [d EXCEPT !.stopped = TRUE, !.brush = FALSE, !.mode = Nobody,
                                    !.boundary = boundary]
  BY DEF Stopped
<1>. HIDE DEF d, boundary
<1>. QED
  BY <1>1, <1>3, <1>4 DEF Cores

LEMMA TakenOverShape ==
  ASSUME NEW c \in Cores, NEW s \in Source, NEW cmd \in Commands
  PROVE  /\ TakenOver(c, s, cmd) \in Cores
         /\ TakenOver(c, s, cmd).gate = c.gate
         /\ TakenOver(c, s, cmd).boundary = c.boundary
         /\ IF s \in Operators /\ cmd.intent
            THEN /\ ~TakenOver(c, s, cmd).stopped /\ TakenOver(c, s, cmd).mode = s
                 /\ \A t \in Source \cap Operators : ~TakenOver(c, s, cmd).slots[t].present
            ELSE TakenOver(c, s, cmd) = c
<1>1. CASE ~(s \in Operators /\ cmd.intent)
  BY <1>1 DEF TakenOver
<1>2. CASE s \in Operators /\ cmd.intent
  <2>. DEFINE d == Cleared(c, Operators)
  <2>1. d \in Cores /\ d.gate = c.gate /\ d.boundary = c.boundary
        /\ \A t \in Source \cap Operators : ~d.slots[t].present
    BY ClearedShape DEF Empty
  <2>2. TakenOver(c, s, cmd) = [d EXCEPT !.stopped = FALSE, !.mode = s]
    BY <1>2 DEF TakenOver
  <2>. HIDE DEF d
  <2>3. /\ TakenOver(c, s, cmd).stopped = FALSE /\ TakenOver(c, s, cmd).mode = s
        /\ TakenOver(c, s, cmd).slots = d.slots
        /\ TakenOver(c, s, cmd).gate = d.gate /\ TakenOver(c, s, cmd).boundary = d.boundary
        /\ TakenOver(c, s, cmd) \in Cores
    BY <1>2, <2>1, <2>2 DEF Cores
  <2>. QED
    BY <1>2, <2>1, <2>3
<1>. QED
  BY <1>1, <1>2

\* One slot is filled or emptied.
LEMMA SlotSet ==
  ASSUME NEW c \in Cores, NEW s \in Source, NEW slot \in Slots
  PROVE  LET d == [c EXCEPT !.slots[s] = slot]
         IN  /\ d \in Cores /\ d.slots[s] = slot
             /\ \A t \in Source \ {s} : d.slots[t] = c.slots[t]
             /\ d.stopped = c.stopped /\ d.boundary = c.boundary
             /\ d.mode = c.mode /\ d.brush = c.brush /\ d.gate = c.gate
<1>. DEFINE slots == [c.slots EXCEPT ![s] = slot]
<1>1. /\ slots \in [Source -> Slots] /\ slots[s] = slot
      /\ \A t \in Source \ {s} : slots[t] = c.slots[t]
  BY CoreFields
<1>2. [c EXCEPT !.slots[s] = slot] = [c EXCEPT !.slots = slots]
  BY DEF Cores
<1>. HIDE DEF slots
<1>. QED
  BY <1>1, <1>2 DEF Cores

\* update, without a stop: an operator's intent empties the other operators'
\* slots and ends the stop; nothing else does.
LEMMA UpdatedShape ==
  ASSUME NEW c \in Cores, NEW s \in Source, NEW cmd \in Commands,
         ~StopsVehicle(s, cmd), Accepts(c, s, cmd)
  PROVE  LET d == CommandUpdated(c, s, cmd)
         IN  /\ d \in Cores /\ d.gate = c.gate /\ d.boundary = c.boundary
             /\ IF s \in Operators /\ cmd.intent /\ cmd.active
                THEN /\ ~d.stopped /\ d.mode = s
                     /\ \A t \in (Source \cap Operators) \ {s} : ~d.slots[t].present
                ELSE /\ d.stopped = c.stopped /\ d.mode = c.mode
                     /\ \A t \in Source \ {s} : d.slots[t] = c.slots[t]
                     /\ ~cmd.active => ~d.slots[s].present
<1>. DEFINE d == CommandUpdated(c, s, cmd)
<1>1. cmd.active \in BOOLEAN /\ cmd.moves \in BOOLEAN /\ cmd.intent \in BOOLEAN
  BY DEF Commands
<1>2. CASE ~cmd.active
  <2>1. c.slots[s] \in Slots
    BY CoreFields
  <2>. DEFINE slot == [c.slots[s] EXCEPT !.present = FALSE]
  <2>2. slot \in Slots /\ slot.present = FALSE
    BY <2>1 DEF Slots
  <2>3. d = [c EXCEPT !.slots[s] = slot]
    BY <1>2 DEF CommandUpdated, StopsVehicle, Cores
  <2>. HIDE DEF slot, d
  <2>. QED
    BY <1>2, <2>2, <2>3, SlotSet DEF d
<1>3. CASE cmd.active
  <2>. DEFINE slot == [present |-> TRUE, moves |-> cmd.moves, leased |-> TRUE]
              e == TakenOver(c, s, cmd)
  <2>1. slot \in Slots
    BY <1>1 DEF Slots
  <2>2. d = [e EXCEPT !.slots[s] = slot]
    BY <1>3 DEF CommandUpdated
  <2>3. /\ e \in Cores /\ e.gate = c.gate /\ e.boundary = c.boundary
        /\ IF s \in Operators /\ cmd.intent
           THEN /\ ~e.stopped /\ e.mode = s
                /\ \A t \in Source \cap Operators : ~e.slots[t].present
           ELSE e = c
    BY TakenOverShape
  <2>. HIDE DEF slot, e, d
  <2>4. /\ d \in Cores /\ d.gate = e.gate /\ d.boundary = e.boundary
        /\ d.stopped = e.stopped /\ d.mode = e.mode
        /\ \A t \in Source \ {s} : d.slots[t] = e.slots[t]
    BY <2>1, <2>2, <2>3, SlotSet
  <2>. QED
    BY <1>3, <2>3, <2>4 DEF d
<1>. QED
  BY <1>1, <1>2, <1>3

LEMMA BrushShape ==
  ASSUME NEW c \in Cores, NEW enabled \in BOOLEAN, NEW intent \in BOOLEAN
  PROVE  /\ BrushSet(c, enabled, intent) \in Cores
         /\ BrushSet(c, enabled, intent).slots = c.slots
         /\ BrushSet(c, enabled, intent).stopped = c.stopped
         /\ BrushSet(c, enabled, intent).boundary = c.boundary
         /\ BrushSet(c, enabled, intent).mode = c.mode
         /\ BrushSet(c, enabled, intent).gate = c.gate
BY DEF BrushSet, Cores

LEMMA CacheShape ==
  ASSUME NEW g \in Caches, NEW active \in BOOLEAN, NEW generation \in Nat
  PROVE  /\ CacheUpdated(g, active, generation) \in Caches
         /\ CacheAccepts(g, active, generation) =>
              CacheUpdated(g, active, generation) =
                [known |-> TRUE, active |-> active, generation |-> generation]
         /\ ~CacheAccepts(g, active, generation) => CacheUpdated(g, active, generation) = g
BY DEF CacheUpdated, Caches

LEMMA MaintenanceShape ==
  ASSUME NEW c \in Cores, NEW active \in BOOLEAN, NEW generation \in Nat
  PROVE  LET d == MaintenanceSet(c, active, generation)
         IN  /\ d \in Cores /\ d.gate = CacheUpdated(c.gate, active, generation)
             /\ d.stopped = c.stopped /\ d.boundary = c.boundary
<1>. DEFINE d == MaintenanceSet(c, active, generation)
            g == CacheUpdated(c.gate, active, generation)
            updated == [c EXCEPT !.gate = g]
            cleared == Cleared(updated, Source)
<1>. SUFFICES d \in Cores /\ d.gate = g /\ d.stopped = c.stopped /\ d.boundary = c.boundary
  OBVIOUS
<1>1. g \in Caches
  BY CacheShape, CoreFields
<1>2. ~CacheAccepts(c.gate, active, generation) => d = c /\ g = c.gate
  BY DEF MaintenanceSet, CacheUpdated
<1>3. \/ d = c /\ g = c.gate
      \/ d = updated
      \/ d = [cleared EXCEPT !.mode = Nobody, !.brush = FALSE]
  BY <1>2 DEF MaintenanceSet
<1>. HIDE DEF g
<1>4. /\ updated \in Cores /\ updated.gate = g /\ updated.stopped = c.stopped
      /\ updated.boundary = c.boundary
  BY <1>1 DEF Cores
<1>. HIDE DEF updated
<1>5. /\ cleared \in Cores /\ cleared.gate = g /\ cleared.stopped = c.stopped
      /\ cleared.boundary = c.boundary
  BY <1>4, ClearedShape
<1>. HIDE DEF cleared, d
<1>6. CASE d = c /\ g = c.gate
  BY <1>6
<1>7. CASE d = updated
  BY <1>4, <1>7
<1>8. CASE d = [cleared EXCEPT !.mode = Nobody, !.brush = FALSE]
  BY <1>5, <1>8 DEF Cores
<1>. QED
  BY <1>3, <1>6, <1>7, <1>8

-----------------------------------------------------------------------------
(* The coordinator.                                                        *)

LEMMA TrackerShape ==
  ASSUME NEW t \in Trackers, NEW p \in Publisher \cup {NoPublisher},
         Verdict(t, p) # "invalid"
  PROVE  Observed(t, p) \in Trackers
<1>. DEFINE retired == t.retired \cup ({t.current} \ {NoPublisher})
<1>1. t.epoch \in 0 .. MaximumEpoch /\ t.current \in Publisher \cup {NoPublisher}
      /\ t.retired \in SUBSET Publisher
  BY DEF Trackers
<1>2. p \in Publisher
  BY DEF Verdict
<1>3. CASE Verdict(t, p) = "accepted" /\ p # t.current
  <2>1. t.epoch + 1 \in 0 .. MaximumEpoch
    BY <1>1, <1>3, MaximaAssumption DEF Verdict
  <2>2. retired \in SUBSET Publisher
    BY <1>1
  <2>3. Observed(t, p) = [current |-> p, epoch |-> t.epoch + 1, retired |-> retired]
    BY <1>3 DEF Observed, Succeeds
  <2>. HIDE DEF retired
  <2>. QED
    BY <1>2, <2>1, <2>2, <2>3 DEF Trackers
<1>4. CASE ~(Verdict(t, p) = "accepted" /\ p # t.current)
  BY <1>4 DEF Observed
<1>. QED
  BY <1>3, <1>4

\* The gate of the coordinator changes by what it accepts only; a state that
\* is heard without being accepted repeats the last release.
LEMMA CoordinatedShape ==
  ASSUME NEW k \in Coordinators, NEW active \in BOOLEAN, NEW generation \in Nat,
         NEW p \in Publisher \cup {NoPublisher}, Heard(k, active, generation, p)
  PROVE  /\ Coordinated(k, active, generation, p) \in Coordinators
         /\ \/ /\ Coordinated(k, active, generation, p).gate = k.gate
               /\ k.gate.known /\ ~k.gate.active
               /\ ~active /\ generation = k.gate.generation
            \/ /\ CacheAccepts(k.gate, active, generation)
               /\ Coordinated(k, active, generation, p).gate =
                    [known |-> TRUE, active |-> active, generation |-> generation]
<1>. DEFINE g == CacheUpdated(k.gate, active, generation)
<1>1. k.gate \in Caches /\ k.tracker \in Trackers /\ k.tracked \in BOOLEAN
  BY DEF Coordinators
<1>2. g \in Caches
  BY <1>1, CacheShape
<1>3. CASE RepeatsRelease(k, active, generation, p)
  BY <1>3 DEF Coordinated, RepeatsRelease
<1>4. CASE ~RepeatsRelease(k, active, generation, p)
  <2>1. CacheAccepts(k.gate, active, generation)
    BY <1>4 DEF Heard
  <2>2. g = [known |-> TRUE, active |-> active, generation |-> generation]
    BY <1>1, <2>1, CacheShape
  <2>3. CASE p = NoPublisher
    <3>1. Coordinated(k, active, generation, p) = [k EXCEPT !.gate = g]
      BY <1>4, <2>3 DEF Coordinated
    <3>. HIDE DEF g
    <3>2. [k EXCEPT !.gate = g] \in Coordinators /\ [k EXCEPT !.gate = g].gate = g
      BY <1>2 DEF Coordinators
    <3>. QED
      BY <2>1, <2>2, <3>1, <3>2
  <2>4. CASE p # NoPublisher
    <3>. DEFINE tracker == Observed(k.tracker, p)
    <3>1. Coordinated(k, active, generation, p) =
            [gate |-> g, tracker |-> tracker, tracked |-> TRUE]
      BY <1>4, <2>4 DEF Coordinated
    <3>2. tracker \in Trackers
      BY <1>1, <2>4, TrackerShape DEF Verdict
    <3>. HIDE DEF g, tracker
    <3>. QED
      BY <1>2, <2>1, <2>2, <3>1, <3>2 DEF Coordinators
  <2>. QED
    BY <2>3, <2>4
<1>. QED
  BY <1>3, <1>4

-----------------------------------------------------------------------------
(* The node.                                                               *)

Cached == [active : BOOLEAN, generation : Nat]

LEMMA ArbiterFields ==
  ASSUME NEW a \in Arbiters
  PROVE  /\ a.configured \in BOOLEAN /\ a.core \in Cores /\ a.coordinator \in Coordinators
         /\ a.cached \in Cached /\ a.last \in Outputs
         /\ a.coordinator.gate \in Caches
<1>1. a.configured \in BOOLEAN /\ a.core \in Cores /\ a.coordinator \in Coordinators
      /\ a.cached \in Cached /\ a.last \in Outputs
  BY DEF Arbiters, Cached
<1>. QED
  BY <1>1 DEF Coordinators

LEMMA CoreReplaced ==
  ASSUME NEW a \in Arbiters, NEW core \in Cores
  PROVE  LET b == [a EXCEPT !.core = core]
         IN  /\ b \in Arbiters /\ b.core = core /\ b.configured = a.configured
             /\ b.coordinator = a.coordinator /\ b.cached = a.cached /\ b.last = a.last
<1>. DEFINE b == [a EXCEPT !.core = core]
<1>1. b = [configured |-> a.configured, core |-> core, coordinator |-> a.coordinator,
           cached |-> a.cached, last |-> a.last]
  BY DEF Arbiters
<1>. HIDE DEF b
<1>2. b \in Arbiters
  BY <1>1, ArbiterFields DEF Arbiters, Cached
<1>. QED
  BY <1>1, <1>2 DEF b

LEMMA CoreBuilt ==
  ASSUME NEW a \in Arbiters, NEW core \in Cores
  PROVE  LET b == [a EXCEPT !.core = core, !.configured = TRUE]
         IN  /\ b \in Arbiters /\ b.core = core /\ b.configured
             /\ b.coordinator = a.coordinator /\ b.cached = a.cached
<1>. DEFINE d == [a EXCEPT !.core = core]
            b == [d EXCEPT !.configured = TRUE]
<1>1. /\ d \in Arbiters /\ d.core = core /\ d.coordinator = a.coordinator
      /\ d.cached = a.cached
  BY CoreReplaced
<1>2. [a EXCEPT !.core = core, !.configured = TRUE] = b
  OBVIOUS
<1>. HIDE DEF d
<1>3. /\ b \in Arbiters /\ b.core = d.core /\ b.configured
      /\ b.coordinator = d.coordinator /\ b.cached = d.cached
  BY <1>1 DEF Arbiters
<1>. HIDE DEF b
<1>. QED
  BY <1>1, <1>2, <1>3

LEMMA InForceShape == ASSUME NEW a \in Arbiters PROVE InForce(a) \in Outputs
BY ArbiterFields, OutputShape DEF InForce, Braking, Outputs

LEMMA PublishedShape ==
  ASSUME NEW a \in Arbiters
  PROVE  LET b == PublishedIfChanged(a)
         IN  /\ b \in Arbiters /\ b.last = InForce(b) /\ b.core = a.core
             /\ b.configured = a.configured /\ b.coordinator = a.coordinator
             /\ b.cached = a.cached
<1>. DEFINE last == InForce(a)
            b == PublishedIfChanged(a)
<1>1. last \in Outputs
  BY InForceShape
<1>2. b = [a EXCEPT !.last = last]
  BY DEF PublishedIfChanged
<1>3. \A d \in Arbiters :
        d.core = a.core /\ d.configured = a.configured => InForce(d) = last
  BY DEF InForce
<1>. HIDE DEF last
<1>4. b = [configured |-> a.configured, core |-> a.core, coordinator |-> a.coordinator,
           cached |-> a.cached, last |-> last]
  BY <1>2 DEF Arbiters
<1>. HIDE DEF b
<1>5. b \in Arbiters
  BY <1>1, <1>4, ArbiterFields DEF Arbiters, Cached
<1>. QED
  BY <1>3, <1>4, <1>5 DEF b

-----------------------------------------------------------------------------
(* The invariant, of an arbiter and of what was heard.                     *)

\* The core's gate is the coordinator's, or neither has ever been closed: the
\* release that came before the configuration leaves no trace in the core.
GateInv(a) ==
  /\ a.coordinator.gate.active => a.coordinator.gate.known
  /\ a.coordinator.gate.known =>
       /\ a.coordinator.gate.generation \in Generation \ {0}
       /\ ~a.configured => /\ a.cached.active = a.coordinator.gate.active
                           /\ a.cached.generation = a.coordinator.gate.generation
  /\ IF a.configured
     THEN \/ a.core.gate = a.coordinator.gate
          \/ ~a.core.gate.known /\ ~a.core.gate.active /\ ~a.coordinator.gate.active
     ELSE a.core = NewCore

\* A stop that no intent has answered is in the core, with its stamp; and only
\* the operator that last showed intent has a command in its slot.
OperatorInv(a, h) ==
  /\ h.stops # {} => a.configured /\ a.core.stopped
  /\ \A t \in h.stops : t <= a.core.boundary
  /\ h.intent # Nobody =>
       /\ a.configured /\ h.stops = {} /\ ~a.coordinator.gate.active
       /\ \/ a.core.stopped
          \/ /\ a.core.mode = h.intent
             /\ \A t \in (Source \cap Operators) \ {h.intent} : ~a.core.slots[t].present

\* What was published last is in force, or is no more than a lease behind.
LastInv(a, h) ==
  /\ ~a.configured => a.last = Braking("config")
  /\ a.configured /\ a.core.gate.active =>
       a.last.from = "maintenance" /\ a.last.request = a.core.gate.generation
  /\ a.configured /\ (a.core.gate.active \/ a.core.stopped) =>
       ~a.last.moves /\ ~a.last.brush
  /\ a.last.moves /\ a.last.from \in Operators => h.intent \in {Nobody, a.last.from}

\* Generations that were released are below the one that closes the gate.
ReleasedInv(a, h) ==
  \A r \in h.released :
    /\ a.coordinator.gate.known /\ r <= a.coordinator.gate.generation
    /\ a.coordinator.gate.active => r < a.coordinator.gate.generation

Sound(a, h) == GateInv(a) /\ OperatorInv(a, h) /\ ReleasedInv(a, h)
Inv == TypeOK /\ Sound(arbiter, heard) /\ LastInv(arbiter, heard)

\* A publication brings what was published last up to date.
LEMMA PublishedKeeps ==
  ASSUME NEW a \in Arbiters, NEW h \in Histories, Sound(a, h)
  PROVE  LET b == PublishedIfChanged(a)
         IN  b \in Arbiters /\ Sound(b, h) /\ LastInv(b, h)
<1>. DEFINE b == PublishedIfChanged(a)
<1>. SUFFICES b \in Arbiters /\ Sound(b, h) /\ LastInv(b, h)
  OBVIOUS
<1>1. /\ b \in Arbiters /\ b.last = InForce(b) /\ b.core = a.core
      /\ b.configured = a.configured /\ b.coordinator = a.coordinator
      /\ b.cached = a.cached
  BY PublishedShape
<1>. HIDE DEF b
<1>2. Sound(b, h)
  BY <1>1 DEF Sound, GateInv, OperatorInv, ReleasedInv
<1>3. LastInv(b, h)
  <2>1. CASE ~b.configured
    BY <1>1, <2>1 DEF LastInv, InForce, Braking
  <2>2. CASE b.configured
    <3>1. b.last = Output(b.core) /\ b.core \in Cores
      BY <1>1, <2>2, ArbiterFields DEF InForce
    <3>2. ASSUME b.last.moves, b.last.from \in Operators
          PROVE  h.intent \in {Nobody, b.last.from}
      <4>1. /\ b.last.from \in Source /\ b.core.slots[b.last.from].present
            /\ ~b.core.stopped
        BY <3>1, <3>2, OutputShape
      <4>. QED
        BY <1>2, <3>2, <4>1 DEF Sound, OperatorInv
    <3>. QED
      BY <2>2, <3>1, <3>2, OutputShape DEF LastInv
  <2>. QED
    BY <1>1, <2>1, <2>2, ArbiterFields
<1>. QED
  BY <1>1, <1>2, <1>3

-----------------------------------------------------------------------------
(* The steps.                                                              *)

LEMMA InitInv == Init => Inv
<1>. SUFFICES ASSUME Init PROVE Inv
  OBVIOUS
<1>. DEFINE a == [configured |-> FALSE, core |-> NewCore, coordinator |-> NewCoordinator,
                  cached |-> [active |-> FALSE, generation |-> 0], last |-> NoOutput]
<1>1. arbiter = PublishedIfChanged(a) /\ heard = NothingHeard
  BY DEF Init, NewArbiter
<1>2. NewCoordinator \in Coordinators /\ NewCoordinator.gate = NewCache
  BY MaximaAssumption DEF NewCoordinator, NewCache, NewTracker, Coordinators, Caches, Trackers
<1>3. NoOutput \in Outputs
  BY DEF NoOutput, Braking, Outputs
<1>4. a \in Arbiters
  BY <1>2, <1>3, NewCoreShape DEF Arbiters
<1>5. NothingHeard \in Histories
  BY DEF NothingHeard, Histories
<1>6. /\ ~a.configured /\ a.core = NewCore /\ ~a.coordinator.gate.active
      /\ ~a.coordinator.gate.known
  BY <1>2 DEF NewCache
<1>. HIDE DEF a
<1>7. Sound(a, NothingHeard)
  BY <1>6 DEF Sound, GateInv, OperatorInv, ReleasedInv, NothingHeard
<1>. QED
  BY <1>1, <1>4, <1>5, <1>7, PublishedKeeps DEF Inv, TypeOK

LEMMA HistoryFields ==
  ASSUME NEW h \in Histories
  PROVE  /\ h.stops \in SUBSET Stamp /\ h.stops \subseteq Nat
         /\ h.intent \in Operators \cup {Nobody} /\ h.released \in SUBSET Generation
         /\ h.released \subseteq Nat
<1>1. /\ h.stops \in SUBSET Stamp /\ h.intent \in Operators \cup {Nobody}
      /\ h.released \in SUBSET Generation
  BY DEF Histories
<1>. QED
  BY <1>1, StampAssumption, GenerationAssumption

\* A published state whose history is sound too.
LEMMA PublishedStep ==
  ASSUME NEW a \in Arbiters, heard' \in Histories, Sound(a, heard'),
         arbiter' = PublishedIfChanged(a)
  PROVE  Inv'
BY PublishedKeeps DEF Inv, TypeOK

\* In a sound state the core is clamped when the coordinator is.
LEMMA Clamps ==
  ASSUME NEW a \in Arbiters, GateInv(a), a.configured
  PROVE  a.core.gate.active <=> a.coordinator.gate.active
BY DEF GateInv

LEMMA StopStep ==
  ASSUME Inv, NEW s \in Source, NEW cmd \in Inputs(s), Command(s, cmd),
         arbiter.configured, StopsVehicle(s, cmd)
  PROVE  Inv'
<1>1. /\ arbiter \in Arbiters /\ heard \in Histories /\ Sound(arbiter, heard)
      /\ cmd \in Commands /\ cmd.stamp \in Stamp
  BY DEF Inv, TypeOK, Inputs, Commands
<1>. DEFINE core == Stopped(arbiter.core, cmd.stamp)
            a == [arbiter EXCEPT !.core = core]
            h == [heard EXCEPT !.stops = @ \cup {cmd.stamp}, !.intent = Nobody]
<1>2. /\ core \in Cores /\ core.stopped /\ core.gate = arbiter.core.gate
      /\ core.boundary >= cmd.stamp /\ core.boundary >= arbiter.core.boundary
  BY <1>1, StoppedShape, ArbiterFields
<1>3. arbiter' = PublishedIfChanged(a) /\ heard' = h
  BY DEF Command, OnCommand, CommandUpdated, Accepts
<1>. HIDE DEF core
<1>4. /\ a \in Arbiters /\ a.core = core /\ a.configured = arbiter.configured
      /\ a.coordinator = arbiter.coordinator /\ a.cached = arbiter.cached
  BY <1>1, <1>2, CoreReplaced
<1>5. /\ h \in Histories /\ h.stops = heard.stops \cup {cmd.stamp} /\ h.intent = Nobody
      /\ h.released = heard.released
  BY <1>1 DEF Histories
<1>. HIDE DEF a, h
<1>6. \A t \in h.stops : t <= a.core.boundary
  <2>1. /\ arbiter.core.boundary \in Nat /\ core.boundary \in Nat /\ heard.stops \subseteq Nat
        /\ \A t \in heard.stops : t <= arbiter.core.boundary
    BY <1>1, <1>2, CoreFields, ArbiterFields, HistoryFields DEF Sound, OperatorInv
  <2>2. cmd.stamp \in Nat
    BY <1>1, StampAssumption
  <2>. QED
    BY <1>2, <1>4, <1>5, <2>1, <2>2
<1>7. Sound(a, h)
  BY <1>1, <1>2, <1>4, <1>5, <1>6 DEF Sound, GateInv, OperatorInv, ReleasedInv
<1>. QED
  BY <1>3, <1>4, <1>5, <1>7, PublishedStep

\* A command that the core accepts: if it shows an operator's intent it
\* answers every stop, because it is newer than the boundary.
LEMMA AcceptedStep ==
  ASSUME Inv, NEW s \in Source, NEW cmd \in Inputs(s), Command(s, cmd),
         arbiter.configured, ~StopsVehicle(s, cmd), Accepts(arbiter.core, s, cmd)
  PROVE  Inv'
<1>1. /\ arbiter \in Arbiters /\ heard \in Histories /\ Sound(arbiter, heard)
      /\ cmd \in Commands /\ arbiter.core \in Cores
      /\ arbiter.core.boundary \in Nat /\ heard.stops \subseteq Nat
      /\ cmd.active \in BOOLEAN /\ cmd.intent \in BOOLEAN
  BY ArbiterFields, CoreFields, HistoryFields DEF Inv, TypeOK, Inputs, Commands
<1>. DEFINE core == CommandUpdated(arbiter.core, s, cmd)
            a == [arbiter EXCEPT !.core = core]
<1>2. /\ core \in Cores /\ core.gate = arbiter.core.gate
      /\ core.boundary = arbiter.core.boundary
      /\ IF s \in Operators /\ cmd.intent /\ cmd.active
         THEN /\ ~core.stopped /\ core.mode = s
              /\ \A t \in (Source \cap Operators) \ {s} : ~core.slots[t].present
         ELSE /\ core.stopped = arbiter.core.stopped /\ core.mode = arbiter.core.mode
              /\ \A t \in Source \ {s} : core.slots[t] = arbiter.core.slots[t]
              /\ ~cmd.active => ~core.slots[s].present
  BY <1>1, UpdatedShape
<1>3. /\ arbiter' = PublishedIfChanged(a)
      /\ heard' = IF Answers(s, cmd) THEN [heard EXCEPT !.stops = {}, !.intent = s] ELSE heard
  BY DEF Command, OnCommand
<1>. HIDE DEF core
<1>4. /\ a \in Arbiters /\ a.core = core /\ a.configured = arbiter.configured
      /\ a.coordinator = arbiter.coordinator /\ a.cached = arbiter.cached
  BY <1>1, <1>2, CoreReplaced
<1>. HIDE DEF a
<1>5. /\ ~arbiter.core.gate.active /\ ~arbiter.coordinator.gate.active
      /\ cmd.active => Admits(arbiter.core, s, cmd)
  BY <1>1, Clamps DEF Accepts, Sound
<1>6. CASE s \in Operators /\ cmd.intent /\ cmd.active
  <2>. DEFINE h == [heard EXCEPT !.stops = {}, !.intent = s]
  <2>1. arbiter.core.stopped => cmd.stamp > arbiter.core.boundary
    BY <1>5, <1>6 DEF Admits, IsNewerThanStop
  <2>2. cmd.stamp \in Nat
    BY <1>1, StampAssumption DEF Commands
  <2>3. \A t \in heard.stops : cmd.stamp > t
    BY <1>1, <2>1, <2>2 DEF Sound, OperatorInv
  <2>4. heard' = h
    BY <1>3, <1>5, <1>6, <2>3 DEF Answers, Clamped
  <2>5. h \in Histories /\ h.stops = {} /\ h.intent = s /\ h.released = heard.released
    BY <1>1, <1>6 DEF Histories
  <2>. HIDE DEF h
  <2>6. Sound(a, h)
    BY <1>1, <1>2, <1>4, <1>5, <1>6, <2>5 DEF Sound, GateInv, OperatorInv, ReleasedInv
  <2>. QED
    BY <1>3, <1>4, <2>4, <2>5, <2>6, PublishedStep
<1>7. CASE ~(s \in Operators /\ cmd.intent /\ cmd.active)
  <2>1. heard' = heard
    BY <1>3, <1>7 DEF Answers
  <2>2. OperatorInv(a, heard)
    <3>1. OperatorInv(arbiter, heard)
      BY <1>1 DEF Sound
    <3>2. ASSUME heard.intent # Nobody, ~a.core.stopped,
                 NEW t \in (Source \cap Operators) \ {heard.intent}
          PROVE  ~a.core.slots[t].present
      <4>1. arbiter.core.mode = heard.intent /\ ~arbiter.core.slots[t].present
        BY <1>2, <1>4, <1>7, <3>1, <3>2 DEF OperatorInv
      <4>2. CASE t # s
        BY <1>2, <1>4, <1>7, <3>2, <4>1, <4>2
      <4>3. CASE t = s
        <5>1. ~cmd.active
          BY <1>1, <1>2, <1>4, <1>5, <1>7, <3>2, <4>1, <4>3 DEF Admits
        <5>. QED
          BY <1>2, <1>4, <1>7, <4>3, <5>1
      <4>. QED
        BY <4>2, <4>3
    <3>. QED
      BY <1>2, <1>4, <1>7, <3>1, <3>2 DEF OperatorInv
  <2>3. Sound(a, heard)
    BY <1>1, <1>2, <1>4, <2>2 DEF Sound, GateInv, ReleasedInv
  <2>. QED
    BY <1>1, <1>3, <1>4, <2>1, <2>3, PublishedStep
<1>. QED
  BY <1>6, <1>7

\* A command that the core refuses changes nothing; if it shows intent all the
\* same, it is older than a stop that was answered before, and the core brakes.
LEMMA RefusedStep ==
  ASSUME Inv, NEW s \in Source, NEW cmd \in Inputs(s), Command(s, cmd),
         arbiter.configured, ~Accepts(arbiter.core, s, cmd)
  PROVE  Inv'
<1>1. /\ arbiter \in Arbiters /\ heard \in Histories /\ Sound(arbiter, heard)
      /\ LastInv(arbiter, heard)
  BY DEF Inv, TypeOK
<1>2. /\ arbiter' = arbiter
      /\ heard' = IF Answers(s, cmd) THEN [heard EXCEPT !.stops = {}, !.intent = s] ELSE heard
  BY DEF Command, OnCommand, Accepts
<1>3. CASE ~Answers(s, cmd)
  BY <1>2, <1>3 DEF Inv, TypeOK
<1>4. CASE Answers(s, cmd)
  <2>. DEFINE h == [heard EXCEPT !.stops = {}, !.intent = s]
  <2>1. /\ s \in Operators /\ cmd.active /\ cmd.intent /\ ~arbiter.coordinator.gate.active
        /\ ~arbiter.core.gate.active
    BY <1>1, <1>4, Clamps DEF Answers, Clamped, Sound
  <2>2. arbiter.core.stopped
    BY <2>1 DEF Accepts, Admits
  <2>3. ~arbiter.last.moves
    BY <1>1, <2>2 DEF LastInv
  <2>4. h \in Histories /\ h.stops = {} /\ h.intent = s /\ h.released = heard.released
    BY <1>1, <2>1 DEF Histories
  <2>. HIDE DEF h
  <2>5. Sound(arbiter, h)
    BY <1>1, <2>1, <2>2, <2>4 DEF Sound, OperatorInv, ReleasedInv
  <2>6. LastInv(arbiter, h)
    BY <1>1, <2>3 DEF LastInv
  <2>7. heard' = h
    BY <1>2, <1>4 DEF h
  <2>. QED
    BY <1>1, <1>2, <2>4, <2>5, <2>6, <2>7 DEF Inv, TypeOK
<1>. QED
  BY <1>3, <1>4

LEMMA CommandStep ==
  ASSUME Inv, NEW s \in Source, NEW cmd \in Inputs(s), Command(s, cmd) PROVE Inv'
<1>1. CASE ~arbiter.configured
  <2>1. arbiter' = PublishedIfChanged(arbiter) /\ heard' = heard
    BY <1>1 DEF Command, OnCommand, Answers
  <2>. QED
    BY <2>1, PublishedStep DEF Inv, TypeOK
<1>2. CASE arbiter.configured
  BY <1>2, StopStep, AcceptedStep, RefusedStep
<1>. QED
  BY <1>1, <1>2

LEMMA BrushStep ==
  ASSUME Inv, NEW enabled \in BOOLEAN, NEW intent \in BOOLEAN, Brush(enabled, intent)
  PROVE  Inv'
<1>1. /\ arbiter \in Arbiters /\ heard \in Histories /\ Sound(arbiter, heard)
      /\ heard' = heard
  BY DEF Inv, TypeOK, Brush
<1>2. CASE ~arbiter.configured
  BY <1>1, <1>2, PublishedStep DEF Brush, OnBrush
<1>3. CASE arbiter.configured
  <2>. DEFINE core == BrushSet(arbiter.core, enabled, intent)
              a == [arbiter EXCEPT !.core = core]
  <2>1. /\ core \in Cores /\ core.gate = arbiter.core.gate /\ core.slots = arbiter.core.slots
        /\ core.stopped = arbiter.core.stopped /\ core.mode = arbiter.core.mode
        /\ core.boundary = arbiter.core.boundary
    BY <1>1, BrushShape, ArbiterFields
  <2>2. arbiter' = PublishedIfChanged(a)
    BY <1>3 DEF Brush, OnBrush
  <2>. HIDE DEF core
  <2>3. /\ a \in Arbiters /\ a.core = core /\ a.configured = arbiter.configured
        /\ a.coordinator = arbiter.coordinator /\ a.cached = arbiter.cached
    BY <1>1, <2>1, CoreReplaced
  <2>. HIDE DEF a
  <2>4. Sound(a, heard)
    BY <1>1, <1>3, <2>1, <2>3 DEF Sound, GateInv, OperatorInv, ReleasedInv
  <2>. QED
    BY <1>1, <2>2, <2>3, <2>4, PublishedStep
<1>. QED
  BY <1>2, <1>3

LEMMA TickStep == ASSUME Inv, Tick PROVE Inv'
BY PublishedStep DEF Inv, TypeOK, Tick

\* The core is built with the state of the gate that was heard last.
LEMMA ConfigureStep == ASSUME Inv, Configure PROVE Inv'
<1>1. /\ arbiter \in Arbiters /\ heard \in Histories /\ Sound(arbiter, heard)
      /\ heard' = heard /\ ~arbiter.configured
  BY DEF Inv, TypeOK, Configure
<1>. DEFINE set == MaintenanceSet(NewCore, arbiter.cached.active, arbiter.cached.generation)
            core == IF arbiter.coordinator.gate.known THEN set ELSE NewCore
            a == [arbiter EXCEPT !.core = core, !.configured = TRUE]
            gate == arbiter.coordinator.gate
<1>2. /\ arbiter.cached.active \in BOOLEAN /\ arbiter.cached.generation \in Nat
      /\ gate \in Caches /\ gate.known \in BOOLEAN /\ gate.active \in BOOLEAN
  BY <1>1, ArbiterFields DEF Cached, Caches
<1>3. /\ set \in Cores /\ ~set.stopped
      /\ set.gate = CacheUpdated(NewCache, arbiter.cached.active, arbiter.cached.generation)
  <2>1. /\ set \in Cores /\ set.stopped = NewCore.stopped
        /\ set.gate =
             CacheUpdated(NewCore.gate, arbiter.cached.active, arbiter.cached.generation)
    BY <1>2, MaintenanceShape, NewCoreShape
  <2>. HIDE DEF set
  <2>. QED
    BY <2>1, NewCoreShape
<1>4. arbiter' = PublishedIfChanged(a)
  BY <1>1 DEF Configure, Configured
<1>. HIDE DEF set
<1>5. core \in Cores /\ ~core.stopped
  BY <1>3, NewCoreShape
<1>6. \/ core.gate = gate
      \/ ~core.gate.known /\ ~core.gate.active /\ ~gate.active
  <2>1. CASE ~gate.known
    BY <1>1, <2>1, NewCoreShape DEF NewCache, Sound, GateInv
  <2>2. CASE gate.known
    <3>1. /\ gate.generation # 0 /\ arbiter.cached.active = gate.active
          /\ arbiter.cached.generation = gate.generation
      BY <1>1, <2>2 DEF Sound, GateInv
    <3>2. CASE gate.active
      <4>1. core.gate = [known |-> TRUE, active |-> gate.active,
                         generation |-> gate.generation]
        BY <1>3, <2>2, <3>1, <3>2 DEF CacheUpdated, CacheAccepts, NewCache
      <4>. QED
        BY <1>2, <2>2, <4>1 DEF Caches
    <3>3. CASE ~gate.active
      BY <1>3, <2>2, <3>1, <3>3 DEF CacheUpdated, CacheAccepts, NewCache
    <3>. QED
      BY <3>2, <3>3
  <2>. QED
    BY <2>1, <2>2
<1>. HIDE DEF core
<1>7. /\ a \in Arbiters /\ a.core = core /\ a.configured
      /\ a.coordinator = arbiter.coordinator /\ a.cached = arbiter.cached
  BY <1>1, <1>5, CoreBuilt
<1>. HIDE DEF a
<1>8. Sound(a, heard)
  <2>1. heard.stops = {} /\ heard.intent = Nobody
    BY <1>1 DEF Sound, OperatorInv
  <2>. QED
    BY <1>1, <1>6, <1>7, <2>1 DEF Sound, GateInv, OperatorInv, ReleasedInv
<1>. QED
  BY <1>1, <1>4, <1>7, <1>8, PublishedStep

\* A lease that ends is not published before the next tick; nothing that was
\* published becomes wrong by it but that it still moves.
LEMMA LeaseStep == ASSUME Inv, NEW s \in Source \cap Operators, LeaseExpires(s) PROVE Inv'
<1>1. /\ arbiter \in Arbiters /\ heard \in Histories /\ Sound(arbiter, heard)
      /\ LastInv(arbiter, heard) /\ heard' = heard
      /\ arbiter.core \in Cores /\ arbiter.core.slots[s] \in Slots
      /\ arbiter.core.slots[s].leased
  BY ArbiterFields, CoreFields DEF Inv, TypeOK, LeaseExpires
<1>. DEFINE slot == [arbiter.core.slots[s] EXCEPT !.leased = FALSE]
            core == [arbiter.core EXCEPT !.slots[s] = slot]
            a == [arbiter EXCEPT !.core = core]
<1>2. slot \in Slots /\ slot.present = arbiter.core.slots[s].present
  BY <1>1 DEF Slots
<1>3. arbiter' = a
  BY <1>1 DEF LeaseExpires, LeaseExpired, Arbiters, Cores
<1>. HIDE DEF slot
<1>4. /\ core \in Cores /\ core.slots[s] = slot
      /\ \A t \in Source \ {s} : core.slots[t] = arbiter.core.slots[t]
      /\ core.stopped = arbiter.core.stopped /\ core.boundary = arbiter.core.boundary
      /\ core.mode = arbiter.core.mode /\ core.gate = arbiter.core.gate
  BY <1>1, <1>2, SlotSet
<1>. HIDE DEF core
<1>5. /\ a \in Arbiters /\ a.core = core /\ a.configured = arbiter.configured
      /\ a.coordinator = arbiter.coordinator /\ a.cached = arbiter.cached
      /\ a.last = arbiter.last
  BY <1>1, <1>4, CoreReplaced
<1>. HIDE DEF a
<1>6. \A t \in Source : a.core.slots[t].present = arbiter.core.slots[t].present
  BY <1>2, <1>4, <1>5
<1>7. a.configured
  BY <1>1, <1>5 DEF Sound, GateInv, NewCore, Empty
<1>8. Sound(a, heard) /\ LastInv(a, heard)
  BY <1>1, <1>4, <1>5, <1>6, <1>7 DEF Sound, GateInv, OperatorInv, ReleasedInv, LastInv
<1>. QED
  BY <1>1, <1>3, <1>5, <1>8 DEF Inv, TypeOK

\* The core follows the coordinator's gate.
LEMMA GateFollows ==
  ASSUME NEW a \in Arbiters, GateInv(a), a.configured,
         NEW active \in BOOLEAN, NEW generation \in Nat, NEW gate \in Caches,
         \/ /\ gate = a.coordinator.gate /\ gate.known /\ ~gate.active
            /\ ~active /\ generation = gate.generation
         \/ /\ CacheAccepts(a.coordinator.gate, active, generation)
            /\ gate = [known |-> TRUE, active |-> active, generation |-> generation],
         NEW g, g = CacheUpdated(a.core.gate, active, generation)
  PROVE  g = gate \/ (~g.known /\ ~g.active /\ ~gate.active)
<1>1. /\ a.core.gate \in Caches /\ a.coordinator.gate \in Caches
  BY ArbiterFields, CoreFields
<1>2. CASE ~active /\ gate = a.coordinator.gate /\ ~gate.active
  <2>1. ~a.core.gate.active
    BY <1>2, Clamps
  <2>2. g = a.core.gate
    BY <1>2, <2>1 DEF CacheUpdated, CacheAccepts
  <2>. QED
    BY <1>2, <2>2 DEF GateInv
<1>3. CASE /\ CacheAccepts(a.coordinator.gate, active, generation)
           /\ gate = [known |-> TRUE, active |-> active, generation |-> generation]
  <2>1. CacheAccepts(a.core.gate, active, generation)
    BY <1>1, <1>3 DEF GateInv, CacheAccepts
  <2>. QED
    BY <1>1, <1>3, <2>1, CacheShape
<1>. QED
  BY <1>2, <1>3

LEMMA HeardStep ==
  ASSUME Inv, NEW active \in BOOLEAN, NEW generation \in Generation,
         NEW p \in Publisher \cup {NoPublisher}, MaintenanceState(active, generation, p),
         Heard(arbiter.coordinator, active, generation, p)
  PROVE  Inv'
<1>1. /\ arbiter \in Arbiters /\ heard \in Histories /\ Sound(arbiter, heard)
      /\ LastInv(arbiter, heard) /\ arbiter.coordinator \in Coordinators
      /\ arbiter.coordinator.gate \in Caches /\ arbiter.core \in Cores
      /\ generation \in Nat /\ arbiter.configured \in BOOLEAN
  BY ArbiterFields, GenerationAssumption DEF Inv, TypeOK
<1>. DEFINE old == arbiter.coordinator.gate
            coordinator == Coordinated(arbiter.coordinator, active, generation, p)
            gate == coordinator.gate
            cached == [active |-> active, generation |-> generation]
            b == [arbiter EXCEPT !.coordinator = coordinator, !.cached = cached]
            core == MaintenanceSet(arbiter.core, active, generation)
            c == [b EXCEPT !.core = core]
            a == IF arbiter.configured THEN c ELSE b
<1>2. /\ coordinator \in Coordinators /\ gate \in Caches
      /\ \/ /\ gate = old /\ gate.known /\ ~gate.active
            /\ ~active /\ generation = gate.generation
         \/ /\ CacheAccepts(old, active, generation)
            /\ gate = [known |-> TRUE, active |-> active, generation |-> generation]
  <2>1. coordinator \in Coordinators
    BY <1>1, CoordinatedShape
  <2>2. gate \in Caches
    BY <2>1 DEF Coordinators
  <2>. QED
    BY <1>1, <2>1, <2>2, CoordinatedShape
<1>3. /\ cached \in Cached /\ cached.active = active /\ cached.generation = generation
  BY <1>1 DEF Cached
<1>4. /\ core \in Cores /\ core.gate = CacheUpdated(arbiter.core.gate, active, generation)
      /\ core.stopped = arbiter.core.stopped /\ core.boundary = arbiter.core.boundary
      /\ ~CacheAccepts(arbiter.core.gate, active, generation) => core = arbiter.core
  <2>1. ~CacheAccepts(arbiter.core.gate, active, generation) => core = arbiter.core
    BY DEF MaintenanceSet
  <2>. QED
    BY <1>1, <2>1, MaintenanceShape
<1>5. arbiter' = IF arbiter.configured THEN PublishedIfChanged(c) ELSE b
  BY <1>1 DEF MaintenanceState, OnMaintenanceState
<1>. HIDE DEF coordinator, cached, core
<1>6. /\ b \in Arbiters /\ b.core = arbiter.core /\ b.configured = arbiter.configured
      /\ b.coordinator = coordinator /\ b.cached = cached /\ b.last = arbiter.last
  <2>. DEFINE d == [arbiter EXCEPT !.coordinator = coordinator]
  <2>1. /\ d \in Arbiters /\ d.core = arbiter.core /\ d.configured = arbiter.configured
        /\ d.coordinator = coordinator /\ d.last = arbiter.last
    BY <1>1, <1>2 DEF Arbiters
  <2>2. b = [d EXCEPT !.cached = cached]
    OBVIOUS
  <2>. HIDE DEF b, d
  <2>3. b \in Arbiters /\ b.core = d.core /\ b.configured = d.configured
        /\ b.coordinator = d.coordinator /\ b.cached = cached /\ b.last = d.last
    BY <1>3, <2>1, <2>2 DEF Arbiters, Cached
  <2>. QED
    BY <2>1, <2>3
<1>. HIDE DEF b
<1>7. /\ c \in Arbiters /\ c.core = core /\ c.configured = b.configured
      /\ c.coordinator = coordinator /\ c.cached = cached
  BY <1>4, <1>6, CoreReplaced
<1>. HIDE DEF c
<1>8. arbiter'.coordinator = coordinator
  BY <1>5, <1>6, <1>7, PublishedShape
<1>9. /\ heard' \in Histories /\ heard'.stops = heard.stops
      /\ heard'.intent # Nobody => gate = old /\ heard'.intent = heard.intent
      /\ heard'.intent \in {Nobody, heard.intent}
      /\ \A r \in heard'.released :
           \/ r \in heard.released
           \/ r = old.generation /\ Clamped /\ ~gate.active
  <2>. DEFINE intent == IF gate # old THEN Nobody ELSE heard.intent
              released == IF Clamped /\ ~gate.active
                          THEN heard.released \cup {old.generation} ELSE heard.released
  <2>1. heard' = [heard EXCEPT !.intent = intent, !.released = released]
    BY <1>1, <1>8 DEF MaintenanceState, Histories
  <2>2. /\ intent = IF gate # old THEN Nobody ELSE heard.intent
        /\ released = IF Clamped /\ ~gate.active
                      THEN heard.released \cup {old.generation} ELSE heard.released
    OBVIOUS
  <2>3. Clamped => old.generation \in Generation
    BY <1>1 DEF Sound, GateInv, Clamped
  <2>4. intent \in Operators \cup {Nobody} /\ released \in SUBSET Generation
    BY <1>1, <2>3, HistoryFields
  <2>. HIDE DEF intent, released
  <2>5. /\ heard' \in Histories /\ heard'.stops = heard.stops
        /\ heard'.intent = intent /\ heard'.released = released
    BY <1>1, <2>1, <2>4 DEF Histories
  <2>. QED
    BY <2>2, <2>5
<1>10. /\ a \in Arbiters /\ a.configured = arbiter.configured
       /\ a.coordinator = coordinator /\ a.cached = cached
       /\ a.core = IF arbiter.configured THEN core ELSE arbiter.core
  BY <1>6, <1>7
<1>. HIDE DEF a
<1>11. GateInv(a)
  <2>1. gate.known /\ gate.generation \in Generation \ {0}
        /\ gate.active = active /\ gate.generation = generation
    BY <1>1, <1>2 DEF Sound, GateInv, CacheAccepts, Caches
  <2>2. CASE arbiter.configured
    BY <1>1, <1>2, <1>4, <1>10, <2>1, <2>2, GateFollows DEF Sound, GateInv
  <2>3. CASE ~arbiter.configured
    BY <1>1, <1>3, <1>10, <2>1, <2>3 DEF Sound, GateInv
  <2>. QED
    BY <1>1, <2>2, <2>3
<1>12. OperatorInv(a, heard')
  <2>1. OperatorInv(arbiter, heard)
    BY <1>1 DEF Sound
  <2>2. /\ a.core.stopped = arbiter.core.stopped
        /\ a.core.boundary = arbiter.core.boundary
    BY <1>4, <1>10
  <2>3. ASSUME heard'.intent # Nobody
        PROVE  arbiter.configured /\ ~gate.active /\ core = arbiter.core
    <3>1. gate = old /\ ~old.active /\ arbiter.configured
      BY <1>9, <2>1, <2>3 DEF OperatorInv
    <3>2. ~active
      BY <1>2, <3>1
    <3>3. ~arbiter.core.gate.active
      BY <1>1, <3>1, Clamps DEF Sound
    <3>. QED
      BY <1>4, <3>1, <3>2, <3>3 DEF CacheAccepts
  <2>. QED
    BY <1>9, <1>10, <2>1, <2>2, <2>3 DEF OperatorInv
<1>13. ReleasedInv(a, heard')
  <2>. SUFFICES ASSUME NEW r \in heard'.released
                PROVE  gate.known /\ r <= gate.generation /\ (gate.active => r < gate.generation)
    BY <1>10 DEF ReleasedInv
  <2>1. old.generation \in Nat /\ gate.generation \in Nat /\ r \in Nat
    BY <1>1, <1>2, <1>9, HistoryFields DEF Caches
  <2>2. r \in heard.released =>
          old.known /\ r <= old.generation /\ (old.active => r < old.generation)
    BY <1>1 DEF Sound, ReleasedInv
  <2>. QED
    BY <1>1, <1>2, <1>9, <2>1, <2>2 DEF CacheAccepts, Clamped
<1>14. Sound(a, heard')
  BY <1>11, <1>12, <1>13 DEF Sound
<1>15. CASE arbiter.configured
  <2>1. arbiter' = PublishedIfChanged(a)
    BY <1>5, <1>15 DEF a
  <2>. QED
    BY <1>9, <1>10, <1>14, <2>1, PublishedStep
<1>16. CASE ~arbiter.configured
  <2>1. arbiter' = a /\ a.last = arbiter.last
    BY <1>5, <1>6, <1>16 DEF a
  <2>2. LastInv(a, heard')
    BY <1>1, <1>10, <1>16, <2>1 DEF LastInv, Braking
  <2>. QED
    BY <1>9, <1>10, <1>14, <2>1, <2>2 DEF Inv, TypeOK
<1>. QED
  BY <1>1, <1>15, <1>16

LEMMA MaintenanceStep ==
  ASSUME Inv, NEW active \in BOOLEAN, NEW generation \in Generation,
         NEW p \in Publisher \cup {NoPublisher}, MaintenanceState(active, generation, p)
  PROVE  Inv'
<1>1. CASE Heard(arbiter.coordinator, active, generation, p)
  BY <1>1, HeardStep
<1>2. CASE ~Heard(arbiter.coordinator, active, generation, p)
  <2>1. arbiter' = arbiter
    BY <1>2 DEF MaintenanceState, OnMaintenanceState
  <2>2. heard' = heard
    BY <2>1 DEF MaintenanceState, Inv, TypeOK, Histories, Clamped
  <2>. QED
    BY <2>1, <2>2 DEF Inv, TypeOK
<1>. QED
  BY <1>1, <1>2

LEMMA StepKeepsInv == ASSUME Inv, [Next]_vars PROVE Inv'
<1>1. CASE UNCHANGED vars
  BY <1>1 DEF vars, Inv, TypeOK
<1>. QED
  BY <1>1, CommandStep, BrushStep, MaintenanceStep, ConfigureStep, LeaseStep, TickStep DEF Next

-----------------------------------------------------------------------------
LEMMA Invariance == Spec => []Inv
<1>1. Init => Inv
  BY InitInv
<1>2. Inv /\ [Next]_vars => Inv'
  BY StepKeepsInv
<1>. QED
  BY <1>1, <1>2, PTL DEF Spec

\* The arbiter and the history keep their types.
THEOREM TypeCorrect == Spec => []TypeOK
BY Invariance, PTL DEF Inv

\* A stop holds until an intent newer than every stop arrives, in whatever
\* order stops, commands, brush commands and maintenance states come.
THEOREM StopKept == Spec => []StopHolds
<1>1. Inv => StopHolds
  BY DEF Inv, Sound, OperatorInv, LastInv, StopHolds
<1>. QED
  BY <1>1, Invariance, PTL

\* The vehicle moves for the operator that last showed intent.
THEOREM LastIntentMoves == Spec => []MotionIsByLastIntent
<1>1. Inv => MotionIsByLastIntent
  BY DEF Inv, LastInv, MotionIsByLastIntent
<1>. QED
  BY <1>1, Invariance, PTL

\* A clamp that is known is published, with its generation.
THEOREM ClampPublished == Spec => []ClampIsPublished
<1>1. Inv => ClampIsPublished
  <2>. SUFFICES ASSUME Inv, Clamped
                PROVE  /\ ~arbiter.last.moves /\ ~arbiter.last.brush
                       /\ arbiter.configured =>
                            /\ arbiter.last.from = "maintenance"
                            /\ arbiter.last.request = arbiter.coordinator.gate.generation
    BY DEF ClampIsPublished
  <2>1. GateInv(arbiter) /\ LastInv(arbiter, heard)
    BY DEF Inv, Sound
  <2>2. CASE arbiter.configured
    <3>1. arbiter.core.gate = arbiter.coordinator.gate
      BY <2>1, <2>2 DEF GateInv, Clamped
    <3>. QED
      BY <2>1, <2>2, <3>1 DEF LastInv, Clamped
  <2>3. CASE ~arbiter.configured
    BY <2>1, <2>3 DEF LastInv, Braking
  <2>. QED
    BY <2>2, <2>3
<1>. QED
  BY <1>1, Invariance, PTL

\* A generation that was released never closes the gate again.
THEOREM ReleasedKept == Spec => []ReleasedStaysReleased
<1>1. Inv => ReleasedStaysReleased
  BY HistoryFields DEF Inv, TypeOK, Sound, ReleasedInv, ReleasedStaysReleased, Clamped
<1>. QED
  BY <1>1, Invariance, PTL
=============================================================================
