------------------------------ MODULE ModelRecords ------------------------------
(***************************************************************************)
(* What a cleaning model is made of, how a group of points is recognised   *)
(* as sub-areas, and which models a plan can be built from.                *)
(*                                                                         *)
(* The earth is a line of places.  A point keeps where it was sampled and  *)
(* its position in the model's own frame, and a plan is laid from the      *)
(* positions.  Whether the geometry of a group is good, and how sure the   *)
(* recogniser is of it, depends on options that may change: any outcome.   *)
(***************************************************************************)
EXTENDS Integers, Sequences, SequencesExt, FiniteSets

CONSTANTS
  Model, Group,  \* names of models and of groups
  Place,         \* where points are sampled
  NoOrigin,      \* the origin of a model without points
  Corners        \* boundary points that a sub-area needs: four in the code

ASSUME RecordsAssumption ==
  Place \subseteq Int /\ NoOrigin \notin Int /\ Corners \in Nat \ {0}

Outcomes == {"fails", "doubtful", "confident"}

Local(origin, place) == place - origin  \* lat_lon_to_local_cm
OnEarth(origin, local) == origin + local  \* local_cm_to_lat_lon

NewGroup(id) ==
  [id |-> id, points |-> <<>>, areas |-> 0, areasOk |-> FALSE,
   joined |-> FALSE, linksOk |-> FALSE]

\* A model before it has points: what CleaningModel is constructed as.
EmptyModel == [origin |-> NoOrigin, confirmed |-> FALSE, groups |-> <<>>]

\* Mutant of OriginFor: every sample moves the origin to itself.
OriginIsLast(model, place) == place

\* set_model_point_local_coordinates: the first sample is the origin.
OriginFor(model, place) == IF model.origin = NoOrigin THEN place ELSE model.origin

Sampled(model, place, kind) ==
  [place |-> place, kind |-> kind, local |-> Local(OriginFor(model, place), place)]

\* invalidateRecognition.
Invalidated(group) ==
  [group EXCEPT !.areas = 0, !.areasOk = FALSE, !.joined = FALSE, !.linksOk = FALSE]

-----------------------------------------------------------------------------
(* Recognition.                                                            *)

\* The longest stretches of points of the same kind.
Stretches(points) ==
  {s \in (DOMAIN points) \X (DOMAIN points) :
     /\ s[1] <= s[2]
     /\ \A i \in s[1] .. s[2] : points[i].kind = points[s[1]].kind
     /\ s[1] > 1 => points[s[1] - 1].kind # points[s[1]].kind
     /\ s[2] < Len(points) => points[s[2] + 1].kind # points[s[2]].kind}
Areas(points) == {s \in Stretches(points) : points[s[1]].kind = "boundary"}

\* Boundaries of sub-areas, with a pair of connection points between any two.
IsRecognisable(points) ==
  /\ points # <<>> /\ points[1].kind = "boundary" /\ points[Len(points)].kind = "boundary"
  /\ \A s \in Stretches(points) :
       IF s \in Areas(points) THEN s[2] - s[1] + 1 >= Corners ELSE s[2] = s[1] + 1

\* recognize_group and recognition_error_result.
Recognised(group, outcome) ==
  IF outcome = "fails" THEN Invalidated(group)
  ELSE [group EXCEPT !.areas = Cardinality(Areas(group.points)), !.joined = TRUE,
                     !.areasOk = outcome = "confident", !.linksOk = outcome = "confident"]
MayBe(outcome, group) == outcome = "fails" \/ IsRecognisable(group.points)

ConfirmedGroup(group) ==
  [group EXCEPT !.areasOk = TRUE, !.linksOk = TRUE]
IsConfirmedGroup(group) ==
  group.areas > 0 /\ group.areasOk /\ (group.areas > 1 => group.linksOk)

\* updateConfirmation.
WithConfirmation(model) ==
  [model EXCEPT !.confirmed =
     model.groups # <<>> /\ \A i \in DOMAIN model.groups : IsConfirmedGroup(model.groups[i])]

-----------------------------------------------------------------------------
(* Plans.                                                                  *)

\* resolve_sub_area_chain: one area, or areas that confirmed connectors join.
IsChain(group) == group.areas > 1 => group.joined /\ group.linksOk

\* Mutant of MayPlan: the flag of the model is believed.
PlansIfConfirmed(model) ==
  model.confirmed /\ model.origin # NoOrigin /\ Len(model.groups) = 1 /\ model.groups[1].areas > 0

\* What build_task_plan asks of a model before the geometry: two groups are
\* never joined by a connector, so that there has to be one.
MayPlan(model) ==
  /\ model.confirmed /\ model.origin # NoOrigin
  /\ Len(model.groups) = 1
  /\ \A i \in DOMAIN model.groups :
       /\ model.groups[i].areas > 0 /\ model.groups[i].areasOk
       /\ IsChain(model.groups[i])

Positions(model) == [i \in DOMAIN model.groups[1].points |-> model.groups[1].points[i].local]

\* The plan of a version: its identity is a fingerprint of the positions.
PlanOf(m, v, model, preview) ==
  [model |-> m, version |-> v, positions |-> Positions(model),
   route |-> [i \in DOMAIN Positions(model) |-> OnEarth(model.origin, Positions(model)[i])],
   preview |-> preview]
PlanId(plan) == <<plan.model, plan.version, plan.positions>>

-----------------------------------------------------------------------------
(* Types.                                                                  *)

Kinds == {"boundary", "connection"}
VersionNumbers == Nat \ {0}
PointRecords == [place : Place, kind : Kinds, local : Int]
GroupRecords ==
  [id : Group, points : Seq(PointRecords), areas : Nat, areasOk : BOOLEAN,
   joined : BOOLEAN, linksOk : BOOLEAN]
PlanRecords ==
  [model : Model, version : VersionNumbers, positions : Seq(Int), route : Seq(Int),
   preview : BOOLEAN]
=============================================================================
