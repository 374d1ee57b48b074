----------------------------- MODULE ModelingManager -----------------------------
(***************************************************************************)
(* ModelingManagerNode: services that edit the draft of a model, save it   *)
(* as a version, generate plans, and hand a plan to the mission manager.   *)
(*                                                                         *)
(* The services are handled one at a time, and a transaction is a step.    *)
(* Starting with an old database and generating a plan are more than one;  *)
(* the power may go in between.  ExecutePlan waits for the mission manager *)
(* on the service thread for a second, while the action thread may receive *)
(* the response: the two agree by atomics who cancels a goal that came too *)
(* late.                                                                   *)
(***************************************************************************)
EXTENDS ModelRepository

CONSTANTS
  OldDatabases,  \* databases of releases before, and none
  Samples,       \* where and as what points are sampled
  MaxSamples,    \* bound: points sampled, in a database that was not there before
  MaxGoals,      \* bound: goals sent
  MaxLoad        \* bound: versions, which count twice, goals, and failures

ASSUME ManagerAssumption ==
  /\ \A old \in OldDatabases : Consistent(old)
  /\ Samples \subseteq Place \X Kinds
  /\ MaxSamples \in Nat /\ MaxGoals \in Nat /\ MaxLoad \in Nat

VARIABLES
  db,       \* the database file
  node,     \* configured_, and whether repository_ is there: see Holding
  service,  \* where the service thread is, and what it holds
  goals,    \* the goals sent to the mission manager, in their order
  samples, trouble  \* counted for the bounds

vars == <<db, node, service, goals, samples, trouble>>

Idle == [at |-> "idle"]
Init ==
  /\ db \in OldDatabases
  /\ node = "down" /\ service = Idle /\ goals = <<>>
  /\ samples = IF db.schema = 0 THEN 0 ELSE MaxSamples
  /\ trouble = 0

Load == 2 * Cardinality(DOMAIN db.versions) + Len(goals) + trouble
Trouble == Load < MaxLoad /\ trouble' = trouble + 1
\* Configured, or opening the database again, or no longer configured after
\* that failed: the repository from before is still there.
Holding == {"ready", "reopening", "stale", "overdue"}
Nodes == {"down", "opening"} \cup Holding

\* A request that found the node configured waits for samples or for
\* repository_mutex_.  It is overdue when opening fails meanwhile, and is
\* answered all the same, from the repository from before.
Answers == node \in {"ready", "overdue"} /\ service = Idle
Answered == node' = IF node = "overdue" THEN "stale" ELSE node
Quiet == Answered /\ UNCHANGED <<service, goals, trouble>>

-----------------------------------------------------------------------------
(* The database is opened when the configuration arrives or changes.       *)

Configure ==
  /\ service.at # "planning"  \* that holds repository_mutex_
  /\ \/ node = "ready" /\ Trouble
     \/ node \in {"down", "stale", "overdue"} /\ UNCHANGED trouble
  /\ node' = IF node = "down" THEN "opening" ELSE "reopening"
  /\ db' = Created(db)
  /\ UNCHANGED <<service, goals, samples>>

Opening == node \in {"opening", "reopening"}

\* migrate_schema, one version after the other.
Migrate ==
  /\ Opening /\ db.schema < CurrentSchema
  /\ db' = MigrateSchema(db)
  /\ UNCHANGED <<node, service, goals, samples, trouble>>

Opened ==
  /\ Opening /\ db.schema = CurrentSchema
  /\ node' = "ready"
  /\ UNCHANGED <<db, service, goals, samples, trouble>>

\* The node is not configured; it tries again with the next configuration.
OpenFails ==
  /\ Opening /\ Trouble
  /\ \/ node = "opening" /\ node' = "down"
     \/ node = "reopening" /\ node' = "stale"
     \/ node = "reopening" /\ service = Idle /\ node' = "overdue"
  /\ UNCHANGED <<db, service, goals, samples>>

-----------------------------------------------------------------------------
(* Editing the draft: read it, change it, write it.                        *)

Draft(m) == LoadDraft(db, m)
Saves(m, model) == MaySave(model) /\ db' = SaveDraft(db, m, model)
GroupOf(model, id) == {i \in DOMAIN model.groups : model.groups[i].id = id}
WithGroup(model, i, group) == [model EXCEPT !.groups[i] = group]

\* What service requests do to a model that has a draft.
Edits(m, edited) ==
  /\ Answers /\ m \in DOMAIN db.models
  /\ Saves(m, edited)
  /\ Quiet /\ UNCHANGED samples

\* OP_CREATE: the name may be that of a model there is.
Create(m) ==
  /\ Answers
  /\ Saves(m, EmptyModel)
  /\ Quiet /\ UNCHANGED samples

Delete(m) ==
  /\ Answers /\ m \in DOMAIN db.models
  /\ db' = DeleteModel(db, m)
  /\ Quiet /\ UNCHANGED samples

WithNewGroup(model, id) ==
  [model EXCEPT !.groups = Append(@, NewGroup(id)), !.confirmed = FALSE]
CreateGroup(m, id) == Edits(m, WithNewGroup(Draft(m), id))

WithoutGroup(model, i) == WithConfirmation([model EXCEPT !.groups = RemoveAt(@, i)])
DeleteGroup(m, id) ==
  /\ m \in DOMAIN db.models
  /\ \E i \in GroupOf(Draft(m), id) : Edits(m, WithoutGroup(Draft(m), i))

WithoutPoint(model, i, p) ==
  [WithGroup(model, i, Invalidated([model.groups[i] EXCEPT !.points = RemoveAt(@, p)]))
     EXCEPT !.confirmed = FALSE]
DeletePoint(m, id) ==
  /\ m \in DOMAIN db.models
  /\ \E i \in GroupOf(Draft(m), id) : \E p \in DOMAIN Draft(m).groups[i].points :
       Edits(m, WithoutPoint(Draft(m), i, p))

\* A recognition that fails is saved too, without the flag of the model.
WithRecognised(model, i, outcome) ==
  LET recognised == WithGroup(model, i, Recognised(model.groups[i], outcome))
  IN  IF outcome = "fails" THEN recognised ELSE WithConfirmation(recognised)
RecognizeGroup(m, id) ==
  /\ m \in DOMAIN db.models
  /\ \E i \in GroupOf(Draft(m), id), outcome \in Outcomes :
       /\ MayBe(outcome, Draft(m).groups[i])
       /\ Edits(m, WithRecognised(Draft(m), i, outcome))

WithConfirmedGroup(model, i) ==
  WithConfirmation(WithGroup(model, i, ConfirmedGroup(model.groups[i])))
ConfirmRecognition(m, id) ==
  /\ m \in DOMAIN db.models
  /\ \E i \in GroupOf(Draft(m), id) :
       /\ Draft(m).groups[i].areas > 0
       /\ Edits(m, WithConfirmedGroup(Draft(m), i))

\* onSamplePoint: enough good samples were received while the vehicle stood.
WithPoint(model, i, place, kind) ==
  LET group == model.groups[i]
      extended == [group EXCEPT !.points = Append(@, Sampled(model, place, kind))]
  IN  [WithGroup(model, i, Invalidated(extended)) EXCEPT
         !.origin = OriginFor(model, place), !.confirmed = FALSE]
SamplePoint(m, id, place, kind) ==
  /\ Answers /\ m \in DOMAIN db.models /\ samples < MaxSamples
  /\ \E i \in GroupOf(Draft(m), id) : Saves(m, WithPoint(Draft(m), i, place, kind))
  /\ samples' = samples + 1
  /\ Quiet

-----------------------------------------------------------------------------
(* Versions and plans.                                                     *)

MoreVersions == Load + 1 < MaxLoad

SaveVersion(m) ==
  /\ Answers /\ m \in DOMAIN db.models /\ MoreVersions
  /\ Draft(m).confirmed
  /\ db' = SaveFormalVersion(db, m, Draft(m))
  /\ Quiet /\ UNCHANGED samples

\* onGeneratePlan: without a version of its own, of the draft as it is.
GeneratePlan(m) ==
  /\ Answers /\ m \in DOMAIN db.models
  /\ \/ /\ MoreVersions
        /\ db' = SaveFormalVersion(db, m, Draft(m))
        /\ service' = [at |-> "planning", model |-> m, version |-> NextVersion(db, m)]
     \/ /\ \E key \in DOMAIN db.versions :
             key[1] = m /\ service' = [at |-> "planning", model |-> m, version |-> key[2]]
        /\ UNCHANGED db
  /\ Answered /\ UNCHANGED <<goals, samples, trouble>>

\* The second transaction.  The geometry, or the database, may be bad.
BuildPlan(preview) ==
  /\ service.at = "planning"
  /\ LET version == LoadVersion(db, service.model, service.version)
     IN  \/ MayPlan(version)
            /\ db' = SavePlan(db, PlanOf(service.model, service.version, version, preview))
         \/ UNCHANGED db
  /\ service' = Idle
  /\ UNCHANGED <<node, goals, samples, trouble>>

-----------------------------------------------------------------------------
(* Handing a plan over.                                                    *)

NewGoal == [state |-> "sent", ready |-> FALSE, called |-> FALSE, late |-> FALSE,
            cancelling |-> FALSE, cancels |-> 0, answer |-> "none", live |-> TRUE]
Newest == Len(goals)

\* onExecutePlan, to async_send_goal.
ExecutePlan(id) ==
  /\ Answers /\ Newest < MaxGoals /\ Load < MaxLoad
  /\ LoadPlan(db, id).preview
  /\ goals' = Append(goals, NewGoal)
  /\ service' = [at |-> "waiting"]
  /\ Answered /\ UNCHANGED <<db, samples, trouble>>

InTime ==
  /\ service.at = "waiting" /\ goals[Newest].ready
  /\ goals' = [goals EXCEPT ![Newest].answer = goals[Newest].state]
  /\ service' = Idle
  /\ UNCHANGED <<db, node, samples, trouble>>

\* The second is over; the response may still come at any moment.
WaitEnds ==
  /\ service.at = "waiting" /\ ~goals[Newest].ready
  /\ service' = [at |-> "late"]
  /\ UNCHANGED <<db, node, goals, samples, trouble>>

MarkTimedOut ==
  /\ service.at = "late"
  /\ goals' = [goals EXCEPT ![Newest].late = TRUE]
  /\ service' = [at |-> "marked"]
  /\ UNCHANGED <<db, node, samples, trouble>>

\* Mutant of Cancelled: the flag is not exchanged.
CancelledAgain(goal) == [goal EXCEPT !.cancels = @ + 1]

\* late_cancel_requested.exchange(true), and the cancel by whoever was first.
Cancelled(goal) ==
  IF goal.cancelling THEN goal
  ELSE [goal EXCEPT !.cancelling = TRUE, !.cancels = @ + 1]

\* Mutant of SecondLook: the future is not looked at again.
NoSecondLook(goal) == goal
SecondLook(goal) == IF goal.ready /\ goal.state = "accepted" THEN Cancelled(goal) ELSE goal

AnswerTimeout ==
  /\ service.at = "marked"
  /\ goals' = [goals EXCEPT ![Newest] = [SecondLook(@) EXCEPT !.answer = "timeout"]]
  /\ service' = Idle
  /\ UNCHANGED <<db, node, samples, trouble>>

\* The action client: the future is ready before the callback is called.
ResponseArrives(g) ==
  /\ goals[g].live /\ goals[g].state # "sent" /\ ~goals[g].ready
  /\ goals' = [goals EXCEPT ![g].ready = TRUE]
  /\ UNCHANGED <<db, node, service, samples, trouble>>

OnGoalResponse(g) ==
  /\ goals[g].live /\ goals[g].ready /\ ~goals[g].called
  /\ LET goal == [goals[g] EXCEPT !.called = TRUE]
     IN  goals' = [goals EXCEPT ![g] =
           IF goal.state = "accepted" /\ goal.late THEN Cancelled(goal) ELSE goal]
  /\ UNCHANGED <<db, node, service, samples, trouble>>

\* The mission manager, at any time or never.
MissionAnswers(g) ==
  /\ goals[g].state = "sent"
  /\ \E state \in {"accepted", "rejected"} : goals' = [goals EXCEPT ![g].state = state]
  /\ UNCHANGED <<db, node, service, samples, trouble>>

-----------------------------------------------------------------------------
\* The process dies, or the power goes.  Responses on their way are lost, and
\* the mission goes on without anybody who could cancel it for being late.
Crash ==
  /\ node # "down" /\ Trouble
  /\ node' = "down" /\ service' = Idle
  /\ goals' = [g \in DOMAIN goals |-> [goals[g] EXCEPT !.live = FALSE]]
  /\ UNCHANGED <<db, samples>>

Edit(m) ==
  \/ Create(m) \/ Delete(m)
  \/ \E id \in Group :
       \/ CreateGroup(m, id) \/ DeleteGroup(m, id) \/ DeletePoint(m, id)
       \/ RecognizeGroup(m, id) \/ ConfirmRecognition(m, id)
       \/ \E sample \in Samples : SamplePoint(m, id, sample[1], sample[2])
Response(g) == g \in DOMAIN goals /\ (ResponseArrives(g) \/ OnGoalResponse(g))
ServiceRuns ==
  \/ \E preview \in BOOLEAN : BuildPlan(preview)
  \/ InTime \/ WaitEnds \/ MarkTimedOut \/ AnswerTimeout

Next ==
  \/ Configure \/ Migrate \/ Opened \/ OpenFails
  \/ \E m \in Model : Edit(m) \/ SaveVersion(m) \/ GeneratePlan(m)
  \/ \E id \in DOMAIN db.plans : ExecutePlan(id)
  \/ ServiceRuns
  \/ \E g \in DOMAIN goals : Response(g) \/ MissionAnswers(g)
  \/ Crash

Spec == Init /\ [][Next]_vars

\* The service thread and the action thread run, and waiting has its deadline.
\* The mission manager need not answer at all.
FairSpec ==
  Spec /\ WF_vars(ServiceRuns) /\ \A g \in 1 .. MaxGoals : WF_vars(Response(g))

-----------------------------------------------------------------------------
(* What the models promise.                                                *)

GoalRecords ==
  [state : {"sent", "accepted", "rejected"}, ready : BOOLEAN, called : BOOLEAN,
   late : BOOLEAN, cancelling : BOOLEAN, cancels : {0, 1},
   answer : {"none", "sent", "accepted", "rejected", "timeout"}, live : BOOLEAN]

\* A plan is only made of a version that is there, with the database open.
TypeOK ==
  /\ IsDatabase(db) /\ node \in Nodes
  /\ service \in {Idle} \cup [at : {"waiting", "late", "marked"}]
               \cup [at : {"planning"}, model : Model, version : VersionNumbers]
  /\ goals \in Seq(GoalRecords) /\ samples \in Nat /\ trouble \in Nat

\* The points of a draft are in the frame of its origin, whichever points were
\* deleted since and whichever release the model was made with: a plan lays
\* them out from that origin (set_model_point_local_coordinates, migrations).
DraftIsInOneFrame ==
  db.schema = CurrentSchema => \A m \in DOMAIN db.models :
    \A i \in DOMAIN Draft(m).groups : \A p \in DOMAIN Draft(m).groups[i].points :
      LET point == Draft(m).groups[i].points[p]
      IN  Draft(m).origin # NoOrigin /\ point.local = Local(Draft(m).origin, point.place)

\* Nothing that is done to the draft, and no migration, changes the points or
\* the areas of a formal version: it stays until its model is deleted.
Content(d, key) ==
  [i \in DOMAIN d.rows[key] |->
     <<d.rows[key][i].id, d.rows[key][i].areas,
       [p \in DOMAIN d.rows[key][i].points |-> d.rows[key][i].points[p].place]>>]
VersionsKeepTheirContent ==
  [][\A key \in DOMAIN db.versions :
       /\ key[1] \in DOMAIN db'.models => key \in DOMAIN db'.versions
       /\ key \in DOMAIN db'.versions => Content(db', key) = Content(db, key)]_db

\* A plan has the positions of one group, which is all of its version.
IsLaidFrom(d, id) ==
  LET key == PlannedVersion(d.plans[id])
  IN  /\ key \in DOMAIN d.versions /\ Len(d.rows[key]) = 1
      /\ Positions([groups |-> d.rows[key]]) = d.plans[id].positions

\* A stored plan is of a version that is there, also after the model was deleted
\* and made anew under its name.  It is made with the positions of that version
\* and agrees with them from then on.  Only migrate_v1_to_v2 parts the two: it
\* moves the points of a version and not the plans that were made of it.
PlanIsOfItsVersion ==
  [][\A id \in DOMAIN db'.plans :
       /\ PlannedVersion(db'.plans[id]) \in DOMAIN db'.versions
       /\ \/ IsLaidFrom(db', id)
          \/ id \in DOMAIN db.plans /\ ~IsLaidFrom(db, id)
          \/ id \in DOMAIN db.plans /\ db.schema = 1]_db

\* No plan is made of a version with an area, or a way between two areas, that
\* nobody confirmed, whatever the flag of the version says.
PlannedIsConfirmed ==
  [][\A id \in DOMAIN db'.plans \ DOMAIN db.plans :
       \A group \in Range(db.rows[<<id[1], id[2]>>]) : IsConfirmedGroup(group)]_db

\* The operator's answer is kept: what was accepted in time is not cancelled
\* for being late, and what was late is cancelled once.
AnswerIsKept ==
  \A g \in DOMAIN goals :
    /\ goals[g].cancels <= 1
    /\ goals[g].cancels = 1 => goals[g].late /\ goals[g].state = "accepted"
    /\ goals[g].answer = "accepted" => goals[g].state = "accepted" /\ ~goals[g].late

\* A goal that the operator was told had timed out does not drive off: if the
\* mission manager accepts it all the same, it is cancelled, however the answer
\* falls between the two looks at the future.
TimedOutIsCancelled ==
  \A g \in 1 .. MaxGoals :
    (g \in DOMAIN goals /\ goals[g].answer = "timeout" /\ goals[g].state = "accepted")
      ~> (g \in DOMAIN goals /\ (goals[g].cancels = 1 \/ ~goals[g].live))

=============================================================================
