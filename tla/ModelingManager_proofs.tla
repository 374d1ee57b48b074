------------------------ MODULE ModelingManager_proofs ------------------------
(***************************************************************************)
(* Proofs about the models and the plans, for any names, places, databases *)
(* of earlier releases and bounds, and for any number of goals.            *)
(*                                                                         *)
(* Handing a plan over keeps Inv, which is about the goals alone.  The     *)
(* database keeps DbInv: it is Consistent, and of the current schema when  *)
(* the node is ready.  One lemma for each transaction of the repository    *)
(* shows that the database stays consistent and that versions keep their   *)
(* content; an edit is any change that leaves the draft a model whose      *)
(* points are in the frame of its origin.                                  *)
(***************************************************************************)
EXTENDS ModelingManager, TLAPS, FiniteSetTheorems

-----------------------------------------------------------------------------
(* Goals handed over.                                                       *)

\* A goal is cancelled once, by whoever exchanges the flag, and for being late.
GoalInv(goal) ==
  /\ goal.cancels = IF goal.cancelling THEN 1 ELSE 0
  /\ goal.cancelling => goal.late /\ goal.state = "accepted"
  /\ goal.answer = "accepted" => goal.state = "accepted" /\ ~goal.late

\* The goal that the service thread waits for has no answer yet, and is late
\* from the moment that the thread has marked it.
Waits == service.at \in {"waiting", "late", "marked"}
NewestInv ==
  Waits => /\ goals # <<>> /\ goals[Newest].answer = "none"
           /\ goals[Newest].late = (service.at = "marked")

AllGoals == \A g \in DOMAIN goals : GoalInv(goals[g])
Inv == goals \in Seq(GoalRecords) /\ AllGoals /\ NewestInv

-----------------------------------------------------------------------------
\* Editing, saving, planning and opening leave the goals alone.
Elsewhere ==
  /\ UNCHANGED goals
  /\ UNCHANGED service \/ service'.at \in {"idle", "planning"}

LEMMA EditIsElsewhere == ASSUME NEW m \in Model, Edit(m) PROVE Elsewhere
<1>1. CASE Create(m) \/ Delete(m)
  BY <1>1 DEF Create, Delete, Quiet, Elsewhere
<1>2. ASSUME NEW id \in Group,
             \/ CreateGroup(m, id) \/ DeleteGroup(m, id) \/ DeletePoint(m, id)
             \/ RecognizeGroup(m, id) \/ ConfirmRecognition(m, id)
      PROVE  Elsewhere
  BY <1>2 DEF CreateGroup, DeleteGroup, DeletePoint, RecognizeGroup, ConfirmRecognition,
              Edits, Quiet, Elsewhere
<1>3. ASSUME NEW id \in Group, NEW sample \in Samples,
             SamplePoint(m, id, sample[1], sample[2])
      PROVE  Elsewhere
  BY <1>3 DEF SamplePoint, Quiet, Elsewhere
<1>. QED
  BY <1>1, <1>2, <1>3 DEF Edit

LEMMA OthersAreElsewhere ==
  ASSUME \/ Configure \/ Migrate \/ Opened \/ OpenFails \/ UNCHANGED vars
         \/ \E m \in Model : SaveVersion(m) \/ GeneratePlan(m)
         \/ \E preview \in BOOLEAN : BuildPlan(preview)
  PROVE  Elsewhere
BY DEF Configure, Migrate, Opened, OpenFails, SaveVersion, GeneratePlan, BuildPlan, Quiet,
       Idle, vars, Elsewhere

LEMMA ElsewhereKeepsInv == ASSUME Inv, Elsewhere PROVE Inv'
BY DEF Inv, Elsewhere, AllGoals, NewestInv, Waits, Newest

-----------------------------------------------------------------------------
\* One goal takes a step of its own.
LEMMA OneGoal ==
  ASSUME goals \in Seq(GoalRecords), AllGoals, NEW g \in DOMAIN goals,
         NEW goal \in GoalRecords, GoalInv(goal), goals' = [goals EXCEPT ![g] = goal]
  PROVE  /\ goals' \in Seq(GoalRecords) /\ AllGoals' /\ Len(goals') = Len(goals)
         /\ goals'[g] = goal /\ \A h \in DOMAIN goals \ {g} : goals'[h] = goals[h]
BY DEF AllGoals

LEMMA CancelledShape ==
  ASSUME NEW goal \in GoalRecords, GoalInv(goal), goal.late, goal.state = "accepted"
  PROVE  /\ Cancelled(goal) \in GoalRecords /\ GoalInv(Cancelled(goal))
         /\ Cancelled(goal).answer = goal.answer /\ Cancelled(goal).late = goal.late
         /\ Cancelled(goal).state = goal.state
<1>1. CASE goal.cancelling
  BY <1>1 DEF Cancelled
<1>2. CASE ~goal.cancelling
  <2>1. goal.cancels = 0 /\ goal.cancels + 1 = 1
    BY <1>2 DEF GoalInv
  <2>2. Cancelled(goal) = [goal EXCEPT !.cancelling = TRUE, !.cancels = 1]
    BY <1>2, <2>1 DEF Cancelled, GoalRecords
  <2>. QED
    BY <2>2 DEF GoalRecords, GoalInv
<1>. QED
  BY <1>1, <1>2 DEF GoalRecords

LEMMA NewestIsGoal ==
  ASSUME Inv, Waits
  PROVE  /\ Newest \in DOMAIN goals /\ goals[Newest] \in GoalRecords /\ GoalInv(goals[Newest])
         /\ goals[Newest].answer = "none"
         /\ goals[Newest].late = (service.at = "marked")
<1>1. Newest \in DOMAIN goals
  BY DEF Inv, NewestInv, Newest
<1>. QED
  BY <1>1 DEF Inv, AllGoals, NewestInv

LEMMA ExecuteStep == ASSUME Inv, NEW id \in DOMAIN db.plans, ExecutePlan(id) PROVE Inv'
<1>1. goals' = Append(goals, NewGoal) /\ service' = [at |-> "waiting"]
  BY DEF ExecutePlan
<1>2. NewGoal \in GoalRecords /\ GoalInv(NewGoal) /\ NewGoal.answer = "none" /\ ~NewGoal.late
  BY DEF NewGoal, GoalRecords, GoalInv
<1>3. goals \in Seq(GoalRecords) /\ AllGoals
  BY DEF Inv
<1>. DEFINE new == NewGoal
<1>. HIDE DEF new
<1>4. goals' = Append(goals, new) /\ new \in GoalRecords /\ GoalInv(new) /\ new.answer = "none"
      /\ new.late = FALSE
  BY <1>1, <1>2 DEF new, NewGoal
<1>5. /\ goals' \in Seq(GoalRecords) /\ Len(goals') = Len(goals) + 1
      /\ goals'[Len(goals')] = new /\ \A g \in DOMAIN goals : goals'[g] = goals[g]
      /\ DOMAIN goals' = DOMAIN goals \cup {Len(goals')}
  BY <1>3, <1>4
<1>6. AllGoals'
  BY <1>3, <1>4, <1>5 DEF AllGoals
<1>7. goals' # <<>> /\ Len(goals') > 0
  BY <1>3, <1>5
<1>8. service'.at = "waiting"
  BY <1>1
<1>9. NewestInv'
  BY <1>4, <1>5, <1>7, <1>8 DEF NewestInv, Newest
<1>. QED
  BY <1>5, <1>6, <1>9 DEF Inv

LEMMA InTimeStep == ASSUME Inv, InTime PROVE Inv'
<1>1. service.at = "waiting" /\ service'.at = "idle" /\ Waits
  BY DEF InTime, Idle, Waits
<1>. DEFINE g == Newest
            goal == [goals[g] EXCEPT !.answer = goals[g].state]
<1>2. /\ g \in DOMAIN goals /\ goals[g] \in GoalRecords /\ GoalInv(goals[g]) /\ ~goals[g].late
  BY <1>1, NewestIsGoal
<1>3. goals' = [goals EXCEPT ![g] = goal]
  BY <1>2 DEF InTime, GoalRecords
<1>. HIDE DEF g
<1>4. goal \in GoalRecords /\ GoalInv(goal)
  BY <1>2 DEF GoalRecords, GoalInv
<1>. HIDE DEF goal
<1>5. goals' \in Seq(GoalRecords) /\ AllGoals'
  BY <1>2, <1>3, <1>4, OneGoal DEF Inv
<1>. QED
  BY <1>1, <1>5 DEF Inv, NewestInv, Waits

LEMMA WaitEndsStep == ASSUME Inv, WaitEnds PROVE Inv'
<1>1. service.at = "waiting" /\ service'.at = "late" /\ goals' = goals /\ Waits
  BY DEF WaitEnds, Waits
<1>. QED
  BY <1>1 DEF Inv, AllGoals, NewestInv, Waits, Newest

LEMMA MarkStep == ASSUME Inv, MarkTimedOut PROVE Inv'
<1>1. service.at = "late" /\ service'.at = "marked" /\ Waits
  BY DEF MarkTimedOut, Waits
<1>. DEFINE g == Newest
            goal == [goals[g] EXCEPT !.late = TRUE]
<1>2. /\ g \in DOMAIN goals /\ goals[g] \in GoalRecords /\ GoalInv(goals[g])
      /\ goals[g].answer = "none"
  BY <1>1, NewestIsGoal
<1>3. goals' = [goals EXCEPT ![g] = goal]
  BY <1>2 DEF MarkTimedOut, GoalRecords
<1>4. g = Len(goals)
  BY DEF Newest
<1>. HIDE DEF g
<1>5. goal \in GoalRecords /\ GoalInv(goal) /\ goal.answer = "none" /\ goal.late = TRUE
  BY <1>2 DEF GoalRecords, GoalInv
<1>. HIDE DEF goal
<1>6. /\ goals' \in Seq(GoalRecords) /\ AllGoals' /\ Len(goals') = Len(goals) /\ goals'[g] = goal
  BY <1>2, <1>3, <1>5, OneGoal DEF Inv
<1>7. Len(goals') = g /\ goals' # <<>>
  BY <1>2, <1>4, <1>6 DEF Inv
<1>8. NewestInv'
  BY <1>1, <1>5, <1>6, <1>7 DEF NewestInv, Newest
<1>. QED
  BY <1>6, <1>8 DEF Inv

LEMMA TimeoutStep == ASSUME Inv, AnswerTimeout PROVE Inv'
<1>1. service.at = "marked" /\ service'.at = "idle" /\ Waits
  BY DEF AnswerTimeout, Idle, Waits
<1>. DEFINE g == Newest
            looked == SecondLook(goals[g])
            goal == [looked EXCEPT !.answer = "timeout"]
<1>2. /\ g \in DOMAIN goals /\ goals[g] \in GoalRecords /\ GoalInv(goals[g]) /\ goals[g].late
  BY <1>1, NewestIsGoal
<1>3. goals' = [goals EXCEPT ![g] = goal]
  BY DEF AnswerTimeout
<1>. HIDE DEF g
<1>4. looked \in GoalRecords /\ GoalInv(looked) /\ looked.late
  BY <1>2, CancelledShape DEF SecondLook
<1>. HIDE DEF looked
<1>5. goal \in GoalRecords /\ GoalInv(goal)
  BY <1>4 DEF GoalRecords, GoalInv
<1>. HIDE DEF goal
<1>6. goals' \in Seq(GoalRecords) /\ AllGoals'
  BY <1>2, <1>3, <1>5, OneGoal DEF Inv
<1>. QED
  BY <1>1, <1>6 DEF Inv, NewestInv, Waits

\* The responses and the mission manager may answer while the thread waits.
LEMMA AnswerStep ==
  ASSUME Inv, NEW g \in DOMAIN goals, NEW goal \in GoalRecords, GoalInv(goal),
         goals' = [goals EXCEPT ![g] = goal], UNCHANGED service,
         goal.answer = goals[g].answer, goal.late = goals[g].late
  PROVE  Inv'
<1>1. /\ goals' \in Seq(GoalRecords) /\ AllGoals' /\ Len(goals') = Len(goals)
      /\ goals'[g] = goal /\ \A h \in DOMAIN goals \ {g} : goals'[h] = goals[h]
  BY OneGoal DEF Inv
<1>2. ASSUME Waits PROVE Newest \in DOMAIN goals
  BY <1>2, NewestIsGoal
<1>3. NewestInv'
  BY <1>1, <1>2 DEF Inv, NewestInv, Waits, Newest
<1>. QED
  BY <1>1, <1>3 DEF Inv

LEMMA ResponseStep == ASSUME Inv, NEW g \in DOMAIN goals, Response(g) PROVE Inv'
<1>1. goals[g] \in GoalRecords /\ GoalInv(goals[g]) /\ UNCHANGED service
  BY DEF Inv, AllGoals, Response, ResponseArrives, OnGoalResponse
<1>2. CASE ResponseArrives(g)
  <2>. DEFINE goal == [goals[g] EXCEPT !.ready = TRUE]
  <2>1. goals' = [goals EXCEPT ![g] = goal]
    BY <1>1, <1>2 DEF ResponseArrives, GoalRecords
  <2>2. goal \in GoalRecords /\ GoalInv(goal) /\ goal.answer = goals[g].answer
        /\ goal.late = goals[g].late
    BY <1>1 DEF GoalRecords, GoalInv
  <2>. QED
    BY <1>1, <2>1, <2>2, AnswerStep
<1>3. CASE OnGoalResponse(g)
  <2>. DEFINE called == [goals[g] EXCEPT !.called = TRUE]
              goal == IF called.state = "accepted" /\ called.late
                      THEN Cancelled(called) ELSE called
  <2>1. goals' = [goals EXCEPT ![g] = goal]
    BY <1>3 DEF OnGoalResponse
  <2>2. called \in GoalRecords /\ GoalInv(called) /\ called.answer = goals[g].answer
        /\ called.late = goals[g].late
    BY <1>1 DEF GoalRecords, GoalInv
  <2>. HIDE DEF called
  <2>3. goal \in GoalRecords /\ GoalInv(goal) /\ goal.answer = goals[g].answer
        /\ goal.late = goals[g].late
    BY <2>2, CancelledShape
  <2>. QED
    BY <1>1, <2>1, <2>3, AnswerStep
<1>. QED
  BY <1>2, <1>3 DEF Response

LEMMA MissionStep == ASSUME Inv, NEW g \in DOMAIN goals, MissionAnswers(g) PROVE Inv'
<1>1. /\ goals[g] \in GoalRecords /\ GoalInv(goals[g]) /\ goals[g].state = "sent"
      /\ UNCHANGED service
  BY DEF Inv, AllGoals, MissionAnswers
<1>2. PICK state \in {"accepted", "rejected"} : goals' = [goals EXCEPT ![g].state = state]
  BY DEF MissionAnswers
<1>. DEFINE goal == [goals[g] EXCEPT !.state = state]
<1>3. goals' = [goals EXCEPT ![g] = goal]
  BY <1>1, <1>2 DEF GoalRecords
<1>4. goal \in GoalRecords /\ GoalInv(goal) /\ goal.answer = goals[g].answer
      /\ goal.late = goals[g].late
  BY <1>1, <1>2 DEF GoalRecords, GoalInv
<1>. QED
  BY <1>1, <1>3, <1>4, AnswerStep

LEMMA CrashStep == ASSUME Inv, Crash PROVE Inv'
<1>1. service'.at = "idle"
      /\ goals' = [g \in DOMAIN goals |-> [goals[g] EXCEPT !.live = FALSE]]
  BY DEF Crash, Idle
<1>2. ASSUME NEW g \in DOMAIN goals
      PROVE  [goals[g] EXCEPT !.live = FALSE] \in GoalRecords
             /\ GoalInv([goals[g] EXCEPT !.live = FALSE])
  <2>1. goals[g] \in GoalRecords /\ GoalInv(goals[g])
    BY DEF Inv, AllGoals
  <2>. QED
    BY <2>1 DEF GoalRecords, GoalInv
<1>3. goals' \in Seq(GoalRecords)
  BY <1>1, <1>2 DEF Inv
<1>4. AllGoals'
  BY <1>1, <1>2 DEF AllGoals
<1>. QED
  BY <1>1, <1>3, <1>4 DEF Inv, NewestInv, Waits

LEMMA StepKeepsInv == ASSUME Inv, [Next]_vars PROVE Inv'
<1>1. CASE \/ Configure \/ Migrate \/ Opened \/ OpenFails \/ UNCHANGED vars
           \/ \E m \in Model : SaveVersion(m) \/ GeneratePlan(m)
           \/ \E preview \in BOOLEAN : BuildPlan(preview)
  BY <1>1, OthersAreElsewhere, ElsewhereKeepsInv
<1>2. ASSUME NEW m \in Model, Edit(m) PROVE Inv'
  BY <1>2, EditIsElsewhere, ElsewhereKeepsInv
<1>3. CASE InTime \/ WaitEnds \/ MarkTimedOut \/ AnswerTimeout \/ Crash
  BY <1>3, InTimeStep, WaitEndsStep, MarkStep, TimeoutStep, CrashStep
<1>. QED
  BY <1>1, <1>2, <1>3, ExecuteStep, ResponseStep, MissionStep DEF Next, ServiceRuns

LEMMA InitIsInv == Init => Inv
BY DEF Init, Inv, AllGoals, NewestInv, Waits, Idle

\* The operator's answer is kept, for any number of goals and however the
\* service thread and the action thread interleave.
THEOREM AnswerKept == Spec => []AnswerIsKept
<1>1. Init => Inv
  BY InitIsInv
<1>2. Inv /\ [Next]_vars => Inv'
  BY StepKeepsInv
<1>3. Inv => AnswerIsKept
  <2>. SUFFICES ASSUME Inv, NEW g \in DOMAIN goals
                PROVE  /\ goals[g].cancels <= 1
                       /\ goals[g].cancels = 1 => goals[g].late /\ goals[g].state = "accepted"
                       /\ goals[g].answer = "accepted" =>
                            goals[g].state = "accepted" /\ ~goals[g].late
    BY DEF AnswerIsKept
  <2>1. goals[g] \in GoalRecords /\ GoalInv(goals[g])
    BY DEF Inv, AllGoals
  <2>. QED
    BY <2>1 DEF GoalRecords, GoalInv
<1>. QED
  BY <1>1, <1>2, <1>3, PTL DEF Spec
-----------------------------------------------------------------------------
(* Numbers and sequences.                                                  *)

\* A finite set that is not empty has a greatest and a least number: of the
\* sets of greater numbers, and of the smaller ones, one is least by inclusion.
LEMMA MaxIs ==
  ASSUME NEW S \in SUBSET Nat, IsFiniteSet(S), S # {}
  PROVE  Max(S) \in S /\ \A j \in S : Max(S) >= j
<1> DEFINE R == StrictSubsetOrdering(S)
           F == FiniteSubsetsOf(S)
           above(i) == {j \in S : j > i}
           T == {above(i) : i \in S}
<1>1. T \subseteq F
  <2> SUFFICES ASSUME NEW i \in S PROVE above(i) \in F
    OBVIOUS
  <2>1. above(i) \in SUBSET S
    OBVIOUS
  <2>2. ASSUME NEW A \in SUBSET S PROVE IsFiniteSet(A)
    BY FS_Subset
  <2>. HIDE DEF above
  <2>. QED  BY <2>1, <2>2 DEF FiniteSubsetsOf
<1>2. PICK t \in T : \A u \in T : <<u, t>> \notin R
  <2>1. IsWellFoundedOn(R, F)
    BY FS_StrictSubsetOrderingWellFounded
  <2>2. T # {}
    OBVIOUS
  <2>. HIDE DEF R, F, T
  <2>. QED  BY <1>1, <2>1, <2>2, WFMin
<1>3. PICK i \in S : t = above(i)
  BY <1>2
<1>4. ASSUME NEW j \in S PROVE i >= j
  <2>1. <<above(j), above(i)>> \notin R
    BY <1>2, <1>3
  <2>2. above(j) \in SUBSET S /\ above(i) \in SUBSET S
    OBVIOUS
  <2>3. ~(above(j) \subseteq above(i)) \/ above(j) = above(i)
    BY <2>1, <2>2 DEF StrictSubsetOrdering
  <2>4. ASSUME j > i PROVE FALSE
    <3>1. ASSUME NEW k \in above(j) PROVE k \in above(i)
      <4>1. k \in Nat /\ j \in Nat /\ i \in Nat
        OBVIOUS
      <4>. QED  BY <2>4, <4>1
    <3>2. j \in above(i) /\ j \notin above(j)
      BY <2>4
    <3>. QED  BY <2>3, <3>1, <3>2
  <2>. QED  BY <2>4
<1>5. \E k \in S : \A j \in S : k >= j
  BY <1>3, <1>4
<1>. QED  BY <1>5 DEF Max

LEMMA MinIs ==
  ASSUME NEW S \in SUBSET Nat, S # {}
  PROVE  Min(S) \in S /\ \A j \in S : Min(S) <= j
<1> DEFINE R == StrictSubsetOrdering(Nat)
           F == FiniteSubsetsOf(Nat)
           T == {0..i : i \in S}
<1>1. T \subseteq F
  <2> SUFFICES ASSUME NEW i \in S PROVE 0..i \in F
    OBVIOUS
  <2>1. IsFiniteSet(0..i)
    BY FS_Interval
  <2>2. 0..i \in SUBSET Nat
    OBVIOUS
  <2>. QED  BY <2>1, <2>2, Zenon DEF FiniteSubsetsOf
<1>2. PICK t \in T : \A u \in T : <<u, t>> \notin R
  <2>1. IsWellFoundedOn(R, F)
    BY FS_StrictSubsetOrderingWellFounded
  <2>2. T # {}
    OBVIOUS
  <2>. HIDE DEF R, F, T
  <2>. QED  BY <1>1, <2>1, <2>2, WFMin
<1>3. PICK i \in S : t = 0..i
  BY <1>2
<1>4. ASSUME NEW j \in S PROVE i <= j
  <2>1. <<0..j, 0..i>> \notin R
    BY <1>2, <1>3
  <2>2. 0..j \in SUBSET Nat /\ 0..i \in SUBSET Nat
    OBVIOUS
  <2>3. ~(0..j \subseteq 0..i) \/ 0..j = 0..i
    BY <2>1, <2>2 DEF StrictSubsetOrdering
  <2>. QED  BY <2>3
<1>5. \E k \in S : \A j \in S : k <= j
  BY <1>3, <1>4
<1>. QED  BY <1>5 DEF Min

\* Removing an element moves those behind it one place forward.
LEMMA RemoveAtIs ==
  ASSUME NEW S, NEW q \in Seq(S), NEW i \in 1..Len(q)
  PROVE  /\ RemoveAt(q, i) \in Seq(S)
         /\ Len(RemoveAt(q, i)) = Len(q) - 1
         /\ \A j \in 1..(Len(q) - 1) :
              RemoveAt(q, i)[j] = IF j < i THEN q[j] ELSE q[j + 1]
<1> DEFINE front == SubSeq(q, 1, i - 1)
           back == SubSeq(q, i + 1, Len(q))
<1>1. front \in Seq(S) /\ Len(front) = i - 1 /\ \A j \in 1..(i - 1) : front[j] = q[j]
  OBVIOUS
<1>2. back \in Seq(S) /\ Len(back) = Len(q) - i
      /\ \A j \in 1..(Len(q) - i) : back[j] = q[i + j]
  OBVIOUS
<1>3. RemoveAt(q, i) = front \o back
  BY DEF RemoveAt
<1>. HIDE DEF front, back
<1>4. front \o back \in Seq(S) /\ Len(front \o back) = Len(q) - 1
  BY <1>1, <1>2
<1>5. ASSUME NEW j \in 1..(Len(q) - 1)
      PROVE  (front \o back)[j] = IF j < i THEN q[j] ELSE q[j + 1]
  <2>1. CASE j < i
    BY <1>1, <1>2, <2>1
  <2>2. CASE ~(j < i)
    <3>1. j - (i - 1) \in 1..(Len(q) - i) /\ i + (j - (i - 1)) = j + 1
      BY <2>2
    <3>2. (front \o back)[j] = back[j - (i - 1)]
      BY <1>1, <1>2, <2>2
    <3>. QED  BY <1>2, <2>2, <3>1, <3>2
  <2>. QED  BY <2>1, <2>2
<1>. QED  BY <1>3, <1>4, <1>5


-----------------------------------------------------------------------------
(* Editing a model keeps its points in the frame of its origin.            *)

Models == [origin : Place \cup {NoOrigin}, confirmed : BOOLEAN, groups : Seq(GroupRecords)]
IsModel(model) == model \in Models /\ InFrame(model.origin, model.groups)

PointsInFrame(origin, points) ==
  \A p \in DOMAIN points :
    origin # NoOrigin /\ points[p].local = Local(origin, points[p].place)
IsGroup(group, origin) == group \in GroupRecords /\ PointsInFrame(origin, group.points)

LEMMA GroupOfModel ==
  ASSUME NEW model, IsModel(model), NEW i \in DOMAIN model.groups
  PROVE  IsGroup(model.groups[i], model.origin)
BY DEF IsModel, Models, InFrame, IsGroup, PointsInFrame

\* A model is one when its groups are, one by one.
LEMMA ModelByGroups ==
  ASSUME NEW model \in Models, \A i \in DOMAIN model.groups : IsGroup(model.groups[i], model.origin)
  PROVE  IsModel(model)
BY DEF IsModel, Models, InFrame, IsGroup, PointsInFrame

LEMMA WithGroupIsModel ==
  ASSUME NEW model, IsModel(model), NEW i \in DOMAIN model.groups,
         NEW group, IsGroup(group, model.origin)
  PROVE  IsModel(WithGroup(model, i, group))
<1>. DEFINE groups == [model.groups EXCEPT ![i] = group]
            new == [model EXCEPT !.groups = groups]
<1>1. WithGroup(model, i, group) = new
  BY DEF WithGroup
<1>2. model \in Models /\ model.groups \in Seq(GroupRecords) /\ group \in GroupRecords
  BY DEF IsModel, Models, IsGroup
<1>3. groups \in Seq(GroupRecords) /\ DOMAIN groups = DOMAIN model.groups
      /\ \A j \in DOMAIN groups : groups[j] = IF j = i THEN group ELSE model.groups[j]
  BY <1>2
<1>. HIDE DEF groups
<1>4. new \in Models /\ new.groups = groups /\ new.origin = model.origin
  BY <1>2, <1>3 DEF Models
<1>. HIDE DEF new
<1>5. \A j \in DOMAIN new.groups : IsGroup(new.groups[j], new.origin)
  BY <1>3, <1>4, GroupOfModel
<1>. QED
  BY <1>1, <1>4, <1>5, ModelByGroups

LEMMA FlagKeepsModel ==
  ASSUME NEW model, IsModel(model), NEW b \in BOOLEAN
  PROVE  IsModel([model EXCEPT !.confirmed = b])
BY DEF IsModel, Models

LEMMA ConfirmationKeepsModel ==
  ASSUME NEW model, IsModel(model) PROVE IsModel(WithConfirmation(model))
<1>. DEFINE b == model.groups # <<>> /\ \A i \in DOMAIN model.groups :
                                           IsConfirmedGroup(model.groups[i])
<1>1. WithConfirmation(model) = [model EXCEPT !.confirmed = b]
  BY DEF WithConfirmation
<1>2. b \in BOOLEAN
  OBVIOUS
<1>. HIDE DEF b
<1>. QED
  BY <1>1, <1>2, FlagKeepsModel

LEMMA AreasAreCounted ==
  ASSUME NEW points \in Seq(PointRecords) PROVE Cardinality(Areas(points)) \in Nat
<1>1. IsFiniteSet(DOMAIN points)
  BY FS_Interval
<1>2. IsFiniteSet((DOMAIN points) \X (DOMAIN points))
  BY <1>1, FS_Product
<1>3. Areas(points) \subseteq (DOMAIN points) \X (DOMAIN points)
  BY DEF Areas, Stretches
<1>4. IsFiniteSet(Areas(points))
  BY <1>2, <1>3, FS_Subset
<1>. QED
  BY <1>4, FS_CardinalityType

LEMMA InvalidatedIsGroup ==
  ASSUME NEW origin, NEW group, IsGroup(group, origin) PROVE IsGroup(Invalidated(group), origin)
BY DEF IsGroup, GroupRecords, Invalidated

LEMMA RecognisedIsGroup ==
  ASSUME NEW origin, NEW group, IsGroup(group, origin), NEW outcome
  PROVE  IsGroup(Recognised(group, outcome), origin)
<1>1. CASE outcome = "fails"
  BY <1>1, InvalidatedIsGroup DEF Recognised
<1>2. CASE outcome # "fails"
  <2>1. Cardinality(Areas(group.points)) \in Nat
    BY AreasAreCounted DEF IsGroup, GroupRecords
  <2>. QED
    BY <1>2, <2>1 DEF IsGroup, GroupRecords, Recognised
<1>. QED
  BY <1>1, <1>2

LEMMA EmptyIsModel == IsModel(EmptyModel)
BY DEF EmptyModel, IsModel, Models, InFrame

LEMMA NewGroupIsModel ==
  ASSUME NEW model, IsModel(model), NEW id \in Group PROVE IsModel(WithNewGroup(model, id))
<1>. DEFINE group == NewGroup(id)
            groups == Append(model.groups, group)
            new == [model EXCEPT !.groups = groups, !.confirmed = FALSE]
<1>1. IsGroup(group, model.origin)
  BY DEF NewGroup, IsGroup, GroupRecords, PointsInFrame
<1>2. WithNewGroup(model, id) = new
  BY DEF WithNewGroup
<1>3. model \in Models /\ model.groups \in Seq(GroupRecords) /\ group \in GroupRecords
  BY <1>1 DEF IsModel, Models, IsGroup
<1>. HIDE DEF group
<1>4. groups \in Seq(GroupRecords)
      /\ \A j \in DOMAIN groups :
           groups[j] = group \/ (j \in DOMAIN model.groups /\ groups[j] = model.groups[j])
  BY <1>3
<1>. HIDE DEF groups
<1>5. new \in Models /\ new.groups = groups /\ new.origin = model.origin
  BY <1>3, <1>4 DEF Models
<1>. HIDE DEF new
<1>6. \A j \in DOMAIN new.groups : IsGroup(new.groups[j], new.origin)
  BY <1>1, <1>4, <1>5, GroupOfModel
<1>. QED
  BY <1>2, <1>5, <1>6, ModelByGroups

LEMMA WithoutGroupIsModel ==
  ASSUME NEW model, IsModel(model), NEW i \in DOMAIN model.groups
  PROVE  IsModel(WithoutGroup(model, i))
<1>. DEFINE groups == RemoveAt(model.groups, i)
            new == [model EXCEPT !.groups = groups]
<1>1. WithoutGroup(model, i) = WithConfirmation(new)
  BY DEF WithoutGroup
<1>2. model \in Models /\ model.groups \in Seq(GroupRecords) /\ i \in 1 .. Len(model.groups)
  BY DEF IsModel, Models
<1>3. /\ groups \in Seq(GroupRecords) /\ Len(groups) = Len(model.groups) - 1
      /\ \A j \in 1 .. (Len(model.groups) - 1) :
           groups[j] = IF j < i THEN model.groups[j] ELSE model.groups[j + 1]
  BY <1>2, RemoveAtIs
<1>. HIDE DEF groups
<1>4. \A j \in DOMAIN groups : \E k \in DOMAIN model.groups : groups[j] = model.groups[k]
  <2>. SUFFICES ASSUME NEW j \in DOMAIN groups
                PROVE  \E k \in DOMAIN model.groups : groups[j] = model.groups[k]
    OBVIOUS
  <2>1. j \in 1 .. (Len(model.groups) - 1)
    BY <1>3
  <2>2. j \in DOMAIN model.groups /\ j + 1 \in DOMAIN model.groups
    BY <1>2, <2>1
  <2>. QED
    BY <1>3, <2>1, <2>2
<1>5. new \in Models /\ new.groups = groups /\ new.origin = model.origin
  BY <1>2, <1>3 DEF Models
<1>. HIDE DEF new
<1>6. \A j \in DOMAIN new.groups : IsGroup(new.groups[j], new.origin)
  BY <1>4, <1>5, GroupOfModel
<1>7. IsModel(new)
  BY <1>5, <1>6, ModelByGroups
<1>. QED
  BY <1>1, <1>7, ConfirmationKeepsModel

LEMMA WithoutPointIsModel ==
  ASSUME NEW model, IsModel(model), NEW i \in DOMAIN model.groups,
         NEW p \in DOMAIN model.groups[i].points
  PROVE  IsModel(WithoutPoint(model, i, p))
<1>. DEFINE old == model.groups[i]
            points == RemoveAt(old.points, p)
            group == [old EXCEPT !.points = points]
<1>1. IsGroup(old, model.origin)
  BY GroupOfModel
<1>2. WithoutPoint(model, i, p) =
        [WithGroup(model, i, Invalidated(group)) EXCEPT !.confirmed = FALSE]
  BY DEF WithoutPoint
<1>. HIDE DEF old
<1>3. old.points \in Seq(PointRecords) /\ p \in 1 .. Len(old.points)
  BY <1>1 DEF IsGroup, GroupRecords, old
<1>4. /\ points \in Seq(PointRecords) /\ Len(points) = Len(old.points) - 1
      /\ \A j \in 1 .. (Len(old.points) - 1) :
           points[j] = IF j < p THEN old.points[j] ELSE old.points[j + 1]
  BY <1>3, RemoveAtIs
<1>. HIDE DEF points
<1>5. \A j \in DOMAIN points : \E k \in DOMAIN old.points : points[j] = old.points[k]
  <2>. SUFFICES ASSUME NEW j \in DOMAIN points
                PROVE  \E k \in DOMAIN old.points : points[j] = old.points[k]
    OBVIOUS
  <2>1. j \in 1 .. (Len(old.points) - 1)
    BY <1>4
  <2>2. j \in DOMAIN old.points /\ j + 1 \in DOMAIN old.points
    BY <1>3, <2>1
  <2>. QED
    BY <1>4, <2>1, <2>2
<1>6. PointsInFrame(model.origin, points)
  BY <1>1, <1>5 DEF IsGroup, PointsInFrame
<1>7. IsGroup(group, model.origin)
  BY <1>1, <1>4, <1>6 DEF IsGroup, GroupRecords
<1>. HIDE DEF group
<1>8. IsModel(WithGroup(model, i, Invalidated(group)))
  BY <1>7, InvalidatedIsGroup, WithGroupIsModel
<1>. QED
  BY <1>2, <1>8, FlagKeepsModel

LEMMA RecognisedIsModel ==
  ASSUME NEW model, IsModel(model), NEW i \in DOMAIN model.groups, NEW outcome
  PROVE  IsModel(WithRecognised(model, i, outcome))
<1>1. IsModel(WithGroup(model, i, Recognised(model.groups[i], outcome)))
  BY GroupOfModel, RecognisedIsGroup, WithGroupIsModel
<1>. QED
  BY <1>1, ConfirmationKeepsModel DEF WithRecognised

LEMMA ConfirmedIsModel ==
  ASSUME NEW model, IsModel(model), NEW i \in DOMAIN model.groups
  PROVE  IsModel(WithConfirmedGroup(model, i))
<1>1. IsGroup(model.groups[i], model.origin)
  BY GroupOfModel
<1>2. IsGroup(ConfirmedGroup(model.groups[i]), model.origin)
  BY <1>1 DEF ConfirmedGroup, IsGroup, GroupRecords
<1>3. IsModel(WithGroup(model, i, ConfirmedGroup(model.groups[i])))
  BY <1>2, WithGroupIsModel
<1>. QED
  BY <1>3, ConfirmationKeepsModel DEF WithConfirmedGroup

\* The origin stays that of the points there are, and is set with the first.
LEMMA WithPointIsModel ==
  ASSUME NEW model, IsModel(model), NEW i \in DOMAIN model.groups,
         NEW place \in Place, NEW kind \in Kinds
  PROVE  IsModel(WithPoint(model, i, place, kind))
<1>. DEFINE origin == OriginFor(model, place)
            point == Sampled(model, place, kind)
            old == model.groups[i]
            points == Append(old.points, point)
            group == [old EXCEPT !.points = points]
            base == [model EXCEPT !.origin = origin]
<1>1. IsGroup(old, model.origin) /\ model \in Models /\ model.groups \in Seq(GroupRecords)
  BY GroupOfModel DEF IsModel, Models
<1>2. origin \in Place /\ origin # NoOrigin /\ origin \in Int /\ place \in Int
  BY <1>1, RecordsAssumption DEF OriginFor, Models
<1>3. point \in PointRecords /\ point.local = Local(origin, point.place)
  BY <1>2 DEF Sampled, PointRecords, Local
<1>4. WithPoint(model, i, place, kind) =
        [WithGroup(model, i, Invalidated(group)) EXCEPT !.origin = origin, !.confirmed = FALSE]
  BY DEF WithPoint
<1>. HIDE DEF origin, point
\* A model with points has an origin already.
<1>5. ASSUME NEW g, IsGroup(g, model.origin) PROVE IsGroup(g, origin)
  <2>1. model.origin # NoOrigin => origin = model.origin
    BY DEF origin, OriginFor
  <2>. QED
    BY <1>5, <2>1 DEF IsGroup, PointsInFrame
<1>6. IsGroup(group, origin)
  <2>. HIDE DEF old
  <2>1. IsGroup(old, origin) /\ old.points \in Seq(PointRecords)
    BY <1>1, <1>5 DEF IsGroup, GroupRecords
  <2>2. points \in Seq(PointRecords)
        /\ \A j \in DOMAIN points :
             points[j] = point \/ (j \in DOMAIN old.points /\ points[j] = old.points[j])
    BY <1>3, <2>1
  <2>. HIDE DEF points
  <2>3. PointsInFrame(origin, points)
    BY <1>2, <1>3, <2>1, <2>2 DEF IsGroup, PointsInFrame
  <2>. QED
    BY <2>1, <2>2, <2>3 DEF IsGroup, GroupRecords
<1>. HIDE DEF group
<1>7. IsModel(base) /\ base.groups = model.groups /\ base.origin = origin
  <2>1. base \in Models /\ base.groups = model.groups /\ base.origin = origin
    BY <1>1, <1>2 DEF Models
  <2>. HIDE DEF base
  <2>2. \A j \in DOMAIN base.groups : IsGroup(base.groups[j], base.origin)
    BY <2>1, <1>5, GroupOfModel
  <2>. QED
    BY <2>1, <2>2, ModelByGroups
<1>8. [WithGroup(model, i, Invalidated(group)) EXCEPT !.origin = origin, !.confirmed = FALSE]
      = [WithGroup(base, i, Invalidated(group)) EXCEPT !.confirmed = FALSE]
  BY <1>1 DEF WithGroup, Models
<1>. HIDE DEF base
<1>9. IsModel(WithGroup(base, i, Invalidated(group)))
  BY <1>6, <1>7, InvalidatedIsGroup, WithGroupIsModel
<1>. QED
  BY <1>4, <1>8, <1>9, FlagKeepsModel

-----------------------------------------------------------------------------
(* The transactions of the repository.                                     *)

ModelRows == [origin : Place \cup {NoOrigin}, confirmed : BOOLEAN]
IsRecord(d) ==
  d = [schema |-> d.schema, models |-> d.models, rows |-> d.rows,
       versions |-> d.versions, plans |-> d.plans]

LEMMA TablesOf ==
  ASSUME NEW d, IsDatabase(d)
  PROVE  /\ IsRecord(d) /\ IsTable(d.models, ModelRows) /\ IsTable(d.rows, Seq(GroupRecords))
         /\ IsTable(d.versions, BOOLEAN) /\ IsTable(d.plans, PlanRecords)
BY DEF IsDatabase, IsRecord, ModelRows

LEMMA SnapshotFields ==
  ASSUME NEW d, IsRecord(d), NEW m, NEW v, NEW groups, NEW e,
         e = WithSnapshot(d, m, v, groups)
  PROVE  /\ IsRecord(e) /\ e.rows = WithRow(d.rows, <<m, v>>, groups)
         /\ e.schema = d.schema /\ e.models = d.models /\ e.versions = d.versions
         /\ e.plans = d.plans
BY DEF IsRecord, WithSnapshot

LEMMA DraftFields ==
  ASSUME NEW d, IsRecord(d), NEW m, NEW model, NEW e, e = SaveDraft(d, m, model)
  PROVE  /\ IsRecord(e) /\ e.rows = WithRow(d.rows, <<m, 0>>, model.groups)
         /\ e.models = WithRow(d.models, m,
                               [origin |-> model.origin, confirmed |-> model.confirmed])
         /\ e.schema = d.schema /\ e.versions = d.versions /\ e.plans = d.plans
BY SnapshotFields DEF IsRecord, SaveDraft

PlansOfOthers(d, m) == {id \in DOMAIN d.plans : id[1] # m}

LEMMA DeleteFields ==
  ASSUME NEW d, IsRecord(d), NEW m, NEW e, e = DeleteModel(d, m)
  PROVE  /\ IsRecord(e) /\ e.schema = d.schema
         /\ e.models = Restrict(d.models, (DOMAIN d.models) \ {m})
         /\ e.rows = Restrict(d.rows, (DOMAIN d.rows) \ VersionsOf(d, m))
         /\ e.versions = Restrict(d.versions, (DOMAIN d.versions) \ VersionsOf(d, m))
         /\ e.plans = Restrict(d.plans, PlansOfOthers(d, m))
<1>1. ASSUME NEW r, r = DeleteRows(d, m)
      PROVE  /\ IsRecord(r) /\ r.schema = d.schema
             /\ r.models = Restrict(d.models, (DOMAIN d.models) \ {m})
             /\ r.rows = Restrict(d.rows, (DOMAIN d.rows) \ VersionsOf(d, m))
             /\ r.versions = Restrict(d.versions, (DOMAIN d.versions) \ VersionsOf(d, m))
             /\ r.plans = d.plans
  BY <1>1 DEF IsRecord, DeleteRows
<1>2. PICK r : r = DeleteRows(d, m)
  OBVIOUS
<1>3. e = [r EXCEPT !.plans = Restrict(r.plans, {id \in DOMAIN r.plans : id[1] # m})]
  BY <1>2 DEF DeleteModel
<1>. DEFINE plans == Restrict(r.plans, {id \in DOMAIN r.plans : id[1] # m})
<1>4. plans = Restrict(d.plans, PlansOfOthers(d, m))
  BY <1>1, <1>2 DEF PlansOfOthers
<1>. HIDE DEF plans
<1>5. e = [r EXCEPT !.plans = plans]
  BY <1>3 DEF plans
<1>6. e.plans = plans /\ e.schema = r.schema /\ e.models = r.models /\ e.rows = r.rows
      /\ e.versions = r.versions /\ IsRecord(e)
  BY <1>1, <1>2, <1>5 DEF IsRecord
<1>. QED
  BY <1>1, <1>2, <1>4, <1>6

KeepsVersions(d, e) ==
  \A key \in DOMAIN d.versions :
    /\ key[1] \in DOMAIN e.models => key \in DOMAIN e.versions
    /\ key \in DOMAIN e.versions => Content(e, key) = Content(d, key)

\* What the step from d to e says of the plans: they are made with the positions
\* of their version, and keep them unless the points move.
KeepsPlans(d, e) ==
  \A id \in DOMAIN e.plans :
    \/ IsLaidFrom(e, id)
    \/ id \in DOMAIN d.plans /\ ~IsLaidFrom(d, id)
    \/ id \in DOMAIN d.plans /\ d.schema = 1

LEMMA SameRowsKeepVersions ==
  ASSUME NEW d, NEW e,
         \A key \in DOMAIN d.versions :
           /\ key[1] \in DOMAIN e.models => key \in DOMAIN e.versions
           /\ key \in DOMAIN e.versions => e.rows[key] = d.rows[key]
  PROVE  KeepsVersions(d, e)
BY DEF KeepsVersions, Content

\* A version is of a model, and is not the draft.
LEMMA VersionKeys ==
  ASSUME NEW d, IsDatabase(d), NEW key \in DOMAIN d.versions
  PROVE  /\ key = <<key[1], key[2]>> /\ key[1] \in DOMAIN d.models /\ key[1] \in Model
         /\ key[2] \in Nat /\ key[2] # 0 /\ key \in DOMAIN d.rows
BY DEF IsDatabase, VersionNumbers

LEMMA DraftKeys ==
  ASSUME NEW d, IsDatabase(d), NEW m \in DOMAIN d.models
  PROVE  /\ <<m, 0>> \in DOMAIN d.rows /\ <<m, 0>> \notin DOMAIN d.versions /\ m \in Model
         /\ d.rows[<<m, 0>>] \in Seq(GroupRecords)
BY VersionKeys DEF IsDatabase, IsTable

LEMMA DraftIsModel ==
  ASSUME NEW d, Consistent(d), d.schema # 1, NEW m \in DOMAIN d.models
  PROVE  IsModel(LoadDraft(d, m))
<1>1. IsDatabase(d) /\ InFrame(d.models[m].origin, d.rows[<<m, 0>>])
  BY DEF Consistent, DraftsInFrame
<1>2. d.rows[<<m, 0>>] \in Seq(GroupRecords)
      /\ d.models[m] \in [origin : Place \cup {NoOrigin}, confirmed : BOOLEAN]
  BY <1>1, DraftKeys DEF IsDatabase, IsTable
<1>. QED
  BY <1>1, <1>2 DEF LoadDraft, Snapshot, IsModel, Models

LEMMA PlanIdIs ==
  ASSUME NEW id, NEW plan, id = PlanId(plan)
  PROVE  id[1] = plan.model /\ id[2] = plan.version /\ id[3] = plan.positions
BY DEF PlanId

\* Plans stay as they are as long as the rows of their versions do.
LEMMA PlansStay ==
  ASSUME NEW d, NEW e, \A id \in DOMAIN d.plans : PlanHasVersion(d, id),
         DOMAIN e.plans \subseteq DOMAIN d.plans,
         \A id \in DOMAIN e.plans :
           /\ e.plans[id] = d.plans[id]
           /\ LET key == PlannedVersion(d.plans[id])
              IN  key \in DOMAIN e.versions /\ e.rows[key] = d.rows[key]
  PROVE  (\A id \in DOMAIN e.plans : PlanHasVersion(e, id)) /\ KeepsPlans(d, e)
<1>1. \A id \in DOMAIN e.plans : PlanHasVersion(e, id)
  BY DEF PlanHasVersion
<1>2. ASSUME NEW id \in DOMAIN e.plans PROVE IsLaidFrom(e, id) \/ ~IsLaidFrom(d, id)
  BY DEF IsLaidFrom
<1>. QED
  BY <1>1, <1>2 DEF KeepsPlans

LEMMA SaveDraftKeeps ==
  ASSUME NEW d, Consistent(d), d.schema # 1, NEW m \in Model, NEW model, IsModel(model),
         NEW e, e = SaveDraft(d, m, model)
  PROVE  /\ Consistent(e) /\ KeepsVersions(d, e) /\ KeepsPlans(d, e)
         /\ e.schema = d.schema /\ e.plans = d.plans
<1>. DEFINE row == [origin |-> model.origin, confirmed |-> model.confirmed]
<1>1. IsDatabase(d) /\ DraftsInFrame(d) /\ \A id \in DOMAIN d.plans : PlanHasVersion(d, id)
  BY DEF Consistent
<1>2. /\ row \in ModelRows
      /\ model.groups \in Seq(GroupRecords) /\ InFrame(row.origin, model.groups)
  BY DEF IsModel, Models, ModelRows
<1>3. /\ IsRecord(e) /\ e.rows = WithRow(d.rows, <<m, 0>>, model.groups)
      /\ e.models = WithRow(d.models, m, row)
      /\ e.schema = d.schema /\ e.versions = d.versions /\ e.plans = d.plans
  <2>1. IsRecord(d)
    BY <1>1, TablesOf
  <2>. QED
    BY <2>1, DraftFields
<1>. HIDE DEF row
<1>4. /\ IsTable(e.models, ModelRows)
      /\ DOMAIN e.models = DOMAIN d.models \cup {m} /\ e.models[m] = row
      /\ \A k \in DOMAIN d.models : k # m => e.models[k] = d.models[k]
  <2>1. IsTable(d.models, ModelRows)
    BY <1>1, TablesOf
  <2>. QED
    BY <1>2, <1>3, <2>1 DEF IsTable, WithRow
<1>5. /\ IsTable(e.rows, Seq(GroupRecords)) /\ DOMAIN e.rows = DOMAIN d.rows \cup {<<m, 0>>}
      /\ e.rows[<<m, 0>>] = model.groups
      /\ \A key \in DOMAIN d.rows : key # <<m, 0>> => e.rows[key] = d.rows[key]
  <2>1. IsTable(d.rows, Seq(GroupRecords))
    BY <1>1, TablesOf
  <2>. QED
    BY <1>2, <1>3, <2>1 DEF IsTable, WithRow
<1>6. \A key \in DOMAIN d.versions :
        /\ key \in DOMAIN d.rows /\ key # <<m, 0>> /\ key[1] \in DOMAIN d.models
        /\ key = <<key[1], key[2]>>
  BY <1>1, VersionKeys
<1>7. IsDatabase(e)
  <2>1. DOMAIN e.rows = ((DOMAIN e.models) \X {0}) \cup DOMAIN e.versions
    BY <1>1, <1>4, <1>5, <1>3 DEF IsDatabase
  <2>2. DOMAIN e.versions \subseteq (DOMAIN e.models) \X VersionNumbers
    BY <1>1, <1>4, <1>3 DEF IsDatabase
  <2>. QED
    BY <1>1, <1>4, <1>5, <1>3, <2>1, <2>2 DEF IsDatabase, IsRecord, ModelRows
<1>8. DraftsInFrame(e)
  <2>. SUFFICES ASSUME NEW k \in DOMAIN e.models PROVE InFrame(e.models[k].origin, e.rows[<<k, 0>>])
    BY <1>3 DEF DraftsInFrame
  <2>1. CASE k = m
    BY <1>2, <1>4, <1>5, <2>1
  <2>2. CASE k # m
    <3>1. k \in DOMAIN d.models /\ <<k, 0>> # <<m, 0>>
      BY <1>4, <2>2
    <3>2. <<k, 0>> \in DOMAIN d.rows
      BY <1>1, <3>1, DraftKeys
    <3>. QED
      BY <1>1, <1>4, <1>5, <2>2, <3>1, <3>2 DEF DraftsInFrame
  <2>. QED
    BY <2>1, <2>2
<1>9. (\A id \in DOMAIN e.plans : PlanHasVersion(e, id)) /\ KeepsPlans(d, e)
  <2>1. \A id \in DOMAIN e.plans :
          /\ e.plans[id] = d.plans[id]
          /\ LET key == PlannedVersion(d.plans[id])
             IN  key \in DOMAIN e.versions /\ e.rows[key] = d.rows[key]
    BY <1>1, <1>5, <1>3, <1>6 DEF PlanHasVersion
  <2>. QED
    BY <1>1, <1>3, <2>1, PlansStay
<1>10. KeepsVersions(d, e)
  BY <1>5, <1>3, <1>6, SameRowsKeepVersions
<1>11. e.schema = d.schema /\ e.plans = d.plans
  BY <1>3
<1>12. Consistent(e)
  BY <1>7, <1>8, <1>9 DEF Consistent
<1>. QED
  BY <1>9, <1>10, <1>11, <1>12

LEMMA DeleteKeeps ==
  ASSUME NEW d, Consistent(d), d.schema # 1, NEW m \in DOMAIN d.models,
         NEW e, e = DeleteModel(d, m)
  PROVE  /\ Consistent(e) /\ KeepsVersions(d, e) /\ KeepsPlans(d, e)
         /\ e.schema = d.schema /\ DOMAIN e.plans \subseteq DOMAIN d.plans
<1>. DEFINE gone == VersionsOf(d, m)
            left == PlansOfOthers(d, m)
<1>1. IsDatabase(d) /\ DraftsInFrame(d) /\ \A id \in DOMAIN d.plans : PlanHasVersion(d, id)
  BY DEF Consistent
<1>2. /\ IsRecord(e) /\ e.schema = d.schema
      /\ e.models = Restrict(d.models, (DOMAIN d.models) \ {m})
      /\ e.rows = Restrict(d.rows, (DOMAIN d.rows) \ gone)
      /\ e.versions = Restrict(d.versions, (DOMAIN d.versions) \ gone)
      /\ e.plans = Restrict(d.plans, left)
  <2>1. IsRecord(d)
    BY <1>1, TablesOf
  <2>. QED
    BY <2>1, DeleteFields
<1>3. \A key : key \in gone <=> key \in DOMAIN d.rows /\ key[1] = m
  BY DEF VersionsOf
<1>. HIDE DEF gone
<1>4. /\ IsTable(e.models, ModelRows)
      /\ DOMAIN e.models = (DOMAIN d.models) \ {m}
      /\ \A k \in DOMAIN e.models : e.models[k] = d.models[k]
  <2>. DEFINE D == (DOMAIN d.models) \ {m}
  <2>1. D \in SUBSET DOMAIN d.models
    OBVIOUS
  <2>. HIDE DEF D
  <2>2. /\ IsTable(Restrict(d.models, D), ModelRows)
        /\ DOMAIN Restrict(d.models, D) = D
        /\ \A k \in D : Restrict(d.models, D)[k] = d.models[k]
    BY <1>1, <2>1, TablesOf DEF IsTable, Restrict
  <2>. QED
    BY <1>2, <2>2 DEF D
<1>5. /\ IsTable(e.rows, Seq(GroupRecords)) /\ DOMAIN e.rows = (DOMAIN d.rows) \ gone
      /\ \A key \in DOMAIN e.rows : e.rows[key] = d.rows[key]
  <2>. DEFINE D == (DOMAIN d.rows) \ gone
  <2>1. D \in SUBSET DOMAIN d.rows
    OBVIOUS
  <2>. HIDE DEF D
  <2>2. /\ IsTable(Restrict(d.rows, D), Seq(GroupRecords)) /\ DOMAIN Restrict(d.rows, D) = D
        /\ \A k \in D : Restrict(d.rows, D)[k] = d.rows[k]
    BY <1>1, <2>1, TablesOf DEF IsTable, Restrict
  <2>. QED
    BY <1>2, <2>2 DEF D
<1>6. /\ IsTable(e.versions, BOOLEAN) /\ DOMAIN e.versions = (DOMAIN d.versions) \ gone
  <2>. DEFINE D == (DOMAIN d.versions) \ gone
  <2>1. D \in SUBSET DOMAIN d.versions
    OBVIOUS
  <2>. HIDE DEF D
  <2>2. IsTable(Restrict(d.versions, D), BOOLEAN) /\ DOMAIN Restrict(d.versions, D) = D
    BY <1>1, <2>1, TablesOf DEF IsTable, Restrict
  <2>. QED
    BY <1>2, <2>2 DEF D
<1>7. /\ IsTable(e.plans, PlanRecords) /\ DOMAIN e.plans = left
      /\ \A id \in left : e.plans[id] = d.plans[id]
  <2>1. left \in SUBSET DOMAIN d.plans
    BY DEF PlansOfOthers
  <2>. HIDE DEF left
  <2>. QED
    BY <1>1, <1>2, <2>1, TablesOf DEF IsTable, Restrict
<1>8. \A id : id \in left <=> id \in DOMAIN d.plans /\ id[1] # m
  BY DEF PlansOfOthers
<1>. HIDE DEF left
<1>9. \A key \in DOMAIN d.versions :
        /\ key \in DOMAIN d.rows /\ key[1] \in DOMAIN d.models /\ key = <<key[1], key[2]>>
        /\ key \in DOMAIN e.versions <=> key[1] # m
  BY <1>1, <1>3, <1>6, VersionKeys
<1>10. IsDatabase(e)
  <2>1. IsFiniteSet(DOMAIN e.versions)
    BY <1>1, <1>6, FS_Subset DEF IsDatabase
  <2>2. DOMAIN e.versions \subseteq (DOMAIN e.models) \X VersionNumbers
    BY <1>1, <1>3, <1>4, <1>6 DEF IsDatabase
  <2>3. ASSUME NEW key
        PROVE  key \in DOMAIN e.rows <=> key \in ((DOMAIN e.models) \X {0}) \cup DOMAIN e.versions
    BY <1>1, <1>3, <1>4, <1>5, <1>6 DEF IsDatabase
  <2>4. DOMAIN e.rows = ((DOMAIN e.models) \X {0}) \cup DOMAIN e.versions
    BY <2>3
  <2>. QED
    BY <1>1, <1>2, <1>4, <1>5, <1>6, <1>7, <2>1, <2>2, <2>4 DEF IsDatabase, IsRecord, ModelRows
<1>11. DraftsInFrame(e)
  <2>. SUFFICES ASSUME NEW k \in DOMAIN e.models PROVE InFrame(e.models[k].origin, e.rows[<<k, 0>>])
    BY <1>2 DEF DraftsInFrame
  <2>1. k \in DOMAIN d.models /\ e.models[k] = d.models[k]
    BY <1>4
  <2>2. <<k, 0>> \in DOMAIN e.rows
    BY <1>2, <1>10 DEF IsDatabase
  <2>. QED
    BY <1>1, <1>5, <2>1, <2>2 DEF DraftsInFrame
<1>12. (\A id \in DOMAIN e.plans : PlanHasVersion(e, id)) /\ KeepsPlans(d, e)
  <2>1. ASSUME NEW id \in DOMAIN e.plans
        PROVE  /\ e.plans[id] = d.plans[id]
               /\ LET key == PlannedVersion(d.plans[id])
                  IN  key \in DOMAIN e.versions /\ e.rows[key] = d.rows[key]
    <3>. DEFINE key == PlannedVersion(d.plans[id])
    <3>1. id \in DOMAIN d.plans /\ id[1] # m /\ e.plans[id] = d.plans[id]
      BY <1>7, <1>8
    <3>2. id = PlanId(d.plans[id]) /\ key \in DOMAIN d.versions
      BY <1>1, <3>1 DEF PlanHasVersion
    <3>3. id[1] = d.plans[id].model /\ key[1] = id[1]
      BY <3>2, PlanIdIs DEF PlannedVersion
    <3>. HIDE DEF key
    <3>4. key \in DOMAIN e.versions /\ key \in DOMAIN e.rows
      BY <1>2, <1>3, <1>5, <1>9, <3>1, <3>2, <3>3
    <3>. QED
      BY <1>5, <3>1, <3>4 DEF key
  <2>2. DOMAIN e.plans \subseteq DOMAIN d.plans
    BY <1>2, <1>7, <1>8
  <2>. QED
    BY <1>1, <1>2, <2>1, <2>2, PlansStay
<1>13. KeepsVersions(d, e)
  <2>1. ASSUME NEW key \in DOMAIN d.versions
        PROVE  /\ key[1] \in DOMAIN e.models => key \in DOMAIN e.versions
               /\ key \in DOMAIN e.versions => e.rows[key] = d.rows[key]
    <3>1. key[1] \in DOMAIN e.models => key \in DOMAIN e.versions
      BY <1>2, <1>4, <1>9
    <3>2. key \in DOMAIN e.versions => key \in DOMAIN e.rows
      BY <1>2, <1>10 DEF IsDatabase
    <3>. QED
      BY <1>2, <1>5, <3>1, <3>2
  <2>. QED
    BY <2>1, SameRowsKeepVersions
<1>14. e.schema = d.schema /\ DOMAIN e.plans \subseteq DOMAIN d.plans
  BY <1>2, <1>7, <1>8
<1>15. Consistent(e)
  BY <1>10, <1>11, <1>12 DEF Consistent
<1>. QED
  BY <1>12, <1>13, <1>14, <1>15

\* A new version is beyond all those there are of the model.
LEMMA NextVersionIsNew ==
  ASSUME NEW d, IsDatabase(d), NEW m
  PROVE  /\ NextVersion(d, m) \in VersionNumbers
         /\ <<m, NextVersion(d, m)>> \notin DOMAIN d.versions
<1>. DEFINE keys == {k \in DOMAIN d.versions : k[1] = m}
            numbers == {key[2] : key \in keys}
            S == {0} \cup numbers
<1>1. \A key \in DOMAIN d.versions : key[2] \in Nat
  BY VersionKeys
<1>2. S \in SUBSET Nat /\ S # {}
  BY <1>1
<1>3. IsFiniteSet(S)
  <2>1. IsFiniteSet(DOMAIN d.versions)
    BY DEF IsDatabase
  <2>2. keys \in SUBSET DOMAIN d.versions
    OBVIOUS
  <2>3. IsFiniteSet(keys)
    BY <2>1, <2>2, FS_Subset
  <2>. HIDE DEF keys
  <2>4. IsFiniteSet(numbers)
    <3>. DEFINE f == [key \in keys |-> key[2]]
    <3>1. f \in Surjection(keys, numbers)
      BY DEF Surjection
    <3>. QED
      BY <2>3, <3>1, FS_Surjection
  <2>. HIDE DEF numbers
  <2>. QED
    BY <2>4, FS_AddElement
<1>4. Max(S) \in S /\ \A j \in S : Max(S) >= j
  <2>. HIDE DEF S
  <2>. QED
    BY <1>2, <1>3, MaxIs
<1>5. NextVersion(d, m) = Max(S) + 1
  BY DEF NextVersion
<1>6. ASSUME NEW v, <<m, v>> \in DOMAIN d.versions PROVE v \in S
  <2>. DEFINE key == <<m, v>>
  <2>1. key \in keys /\ key[2] = v
    BY <1>6
  <2>. QED
    BY <2>1
<1>7. Max(S) \in Nat
  BY <1>2, <1>4
<1>. DEFINE top == Max(S)
<1>. HIDE DEF S, top
<1>8. top \in Nat /\ (\A j \in S : top >= j) /\ NextVersion(d, m) = top + 1
  BY <1>4, <1>5, <1>7 DEF top
<1>9. <<m, NextVersion(d, m)>> \notin DOMAIN d.versions
  BY <1>6, <1>8
<1>. QED
  BY <1>8, <1>9 DEF VersionNumbers

LEMMA WithRowIsTable ==
  ASSUME NEW S, NEW f, IsTable(f, S), NEW k, NEW x \in S
  PROVE  IsTable(WithRow(f, k, x), S)
BY DEF IsTable, WithRow

LEMMA FormalFields ==
  ASSUME NEW d, IsRecord(d), NEW m, NEW model, NEW e, e = SaveFormalVersion(d, m, model)
  PROVE  LET key == <<m, NextVersion(d, m)>>
         IN  /\ IsRecord(e) /\ e.rows = WithRow(d.rows, key, model.groups)
             /\ e.versions = WithRow(d.versions, key, model.confirmed)
             /\ e.models = [d.models EXCEPT ![m].origin = model.origin]
             /\ e.schema = d.schema /\ e.plans = d.plans
<1>. DEFINE v == NextVersion(d, m)
            s == WithSnapshot(d, m, v, model.groups)
<1>1. /\ IsRecord(s) /\ s.rows = WithRow(d.rows, <<m, v>>, model.groups)
      /\ s.schema = d.schema /\ s.models = d.models /\ s.versions = d.versions
      /\ s.plans = d.plans
  <2>. HIDE DEF v
  <2>. QED
    BY SnapshotFields
<1>2. e = [s EXCEPT !.versions = WithRow(s.versions, <<m, v>>, model.confirmed),
                    !.models = [s.models EXCEPT ![m].origin = model.origin]]
  <2>1. e = [s EXCEPT !.versions = WithRow(@, <<m, v>>, model.confirmed),
                      !.models[m].origin = model.origin]
    BY DEF SaveFormalVersion
  <2>. HIDE DEF s, v
  <2>. QED
    BY <1>1, <2>1 DEF IsRecord
<1>. HIDE DEF s
<1>. QED
  BY <1>1, <1>2 DEF IsRecord

LEMMA SaveVersionKeeps ==
  ASSUME NEW d, Consistent(d), d.schema # 1, NEW m \in DOMAIN d.models,
         NEW e, e = SaveFormalVersion(d, m, LoadDraft(d, m))
  PROVE  /\ Consistent(e) /\ KeepsVersions(d, e) /\ KeepsPlans(d, e)
         /\ e.schema = d.schema /\ e.plans = d.plans
         /\ <<m, NextVersion(d, m)>> \in DOMAIN e.versions /\ NextVersion(d, m) \in VersionNumbers
<1>. DEFINE model == LoadDraft(d, m)
            v == NextVersion(d, m)
            new == <<m, v>>
<1>1. /\ IsDatabase(d) /\ DraftsInFrame(d) /\ m \in Model
      /\ \A id \in DOMAIN d.plans : PlanHasVersion(d, id)
  BY DraftKeys DEF Consistent
<1>2. /\ model.groups \in Seq(GroupRecords) /\ model.confirmed \in BOOLEAN
      /\ model.origin = d.models[m].origin /\ model.origin \in Place \cup {NoOrigin}
  <2>1. model \in Models
    BY DraftIsModel DEF IsModel
  <2>2. model.origin = d.models[m].origin
    BY DEF LoadDraft
  <2>. HIDE DEF model
  <2>. QED
    BY <2>1, <2>2 DEF Models
<1>3. v \in VersionNumbers /\ new \notin DOMAIN d.versions
  BY <1>1, NextVersionIsNew
<1>4. /\ IsRecord(e) /\ e.rows = WithRow(d.rows, new, model.groups)
      /\ e.versions = WithRow(d.versions, new, model.confirmed)
      /\ e.models = [d.models EXCEPT ![m].origin = model.origin]
      /\ e.schema = d.schema /\ e.plans = d.plans
  <2>1. IsRecord(d)
    BY <1>1, TablesOf
  <2>. QED
    BY <2>1, FormalFields
<1>. HIDE DEF model, v
<1>5. /\ IsTable(e.models, ModelRows) /\ DOMAIN e.models = DOMAIN d.models
      /\ \A k \in DOMAIN d.models : e.models[k].origin = d.models[k].origin
  <2>1. IsTable(d.models, ModelRows)
    BY <1>1, TablesOf
  <2>. QED
    BY <1>2, <1>4, <2>1 DEF IsTable, ModelRows
<1>6. new \notin DOMAIN d.rows
  <2>1. new \notin ((DOMAIN d.models) \X {0})
    BY <1>3 DEF VersionNumbers
  <2>. QED
    BY <1>1, <1>3, <2>1 DEF IsDatabase
<1>7. /\ IsTable(e.rows, Seq(GroupRecords)) /\ DOMAIN e.rows = DOMAIN d.rows \cup {new}
      /\ \A key \in DOMAIN d.rows : e.rows[key] = d.rows[key]
  <2>1. IsTable(d.rows, Seq(GroupRecords))
    BY <1>1, TablesOf
  <2>. HIDE DEF new
  <2>. QED
    BY <1>2, <1>4, <1>6, <2>1 DEF IsTable, WithRow
<1>8. IsTable(e.versions, BOOLEAN) /\ DOMAIN e.versions = DOMAIN d.versions \cup {new}
  <2>1. IsTable(d.versions, BOOLEAN)
    BY <1>1, TablesOf
  <2>2. IsTable(WithRow(d.versions, new, model.confirmed), BOOLEAN)
    BY <1>2, <2>1, WithRowIsTable, Zenon
  <2>3. DOMAIN e.versions = DOMAIN d.versions \cup {new}
    BY <1>4 DEF WithRow
  <2>4. e.versions = WithRow(d.versions, new, model.confirmed)
    BY <1>4
  <2>. HIDE DEF new
  <2>5. IsTable(e.versions, BOOLEAN)
    BY <2>2, <2>4, Zenon
  <2>. QED
    BY <2>3, <2>5, Zenon
<1>9. IsDatabase(e)
  <2>1. IsFiniteSet(DOMAIN e.versions)
    <3>1. IsFiniteSet(DOMAIN d.versions)
      BY <1>1 DEF IsDatabase
    <3>. HIDE DEF new
    <3>2. IsFiniteSet(DOMAIN d.versions \cup {new})
      BY <3>1, FS_AddElement
    <3>. QED
      BY <1>8, <3>2, Zenon
  <2>2. DOMAIN e.versions \subseteq (DOMAIN e.models) \X VersionNumbers
    BY <1>1, <1>3, <1>5, <1>8 DEF IsDatabase
  <2>3. DOMAIN e.rows = ((DOMAIN e.models) \X {0}) \cup DOMAIN e.versions
    BY <1>1, <1>5, <1>7, <1>8 DEF IsDatabase
  <2>. QED
    BY <1>1, <1>4, <1>5, <1>7, <1>8, <2>1, <2>2, <2>3 DEF IsDatabase, IsRecord, ModelRows
<1>10. DraftsInFrame(e)
  BY <1>1, <1>5, <1>7, DraftKeys DEF DraftsInFrame
<1>11. \A key \in DOMAIN d.versions :
         key \in DOMAIN e.versions /\ e.rows[key] = d.rows[key]
  BY <1>1, <1>7, <1>8, VersionKeys
<1>12. (\A id \in DOMAIN e.plans : PlanHasVersion(e, id)) /\ KeepsPlans(d, e)
  <2>1. \A id \in DOMAIN e.plans :
          /\ e.plans[id] = d.plans[id]
          /\ LET key == PlannedVersion(d.plans[id])
             IN  key \in DOMAIN e.versions /\ e.rows[key] = d.rows[key]
    BY <1>1, <1>4, <1>11 DEF PlanHasVersion
  <2>. QED
    BY <1>1, <1>4, <2>1, PlansStay
<1>13. KeepsVersions(d, e)
  BY <1>11, SameRowsKeepVersions
<1>14. new \in DOMAIN e.versions
  BY <1>8
<1>15. Consistent(e)
  BY <1>9, <1>10, <1>12 DEF Consistent
<1>. QED
  BY <1>3, <1>4, <1>12, <1>13, <1>14, <1>15 DEF v

\* The plan that is made of a version.
LEMMA SavePlanKeeps ==
  ASSUME NEW d, Consistent(d), d.schema # 1, NEW m, NEW v, <<m, v>> \in DOMAIN d.versions,
         NEW preview \in BOOLEAN, MayPlan(LoadVersion(d, m, v)),
         NEW e, e = SavePlan(d, PlanOf(m, v, LoadVersion(d, m, v), preview))
  PROVE  /\ Consistent(e) /\ KeepsVersions(d, e) /\ KeepsPlans(d, e) /\ e.schema = d.schema
         /\ DOMAIN d.versions \subseteq DOMAIN e.versions
         /\ \A id \in DOMAIN e.plans \ DOMAIN d.plans :
              \A group \in Range(d.rows[<<id[1], id[2]>>]) : IsConfirmedGroup(group)
<1>. DEFINE key == <<m, v>>
            version == LoadVersion(d, m, v)
            plan == PlanOf(m, v, version, preview)
<1>1. /\ IsDatabase(d) /\ DraftsInFrame(d) /\ \A id \in DOMAIN d.plans : PlanHasVersion(d, id)
  BY DEF Consistent
<1>2. /\ m \in DOMAIN d.models /\ m \in Model /\ v \in VersionNumbers /\ key \in DOMAIN d.rows
  <2>1. key[1] = m /\ key[2] = v
    OBVIOUS
  <2>. QED
    BY <1>1, <2>1, VersionKeys DEF VersionNumbers
<1>3. /\ version.groups = d.rows[key] /\ d.rows[key] \in Seq(GroupRecords)
      /\ version.origin = d.models[m].origin
  <2>1. version.groups = d.rows[key] /\ version.origin = d.models[m].origin
    BY DEF LoadVersion, Snapshot
  <2>. QED
    BY <1>1, <1>2, <2>1 DEF IsDatabase, IsTable
<1>4. /\ version.origin \in Int
  <2>1. d.models[m] \in ModelRows
    BY <1>1, <1>2, TablesOf DEF IsTable
  <2>. QED
    BY <1>3, <2>1, RecordsAssumption DEF MayPlan, ModelRows
<1>5. /\ Len(d.rows[key]) = 1 /\ d.rows[key][1] \in GroupRecords
  BY <1>3 DEF MayPlan
<1>6. Positions(version) = Positions([groups |-> d.rows[key]])
  BY <1>3 DEF Positions
<1>7. \A group \in Range(d.rows[key]) : IsConfirmedGroup(group)
  BY <1>3 DEF MayPlan, IsChain, IsConfirmedGroup, Range
<1>8. e = [d EXCEPT !.plans = WithRow(d.plans, PlanId(plan), plan)]
  BY DEF SavePlan
<1>9. /\ plan.model = m /\ plan.version = v /\ plan.positions = Positions(version)
      /\ plan \in PlanRecords
  <2>. DEFINE positions == Positions(version)
              route == [i \in DOMAIN positions |-> OnEarth(version.origin, positions[i])]
  <2>1. positions \in Seq(Int)
    <3>. HIDE DEF version
    <3>1. version.groups[1].points \in Seq(PointRecords)
      BY <1>3, <1>5 DEF GroupRecords
    <3>. DEFINE points == version.groups[1].points
    <3>2. DOMAIN points = 1 .. Len(points)
      BY <3>1
    <3>3. positions = [i \in DOMAIN points |-> points[i].local]
      BY DEF Positions
    <3>. HIDE DEF points, positions
    <3>4. \A i \in DOMAIN points : points[i].local \in Int
      <4>. SUFFICES ASSUME NEW i \in 1 .. Len(points) PROVE points[i].local \in Int
        BY <3>2
      <4>1. points[i] \in PointRecords
        BY <3>1 DEF points
      <4>. QED
        BY <4>1 DEF PointRecords
    <3>5. positions \in [DOMAIN points -> Int]
      BY <3>3, <3>4
    <3>6. positions \in [1 .. Len(points) -> Int] /\ Len(points) \in Nat
      BY <3>1, <3>2, <3>5 DEF points
    <3>. QED
      BY <3>6
  <2>2. route \in Seq(Int)
    <3>. HIDE DEF positions
    <3>1. route = [i \in 1 .. Len(positions) |-> OnEarth(version.origin, positions[i])]
      BY <2>1
    <3>2. \A i \in 1 .. Len(positions) : OnEarth(version.origin, positions[i]) \in Int
      BY <1>4, <2>1 DEF OnEarth
    <3>. HIDE DEF route
    <3>. QED
      BY <2>1, <3>1, <3>2
  <2>3. plan = [model |-> m, version |-> v, positions |-> positions, route |-> route,
                preview |-> preview]
    BY DEF PlanOf
  <2>. HIDE DEF positions, route, plan
  <2>4. plan.positions = positions
    BY <2>3
  <2>. QED
    BY <1>2, <2>1, <2>2, <2>3, <2>4 DEF PlanRecords, positions
<1>. HIDE DEF version, plan
<1>10. /\ IsRecord(e) /\ e.models = d.models /\ e.rows = d.rows /\ e.versions = d.versions
       /\ e.schema = d.schema /\ e.plans = WithRow(d.plans, PlanId(plan), plan)
  BY <1>1, <1>8, TablesOf DEF IsRecord
<1>11. /\ IsTable(e.plans, PlanRecords) /\ DOMAIN e.plans = DOMAIN d.plans \cup {PlanId(plan)}
       /\ e.plans[PlanId(plan)] = plan
       /\ \A id \in DOMAIN d.plans : id # PlanId(plan) => e.plans[id] = d.plans[id]
  <2>1. IsTable(d.plans, PlanRecords)
    BY <1>1, TablesOf
  <2>. QED
    BY <1>9, <1>10, <2>1 DEF IsTable, WithRow
<1>12. IsDatabase(e)
  BY <1>1, <1>10, <1>11 DEF IsDatabase, IsRecord
<1>13. DraftsInFrame(e)
  BY <1>1, <1>10 DEF DraftsInFrame
<1>14. ASSUME NEW id \in DOMAIN e.plans
       PROVE  /\ PlanHasVersion(e, id)
              /\ IsLaidFrom(e, id) \/ (id \in DOMAIN d.plans /\ ~IsLaidFrom(d, id))
  <2>1. CASE id = PlanId(plan)
    <3>1. Positions([groups |-> e.rows[key]]) = plan.positions /\ Len(e.rows[key]) = 1
          /\ key \in DOMAIN e.versions
      BY <1>5, <1>6, <1>9, <1>10
    <3>2. PlannedVersion(plan) = key
      BY <1>9 DEF PlannedVersion
    <3>. QED
      BY <1>11, <2>1, <3>1, <3>2 DEF PlanHasVersion, IsLaidFrom
  <2>2. CASE id # PlanId(plan)
    <3>1. id \in DOMAIN d.plans /\ e.plans[id] = d.plans[id]
      BY <1>11, <2>2
    <3>. QED
      BY <1>1, <1>10, <3>1 DEF PlanHasVersion, IsLaidFrom
  <2>. QED
    BY <2>1, <2>2
<1>15. KeepsVersions(d, e)
  BY <1>10, SameRowsKeepVersions
<1>16. ASSUME NEW id \in DOMAIN e.plans \ DOMAIN d.plans
       PROVE  <<id[1], id[2]>> = key
  <2>1. id = PlanId(plan)
    BY <1>11
  <2>. QED
    BY <1>9, <2>1, PlanIdIs
<1>. QED
  BY <1>7, <1>10, <1>12, <1>13, <1>14, <1>15, <1>16 DEF Consistent, KeepsPlans

LEMMA CreatedKeeps ==
  ASSUME NEW d, Consistent(d), NEW e, e = Created(d)
  PROVE  /\ Consistent(e) /\ KeepsVersions(d, e) /\ KeepsPlans(d, e)
         /\ e.plans = d.plans /\ e.schema # 0
         /\ d.schema = CurrentSchema => e = d
<1>1. CASE d.schema # 0
  <2>1. e = d
    BY <1>1 DEF Created
  <2>. QED
    BY <1>1, <2>1, SameRowsKeepVersions DEF KeepsPlans
<1>2. CASE d.schema = 0
  <2>1. IsDatabase(d) /\ DraftsInFrame(d) /\ \A id \in DOMAIN d.plans : PlanHasVersion(d, id)
    BY <1>2 DEF Consistent
  <2>2. /\ IsRecord(e) /\ e.models = d.models /\ e.rows = d.rows /\ e.versions = d.versions
        /\ e.schema = CurrentSchema /\ e.plans = d.plans
    BY <1>2, <2>1, TablesOf DEF IsRecord, Created
  <2>3. IsDatabase(e)
    BY <2>1, <2>2 DEF IsDatabase, IsRecord, CurrentSchema
  <2>4. DraftsInFrame(e) /\ \A id \in DOMAIN e.plans : PlanHasVersion(e, id)
    BY <2>1, <2>2 DEF DraftsInFrame, PlanHasVersion
  <2>6. KeepsPlans(d, e)
    BY <2>2 DEF KeepsPlans, IsLaidFrom
  <2>5. KeepsVersions(d, e)
    BY <2>2, SameRowsKeepVersions
  <2>. QED
    BY <1>2, <2>2, <2>3, <2>4, <2>5, <2>6 DEF Consistent, CurrentSchema
<1>. QED
  BY <1>1, <1>2

-----------------------------------------------------------------------------
(* The migrations.                                                         *)

\* What Content reads of the groups of a version.
SameContent(a, b) ==
  /\ DOMAIN a = DOMAIN b
  /\ \A i \in DOMAIN a :
       /\ a[i].id = b[i].id /\ a[i].areas = b[i].areas
       /\ DOMAIN a[i].points = DOMAIN b[i].points
       /\ \A p \in DOMAIN a[i].points : a[i].points[p].place = b[i].points[p].place

LEMMA SameContentIsKept ==
  ASSUME NEW d, NEW e, NEW key, SameContent(e.rows[key], d.rows[key])
  PROVE  Content(e, key) = Content(d, key)
<1>. DEFINE a == e.rows[key]
            b == d.rows[key]
            places(points) == [p \in DOMAIN points |-> points[p].place]
<1>1. ASSUME NEW i \in DOMAIN a PROVE places(a[i].points) = places(b[i].points)
  <2>1. DOMAIN a[i].points = DOMAIN b[i].points
        /\ \A p \in DOMAIN a[i].points : a[i].points[p].place = b[i].points[p].place
    BY DEF SameContent
  <2>. HIDE DEF a, b
  <2>. QED
    BY <2>1
<1>2. Content(e, key) = [i \in DOMAIN a |-> <<a[i].id, a[i].areas, places(a[i].points)>>]
  BY DEF Content
<1>3. Content(d, key) = [i \in DOMAIN b |-> <<b[i].id, b[i].areas, places(b[i].points)>>]
  BY DEF Content
<1>4. DOMAIN a = DOMAIN b
      /\ \A i \in DOMAIN a : a[i].id = b[i].id /\ a[i].areas = b[i].areas
  BY DEF SameContent
<1>. HIDE DEF a, b, places
<1>. QED
  BY <1>1, <1>2, <1>3, <1>4

LEMMA MovedGroup ==
  ASSUME NEW group \in GroupRecords, NEW origin \in Place
  PROVE  LET moved == Moved(group, origin)
         IN  /\ IsGroup(moved, origin)
             /\ moved.id = group.id /\ moved.areas = group.areas
             /\ DOMAIN moved.points = DOMAIN group.points
             /\ \A p \in DOMAIN group.points : moved.points[p].place = group.points[p].place
<1>. DEFINE points == [i \in DOMAIN group.points |->
                         [group.points[i] EXCEPT !.local = Local(origin, group.points[i].place)]]
            moved == [group EXCEPT !.points = points]
<1>1. group.points \in Seq(PointRecords) /\ DOMAIN group.points = 1 .. Len(group.points)
  BY DEF GroupRecords
<1>2. ASSUME NEW i \in DOMAIN group.points
      PROVE  /\ points[i] \in PointRecords /\ points[i].place = group.points[i].place
             /\ points[i].local = Local(origin, points[i].place)
  <2>1. group.points[i] \in PointRecords
    BY <1>1
  <2>2. origin \in Int /\ group.points[i].place \in Int
    BY <2>1, RecordsAssumption DEF PointRecords
  <2>3. Local(origin, group.points[i].place) \in Int
    BY <2>2 DEF Local
  <2>. QED
    BY <2>1, <2>3 DEF PointRecords
<1>3. origin # NoOrigin
  BY RecordsAssumption
<1>4. DOMAIN points = DOMAIN group.points
  OBVIOUS
<1>. HIDE DEF points
<1>5. points \in Seq(PointRecords)
  <2>1. points \in [1 .. Len(group.points) -> PointRecords] /\ Len(group.points) \in Nat
    <3>1. points \in [DOMAIN group.points -> PointRecords]
      BY <1>2 DEF points
    <3>. QED
      BY <1>1, <3>1
  <2>. QED
    BY <2>1
<1>6. PointsInFrame(origin, points)
  BY <1>2, <1>3, <1>4 DEF PointsInFrame
<1>7. Moved(group, origin) = moved
  BY DEF Moved, points
<1>8. IsGroup(moved, origin) /\ moved.id = group.id /\ moved.areas = group.areas
      /\ moved.points = points
  BY <1>5, <1>6 DEF IsGroup, GroupRecords
<1>. HIDE DEF moved
<1>. QED
  BY <1>2, <1>4, <1>7, <1>8

LEMMA MovedGroups ==
  ASSUME NEW groups \in Seq(GroupRecords), NEW origin \in Place,
         NEW new, new = [i \in DOMAIN groups |-> Moved(groups[i], origin)]
  PROVE  new \in Seq(GroupRecords) /\ InFrame(origin, new) /\ SameContent(new, groups)
<1>1. ASSUME NEW i \in DOMAIN groups
      PROVE  /\ IsGroup(new[i], origin) /\ new[i] \in GroupRecords
             /\ new[i].id = groups[i].id /\ new[i].areas = groups[i].areas
             /\ DOMAIN new[i].points = DOMAIN groups[i].points
             /\ \A p \in DOMAIN groups[i].points :
                  new[i].points[p].place = groups[i].points[p].place
  <2>1. groups[i] \in GroupRecords /\ new[i] = Moved(groups[i], origin)
    OBVIOUS
  <2>. QED
    BY <2>1, MovedGroup DEF IsGroup
<1>2. DOMAIN new = DOMAIN groups /\ DOMAIN groups = 1 .. Len(groups)
  OBVIOUS
<1>3. new \in Seq(GroupRecords)
  <2>1. new \in [1 .. Len(groups) -> GroupRecords] /\ Len(groups) \in Nat
    BY <1>1, <1>2
  <2>. QED
    BY <2>1
<1>4. InFrame(origin, new)
  BY <1>1, <1>2 DEF InFrame, IsGroup, PointsInFrame
<1>5. SameContent(new, groups)
  BY <1>1, <1>2 DEF SameContent
<1>. QED
  BY <1>3, <1>4, <1>5

\* The first point, if any group of the model has one.
LEMMA FirstPointIs ==
  ASSUME NEW d, IsDatabase(d), NEW m
  PROVE  \/ \E place \in Place : FirstPoint(d, m) = <<place>>
         \/ /\ FirstPoint(d, m) = <<>>
            /\ \A key \in DOMAIN d.rows : key[1] = m => ~HasPoints(d.rows[key])
<1>. DEFINE keys == {k \in VersionsOf(d, m) : HasPoints(d.rows[k])}
            pointed == {key[2] : key \in keys}
            groups == d.rows[<<m, Min(pointed)>>]
            i == CHOOSE i \in DOMAIN groups : groups[i].points # <<>>
<1>1. FirstPoint(d, m) = IF pointed = {} THEN <<>> ELSE <<groups[i].points[1].place>>
  BY DEF FirstPoint
<1>2. ASSUME NEW key \in DOMAIN d.rows
      PROVE  key = <<key[1], key[2]>> /\ key[2] \in Nat
  <2>1. key \in ((DOMAIN d.models) \X {0}) \/ key \in DOMAIN d.versions
    BY DEF IsDatabase
  <2>2. ASSUME key \in ((DOMAIN d.models) \X {0}) PROVE key = <<key[1], key[2]>> /\ key[2] \in Nat
    BY <2>2
  <2>. QED
    BY <2>1, <2>2, VersionKeys
<1>3. \A key : key \in keys <=> key \in DOMAIN d.rows /\ key[1] = m /\ HasPoints(d.rows[key])
  BY DEF VersionsOf
<1>4. CASE pointed = {}
  <2>1. keys = {}
    BY <1>4
  <2>. HIDE DEF keys
  <2>. QED
    BY <1>1, <1>3, <1>4, <2>1
<1>5. CASE pointed # {}
  <2>1. pointed \in SUBSET Nat
    BY <1>2, <1>3
  <2>2. Min(pointed) \in pointed
    <3>. HIDE DEF pointed
    <3>. QED
      BY <1>5, <2>1, MinIs
  <2>3. PICK key \in keys : key[2] = Min(pointed)
    BY <2>2
  <2>4. key \in DOMAIN d.rows /\ key = <<m, Min(pointed)>> /\ HasPoints(d.rows[key])
    BY <1>2, <1>3, <2>3
  <2>5. groups = d.rows[key] /\ groups \in Seq(GroupRecords)
    BY <2>4, TablesOf DEF IsTable
  <2>. HIDE DEF groups
  <2>6. \E j \in DOMAIN groups : groups[j].points # <<>>
    BY <2>4, <2>5 DEF HasPoints
  <2>7. i \in DOMAIN groups /\ groups[i].points # <<>>
    BY <2>6
  <2>. HIDE DEF i
  <2>8. groups[i].points \in Seq(PointRecords)
    <3>1. groups[i] \in GroupRecords
      BY <2>5, <2>7
    <3>. QED
      BY <3>1 DEF GroupRecords
  <2>9. groups[i].points[1] \in PointRecords
    BY <2>7, <2>8
  <2>10. groups[i].points[1].place \in Place
    BY <2>9 DEF PointRecords
  <2>. QED
    BY <1>1, <1>5, <2>10
<1>. QED
  BY <1>4, <1>5

MovedRows(d, key, origin) == [i \in DOMAIN d.rows[key] |-> Moved(d.rows[key][i], origin)]

IsMap(f) == f = [x \in DOMAIN f |-> f[x]]

LEMMA OriginsFields ==
  ASSUME NEW d, IsRecord(d), NEW e, e = MigrateV1ToV2(d)
  PROVE  /\ IsRecord(e) /\ e.schema = 2 /\ e.versions = d.versions /\ e.plans = d.plans
         /\ IsMap(e.models) /\ DOMAIN e.models = DOMAIN d.models
         /\ \A m \in DOMAIN d.models : e.models[m] =
              IF FirstPoint(d, m) = <<>> THEN d.models[m]
              ELSE [d.models[m] EXCEPT !.origin = FirstPoint(d, m)[1]]
         /\ IsMap(e.rows) /\ DOMAIN e.rows = DOMAIN d.rows
         /\ \A key \in DOMAIN d.rows : e.rows[key] =
              IF FirstPoint(d, key[1]) = <<>> THEN d.rows[key]
              ELSE MovedRows(d, key, FirstPoint(d, key[1])[1])
<1>. DEFINE models == [m \in DOMAIN d.models |->
                IF FirstPoint(d, m) = <<>> THEN d.models[m]
                ELSE [d.models[m] EXCEPT !.origin = FirstPoint(d, m)[1]]]
            rows == [key \in DOMAIN d.rows |->
                IF FirstPoint(d, key[1]) = <<>> THEN d.rows[key]
                ELSE MovedRows(d, key, FirstPoint(d, key[1])[1])]
            r == [d EXCEPT !.schema = 2, !.models = models]
<1>1. e = [r EXCEPT !.rows = rows]
  BY DEF MigrateV1ToV2, AddOrigins, MovedRows
<1>2. /\ IsRecord(e) /\ e.schema = 2 /\ e.versions = d.versions /\ e.plans = d.plans
      /\ e.models = models /\ e.rows = rows
  <2>. HIDE DEF models, rows
  <2>. QED
    BY <1>1 DEF IsRecord
<1>3. IsMap(models) /\ DOMAIN models = DOMAIN d.models
      /\ \A m \in DOMAIN d.models : models[m] =
              IF FirstPoint(d, m) = <<>> THEN d.models[m]
              ELSE [d.models[m] EXCEPT !.origin = FirstPoint(d, m)[1]]
  BY DEF IsMap
<1>4. IsMap(rows) /\ DOMAIN rows = DOMAIN d.rows
      /\ \A key \in DOMAIN d.rows : rows[key] =
              IF FirstPoint(d, key[1]) = <<>> THEN d.rows[key]
              ELSE MovedRows(d, key, FirstPoint(d, key[1])[1])
  BY DEF IsMap
<1>. HIDE DEF models, rows
<1>. QED
  BY <1>2, <1>3, <1>4

\* All points of a model, in whichever version, move to the frame of its origin.
LEMMA FirstMigrationKeeps ==
  ASSUME NEW d, Consistent(d), d.schema = 1, NEW e, e = MigrateV1ToV2(d)
  PROVE  /\ Consistent(e) /\ KeepsVersions(d, e) /\ KeepsPlans(d, e)
         /\ e.schema = 2 /\ e.plans = d.plans
<1>1. IsDatabase(d) /\ IsRecord(d) 
      /\ \A id \in DOMAIN d.plans : PlanHasVersion(d, id)
  BY TablesOf DEF Consistent
<1>2. /\ IsRecord(e) /\ e.schema = 2 /\ e.versions = d.versions /\ e.plans = d.plans
  BY <1>1, OriginsFields
<1>3. DOMAIN e.models = DOMAIN d.models /\ DOMAIN e.rows = DOMAIN d.rows
  BY <1>1, OriginsFields
<1>4. ASSUME NEW m \in DOMAIN d.models
      PROVE  /\ m \in DOMAIN e.models /\ e.models[m] \in ModelRows
             /\ FirstPoint(d, m) # <<>> => e.models[m].origin = FirstPoint(d, m)[1]
  <2>1. e.models[m] = IF FirstPoint(d, m) = <<>> THEN d.models[m]
                         ELSE [d.models[m] EXCEPT !.origin = FirstPoint(d, m)[1]]
    BY <1>1, OriginsFields
  <2>2. d.models[m] \in ModelRows
    BY <1>1, TablesOf DEF IsTable
  <2>3. FirstPoint(d, m) # <<>> => FirstPoint(d, m)[1] \in Place
    BY <1>1, FirstPointIs
  <2>. QED
    BY <1>3, <2>1, <2>2, <2>3 DEF ModelRows
<1>5. DOMAIN e.models = DOMAIN d.models /\ IsTable(e.models, ModelRows)
  <2>1. IsMap(e.models) /\ DOMAIN e.models = DOMAIN d.models
    BY <1>1, OriginsFields
  <2>2. e.models \in [DOMAIN e.models -> ModelRows]
    BY <1>4, <2>1 DEF IsMap
  <2>. QED
    BY <2>1, <2>2 DEF IsTable
<1>6. ASSUME NEW key \in DOMAIN d.rows
      PROVE  /\ key \in DOMAIN e.rows /\ e.rows[key] \in Seq(GroupRecords)
             /\ SameContent(e.rows[key], d.rows[key])
             /\ FirstPoint(d, key[1]) # <<>> => InFrame(FirstPoint(d, key[1])[1], e.rows[key])
             /\ FirstPoint(d, key[1]) = <<>> => e.rows[key] = d.rows[key]
  <2>1. e.rows[key] = IF FirstPoint(d, key[1]) = <<>> THEN d.rows[key]
                      ELSE MovedRows(d, key, FirstPoint(d, key[1])[1])
    BY <1>1, OriginsFields
  <2>2. d.rows[key] \in Seq(GroupRecords)
    BY <1>1, TablesOf DEF IsTable
  <2>3. CASE FirstPoint(d, key[1]) = <<>>
    BY <1>3, <2>1, <2>2, <2>3 DEF SameContent
  <2>4. CASE FirstPoint(d, key[1]) # <<>>
    <3>1. FirstPoint(d, key[1])[1] \in Place
      BY <1>1, <2>4, FirstPointIs
    <3>2. MovedRows(d, key, FirstPoint(d, key[1])[1]) \in Seq(GroupRecords)
          /\ InFrame(FirstPoint(d, key[1])[1], MovedRows(d, key, FirstPoint(d, key[1])[1]))
          /\ SameContent(MovedRows(d, key, FirstPoint(d, key[1])[1]), d.rows[key])
      BY <2>2, <3>1, MovedGroups DEF MovedRows
    <3>. QED
      BY <1>3, <2>1, <2>4, <3>2
  <2>. QED
    BY <2>3, <2>4
<1>7. DOMAIN e.rows = DOMAIN d.rows /\ IsTable(e.rows, Seq(GroupRecords))
  <2>1. IsMap(e.rows) /\ DOMAIN e.rows = DOMAIN d.rows
    BY <1>1, OriginsFields
  <2>. QED
    BY <1>6, <2>1 DEF IsTable, IsMap
<1>8. IsDatabase(e)
  <2>1. DOMAIN e.rows = ((DOMAIN e.models) \X {0}) \cup DOMAIN e.versions
    BY <1>1, <1>2, <1>5, <1>7 DEF IsDatabase
  <2>. QED
    BY <1>1, <1>2, <1>5, <1>7, <2>1 DEF IsDatabase, IsRecord, ModelRows, CurrentSchema
<1>9. DraftsInFrame(e)
  <2>. SUFFICES ASSUME NEW m \in DOMAIN d.models PROVE InFrame(e.models[m].origin, e.rows[<<m, 0>>])
    BY <1>5 DEF DraftsInFrame
  <2>. DEFINE key == <<m, 0>>
  <2>1. key \in DOMAIN d.rows /\ key[1] = m
    BY <1>1, DraftKeys
  <2>. HIDE DEF key
  <2>2. CASE FirstPoint(d, m) # <<>>
    <3>1. InFrame(FirstPoint(d, m)[1], e.rows[key])
      BY <1>6, <2>1, <2>2
    <3>. QED
      BY <1>4, <2>2, <3>1 DEF key
  <2>3. CASE FirstPoint(d, m) = <<>>
    <3>1. ~HasPoints(d.rows[key])
      <4>1. \A place \in Place : FirstPoint(d, m) # <<place>>
        BY <2>3
      <4>. QED
        BY <1>1, <2>1, <4>1, FirstPointIs
    <3>2. e.rows[key] = d.rows[key] /\ d.rows[key] \in Seq(GroupRecords)
      BY <1>1, <1>6, <2>1, <2>3, TablesOf DEF IsTable
    <3>3. ASSUME NEW i \in DOMAIN d.rows[key] PROVE DOMAIN d.rows[key][i].points = {}
      BY <3>1 DEF HasPoints
    <3>. QED
      BY <3>2, <3>3 DEF InFrame, key
  <2>. QED
    BY <2>2, <2>3
<1>10. KeepsVersions(d, e)
  <2>. SUFFICES ASSUME NEW key \in DOMAIN d.versions
                PROVE  key \in DOMAIN e.versions /\ Content(e, key) = Content(d, key)
    BY DEF KeepsVersions
  <2>1. key \in DOMAIN d.rows
    BY <1>1, VersionKeys
  <2>. QED
    BY <1>2, <1>6, <2>1, SameContentIsKept
<1>11. (\A id \in DOMAIN e.plans : PlanHasVersion(e, id)) /\ KeepsPlans(d, e)
  BY <1>1, <1>2 DEF PlanHasVersion, KeepsPlans
<1>. QED
  BY <1>2, <1>8, <1>9, <1>10, <1>11 DEF Consistent

\* What the second migration makes of a group.
Unjoined(group) == [group EXCEPT !.joined = FALSE, !.linksOk = FALSE]

LEMMA SecondMigrationKeeps ==
  ASSUME NEW d, Consistent(d), d.schema # 1, NEW e, e = MigrateV2ToV3(d)
  PROVE  /\ Consistent(e) /\ KeepsVersions(d, e) /\ KeepsPlans(d, e)
         /\ e.schema = 3 /\ e.plans = d.plans
<1>. DEFINE unjoined(groups) == [i \in DOMAIN groups |-> Unjoined(groups[i])]
            rows == [key \in DOMAIN d.rows |-> unjoined(d.rows[key])]
<1>1. /\ IsDatabase(d) /\ IsRecord(d) /\ DraftsInFrame(d)
      /\ \A id \in DOMAIN d.plans : PlanHasVersion(d, id)
  BY TablesOf DEF Consistent
<1>2. e = [d EXCEPT !.schema = 3, !.rows = rows]
  BY DEF MigrateV2ToV3, Unjoined
<1>3. \A key \in DOMAIN d.rows : rows[key] = unjoined(d.rows[key])
  OBVIOUS
<1>4. rows = [key \in DOMAIN d.rows |-> rows[key]] /\ DOMAIN rows = DOMAIN d.rows
  OBVIOUS
<1>. HIDE DEF rows
<1>5. /\ IsRecord(e) /\ e.schema = 3 /\ e.versions = d.versions /\ e.plans = d.plans
      /\ e.models = d.models /\ e.rows = rows
  BY <1>1, <1>2 DEF IsRecord
<1>6. ASSUME NEW group \in GroupRecords
      PROVE  /\ Unjoined(group) \in GroupRecords /\ Unjoined(group).id = group.id
             /\ Unjoined(group).areas = group.areas /\ Unjoined(group).points = group.points
  BY DEF GroupRecords, Unjoined
<1>7. ASSUME NEW key \in DOMAIN d.rows
      PROVE  /\ rows[key] \in Seq(GroupRecords) /\ Len(rows[key]) = Len(d.rows[key])
             /\ DOMAIN rows[key] = DOMAIN d.rows[key]
             /\ \A i \in DOMAIN d.rows[key] :
                  /\ rows[key][i].id = d.rows[key][i].id
                  /\ rows[key][i].areas = d.rows[key][i].areas
                  /\ rows[key][i].points = d.rows[key][i].points
  <2>. DEFINE groups == d.rows[key]
  <2>1. groups \in Seq(GroupRecords)
    BY <1>1, TablesOf DEF IsTable
  <2>2. rows[key] = [i \in DOMAIN groups |-> Unjoined(groups[i])]
    BY <1>3
  <2>. HIDE DEF groups
  <2>3. rows[key] \in Seq(GroupRecords) /\ Len(rows[key]) = Len(groups)
        /\ DOMAIN rows[key] = DOMAIN groups
        /\ \A i \in DOMAIN groups : rows[key][i] = Unjoined(groups[i])
    <3>1. \A i \in 1 .. Len(groups) : Unjoined(groups[i]) \in GroupRecords
      BY <1>6, <2>1
    <3>2. DOMAIN groups = 1 .. Len(groups) /\ Len(groups) \in Nat
      BY <2>1
    <3>3. rows[key] \in [1 .. Len(groups) -> GroupRecords]
      BY <2>2, <3>1, <3>2
    <3>. QED
      BY <2>2, <3>2, <3>3
  <2>4. \A i \in DOMAIN groups : groups[i] \in GroupRecords
    BY <2>1
  <2>. QED
    BY <1>6, <2>3, <2>4 DEF groups
<1>8. IsTable(e.rows, Seq(GroupRecords)) /\ DOMAIN e.rows = DOMAIN d.rows
  BY <1>4, <1>5, <1>7 DEF IsTable
<1>9. IsDatabase(e)
  BY <1>1, <1>5, <1>8 DEF IsDatabase, IsRecord, CurrentSchema
<1>10. DraftsInFrame(e)
  <2>. SUFFICES ASSUME NEW m \in DOMAIN d.models PROVE InFrame(d.models[m].origin, rows[<<m, 0>>])
    BY <1>5 DEF DraftsInFrame
  <2>1. <<m, 0>> \in DOMAIN d.rows /\ InFrame(d.models[m].origin, d.rows[<<m, 0>>])
    BY <1>1, DraftKeys DEF DraftsInFrame
  <2>. QED
    BY <1>7, <2>1 DEF InFrame
<1>11. ASSUME NEW id \in DOMAIN e.plans
       PROVE  PlanHasVersion(e, id) /\ (IsLaidFrom(d, id) => IsLaidFrom(e, id))
  <2>. DEFINE key == PlannedVersion(d.plans[id])
  <2>1. /\ id = PlanId(d.plans[id]) /\ key \in DOMAIN d.versions
    BY <1>1, <1>5 DEF PlanHasVersion
  <2>2. key \in DOMAIN d.rows
    BY <1>1, <2>1, VersionKeys
  <2>3. d.rows[key] \in Seq(GroupRecords)
    BY <1>1, <2>2, TablesOf DEF IsTable
  <2>. HIDE DEF key
  <2>4. PlanHasVersion(e, id)
    BY <1>5, <2>1 DEF PlanHasVersion, key
  <2>5. ASSUME IsLaidFrom(d, id) PROVE IsLaidFrom(e, id)
    <3>1. Len(d.rows[key]) = 1
          /\ Positions([groups |-> d.rows[key]]) = d.plans[id].positions
      BY <2>5 DEF IsLaidFrom, key
    <3>2. Len(rows[key]) = 1 /\ rows[key][1].points = d.rows[key][1].points
      BY <1>7, <2>2, <2>3, <3>1
    <3>3. Positions([groups |-> rows[key]]) = Positions([groups |-> d.rows[key]])
      BY <3>2 DEF Positions
    <3>. QED
      BY <1>5, <2>1, <3>1, <3>2, <3>3 DEF IsLaidFrom, key
  <2>. QED
    BY <2>4, <2>5
<1>12. KeepsVersions(d, e)
  <2>. SUFFICES ASSUME NEW key \in DOMAIN d.versions
                PROVE  key \in DOMAIN e.versions /\ Content(e, key) = Content(d, key)
    BY DEF KeepsVersions
  <2>1. key \in DOMAIN d.rows
    BY <1>1, VersionKeys
  <2>2. SameContent(e.rows[key], d.rows[key])
    BY <1>5, <1>7, <2>1 DEF SameContent
  <2>. QED
    BY <1>5, <2>2, SameContentIsKept
<1>. QED
  BY <1>5, <1>9, <1>10, <1>11, <1>12 DEF Consistent, KeepsPlans

-----------------------------------------------------------------------------
(* The database in every state: opened, it is of the current schema, and a  *)
(* plan is being made of a version that is there.                           *)

NodeInv ==
  /\ node \in Nodes
  /\ node \in Holding => db.schema = CurrentSchema
  /\ node = "opening" => db.schema # 0
ServiceStates ==
  {Idle} \cup [at : {"waiting", "late", "marked"}]
         \cup [at : {"planning"}, model : Model, version : VersionNumbers]
ServiceInv ==
  /\ service \in ServiceStates
  /\ service.at = "planning" =>
       node \in Holding /\ <<service.model, service.version>> \in DOMAIN db.versions
DbInv == Consistent(db) /\ NodeInv /\ ServiceInv /\ samples \in Nat /\ trouble \in Nat

NewPlansAreConfirmed(d, e) ==
  \A id \in DOMAIN e.plans \ DOMAIN d.plans :
    \A group \in Range(d.rows[<<id[1], id[2]>>]) : IsConfirmedGroup(group)

\* What every step shows.
DbStep ==
  DbInv' /\ KeepsVersions(db, db') /\ KeepsPlans(db, db') /\ NewPlansAreConfirmed(db, db')

\* A step that leaves the database alone.
LEMMA SameDb ==
  ASSUME DbInv, UNCHANGED db, NodeInv', ServiceInv', samples' \in Nat, trouble' \in Nat
  PROVE  DbStep
<1>1. Consistent(db') /\ KeepsVersions(db, db') /\ KeepsPlans(db, db')
  <2>1. Consistent(db') /\ KeepsVersions(db, db')
    BY SameRowsKeepVersions DEF DbInv
  <2>2. KeepsPlans(db, db')
    BY DEF KeepsPlans
  <2>. QED
    BY <2>1, <2>2
<1>2. NewPlansAreConfirmed(db, db')
  BY DEF NewPlansAreConfirmed
<1>. QED
  BY <1>1, <1>2 DEF DbStep, DbInv

\* Who is answered has a repository of the current schema, and keeps it.
LEMMA AnsweredHolds ==
  ASSUME NodeInv, Answers, Answered, db'.schema = db.schema
  PROVE  NodeInv' /\ node' \in Holding /\ db.schema = CurrentSchema
<1>1. node \in {"ready", "overdue"} /\ node \in Holding /\ db.schema = CurrentSchema
  BY DEF NodeInv, Answers, Holding
<1>2. node' \in {"ready", "stale"}
  BY <1>1 DEF Answered
<1>3. node' \in Holding /\ node' \in Nodes /\ node' # "opening"
  BY <1>2 DEF Holding, Nodes
<1>. QED
  BY <1>1, <1>3 DEF NodeInv

\* A service that is answered by one transaction, and takes no plan away.
LEMMA ServiceKeeps ==
  ASSUME DbInv, Answers, Consistent(db'), KeepsVersions(db, db'), KeepsPlans(db, db'),
         db'.schema = db.schema, DOMAIN db'.plans \subseteq DOMAIN db.plans, Quiet, samples' \in Nat
  PROVE  DbStep
<1>1. NodeInv' /\ ServiceInv'
  <2>1. NodeInv'
    BY AnsweredHolds DEF DbInv, Quiet
  <2>2. ServiceInv'
    BY DEF DbInv, ServiceInv, Answers, Quiet, Idle
  <2>. QED
    BY <2>1, <2>2
<1>2. NewPlansAreConfirmed(db, db')
  BY DEF NewPlansAreConfirmed
<1>. QED
  BY <1>1, <1>2 DEF DbStep, DbInv, Quiet

LEMMA ReadyDb ==
  ASSUME DbInv, Answers
  PROVE  Consistent(db) /\ db.schema = CurrentSchema /\ db.schema # 1
BY DEF DbInv, NodeInv, Answers, CurrentSchema, Holding

LEMMA EditKeeps ==
  ASSUME DbInv, NEW m \in DOMAIN db.models, NEW model, Edits(m, model),
         IsModel(Draft(m)) => IsModel(model)
  PROVE  DbStep
<1>1. /\ Answers /\ Quiet /\ samples' = samples /\ db' = SaveDraft(db, m, model)
      /\ samples \in Nat
  BY DEF Edits, Saves, DbInv
<1>2. Consistent(db) /\ db.schema # 1
  BY <1>1, ReadyDb
<1>3. m \in Model /\ IsModel(model)
  BY <1>2, DraftIsModel, DraftKeys DEF Draft, Consistent
<1>4. /\ Consistent(db') /\ KeepsVersions(db, db') /\ KeepsPlans(db, db')
      /\ db'.schema = db.schema /\ db'.plans = db.plans
  BY <1>1, <1>2, <1>3, SaveDraftKeeps
<1>. QED
  BY <1>1, <1>4, ServiceKeeps

LEMMA CreateKeeps == ASSUME DbInv, NEW m \in Model, Create(m) PROVE DbStep
<1>1. /\ Answers /\ Quiet /\ samples' = samples /\ db' = SaveDraft(db, m, EmptyModel)
      /\ samples \in Nat
  BY DEF Create, Saves, DbInv
<1>2. Consistent(db) /\ db.schema # 1
  BY <1>1, ReadyDb
<1>3. /\ Consistent(db') /\ KeepsVersions(db, db') /\ KeepsPlans(db, db')
      /\ db'.schema = db.schema /\ db'.plans = db.plans
  BY <1>1, <1>2, EmptyIsModel, SaveDraftKeeps
<1>. QED
  BY <1>1, <1>3, ServiceKeeps

LEMMA DeletionKeeps == ASSUME DbInv, NEW m \in Model, Delete(m) PROVE DbStep
<1>1. /\ Answers /\ Quiet /\ samples' = samples /\ m \in DOMAIN db.models
      /\ db' = DeleteModel(db, m) /\ samples \in Nat
  BY DEF Delete, DbInv
<1>2. Consistent(db) /\ db.schema # 1
  BY <1>1, ReadyDb
<1>3. /\ Consistent(db') /\ KeepsVersions(db, db') /\ KeepsPlans(db, db')
      /\ db'.schema = db.schema
      /\ DOMAIN db'.plans \subseteq DOMAIN db.plans
  BY <1>1, <1>2, DeleteKeeps
<1>. QED
  BY <1>1, <1>3, ServiceKeeps

LEMMA GroupEditsKeep ==
  ASSUME DbInv, NEW m \in Model, NEW id \in Group,
         \/ CreateGroup(m, id) \/ DeleteGroup(m, id) \/ DeletePoint(m, id)
         \/ RecognizeGroup(m, id) \/ ConfirmRecognition(m, id)
  PROVE  DbStep
<1>1. CASE CreateGroup(m, id)
  <2>1. m \in DOMAIN db.models /\ Edits(m, WithNewGroup(Draft(m), id))
    BY <1>1 DEF CreateGroup, Edits
  <2>. QED
    BY <2>1, NewGroupIsModel, EditKeeps
<1>2. CASE DeleteGroup(m, id)
  <2>1. PICK i \in GroupOf(Draft(m), id) : Edits(m, WithoutGroup(Draft(m), i))
    BY <1>2 DEF DeleteGroup
  <2>2. m \in DOMAIN db.models /\ i \in DOMAIN Draft(m).groups
    BY <1>2 DEF DeleteGroup, GroupOf
  <2>. QED
    BY <2>1, <2>2, WithoutGroupIsModel, EditKeeps
<1>3. CASE DeletePoint(m, id)
  <2>1. PICK i \in GroupOf(Draft(m), id) : \E p \in DOMAIN Draft(m).groups[i].points :
          Edits(m, WithoutPoint(Draft(m), i, p))
    BY <1>3 DEF DeletePoint
  <2>2. m \in DOMAIN db.models /\ i \in DOMAIN Draft(m).groups
    BY <1>3 DEF DeletePoint, GroupOf
  <2>. QED
    BY <2>1, <2>2, WithoutPointIsModel, EditKeeps
<1>4. CASE RecognizeGroup(m, id)
  <2>1. PICK i \in GroupOf(Draft(m), id), outcome \in Outcomes :
          Edits(m, WithRecognised(Draft(m), i, outcome))
    BY <1>4 DEF RecognizeGroup
  <2>2. m \in DOMAIN db.models /\ i \in DOMAIN Draft(m).groups
    BY <1>4 DEF RecognizeGroup, GroupOf
  <2>. QED
    BY <2>1, <2>2, RecognisedIsModel, EditKeeps
<1>5. CASE ConfirmRecognition(m, id)
  <2>1. PICK i \in GroupOf(Draft(m), id) : Edits(m, WithConfirmedGroup(Draft(m), i))
    BY <1>5 DEF ConfirmRecognition
  <2>2. m \in DOMAIN db.models /\ i \in DOMAIN Draft(m).groups
    BY <1>5 DEF ConfirmRecognition, GroupOf
  <2>. QED
    BY <2>1, <2>2, ConfirmedIsModel, EditKeeps
<1>. QED
  BY <1>1, <1>2, <1>3, <1>4, <1>5

LEMMA SampleKeeps ==
  ASSUME DbInv, NEW m \in Model, NEW id \in Group, NEW sample \in Samples,
         SamplePoint(m, id, sample[1], sample[2])
  PROVE  DbStep
<1>1. /\ Answers /\ Quiet /\ m \in DOMAIN db.models /\ samples' = samples + 1
  BY DEF SamplePoint
<1>2. samples' \in Nat /\ sample[1] \in Place /\ sample[2] \in Kinds
  BY <1>1, ManagerAssumption DEF DbInv
<1>3. PICK i \in GroupOf(Draft(m), id) :
        db' = SaveDraft(db, m, WithPoint(Draft(m), i, sample[1], sample[2]))
  BY DEF SamplePoint, Saves
<1>4. Consistent(db) /\ db.schema # 1
  BY <1>1, ReadyDb
<1>5. IsModel(Draft(m)) /\ i \in DOMAIN Draft(m).groups
  BY <1>1, <1>4, DraftIsModel DEF Draft, GroupOf
<1>6. IsModel(WithPoint(Draft(m), i, sample[1], sample[2]))
  BY <1>2, <1>5, WithPointIsModel
<1>7. /\ Consistent(db') /\ KeepsVersions(db, db') /\ KeepsPlans(db, db')
      /\ db'.schema = db.schema /\ db'.plans = db.plans
  BY <1>3, <1>4, <1>6, SaveDraftKeeps
<1>. QED
  BY <1>1, <1>2, <1>7, ServiceKeeps

LEMMA AnyEditKeeps == ASSUME DbInv, NEW m \in Model, Edit(m) PROVE DbStep
BY CreateKeeps, DeletionKeeps, GroupEditsKeep, SampleKeeps DEF Edit

-----------------------------------------------------------------------------
(* Versions, plans, and opening the database.                               *)

LEMMA VersionIsSaved ==
  ASSUME DbInv, Answers, NEW m \in DOMAIN db.models, db' = SaveFormalVersion(db, m, Draft(m))
  PROVE  /\ Consistent(db') /\ KeepsVersions(db, db') /\ KeepsPlans(db, db')
         /\ db'.schema = db.schema /\ db'.plans = db.plans
         /\ <<m, NextVersion(db, m)>> \in DOMAIN db'.versions
         /\ NextVersion(db, m) \in VersionNumbers
<1>1. Consistent(db) /\ db.schema # 1
  BY ReadyDb
<1>. QED
  BY <1>1, SaveVersionKeeps DEF Draft

LEMMA SaveVersionStep == ASSUME DbInv, NEW m \in Model, SaveVersion(m) PROVE DbStep
<1>1. /\ Answers /\ Quiet /\ samples' = samples /\ m \in DOMAIN db.models
      /\ db' = SaveFormalVersion(db, m, Draft(m)) /\ samples \in Nat
  BY DEF SaveVersion, DbInv
<1>2. /\ Consistent(db') /\ KeepsVersions(db, db') /\ KeepsPlans(db, db')
      /\ db'.schema = db.schema
      /\ db'.plans = db.plans
  BY <1>1, VersionIsSaved
<1>. QED
  BY <1>1, <1>2, ServiceKeeps

LEMMA GeneratePlanStep == ASSUME DbInv, NEW m \in Model, GeneratePlan(m) PROVE DbStep
<1>1. Answers /\ m \in DOMAIN db.models /\ Answered /\ UNCHANGED <<samples, trouble>>
  BY DEF GeneratePlan
<1>2. samples' \in Nat /\ trouble' \in Nat
  BY <1>1 DEF DbInv
<1>3. m \in Model /\ Consistent(db) /\ IsDatabase(db) /\ NodeInv
  BY <1>1, DraftKeys DEF DbInv, Consistent
<1>4. CASE /\ db' = SaveFormalVersion(db, m, Draft(m))
           /\ service' = [at |-> "planning", model |-> m, version |-> NextVersion(db, m)]
  <2>. DEFINE v == NextVersion(db, m)
  <2>1. /\ Consistent(db') /\ KeepsVersions(db, db') /\ KeepsPlans(db, db')
        /\ db'.schema = db.schema /\ db'.plans = db.plans
        /\ <<m, v>> \in DOMAIN db'.versions /\ v \in VersionNumbers
    BY <1>1, <1>4, VersionIsSaved
  <2>. HIDE DEF v
  <2>2. service' = [at |-> "planning", model |-> m, version |-> v]
    BY <1>4 DEF v
  <2>4. NodeInv' /\ node' \in Holding
    BY <1>1, <1>3, <2>1, AnsweredHolds
  <2>3. ServiceInv'
    BY <1>1, <1>3, <2>1, <2>2, <2>4 DEF ServiceInv, ServiceStates
  <2>5. NewPlansAreConfirmed(db, db')
    BY <2>1 DEF NewPlansAreConfirmed
  <2>. QED
    BY <1>2, <2>1, <2>3, <2>4, <2>5 DEF DbStep, DbInv
<1>5. CASE /\ \E key \in DOMAIN db.versions :
                key[1] = m /\ service' = [at |-> "planning", model |-> m, version |-> key[2]]
           /\ UNCHANGED db
  <2>1. PICK key \in DOMAIN db.versions :
          key[1] = m /\ service' = [at |-> "planning", model |-> m, version |-> key[2]]
    BY <1>5
  <2>2. key = <<m, key[2]>> /\ key[2] \in VersionNumbers
    BY <1>3, <2>1, VersionKeys DEF VersionNumbers
  <2>4. NodeInv' /\ node' \in Holding
    BY <1>1, <1>3, <1>5, AnsweredHolds
  <2>3. ServiceInv'
    BY <1>1, <1>3, <1>5, <2>1, <2>2, <2>4 DEF ServiceInv, ServiceStates
  <2>. QED
    BY <1>2, <1>5, <2>3, <2>4, SameDb
<1>. QED
  BY <1>4, <1>5 DEF GeneratePlan

LEMMA BuildPlanStep == ASSUME DbInv, NEW preview \in BOOLEAN, BuildPlan(preview) PROVE DbStep
<1>. DEFINE m == service.model
            v == service.version
            version == LoadVersion(db, m, v)
<1>1. /\ node \in Holding /\ <<m, v>> \in DOMAIN db.versions /\ UNCHANGED <<node, samples, trouble>>
      /\ samples' \in Nat /\ trouble' \in Nat
      /\ NodeInv /\ Consistent(db) /\ db.schema = CurrentSchema
  BY DEF BuildPlan, DbInv, ServiceInv, NodeInv
<1>2. ServiceInv'
  BY DEF BuildPlan, ServiceInv, ServiceStates, Idle
<1>3. CASE UNCHANGED db
  <2>1. NodeInv'
    BY <1>1, <1>3 DEF NodeInv
  <2>. QED
    BY <1>1, <1>2, <1>3, <2>1, SameDb
<1>4. CASE MayPlan(version) /\ db' = SavePlan(db, PlanOf(m, v, version, preview))
  <2>1. db.schema # 1
    BY <1>1 DEF CurrentSchema
  <2>2. /\ Consistent(db') /\ KeepsVersions(db, db') /\ KeepsPlans(db, db') /\ db'.schema = db.schema
        /\ NewPlansAreConfirmed(db, db')
    BY <1>1, <1>4, <2>1, SavePlanKeeps DEF NewPlansAreConfirmed
  <2>3. NodeInv'
    BY <1>1, <2>2 DEF NodeInv
  <2>. QED
    BY <1>1, <1>2, <2>2, <2>3 DEF DbStep, DbInv
<1>. QED
  BY <1>3, <1>4 DEF BuildPlan

\* Opening holds repository_mutex_: no plan is being made.
LEMMA ConfigureStep == ASSUME DbInv, Configure PROVE DbStep
<1>1. /\ db' = Created(db) /\ UNCHANGED <<service, samples>> /\ service.at # "planning"
      /\ \/ node \in Holding /\ node' = "reopening"
         \/ node = "down" /\ node' = "opening"
  BY DEF Configure, Holding
<1>2. samples' \in Nat /\ trouble' \in Nat
  BY <1>1 DEF Configure, Trouble, DbInv
<1>3. /\ Consistent(db') /\ KeepsVersions(db, db') /\ KeepsPlans(db, db')
      /\ db'.plans = db.plans /\ db'.schema # 0
  BY <1>1, CreatedKeeps DEF DbInv
<1>4. NodeInv' /\ ServiceInv'
  <2>1. NodeInv'
    <3>1. CASE node \in Holding
      <4>1. db' = db /\ db.schema = CurrentSchema
        BY <1>1, <3>1, CreatedKeeps DEF DbInv, NodeInv
      <4>. QED
        BY <1>1, <3>1, <4>1 DEF NodeInv, Nodes, Holding
    <3>2. CASE node' = "opening"
      BY <1>3, <3>2 DEF NodeInv, Nodes, Holding
    <3>. QED
      BY <1>1, <3>1, <3>2
  <2>2. ServiceInv'
    BY <1>1 DEF DbInv, ServiceInv
  <2>. QED
    BY <2>1, <2>2
<1>5. NewPlansAreConfirmed(db, db')
  BY <1>3 DEF NewPlansAreConfirmed
<1>. QED
  BY <1>2, <1>3, <1>4, <1>5 DEF DbStep, DbInv

LEMMA MigrateStep == ASSUME DbInv, Migrate PROVE DbStep
<1>1. /\ node = "opening" /\ db.schema < CurrentSchema /\ db' = MigrateSchema(db)
      /\ UNCHANGED <<node, service, samples, trouble>>
  BY DEF Migrate, Opening, DbInv, NodeInv, Holding, CurrentSchema
<1>2. Consistent(db) /\ db.schema # 0 /\ db.schema \in 0 .. 3
  BY <1>1 DEF DbInv, NodeInv, Consistent, IsDatabase, CurrentSchema
<1>3. /\ Consistent(db') /\ KeepsVersions(db, db') /\ KeepsPlans(db, db')
      /\ db'.plans = db.plans /\ db'.schema # 0
  <2>1. CASE db.schema = 1
    BY <1>1, <1>2, <2>1, FirstMigrationKeeps DEF MigrateSchema
  <2>2. CASE db.schema # 1
    BY <1>1, <1>2, <2>2, SecondMigrationKeeps DEF MigrateSchema
  <2>. QED
    BY <2>1, <2>2
<1>4. NodeInv' /\ ServiceInv'
  <2>1. node' = "opening" /\ node' \in Nodes /\ node' \notin Holding
    BY <1>1 DEF Nodes, Holding
  <2>. QED
    BY <1>1, <1>3, <2>1 DEF DbInv, NodeInv, ServiceInv
<1>5. NewPlansAreConfirmed(db, db')
  BY <1>3 DEF NewPlansAreConfirmed
<1>. QED
  BY <1>1, <1>3, <1>4, <1>5 DEF DbStep, DbInv

LEMMA OpeningStep == ASSUME DbInv, Opened \/ OpenFails \/ Crash PROVE DbStep
<1>1. UNCHANGED db /\ samples' \in Nat /\ trouble' \in Nat
  BY DEF Opened, OpenFails, Crash, Trouble, DbInv
<1>2. \/ Crash /\ node' = "down" /\ service' = Idle
      \/ /\ UNCHANGED service
         /\ \/ node' = "ready" /\ db.schema = CurrentSchema
            \/ node = "opening" /\ node' = "down"
            \/ node = "reopening" /\ node' \in {"stale", "overdue"}
  BY DEF Opened, OpenFails, Crash
<1>3. NodeInv'
  BY <1>1, <1>2 DEF DbInv, NodeInv, Nodes, Holding
<1>4. ServiceInv'
  <2>1. CASE service' = Idle
    BY <2>1 DEF ServiceInv, ServiceStates, Idle
  <2>2. CASE UNCHANGED service /\ (node \in Holding => node' \in Holding)
    BY <1>1, <2>2 DEF DbInv, ServiceInv
  <2>. QED
    BY <1>2, <2>1, <2>2 DEF Holding
<1>. QED
  BY <1>1, <1>3, <1>4, SameDb

\* Handing a plan over.
LEMMA HandOverStep ==
  ASSUME DbInv,
         \/ \E id \in DOMAIN db.plans : ExecutePlan(id)
         \/ InTime \/ WaitEnds \/ MarkTimedOut \/ AnswerTimeout
         \/ \E g \in DOMAIN goals : Response(g) \/ MissionAnswers(g)
         \/ UNCHANGED vars
  PROVE  DbStep
<1>. DEFINE Rest == /\ UNCHANGED <<db, samples, trouble>>
                    /\ UNCHANGED node \/ (Answers /\ Answered)
                    /\ \/ UNCHANGED service
                       \/ service' \in {Idle} \cup [at : {"waiting", "late", "marked"}]
<1>1. Rest
  <2>1. ASSUME NEW id \in DOMAIN db.plans, ExecutePlan(id) PROVE Rest
    BY <2>1 DEF ExecutePlan
  <2>2. ASSUME InTime \/ WaitEnds \/ MarkTimedOut \/ AnswerTimeout PROVE Rest
    BY <2>2 DEF InTime, WaitEnds, MarkTimedOut, AnswerTimeout, Idle
  <2>3. ASSUME NEW g \in DOMAIN goals, Response(g) \/ MissionAnswers(g) PROVE Rest
    BY <2>3 DEF Response, ResponseArrives, OnGoalResponse, MissionAnswers
  <2>4. ASSUME UNCHANGED vars PROVE Rest
    BY <2>4 DEF vars
  <2>. QED
    BY <2>1, <2>2, <2>3, <2>4
<1>2. NodeInv' /\ (node \in Holding => node' \in Holding)
  <2>1. CASE UNCHANGED node
    BY <1>1, <2>1 DEF DbInv, NodeInv
  <2>2. CASE Answers /\ Answered
    BY <1>1, <2>2, AnsweredHolds DEF DbInv
  <2>. QED
    BY <1>1, <2>1, <2>2
<1>3. ServiceInv'
  BY <1>1, <1>2 DEF DbInv, ServiceInv, ServiceStates, Idle
<1>4. samples' \in Nat /\ trouble' \in Nat
  BY <1>1 DEF DbInv
<1>. QED
  BY <1>1, <1>2, <1>3, <1>4, SameDb

LEMMA NextIsDbStep == ASSUME DbInv, [Next]_vars PROVE DbStep
<1>1. ASSUME NEW m \in Model, Edit(m) \/ SaveVersion(m) \/ GeneratePlan(m) PROVE DbStep
  BY <1>1, AnyEditKeeps, SaveVersionStep, GeneratePlanStep
<1>2. ASSUME NEW preview \in BOOLEAN, BuildPlan(preview) PROVE DbStep
  BY <1>2, BuildPlanStep
<1>3. CASE Configure \/ Migrate \/ Opened \/ OpenFails \/ Crash
  BY <1>3, ConfigureStep, MigrateStep, OpeningStep
<1>. QED
  BY <1>1, <1>2, <1>3, HandOverStep DEF Next, ServiceRuns

LEMMA InitIsDbInv == Init => DbInv
<1>. SUFFICES ASSUME Init PROVE DbInv
  OBVIOUS
<1>1. Consistent(db) /\ samples \in Nat /\ trouble \in Nat
  BY ManagerAssumption DEF Init
<1>2. NodeInv /\ ServiceInv
  BY DEF Init, NodeInv, Nodes, Holding, ServiceInv, ServiceStates, Idle
<1>. QED
  BY <1>1, <1>2 DEF DbInv

LEMMA DbIsConsistent == Spec => []DbInv
<1>1. DbInv /\ [Next]_vars => DbInv'
  BY NextIsDbStep DEF DbStep
<1>. QED
  BY <1>1, InitIsDbInv, PTL DEF Spec

LEMMA EveryStepKeeps == Spec => [][DbStep]_vars
<1>1. DbInv /\ [Next]_vars => [DbStep]_vars
  BY NextIsDbStep
<1>. QED
  BY <1>1, DbIsConsistent, PTL DEF Spec

\* Every state has its type: the tables are keyed by each other, and a plan is
\* only being made of a version, with its model and number.
THEOREM TypeCorrect == Spec => []TypeOK
<1>1. Inv /\ DbInv => TypeOK
  BY DEF Inv, DbInv, Consistent, NodeInv, ServiceInv, ServiceStates, TypeOK
<1>2. Init => Inv
  BY InitIsInv
<1>3. Inv /\ [Next]_vars => Inv'
  BY StepKeepsInv
<1>. QED
  BY <1>1, <1>2, <1>3, DbIsConsistent, PTL DEF Spec

\* The points of a draft are in the frame of its origin, for any edits, samples
\* and migrations, of any database of an earlier release.
THEOREM DraftsStayInFrame == Spec => []DraftIsInOneFrame
<1>1. DbInv => DraftIsInOneFrame
  <2>. SUFFICES ASSUME DbInv, db.schema = CurrentSchema, NEW m \in DOMAIN db.models,
                       NEW i \in DOMAIN Draft(m).groups,
                       NEW p \in DOMAIN Draft(m).groups[i].points
                PROVE  LET point == Draft(m).groups[i].points[p]
                       IN  /\ Draft(m).origin # NoOrigin
                           /\ point.local = Local(Draft(m).origin, point.place)
    BY DEF DraftIsInOneFrame
  <2>1. IsModel(Draft(m))
    BY DraftIsModel DEF DbInv, Draft, CurrentSchema
  <2>. QED
    BY <2>1 DEF IsModel, InFrame
<1>. QED
  BY <1>1, DbIsConsistent, PTL

\* A stored plan has the positions of its version from when it is made, for any
\* history of the model and of others of its name, and any plans that databases
\* of earlier releases brought along: none parts from its version after the first
\* migration.
THEOREM PlansStayOfVersions == Spec => PlanIsOfItsVersion
<1>1. DbStep => \A id \in DOMAIN db'.plans :
                  PlannedVersion(db'.plans[id]) \in DOMAIN db'.versions
  BY DEF DbStep, DbInv, Consistent, PlanHasVersion
<1>2. [DbStep]_vars =>
        [\A id \in DOMAIN db'.plans :
           /\ PlannedVersion(db'.plans[id]) \in DOMAIN db'.versions
           /\ \/ IsLaidFrom(db', id)
              \/ id \in DOMAIN db.plans /\ ~IsLaidFrom(db, id)
              \/ id \in DOMAIN db.plans /\ db.schema = 1]_db
  BY <1>1 DEF DbStep, KeepsPlans, vars
<1>. QED
  BY <1>2, EveryStepKeeps, PTL DEF PlanIsOfItsVersion

\* A version keeps its points and its areas until its model is deleted.
THEOREM VersionsStay == Spec => VersionsKeepTheirContent
<1>1. [DbStep]_vars =>
        [\A key \in DOMAIN db.versions :
           /\ key[1] \in DOMAIN db'.models => key \in DOMAIN db'.versions
           /\ key \in DOMAIN db'.versions => Content(db', key) = Content(db, key)]_db
  BY DEF DbStep, KeepsVersions, vars
<1>. QED
  BY <1>1, EveryStepKeeps, PTL DEF VersionsKeepTheirContent

\* A plan is only made of areas and of ways between them that are confirmed.
THEOREM PlannedWasConfirmed == Spec => PlannedIsConfirmed
<1>1. [DbStep]_vars =>
        [\A id \in DOMAIN db'.plans \ DOMAIN db.plans :
           \A group \in Range(db.rows[<<id[1], id[2]>>]) : IsConfirmedGroup(group)]_db
  BY DEF DbStep, NewPlansAreConfirmed, vars
<1>. QED
  BY <1>1, EveryStepKeeps, PTL DEF PlannedIsConfirmed
=============================================================================
