----------------------------- MODULE ModelRepository -----------------------------
(* SqliteModelRepository: its tables, and one operator for each transaction. *)
(* The rows of version 0 are the draft.  A transaction that fails leaves the *)
(* tables as they were; SQLite itself is external.                           *)
EXTENDS ModelRecords

CurrentSchema == 3
NoTables == [x \in {} |-> 0]

\* No file, and the tables that create_schema makes of none.
NoDatabase == [schema |-> 0, models |-> NoTables, rows |-> NoTables,
               versions |-> NoTables, plans |-> NoTables]
Created(db) == IF db.schema = 0 THEN [db EXCEPT !.schema = CurrentSchema] ELSE db

\* INSERT OR REPLACE.
WithRow(table, key, row) ==
  [k \in DOMAIN table \cup {key} |-> IF k = key THEN row ELSE table[k]]

\* save_snapshot and load_snapshot: the groups of a version, with their points,
\* areas and connectors.
WithSnapshot(db, m, v, groups) == [db EXCEPT !.rows = WithRow(@, <<m, v>>, groups)]
Snapshot(db, m, v) == db.rows[<<m, v>>]
VersionsOf(db, m) == {key \in DOMAIN db.rows : key[1] = m}

\* Mutant of SaveDraft: save_snapshot clears the rows of every version.
SaveDraftAlone(db, m, model) ==
  [db EXCEPT !.models = WithRow(@, m, [origin |-> model.origin, confirmed |-> model.confirmed]),
             !.rows = [key \in DOMAIN db.rows \cup {<<m, 0>>} |->
                         IF key = <<m, 0>> THEN model.groups
                         ELSE IF key[1] = m THEN <<>> ELSE db.rows[key]]]

SaveDraft(db, m, model) ==
  [WithSnapshot(db, m, 0, model.groups) EXCEPT
     !.models = WithRow(@, m, [origin |-> model.origin, confirmed |-> model.confirmed])]

\* The groups of a model are rows with their names as keys.
MaySave(model) ==
  \A i, j \in DOMAIN model.groups : model.groups[i].id = model.groups[j].id => i = j

LoadDraft(db, m) ==
  [origin |-> db.models[m].origin, confirmed |-> db.models[m].confirmed,
   groups |-> Snapshot(db, m, 0)]

\* load_version: the origin is that of the model, the rest of the version.
LoadVersion(db, m, v) ==
  [origin |-> db.models[m].origin, confirmed |-> db.versions[<<m, v>>],
   groups |-> Snapshot(db, m, v)]

NextVersion(db, m) ==
  Max({0} \cup {key[2] : key \in {k \in DOMAIN db.versions : k[1] = m}}) + 1

SaveFormalVersion(db, m, model) ==
  LET v == NextVersion(db, m)
  IN  [WithSnapshot(db, m, v, model.groups) EXCEPT
         !.versions = WithRow(@, <<m, v>>, model.confirmed), !.models[m].origin = model.origin]

LoadPlan(db, id) == db.plans[id]
SavePlan(db, plan) == [db EXCEPT !.plans = WithRow(@, PlanId(plan), plan)]

\* Mutant of DeleteModel: the plans of the model stay.
DeleteRows(db, m) ==
  [db EXCEPT !.models = Restrict(@, DOMAIN @ \ {m}),
             !.rows = Restrict(@, DOMAIN @ \ VersionsOf(db, m)),
             !.versions = Restrict(@, DOMAIN @ \ VersionsOf(db, m))]

DeleteModel(db, m) ==
  [DeleteRows(db, m) EXCEPT !.plans = Restrict(@, {id \in DOMAIN @ : id[1] # m})]

-----------------------------------------------------------------------------
(* Migrations, each of them a transaction.                                 *)

\* The first point of the draft, and without one that of the first version that
\* has any; of several groups, that of any one group.
HasPoints(groups) == \E i \in DOMAIN groups : groups[i].points # <<>>
FirstPoint(db, m) ==
  LET pointed == {key[2] : key \in {k \in VersionsOf(db, m) : HasPoints(db.rows[k])}}
      groups == db.rows[<<m, Min(pointed)>>]
      i == CHOOSE i \in DOMAIN groups : groups[i].points # <<>>
  IN  IF pointed = {} THEN <<>> ELSE <<groups[i].points[1].place>>

Moved(group, origin) ==
  [group EXCEPT !.points = [i \in DOMAIN group.points |->
     [group.points[i] EXCEPT !.local = Local(origin, group.points[i].place)]]]

\* Mutant of MigrateV1ToV2: the model gets its origin and the points stay.
AddOrigins(db) ==
  [db EXCEPT !.schema = 2,
             !.models = [m \in DOMAIN db.models |->
                IF FirstPoint(db, m) = <<>> THEN db.models[m]
                ELSE [db.models[m] EXCEPT !.origin = FirstPoint(db, m)[1]]]]

\* The origin of a model, and the points of all its versions in its frame.
MigrateV1ToV2(db) ==
  [AddOrigins(db) EXCEPT !.rows =
     [key \in DOMAIN db.rows |->
        IF FirstPoint(db, key[1]) = <<>> THEN db.rows[key]
        ELSE [i \in DOMAIN db.rows[key] |-> Moved(db.rows[key][i], FirstPoint(db, key[1])[1])]]]

\* Every group "requires re-recognition", which is a text, and connectors lose
\* their areas and their confirmation; the flags of drafts and versions stay.
MigrateV2ToV3(db) ==
  [db EXCEPT !.schema = 3,
             !.rows = [key \in DOMAIN db.rows |-> [i \in DOMAIN db.rows[key] |->
                [db.rows[key][i] EXCEPT !.joined = FALSE, !.linksOk = FALSE]]]]

MigrateSchema(db) == IF db.schema = 1 THEN MigrateV1ToV2(db) ELSE MigrateV2ToV3(db)

-----------------------------------------------------------------------------
(* What a database holds, of whichever release it is.                      *)

IsTable(f, rows) == f \in [DOMAIN f -> rows]

\* The tables are keyed by each other: a draft and versions belong to a model.
IsDatabase(db) ==
  /\ db = [schema |-> db.schema, models |-> db.models, rows |-> db.rows,
           versions |-> db.versions, plans |-> db.plans]
  /\ db.schema \in 0 .. CurrentSchema
  /\ IsTable(db.models, [origin : Place \cup {NoOrigin}, confirmed : BOOLEAN])
  /\ IsTable(db.versions, BOOLEAN) /\ IsFiniteSet(DOMAIN db.versions)
  /\ IsTable(db.rows, Seq(GroupRecords)) /\ IsTable(db.plans, PlanRecords)
  /\ DOMAIN db.models \subseteq Model
  /\ DOMAIN db.versions \subseteq (DOMAIN db.models) \X VersionNumbers
  /\ DOMAIN db.rows = ((DOMAIN db.models) \X {0}) \cup DOMAIN db.versions

\* Since the second release the points of a draft are in the frame of its origin.
InFrame(origin, groups) ==
  \A i \in DOMAIN groups : \A p \in DOMAIN groups[i].points :
    LET point == groups[i].points[p]
    IN  origin # NoOrigin /\ point.local = Local(origin, point.place)
DraftsInFrame(db) ==
  \A m \in DOMAIN db.models : InFrame(db.models[m].origin, db.rows[<<m, 0>>])

\* A plan names a version that is there.  Its positions need not be those of
\* the version: the first migration moves the points and leaves the plans.
PlannedVersion(plan) == <<plan.model, plan.version>>
PlanHasVersion(db, id) ==
  id = PlanId(db.plans[id]) /\ PlannedVersion(db.plans[id]) \in DOMAIN db.versions

\* The first release had no frames to keep its points in.
Consistent(db) ==
  /\ IsDatabase(db) /\ \A id \in DOMAIN db.plans : PlanHasVersion(db, id)
  /\ db.schema # 1 => DraftsInFrame(db)
=============================================================================
