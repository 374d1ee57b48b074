------------------------- MODULE ConfigManager_proofs -------------------------
(***************************************************************************)
(* Proofs about the configuration, for any keys, values, clients, updates  *)
(* and releases, and for any number of sets and failures.                  *)
(***************************************************************************)
EXTENDS ConfigManager, TLAPS

-----------------------------------------------------------------------------
(* Configurations.                                                         *)

LEMMA ConfigurationShape ==
  ASSUME NEW values \in Configurations
  PROVE  /\ DOMAIN values \subseteq Key
         /\ values \in [DOMAIN values -> Value]
BY DEF Configurations

LEMMA RestrictShape ==
  ASSUME NEW values \in Configurations, NEW K \in SUBSET DOMAIN values
  PROVE  /\ Restrict(values, K) \in Configurations
         /\ DOMAIN Restrict(values, K) = K
         /\ \A k \in K : Restrict(values, K)[k] = values[k]
<1>1. values \in [DOMAIN values -> Value] /\ DOMAIN values \subseteq Key
  BY ConfigurationShape
<1>2. Restrict(values, K) \in [K -> Value]
  BY <1>1 DEF Restrict
<1>. QED
  BY <1>1, <1>2 DEF Configurations, Restrict

LEMMA NothingShape == Nothing \in Configurations /\ DOMAIN Nothing = {}
<1>1. Nothing \in [{} -> Value]
  BY DEF Nothing
<1>. QED
  BY <1>1 DEF Configurations

LEMMA DefaultsShape ==
  ASSUME NEW known
  PROVE  /\ DefaultsOf(known) \in Configurations
         /\ DOMAIN DefaultsOf(known) = (Key \ Required) \cap known
<1>1. Default \in Configurations /\ DOMAIN Default = Key \ Required
  BY RegistryAssumption DEF Configurations
<1>. QED
  BY <1>1, RestrictShape DEF DefaultsOf

LEMMA PartShape ==
  ASSUME NEW stored \in Configurations, NEW values \in Parts(stored)
  PROVE  /\ values \in Configurations
         /\ DOMAIN values \subseteq DOMAIN stored
         /\ values = Restrict(stored, DOMAIN values)
         /\ \A k \in DOMAIN values : values[k] = stored[k]
<1>1. PICK K \in SUBSET DOMAIN stored : values = Restrict(stored, K)
  BY DEF Parts
<1>. QED
  BY <1>1, RestrictShape

-----------------------------------------------------------------------------
(* Types.                                                                  *)

LEMMA ManagerFields ==
  ASSUME NEW m \in Managers
  PROVE  /\ m.at \in {"down", "idle", "writing", "refresh"} /\ m.known \in Releases
         /\ m.state \in {"STARTING", "READY", "ERROR", "DEGRADED"} /\ m.healthy \in BOOLEAN
         /\ m.revision \in Nat /\ m.values \in Configurations
         /\ m.updates \in Configurations /\ m.rows \in SUBSET Key
BY DEF Managers

LEMMA DownShape ==
  ASSUME NEW known \in Releases
  PROVE  /\ Down(known) \in Managers
         /\ Down(known).at = "down" /\ ~Down(known).healthy
         /\ Down(known).rows = {}
BY NothingShape DEF Down, Managers

LEMMA EvaluatedShape ==
  ASSUME NEW m \in Managers
  PROVE  /\ Evaluated(m) \in Managers
         /\ \A f \in {"at", "known", "healthy", "revision", "values", "updates", "rows"} :
              Evaluated(m)[f] = m[f]
         /\ Evaluated(m).state =
              IF AllValid(m.values, m.known) /\ Missing(m.values, m.known) = {}
              THEN "READY" ELSE "ERROR"
<1>. DEFINE state == IF AllValid(m.values, m.known) /\ Missing(m.values, m.known) = {}
                     THEN "READY" ELSE "ERROR"
<1>1. Evaluated(m) = [m EXCEPT !.state = state]
  BY DEF Evaluated
<1>2. state \in {"READY", "ERROR"}
  OBVIOUS
<1>. HIDE DEF state
<1>. QED
  BY <1>1, <1>2 DEF Managers, state

LEMMA FreshShape == FreshClient \in Clients
BY NothingShape DEF FreshClient, Clients, Replies

Databases == [created : BOOLEAN, values : Configurations, revision : Nat]
Logs(d) == [IF d.created THEN 0 .. d.revision ELSE {} -> Configurations]
Topics == [status : Statuses, change : SUBSET Key]
StateOf(m) ==
  IF AllValid(m.values, m.known) /\ Missing(m.values, m.known) = {} THEN "READY" ELSE "ERROR"

LEMMA PublishType ==
  ASSUME TypeOK, NEW m \in Managers, PublishStatus(m)
  PROVE  topics' \in Topics /\ clients' \in [Client -> Clients]
<1>1. m.revision \in Nat /\ topics \in Topics
  BY ManagerFields DEF TypeOK, Topics
<1>2. [sent |-> TRUE, ready |-> m.state = "READY", revision |-> m.revision] \in Statuses
  BY <1>1 DEF Statuses
<1>3. topics' \in Topics
  BY <1>1, <1>2 DEF PublishStatus, Topics
<1>4. clients \in [Client -> Clients]
  BY DEF TypeOK
<1>5. ASSUME NEW c \in Client
      PROVE  [clients[c] EXCEPT !.statusNew = TRUE] \in Clients
  <2>1. clients[c] \in Clients
    BY <1>4
  <2>. QED
    BY <2>1 DEF Clients
<1>. QED
  BY <1>3, <1>5 DEF PublishStatus

LEMMA WithSchemaShape ==
  ASSUME TypeOK
  PROVE  /\ WithSchema \in Databases /\ WithSchema.created
         /\ db.created => WithSchema = db
         /\ ~db.created => WithSchema.revision = 0
BY DefaultsShape DEF TypeOK, WithSchema, Databases

\* The constructor: the database is opened and read, or it is not.
LEMMA OpenEffect ==
  ASSUME TypeOK, OpenAndInitialize
  PROVE  /\ manager.at = "down" /\ manager' \in Managers /\ manager'.at = "idle"
         /\ manager'.known = manager.known
         /\ manager'.rows = manager.rows /\ manager'.updates = manager.updates
         /\ PublishStatus(manager')
         /\ \/ /\ db' = WithSchema
               /\ log' = IF db.created THEN log ELSE [r \in {0} |-> WithSchema.values]
               /\ manager'.healthy /\ manager'.revision = db'.revision
               /\ manager'.values \in Parts(db'.values)
               /\ manager'.state = StateOf(manager')
            \/ /\ db' = db /\ log' = log
               /\ manager'.healthy = manager.healthy /\ manager'.state = "ERROR"
               /\ manager'.revision = manager.revision /\ manager'.values = manager.values
<1>1. manager \in Managers /\ manager.at = "down" /\ PublishStatus(manager')
  BY DEF OpenAndInitialize, TypeOK
<1>2. CASE /\ Trouble
           /\ manager' = [manager EXCEPT !.at = "idle", !.state = "ERROR"]
           /\ UNCHANGED <<db, log>>
  BY <1>1, <1>2 DEF Managers
<1>3. ASSUME db' = WithSchema,
             log' = IF db.created THEN log ELSE [r \in {0} |-> WithSchema.values],
             NEW values \in Parts(WithSchema.values),
             manager' = Evaluated([manager EXCEPT !.at = "idle", !.healthy = TRUE,
                                     !.values = values, !.revision = WithSchema.revision])
      PROVE  /\ manager' \in Managers /\ manager'.at = "idle"
             /\ manager'.known = manager.known
             /\ manager'.rows = manager.rows /\ manager'.updates = manager.updates
             /\ manager'.healthy /\ manager'.revision = db'.revision
             /\ manager'.values \in Parts(db'.values)
             /\ manager'.state = StateOf(manager')
  <2>. DEFINE m == [manager EXCEPT !.at = "idle", !.healthy = TRUE,
                                   !.values = values, !.revision = WithSchema.revision]
  <2>1. values \in Configurations /\ WithSchema.revision \in Nat
    BY <1>3, WithSchemaShape, PartShape DEF Databases
  <2>2. /\ m \in Managers /\ m.at = "idle" /\ m.healthy /\ m.values = values
        /\ m.revision = WithSchema.revision
        /\ m.known = manager.known /\ m.rows = manager.rows /\ m.updates = manager.updates
    BY <1>1, <2>1 DEF Managers
  <2>3. manager' = Evaluated(m)
    BY <1>3
  <2>. HIDE DEF m
  <2>. QED
    BY <1>3, <2>2, <2>3, EvaluatedShape DEF StateOf
<1>. QED
  BY <1>1, <1>2, <1>3 DEF OpenAndInitialize

\* A request to set: refused, taken up, or the end of all sets.
LEMMA SetEffect ==
  ASSUME TypeOK, NEW updates \in Updates, OnSet(updates)
  PROVE  /\ manager.at = "idle" /\ manager.healthy /\ manager' \in Managers
         /\ manager'.rows = {} /\ manager'.known = manager.known
         /\ manager'.revision = manager.revision /\ manager'.values = manager.values
         /\ topics' \in Topics /\ clients' \in [Client -> Clients]
         /\ \/ manager'.at \in {"idle", "writing", "refresh"} /\ manager'.state = manager.state
               /\ manager'.healthy
            \/ manager'.at = "idle" /\ manager'.state = "DEGRADED" /\ ~manager'.healthy
         /\ \/ UNCHANGED clients \/ \A c \in Client : clients'[c] = [clients[c] EXCEPT !.statusNew = TRUE]
<1>1. /\ manager \in Managers /\ manager.at = "idle" /\ manager.healthy /\ manager.rows = {}
      /\ updates \in Configurations /\ topics \in Topics /\ clients \in [Client -> Clients]
  BY ManagerAssumption DEF OnSet, TypeOK, Topics
<1>2. CASE UNCHANGED <<manager, topics, clients>>
  BY <1>1, <1>2
<1>3. CASE Degrades
  <2>1. /\ manager' \in Managers /\ manager'.at = "idle" /\ manager'.state = "DEGRADED"
        /\ ~manager'.healthy /\ manager'.rows = {} /\ manager'.known = manager.known
        /\ manager'.revision = manager.revision /\ manager'.values = manager.values
    BY <1>1, <1>3, NothingShape DEF Degrades, Managers
  <2>2. PublishStatus(manager')
    BY <1>3 DEF Degrades
  <2>. QED
    BY <1>1, <2>1, <2>2, PublishType DEF PublishStatus
<1>4. CASE /\ \E existing \in Parts(db.values) :
                manager' = [manager EXCEPT
                              !.at = IF Changed(updates, existing) = {} THEN "refresh" ELSE "writing",
                              !.updates = Restrict(updates, Changed(updates, existing))]
           /\ UNCHANGED <<topics, clients>>
  <2>. PICK existing \in Parts(db.values) :
         manager' = [manager EXCEPT
                       !.at = IF Changed(updates, existing) = {} THEN "refresh" ELSE "writing",
                       !.updates = Restrict(updates, Changed(updates, existing))]
    BY <1>4
  <2>. DEFINE at == IF Changed(updates, existing) = {} THEN "refresh" ELSE "writing"
              kept == Restrict(updates, Changed(updates, existing))
  <2>1. Changed(updates, existing) \in SUBSET DOMAIN updates
    BY DEF Changed
  <2>2. kept \in Configurations /\ at \in {"refresh", "writing"}
    BY <1>1, <2>1, RestrictShape
  <2>3. manager' = [manager EXCEPT !.at = at, !.updates = kept]
    BY <1>4
  <2>. HIDE DEF at, kept
  <2>4. /\ manager' \in Managers /\ manager'.at = at /\ manager'.state = manager.state
        /\ manager'.healthy /\ manager'.rows = {} /\ manager'.known = manager.known
        /\ manager'.revision = manager.revision /\ manager'.values = manager.values
    BY <1>1, <2>2, <2>3 DEF Managers
  <2>. QED
    BY <1>1, <1>4, <2>2, <2>4
<1>. QED
  BY <1>2, <1>3, <1>4 DEF OnSet

LEMMA WriteEffect ==
  ASSUME TypeOK, WriteRow
  PROVE  /\ manager.at = "writing" /\ manager' \in Managers
         /\ manager'.rows \subseteq DOMAIN manager'.updates
         /\ \A f \in {"at", "known", "state", "healthy", "revision", "values", "updates"} :
              manager'[f] = manager[f]
         /\ UNCHANGED <<db, topics, clients, log, sets, trouble>>
<1>1. manager \in Managers /\ manager.rows \subseteq DOMAIN manager.updates
  BY DEF TypeOK
<1>2. NextRow \in RowsLeft
  BY DEF WriteRow, NextRow
<1>3. NextRow \in DOMAIN manager.updates /\ DOMAIN manager.updates \subseteq Key
  BY <1>1, <1>2, ManagerFields, ConfigurationShape DEF RowsLeft
<1>. HIDE DEF NextRow
<1>. QED
  BY <1>1, <1>3 DEF WriteRow, Managers

\* A transaction that ends well is the next revision, and has its place in
\* the history.
LEMMA CommitEffect ==
  ASSUME TypeOK, Commit
  PROVE  /\ manager.at = "writing" /\ manager' \in Managers /\ manager'.at = "refresh"
         /\ manager'.rows \subseteq DOMAIN manager'.updates
         /\ manager'.healthy = manager.healthy /\ manager'.revision = manager.revision + 1
         /\ manager'.values = manager.values /\ manager'.known = manager.known
         /\ db' \in Databases /\ db'.created = db.created
         /\ db'.revision = manager.revision + 1
         /\ log' = [r \in DOMAIN log \cup {db'.revision} |->
                      IF r = db'.revision THEN db'.values ELSE log[r]]
         /\ UNCHANGED <<topics, clients, sets, trouble>>
<1>1. /\ manager \in Managers /\ manager.rows \subseteq DOMAIN manager.updates
      /\ db \in Databases
  BY DEF TypeOK, Databases
<1>2. /\ manager.revision \in Nat /\ manager.updates \in Configurations
      /\ db.values \in Configurations
  BY <1>1, ManagerFields DEF Databases
<1>. DEFINE written == Written(manager.rows)
<1>3. written \in Configurations
  <2>1. /\ manager.updates \in [DOMAIN manager.updates -> Value]
        /\ db.values \in [DOMAIN db.values -> Value]
        /\ DOMAIN manager.updates \subseteq Key /\ DOMAIN db.values \subseteq Key
    BY <1>2, ConfigurationShape
  <2>2. written \in [DOMAIN db.values \cup manager.rows -> Value]
    BY <1>1, <2>1 DEF Written
  <2>. QED
    BY <1>1, <2>1, <2>2 DEF Configurations
<1>. DEFINE next == manager.revision + 1
<1>4. /\ next \in Nat
      /\ db' = [db EXCEPT !.values = written, !.revision = next]
      /\ manager' = [manager EXCEPT !.at = "refresh", !.revision = next]
  BY <1>2 DEF Commit, NextDatabase
<1>. HIDE DEF written, next
<1>5. db' \in Databases /\ db'.created = db.created /\ db'.revision = next
  BY <1>1, <1>3, <1>4 DEF Databases
<1>6. /\ manager.at = "writing" /\ manager' \in Managers /\ manager'.at = "refresh"
      /\ manager'.rows = manager.rows /\ manager'.updates = manager.updates
      /\ manager'.healthy = manager.healthy /\ manager'.revision = next
      /\ manager'.values = manager.values /\ manager'.known = manager.known
  BY <1>1, <1>4 DEF Commit, Managers
<1>7. log' = [r \in DOMAIN log \cup {db'.revision} |->
                IF r = db'.revision THEN db'.values ELSE log[r]]
  BY DEF Commit
<1>. QED
  BY <1>1, <1>5, <1>6, <1>7 DEF Commit, next

LEMMA DegradeEffect ==
  ASSUME TypeOK, Degrades
  PROVE  /\ manager' \in Managers /\ manager'.at = "idle" /\ manager'.state = "DEGRADED"
         /\ ~manager'.healthy /\ manager'.rows = {} /\ manager'.known = manager.known
         /\ manager'.revision = manager.revision /\ manager'.values = manager.values
         /\ PublishStatus(manager')
<1>1. manager \in Managers
  BY DEF TypeOK
<1>. QED
  BY <1>1, NothingShape DEF Degrades, Managers

\* The values are read again after a write, all of them or a part.
LEMMA RefreshEffect ==
  ASSUME TypeOK, Refresh
  PROVE  /\ manager.at = "refresh" /\ manager' \in Managers /\ manager'.at = "idle"
         /\ manager'.rows = {} /\ manager'.known = manager.known
         /\ manager'.healthy = manager.healthy /\ manager'.revision = manager.revision
         /\ manager'.values \in Parts(db.values) /\ manager'.state = StateOf(manager')
         /\ topics' \in Topics /\ clients' \in [Client -> Clients]
         /\ clients' = [c \in Client |->
              [clients[c] EXCEPT !.statusNew = TRUE, !.changeNew = TRUE]]
         /\ UNCHANGED <<db, log, sets>>
<1>1. manager \in Managers /\ db.values \in Configurations /\ manager.at = "refresh"
  BY DEF TypeOK, Refresh
<1>2. PICK values \in Parts(db.values) :
        manager' = Evaluated([manager EXCEPT !.at = "idle", !.values = values,
                                             !.updates = Nothing, !.rows = {}])
  BY DEF Refresh
<1>. DEFINE m == [manager EXCEPT !.at = "idle", !.values = values,
                                 !.updates = Nothing, !.rows = {}]
<1>3. values \in Configurations
  BY <1>1, PartShape
<1>4. /\ m \in Managers /\ m.at = "idle" /\ m.values = values /\ m.rows = {}
      /\ m.known = manager.known /\ m.healthy = manager.healthy
      /\ m.revision = manager.revision
  BY <1>1, <1>3, NothingShape DEF Managers
<1>5. manager' = Evaluated(m)
  BY <1>2
<1>. HIDE DEF m
<1>6. /\ manager' \in Managers /\ manager'.at = "idle"
      /\ manager'.rows = {} /\ manager'.known = manager.known
      /\ manager'.healthy = manager.healthy /\ manager'.revision = manager.revision
      /\ manager'.values \in Parts(db.values) /\ manager'.state = StateOf(manager')
  BY <1>4, <1>5, EvaluatedShape DEF StateOf
<1>7. topics' \in Topics
  <2>1. DOMAIN manager.updates \subseteq Key /\ manager'.revision \in Nat
    BY <1>1, <1>6, ManagerFields, ConfigurationShape
  <2>2. topics' = [status |-> [sent |-> TRUE, ready |-> manager'.state = "READY",
                               revision |-> manager'.revision],
                   change |-> DOMAIN manager.updates]
    BY DEF Refresh
  <2>3. [sent |-> TRUE, ready |-> manager'.state = "READY",
         revision |-> manager'.revision] \in Statuses
    BY <2>1 DEF Statuses
  <2>. QED
    BY <2>1, <2>2, <2>3 DEF Topics
<1>8. clients' = [c \in Client |->
        [clients[c] EXCEPT !.statusNew = TRUE, !.changeNew = TRUE]]
  BY DEF Refresh
<1>9. ASSUME NEW c \in Client
      PROVE  [clients[c] EXCEPT !.statusNew = TRUE, !.changeNew = TRUE] \in Clients
  <2>1. clients[c] \in Clients
    BY DEF TypeOK
  <2>. QED
    BY <2>1 DEF Clients
<1>. QED
  BY <1>1, <1>6, <1>7, <1>8, <1>9 DEF Refresh

-----------------------------------------------------------------------------
(* The clients.                                                            *)

ClientStep(c) == OnGet(c) \/ OnStatus(c) \/ OnChanged(c) \/ RefreshIfPossible(c) \/ OnReply(c)

\* What a client keeps of the values it was sent.
KeepsReply(before, after) == after.reply = before.reply \/ after.reply = <<>>
KeepsSnapshot(before, after) ==
  after.loaded = before.loaded /\ after.snapshot = before.snapshot

LEMMA ClientFields ==
  ASSUME NEW client \in Clients
  PROVE  /\ client.reply \in Replies /\ client.snapshot \in Configurations
         /\ client.loaded \in BOOLEAN /\ client.revision \in Nat
         /\ client.requested \in BOOLEAN
BY DEF Clients

LEMMA OnGetEffect ==
  ASSUME TypeOK, NEW c \in Client, OnGet(c)
  PROVE  /\ clients' \in [Client -> Clients]
         /\ \A d \in Client \ {c} : clients'[d] = clients[d]
         /\ KeepsSnapshot(clients[c], clients'[c])
         /\ \E K \in SUBSET DOMAIN manager.values :
              clients'[c].reply = <<Restrict(manager.values, K)>>
         /\ UNCHANGED <<db, manager, topics, log, sets, trouble>>
<1>1. clients \in [Client -> Clients] /\ clients[c] \in Clients
  BY DEF TypeOK
<1>2. manager.values \in Configurations
  BY ManagerFields DEF TypeOK
<1>. DEFINE K == Fetched(c) \cap DOMAIN manager.values
            reply == <<Restrict(manager.values, K)>>
<1>3. K \in SUBSET DOMAIN manager.values /\ reply \in Replies
  BY <1>2, RestrictShape DEF Replies
<1>4. clients' = [clients EXCEPT ![c].asked = FALSE, ![c].reply = reply]
  BY DEF OnGet
<1>5. reply = <<Restrict(manager.values, K)>>
  OBVIOUS
<1>. HIDE DEF K, reply
<1>6. clients' = [clients EXCEPT ![c] = [clients[c] EXCEPT !.asked = FALSE, !.reply = reply]]
  BY <1>1, <1>4 DEF Clients
<1>7. [clients[c] EXCEPT !.asked = FALSE, !.reply = reply] \in Clients
  BY <1>1, <1>3 DEF Clients
<1>8. /\ clients'[c].reply = reply /\ KeepsSnapshot(clients[c], clients'[c])
  BY <1>1, <1>6 DEF Clients, KeepsSnapshot
<1>. QED
  BY <1>1, <1>3, <1>5, <1>6, <1>7, <1>8 DEF OnGet

\* A status, a change or the start of a fetch sends nothing and loads nothing.
LEMMA NoticeEffect ==
  ASSUME TypeOK, NEW c \in Client, OnStatus(c) \/ OnChanged(c) \/ RefreshIfPossible(c)
  PROVE  /\ clients' \in [Client -> Clients]
         /\ \A d \in Client \ {c} : clients'[d] = clients[d]
         /\ KeepsSnapshot(clients[c], clients'[c]) /\ KeepsReply(clients[c], clients'[c])
         /\ UNCHANGED <<db, manager, topics, log, sets, trouble>>
<1>1. clients \in [Client -> Clients] /\ clients[c] \in Clients
  BY DEF TypeOK
<1>2. \E client \in Clients :
        /\ clients' = [clients EXCEPT ![c] = client]
        /\ KeepsSnapshot(clients[c], client) /\ KeepsReply(clients[c], client)
  <2>1. CASE OnStatus(c)
    <3>. DEFINE client == [clients[c] EXCEPT !.statusNew = FALSE]
                needs == NeedsRefresh(client, topics.status)
                off == [client EXCEPT !.ready = FALSE, !.seen = FALSE]
                on == [client EXCEPT !.requested = @ \/ needs,
                                     !.seen = TRUE, !.revision = topics.status.revision]
    <3>1. topics.status.revision \in Nat
      BY DEF TypeOK, Statuses
    <3>2. client \in Clients /\ KeepsSnapshot(clients[c], client)
          /\ client.reply = clients[c].reply
      BY <1>1 DEF Clients, KeepsSnapshot
    <3>3. clients' = [clients EXCEPT ![c] = IF ~topics.status.ready THEN off ELSE on]
      BY <2>1 DEF OnStatus
    <3>. HIDE DEF client, needs
    <3>4. off \in Clients /\ KeepsSnapshot(client, off) /\ KeepsReply(client, off)
      BY <3>2 DEF Clients, KeepsSnapshot, KeepsReply
    <3>5. on \in Clients /\ KeepsSnapshot(client, on) /\ KeepsReply(client, on)
      BY <3>1, <3>2 DEF Clients, KeepsSnapshot, KeepsReply
    <3>. HIDE DEF off, on
    <3>. QED
      BY <3>2, <3>3, <3>4, <3>5 DEF KeepsSnapshot, KeepsReply
  <2>2. CASE OnChanged(c)
    <3>. DEFINE wish == clients[c].requested \/ topics.change \cap KeysOf[c] # {}
                client == [clients[c] EXCEPT !.changeNew = FALSE, !.requested = wish]
    <3>1. wish \in BOOLEAN /\ clients' = [clients EXCEPT ![c] = client]
      BY <1>1, <2>2 DEF OnChanged, Clients
    <3>. HIDE DEF wish
    <3>2. client \in Clients /\ KeepsSnapshot(clients[c], client)
          /\ KeepsReply(clients[c], client)
      BY <1>1, <3>1 DEF Clients, KeepsSnapshot, KeepsReply
    <3>. QED
      BY <3>1, <3>2
  <2>3. CASE RefreshIfPossible(c)
    <3>. DEFINE client == [clients[c] EXCEPT !.requested = FALSE, !.inFlight = TRUE,
                                             !.asked = TRUE]
    <3>1. clients' = [clients EXCEPT ![c] = client]
      BY <1>1, <2>3 DEF RefreshIfPossible, Clients
    <3>2. client \in Clients /\ KeepsSnapshot(clients[c], client)
          /\ KeepsReply(clients[c], client)
      BY <1>1 DEF Clients, KeepsSnapshot, KeepsReply
    <3>. QED
      BY <3>1, <3>2
  <2>. QED
    BY <2>1, <2>2, <2>3
<1>3. UNCHANGED <<db, manager, topics, log, sets, trouble>>
  BY DEF OnStatus, OnChanged, RefreshIfPossible
<1>. QED
  BY <1>1, <1>2, <1>3

\* A response that has every key is the new snapshot.
LEMMA OnReplyEffect ==
  ASSUME TypeOK, NEW c \in Client, OnReply(c)
  PROVE  /\ clients' \in [Client -> Clients]
         /\ \A d \in Client \ {c} : clients'[d] = clients[d]
         /\ clients[c].reply # <<>> /\ clients'[c].reply = <<>>
         /\ \/ KeepsSnapshot(clients[c], clients'[c])
            \/ /\ clients'[c].snapshot = clients[c].reply[1]
               /\ DOMAIN clients[c].reply[1] = Fetched(c)
         /\ UNCHANGED <<db, manager, topics, log, sets, trouble>>
<1>1. /\ clients \in [Client -> Clients] /\ clients[c] \in Clients
      /\ clients[c].reply # <<>>
  BY DEF TypeOK, OnReply
<1>. DEFINE values == clients[c].reply[1]
            client == [clients[c] EXCEPT !.inFlight = FALSE, !.reply = <<>>]
            full == [client EXCEPT !.ready = TRUE, !.loaded = TRUE, !.snapshot = values,
                                   !.incomplete = FALSE]
            short == [client EXCEPT !.ready = FALSE, !.incomplete = TRUE]
<1>2. values \in Configurations
  BY <1>1, ClientFields DEF Replies
<1>3. client \in Clients /\ client.reply = <<>> /\ KeepsSnapshot(clients[c], client)
  BY <1>1 DEF Clients, Replies, KeepsSnapshot
<1>4. clients' = [clients EXCEPT ![c] = IF DOMAIN values = Fetched(c) THEN full ELSE short]
  BY DEF OnReply
<1>5. values = clients[c].reply[1]
  OBVIOUS
<1>. HIDE DEF values, client
<1>6. full \in Clients /\ full.reply = <<>> /\ full.snapshot = values
  BY <1>2, <1>3 DEF Clients
<1>7. short \in Clients /\ short.reply = <<>> /\ KeepsSnapshot(client, short)
  BY <1>3 DEF Clients, KeepsSnapshot
<1>8. UNCHANGED <<db, manager, topics, log, sets, trouble>>
  BY DEF OnReply
<1>. HIDE DEF full, short
<1>. QED
  BY <1>1, <1>3, <1>4, <1>5, <1>6, <1>7, <1>8 DEF KeepsSnapshot

-----------------------------------------------------------------------------
(* The invariant: types, and a healthy manager's revision is the one of the *)
(* database, which only a healthy manager writes.                           *)

RevisionInv ==
  /\ manager.healthy => db.created /\ manager.revision = db.revision
  /\ manager.at \in {"writing", "refresh"} => manager.healthy

Inv == TypeOK /\ RevisionInv

LEMMA TypeParts ==
  TypeOK <=> /\ db \in Databases /\ manager \in Managers
             /\ manager.rows \subseteq DOMAIN manager.updates
             /\ manager.at \in {"down", "idle"} => manager.rows = {}
             /\ topics \in Topics /\ clients \in [Client -> Clients]
             /\ log \in Logs(db)
             /\ sets \in 0 .. MaxSets /\ trouble \in 0 .. MaxTrouble
BY DEF TypeOK, Databases, Topics, Logs

LEMMA TroubleType ==
  ASSUME TypeOK, Trouble \/ UNCHANGED trouble
  PROVE  trouble' \in 0 .. MaxTrouble
BY ManagerAssumption DEF TypeOK, Trouble

LEMMA InitType == Init => Inv
<1>. SUFFICES ASSUME Init PROVE Inv
  OBVIOUS
<1>1. PICK known \in Releases : manager = Down(known)
  BY DEF Init
<1>2. /\ manager \in Managers /\ manager.at = "down" /\ ~manager.healthy
      /\ manager.rows = {}
  BY <1>1, DownShape
<1>3. db \in Databases /\ ~db.created
  BY NothingShape DEF Init, NoDatabase, Databases
<1>4. topics \in Topics /\ clients \in [Client -> Clients]
  BY FreshShape DEF Init, NoStatus, Topics, Statuses
<1>5. log \in Logs(db)
  BY <1>3, NothingShape DEF Init, Nothing, Logs
<1>6. sets \in 0 .. MaxSets /\ trouble \in 0 .. MaxTrouble
  BY ManagerAssumption DEF Init
<1>7. RevisionInv
  BY <1>2 DEF RevisionInv
<1>. QED
  BY <1>2, <1>3, <1>4, <1>5, <1>6, <1>7, TypeParts DEF Inv

\* What every step does to the history: a new revision at most.
LogGrows == \A r \in DOMAIN log : r \in DOMAIN log' /\ log'[r] = log[r]

LEMMA OpenStep == ASSUME Inv, OpenAndInitialize PROVE Inv' /\ LogGrows
<1>1. TypeOK /\ RevisionInv
  BY DEF Inv
<1>2. /\ manager' \in Managers /\ manager'.at = "idle" /\ manager'.rows = {}
      /\ PublishStatus(manager')
  BY <1>1, OpenEffect, TypeParts
<1>3. topics' \in Topics /\ clients' \in [Client -> Clients]
  BY <1>1, <1>2, PublishType
<1>4. sets' \in 0 .. MaxSets /\ trouble' \in 0 .. MaxTrouble
  <2>1. Trouble \/ UNCHANGED trouble
    BY DEF OpenAndInitialize, ReadAll
  <2>. QED
    BY <1>1, <2>1, TroubleType, TypeParts DEF OpenAndInitialize
<1>5. /\ db' \in Databases /\ log' \in Logs(db') /\ LogGrows /\ RevisionInv'
  <2>1. CASE db' = db /\ log' = log /\ manager'.healthy = manager.healthy
             /\ manager'.revision = manager.revision
    BY <1>1, <1>2, <2>1, TypeParts DEF RevisionInv, Logs, LogGrows
  <2>2. CASE /\ db' = WithSchema
             /\ log' = IF db.created THEN log ELSE [r \in {0} |-> WithSchema.values]
             /\ manager'.healthy /\ manager'.revision = db'.revision
    <3>1. db' \in Databases /\ db'.created
      BY <1>1, <2>2, WithSchemaShape
    <3>2. RevisionInv'
      BY <1>2, <2>2, <3>1 DEF RevisionInv
    <3>3. CASE db.created
      BY <1>1, <2>2, <3>1, <3>2, <3>3, WithSchemaShape, TypeParts DEF Logs, LogGrows
    <3>4. CASE ~db.created
      <4>1. db'.revision = 0 /\ db'.values \in Configurations
        BY <1>1, <2>2, <3>1, <3>4, WithSchemaShape DEF Databases
      <4>2. log' = [r \in {0} |-> db'.values] /\ 0 .. db'.revision = {0}
        BY <2>2, <3>4, <4>1
      <4>3. DOMAIN log = {}
        BY <1>1, <3>4, TypeParts DEF Logs
      <4>. QED
        BY <3>1, <3>2, <4>1, <4>2, <4>3 DEF Logs, LogGrows
    <3>. QED
      BY <3>3, <3>4
  <2>. QED
    BY <1>1, <2>1, <2>2, OpenEffect
<1>. QED
  BY <1>2, <1>3, <1>4, <1>5, TypeParts DEF Inv, TypeOK, Databases, Topics, Logs

\* A step that leaves the database alone keeps the history.
LEMMA SameDatabase ==
  ASSUME Inv, db' = db, log' = log
  PROVE  db' \in Databases /\ log' \in Logs(db') /\ LogGrows
BY TypeParts DEF Inv, Logs, LogGrows

LEMMA SetStep ==
  ASSUME Inv, NEW updates \in Updates, OnSet(updates) PROVE Inv' /\ LogGrows
<1>1. TypeOK /\ RevisionInv /\ db' = db /\ log' = log
  BY DEF Inv, OnSet
<1>2. /\ manager' \in Managers /\ manager'.rows = {}
      /\ topics' \in Topics /\ clients' \in [Client -> Clients]
  BY <1>1, SetEffect
<1>3. RevisionInv'
  BY <1>1, SetEffect DEF RevisionInv
<1>4. sets' \in 0 .. MaxSets
  <2>1. sets < MaxSets /\ sets' = sets + 1
    BY DEF OnSet
  <2>. QED
    BY <1>1, <2>1, TypeParts, ManagerAssumption
<1>5. trouble' \in 0 .. MaxTrouble
  <2>1. Trouble \/ UNCHANGED trouble
    BY DEF OnSet, ReadAll
  <2>. QED
    BY <1>1, <2>1, TroubleType
<1>. QED
  BY <1>1, <1>2, <1>3, <1>4, <1>5, SameDatabase DEF Inv, TypeOK, Databases, Topics, Logs

LEMMA TimerStep == ASSUME Inv, StatusTimer PROVE Inv' /\ LogGrows
<1>1. TypeOK /\ RevisionInv /\ PublishStatus(manager)
      /\ UNCHANGED <<db, manager, log, sets, trouble>>
  BY DEF Inv, StatusTimer
<1>2. topics' \in Topics /\ clients' \in [Client -> Clients]
  BY <1>1, TypeParts, PublishType
<1>3. RevisionInv'
  BY <1>1 DEF RevisionInv
<1>. QED
  BY <1>1, <1>2, <1>3, TypeParts, SameDatabase DEF Inv, TypeOK, Databases, Topics, Logs

LEMMA WriteStep == ASSUME Inv, WriteRow PROVE Inv' /\ LogGrows
<1>1. TypeOK /\ RevisionInv
  BY DEF Inv
<1>2. /\ manager.at = "writing" /\ manager' \in Managers
      /\ manager'.rows \subseteq DOMAIN manager'.updates
      /\ manager'.at = manager.at /\ manager'.healthy = manager.healthy
      /\ manager'.revision = manager.revision
      /\ UNCHANGED <<db, topics, clients, log, sets, trouble>>
  BY <1>1, WriteEffect
<1>3. RevisionInv'
  BY <1>1, <1>2 DEF RevisionInv
<1>. QED
  BY <1>1, <1>2, <1>3, TypeParts, SameDatabase DEF Inv, TypeOK, Databases, Topics, Logs

LEMMA CommitStep == ASSUME Inv, Commit PROVE Inv' /\ LogGrows
<1>1. TypeOK /\ RevisionInv
  BY DEF Inv
<1>2. /\ manager.at = "writing" /\ manager' \in Managers /\ manager'.at = "refresh"
      /\ manager'.rows \subseteq DOMAIN manager'.updates
      /\ manager'.healthy = manager.healthy /\ manager'.revision = manager.revision + 1
      /\ db' \in Databases /\ db'.created = db.created
      /\ db'.revision = manager.revision + 1
      /\ log' = [r \in DOMAIN log \cup {db'.revision} |->
                   IF r = db'.revision THEN db'.values ELSE log[r]]
      /\ UNCHANGED <<topics, clients, sets, trouble>>
  BY <1>1, CommitEffect
<1>3. /\ manager.healthy /\ db.created /\ manager.revision = db.revision
      /\ db.revision \in Nat
  BY <1>1, <1>2, TypeParts DEF RevisionInv, Databases
<1>4. /\ log \in [0 .. db.revision -> Configurations] /\ db'.revision = db.revision + 1
      /\ db'.values \in Configurations
  BY <1>1, <1>2, <1>3, TypeParts DEF Logs, Databases
<1>5. DOMAIN log \cup {db'.revision} = 0 .. db'.revision /\ db'.revision \notin DOMAIN log
  BY <1>3, <1>4
<1>6. log' \in Logs(db') /\ LogGrows
  <2>1. log' \in [0 .. db'.revision -> Configurations]
    BY <1>2, <1>4, <1>5
  <2>2. LogGrows
    BY <1>2, <1>5 DEF LogGrows
  <2>. QED
    BY <1>2, <1>3, <2>1, <2>2 DEF Logs
<1>7. RevisionInv'
  BY <1>2, <1>3 DEF RevisionInv
<1>. QED
  BY <1>1, <1>2, <1>6, <1>7, TypeParts DEF Inv, TypeOK, Databases, Topics, Logs

LEMMA RollbackStep == ASSUME Inv, Rollback PROVE Inv' /\ LogGrows
<1>1. TypeOK /\ RevisionInv /\ Degrades /\ Trouble /\ UNCHANGED <<db, log, sets>>
  BY DEF Inv, Rollback
<1>2. /\ manager' \in Managers /\ manager'.at = "idle" /\ ~manager'.healthy
      /\ manager'.rows = {} /\ PublishStatus(manager')
  BY <1>1, DegradeEffect
<1>3. topics' \in Topics /\ clients' \in [Client -> Clients]
  BY <1>1, <1>2, PublishType
<1>4. RevisionInv'
  BY <1>2 DEF RevisionInv
<1>5. trouble' \in 0 .. MaxTrouble
  BY <1>1, TroubleType
<1>. QED
  BY <1>1, <1>2, <1>3, <1>4, <1>5, TypeParts, SameDatabase
  DEF Inv, TypeOK, Databases, Topics, Logs

LEMMA RefreshStep == ASSUME Inv, Refresh PROVE Inv' /\ LogGrows
<1>1. TypeOK /\ RevisionInv
  BY DEF Inv
<1>2. /\ manager.at = "refresh" /\ manager' \in Managers /\ manager'.at = "idle"
      /\ manager'.rows = {} /\ manager'.healthy = manager.healthy
      /\ manager'.revision = manager.revision
      /\ topics' \in Topics /\ clients' \in [Client -> Clients]
      /\ UNCHANGED <<db, log, sets>>
  BY <1>1, RefreshEffect
<1>3. RevisionInv'
  BY <1>1, <1>2 DEF RevisionInv
<1>4. trouble' \in 0 .. MaxTrouble
  <2>1. Trouble \/ UNCHANGED trouble
    BY DEF Refresh, ReadAll
  <2>. QED
    BY <1>1, <2>1, TroubleType
<1>. QED
  BY <1>1, <1>2, <1>3, <1>4, TypeParts, SameDatabase DEF Inv, TypeOK, Databases, Topics, Logs

LEMMA ClientsStep ==
  ASSUME Inv, NEW c \in Client, ClientStep(c) PROVE Inv' /\ LogGrows
<1>1. TypeOK /\ RevisionInv
  BY DEF Inv
<1>2. /\ clients' \in [Client -> Clients]
      /\ UNCHANGED <<db, manager, topics, log, sets, trouble>>
  BY <1>1, OnGetEffect, NoticeEffect, OnReplyEffect DEF ClientStep
<1>3. RevisionInv'
  BY <1>1, <1>2 DEF RevisionInv
<1>. QED
  BY <1>1, <1>2, <1>3, TypeParts, SameDatabase DEF Inv, TypeOK, Databases, Topics, Logs

LEMMA RestartStep ==
  ASSUME Inv, NEW known \in Releases, Restart(known) PROVE Inv' /\ LogGrows
<1>1. TypeOK /\ Trouble /\ UNCHANGED <<db, log, sets>>
  BY DEF Inv, Restart
<1>2. /\ manager' \in Managers /\ manager'.at = "down" /\ ~manager'.healthy
      /\ manager'.rows = {}
  BY DownShape DEF Restart
<1>3. topics' \in Topics /\ clients' \in [Client -> Clients]
  BY FreshShape DEF Restart, NoStatus, Topics, Statuses
<1>4. RevisionInv'
  BY <1>2 DEF RevisionInv
<1>5. trouble' \in 0 .. MaxTrouble
  BY <1>1, TroubleType
<1>. QED
  BY <1>1, <1>2, <1>3, <1>4, <1>5, TypeParts, SameDatabase
  DEF Inv, TypeOK, Databases, Topics, Logs

LEMMA StutterStep == ASSUME Inv, UNCHANGED vars PROVE Inv' /\ LogGrows
<1>1. TypeOK /\ RevisionInv /\ UNCHANGED <<db, manager, topics, clients, log, sets, trouble>>
  BY DEF Inv, vars
<1>2. RevisionInv'
  BY <1>1 DEF RevisionInv
<1>. QED
  BY <1>1, <1>2, TypeParts, SameDatabase DEF Inv, TypeOK, Databases, Topics, Logs

LEMMA StepKeepsInv == ASSUME Inv, [Next]_vars PROVE Inv' /\ LogGrows
BY OpenStep, TimerStep, SetStep, WriteStep, CommitStep, RollbackStep, RefreshStep,
   ClientsStep, RestartStep, StutterStep DEF Next, ClientStep

\* The types of the whole system hold, whatever fails and restarts.
THEOREM TypeCorrect == Spec => []TypeOK
<1>1. Init => Inv
  BY InitType
<1>2. Inv /\ [Next]_vars => Inv'
  BY StepKeepsInv
<1>3. Inv => TypeOK
  BY DEF Inv
<1>. QED
  BY <1>1, <1>2, <1>3, PTL DEF Spec

\* A revision stands for one configuration for ever: the revision that
\* write_values counts up from is the one in the database.
THEOREM RevisionKept == Spec => RevisionIsNotReused
<1>1. Init => Inv
  BY InitType
<1>2. Inv /\ [Next]_vars => Inv'
  BY StepKeepsInv
<1>3. Inv /\ [Next]_vars => [LogGrows]_log
  BY StepKeepsInv
<1>4. Spec => [][LogGrows]_log
  BY <1>1, <1>2, <1>3, PTL DEF Spec
<1>. QED
  BY <1>4 DEF RevisionIsNotReused, LogGrows

-----------------------------------------------------------------------------
(* The snapshots.  Whatever is under way -- the manager's values, a reply,  *)
(* a snapshot -- is a part of one revision of the history.                 *)

PartOfRevision(values, history) ==
  \E r \in DOMAIN history :
    \A k \in DOMAIN values : k \in DOMAIN history[r] /\ values[k] = history[r][k]
Traceable(values, history) == DOMAIN values = {} \/ PartOfRevision(values, history)

ClientInv(client, history) ==
  /\ client.reply # <<>> => Traceable(client.reply[1], history)
  /\ client.loaded => PartOfRevision(client.snapshot, history)

LatestIsLogged == db.created => log[db.revision] = db.values

HistoryInv ==
  /\ LatestIsLogged
  /\ Traceable(manager.values, log)
  /\ \A c \in Client : ClientInv(clients[c], log)

\* The history only grows, so what could be traced still can.
LEMMA TraceKept ==
  ASSUME LogGrows, NEW values
  PROVE  /\ PartOfRevision(values, log) => PartOfRevision(values, log')
         /\ Traceable(values, log) => Traceable(values, log')
BY DEF LogGrows, PartOfRevision, Traceable

LEMMA ClientKept ==
  ASSUME LogGrows, NEW client, ClientInv(client, log) PROVE ClientInv(client, log')
BY TraceKept DEF ClientInv

\* What is read from the database is a part of its latest revision.
LEMMA ReadIsTraceable ==
  ASSUME NEW d \in Databases, d.created, NEW history \in Logs(d),
         history[d.revision] = d.values, NEW values \in Parts(d.values)
  PROVE  Traceable(values, history)
<1>1. d.values \in Configurations /\ d.revision \in Nat
  BY DEF Databases
<1>2. d.revision \in DOMAIN history
  BY <1>1 DEF Logs
<1>3. \A k \in DOMAIN values : k \in DOMAIN d.values /\ values[k] = d.values[k]
  BY <1>1, PartShape
<1>. QED
  BY <1>2, <1>3 DEF Traceable, PartOfRevision

LEMMA RestrictIsTraceable ==
  ASSUME NEW values, NEW history, Traceable(values, history), NEW K \in SUBSET DOMAIN values
  PROVE  Traceable(Restrict(values, K), history)
BY DEF Traceable, PartOfRevision, Restrict

\* A step that changes no more of a client than what it was told.
LEMMA Announced ==
  ASSUME TypeOK, LogGrows, \A c \in Client : ClientInv(clients[c], log),
         \/ UNCHANGED clients
         \/ \A c \in Client : clients'[c] = [clients[c] EXCEPT !.statusNew = TRUE]
         \/ \A c \in Client : clients'[c] = [clients[c] EXCEPT !.statusNew = TRUE,
                                                               !.changeNew = TRUE]
  PROVE  \A c \in Client : ClientInv(clients'[c], log')
<1>. SUFFICES ASSUME NEW c \in Client PROVE ClientInv(clients'[c], log')
  OBVIOUS
<1>1. clients[c] \in Clients
  BY DEF TypeOK
<1>2. /\ clients'[c].reply = clients[c].reply /\ clients'[c].loaded = clients[c].loaded
      /\ clients'[c].snapshot = clients[c].snapshot
  BY <1>1 DEF Clients
<1>3. ClientInv(clients[c], log')
  BY ClientKept
<1>. QED
  BY <1>2, <1>3 DEF ClientInv

LEMMA OpenKeepsHistory ==
  ASSUME Inv, HistoryInv, OpenAndInitialize, Inv', LogGrows PROVE HistoryInv'
<1>1. TypeOK /\ TypeOK' /\ PublishStatus(manager')
  BY DEF Inv, OpenAndInitialize
<1>2. \A c \in Client : ClientInv(clients'[c], log')
  BY <1>1, Announced DEF HistoryInv, PublishStatus
<1>3. CASE db' = db /\ log' = log /\ manager'.values = manager.values
  BY <1>2, <1>3 DEF HistoryInv, LatestIsLogged
<1>4. CASE /\ db' = WithSchema
           /\ log' = IF db.created THEN log ELSE [r \in {0} |-> WithSchema.values]
           /\ manager'.values \in Parts(db'.values)
  <2>1. db' \in Databases /\ db'.created /\ log' \in Logs(db')
    BY <1>1, <1>4, WithSchemaShape, TypeParts DEF TypeOK, Logs
  <2>2. log'[db'.revision] = db'.values
    BY <1>1, <1>4, WithSchemaShape DEF HistoryInv, LatestIsLogged
  <2>3. Traceable(manager'.values, log')
    BY <1>4, <2>1, <2>2, ReadIsTraceable
  <2>. QED
    BY <1>2, <2>2, <2>3 DEF HistoryInv, LatestIsLogged
<1>. QED
  BY <1>1, <1>3, <1>4, OpenEffect

LEMMA SetKeepsHistory ==
  ASSUME Inv, HistoryInv, NEW updates \in Updates, OnSet(updates), LogGrows PROVE HistoryInv'
<1>1. TypeOK /\ db' = db /\ log' = log
  BY DEF Inv, OnSet
<1>2. /\ manager'.values = manager.values
      /\ \/ UNCHANGED clients
         \/ \A c \in Client : clients'[c] = [clients[c] EXCEPT !.statusNew = TRUE]
  BY <1>1, SetEffect
<1>3. \A c \in Client : ClientInv(clients'[c], log')
  BY <1>1, <1>2, Announced DEF HistoryInv
<1>. QED
  BY <1>1, <1>2, <1>3 DEF HistoryInv, LatestIsLogged

LEMMA QuietKeepsHistory ==
  ASSUME Inv, HistoryInv, StatusTimer \/ WriteRow \/ Rollback \/ UNCHANGED vars, LogGrows
  PROVE  HistoryInv'
<1>1. TypeOK /\ db' = db /\ log' = log
  BY DEF Inv, StatusTimer, WriteRow, Rollback, vars
<1>2. manager'.values = manager.values
  BY <1>1, WriteEffect, DegradeEffect DEF StatusTimer, Rollback, vars
<1>3. \/ UNCHANGED clients
      \/ \A c \in Client : clients'[c] = [clients[c] EXCEPT !.statusNew = TRUE]
  BY DEF StatusTimer, WriteRow, Rollback, Degrades, PublishStatus, vars
<1>4. \A c \in Client : ClientInv(clients'[c], log')
  BY <1>1, <1>3, Announced DEF HistoryInv
<1>. QED
  BY <1>1, <1>2, <1>4 DEF HistoryInv, LatestIsLogged

LEMMA CommitKeepsHistory ==
  ASSUME Inv, HistoryInv, Commit, LogGrows PROVE HistoryInv'
<1>1. TypeOK
  BY DEF Inv
<1>2. /\ manager'.values = manager.values /\ UNCHANGED clients
      /\ log' = [r \in DOMAIN log \cup {db'.revision} |->
                   IF r = db'.revision THEN db'.values ELSE log[r]]
  BY <1>1, CommitEffect
<1>3. log'[db'.revision] = db'.values
  BY <1>2
<1>4. Traceable(manager'.values, log')
  BY <1>2, TraceKept DEF HistoryInv
<1>5. \A c \in Client : ClientInv(clients'[c], log')
  BY <1>2, ClientKept DEF HistoryInv
<1>. QED
  BY <1>3, <1>4, <1>5 DEF HistoryInv, LatestIsLogged

LEMMA RefreshKeepsHistory ==
  ASSUME Inv, HistoryInv, Refresh, LogGrows PROVE HistoryInv'
<1>1. TypeOK /\ RevisionInv
  BY DEF Inv
<1>2. /\ manager.at = "refresh" /\ manager'.values \in Parts(db.values)
      /\ clients' = [c \in Client |->
           [clients[c] EXCEPT !.statusNew = TRUE, !.changeNew = TRUE]]
      /\ db' = db /\ log' = log
  BY <1>1, RefreshEffect
<1>3. db.created /\ db \in Databases /\ log \in Logs(db)
  BY <1>1, <1>2, TypeParts DEF RevisionInv
<1>4. Traceable(manager'.values, log)
  BY <1>2, <1>3, ReadIsTraceable DEF HistoryInv, LatestIsLogged
<1>5. \A c \in Client : ClientInv(clients'[c], log')
  BY <1>1, <1>2, Announced DEF HistoryInv
<1>. QED
  BY <1>2, <1>4, <1>5 DEF HistoryInv, LatestIsLogged

\* A reply is a part of the manager's values, and a snapshot is a reply.
LEMMA ClientKeepsHistory ==
  ASSUME Inv, HistoryInv, NEW c \in Client, ClientStep(c), LogGrows PROVE HistoryInv'
<1>1. TypeOK /\ ClientInv(clients[c], log)
  BY DEF Inv, HistoryInv
<1>2. /\ UNCHANGED <<db, manager, log>>
      /\ \A d \in Client \ {c} : clients'[d] = clients[d]
  BY <1>1, OnGetEffect, NoticeEffect, OnReplyEffect DEF ClientStep
<1>3. ClientInv(clients'[c], log)
  <2>1. CASE OnGet(c)
    <3>1. PICK K \in SUBSET DOMAIN manager.values :
            clients'[c].reply = <<Restrict(manager.values, K)>>
      BY <1>1, <2>1, OnGetEffect
    <3>2. Traceable(clients'[c].reply[1], log)
      BY <3>1, RestrictIsTraceable DEF HistoryInv
    <3>. QED
      BY <1>1, <2>1, <3>2, OnGetEffect DEF ClientInv, KeepsSnapshot
  <2>2. CASE OnStatus(c) \/ OnChanged(c) \/ RefreshIfPossible(c)
    BY <1>1, <2>2, NoticeEffect DEF ClientInv, KeepsSnapshot, KeepsReply
  <2>3. CASE OnReply(c)
    <3>1. clients[c].reply # <<>> /\ clients'[c].reply = <<>>
      BY <1>1, <2>3, OnReplyEffect
    <3>2. CASE KeepsSnapshot(clients[c], clients'[c])
      BY <1>1, <3>1, <3>2 DEF ClientInv, KeepsSnapshot
    <3>3. CASE /\ clients'[c].snapshot = clients[c].reply[1]
               /\ DOMAIN clients[c].reply[1] = Fetched(c)
      <4>1. Fetched(c) # {}
        BY <1>1, ManagerFields, ManagerAssumption DEF TypeOK, Fetched
      <4>2. PartOfRevision(clients[c].reply[1], log)
        BY <1>1, <3>1, <3>3, <4>1 DEF ClientInv, Traceable
      <4>. QED
        BY <3>1, <3>3, <4>2 DEF ClientInv
    <3>. QED
      BY <1>1, <2>3, <3>2, <3>3, OnReplyEffect
  <2>. QED
    BY <2>1, <2>2, <2>3 DEF ClientStep
<1>. QED
  BY <1>2, <1>3 DEF HistoryInv, LatestIsLogged

LEMMA RestartKeepsHistory ==
  ASSUME Inv, HistoryInv, NEW known \in Releases, Restart(known) PROVE HistoryInv'
<1>1. db' = db /\ log' = log /\ manager' = Down(known)
      /\ \A c \in Client : clients'[c] = FreshClient
  BY DEF Restart
<1>2. Traceable(manager'.values, log)
  BY <1>1, NothingShape DEF Down, Traceable
<1>3. ClientInv(FreshClient, log)
  BY DEF ClientInv, FreshClient
<1>. QED
  BY <1>1, <1>2, <1>3 DEF HistoryInv, LatestIsLogged

LEMMA StepKeepsHistory ==
  ASSUME Inv, HistoryInv, [Next]_vars PROVE HistoryInv'
<1>1. Inv' /\ LogGrows
  BY StepKeepsInv
<1>. QED
  BY <1>1, OpenKeepsHistory, SetKeepsHistory, QuietKeepsHistory, CommitKeepsHistory,
     RefreshKeepsHistory, ClientKeepsHistory, RestartKeepsHistory DEF Next, ClientStep

\* What a node works with is a part of one committed revision, in whatever
\* way writes, reads, fetches, failures and restarts interleave.
THEOREM SnapshotTraced == Spec => []SnapshotIsOfOneRevision
<1>1. Init => Inv /\ HistoryInv
  <2>. SUFFICES ASSUME Init PROVE Inv /\ HistoryInv
    OBVIOUS
  <2>1. LatestIsLogged
    BY DEF Init, NoDatabase, LatestIsLogged
  <2>2. Traceable(manager.values, log)
    BY NothingShape DEF Init, Down, Traceable
  <2>3. \A c \in Client : ClientInv(clients[c], log)
    BY DEF Init, ClientInv, FreshClient
  <2>. QED
    BY <2>1, <2>2, <2>3, InitType DEF HistoryInv
<1>2. Inv /\ HistoryInv /\ [Next]_vars => (Inv /\ HistoryInv)'
  BY StepKeepsInv, StepKeepsHistory
<1>3. Inv /\ HistoryInv => SnapshotIsOfOneRevision
  <2>. SUFFICES ASSUME Inv, HistoryInv, NEW c \in Client, clients[c].loaded
                PROVE  \E r \in DOMAIN log : clients[c].snapshot =
                         Restrict(log[r], DOMAIN clients[c].snapshot \cap DOMAIN log[r])
    BY DEF SnapshotIsOfOneRevision
  <2>. DEFINE values == clients[c].snapshot
  <2>1. values \in [DOMAIN values -> Value]
    BY ClientFields, ConfigurationShape DEF Inv, TypeOK
  <2>2. PICK r \in DOMAIN log :
          \A k \in DOMAIN values : k \in DOMAIN log[r] /\ values[k] = log[r][k]
    BY DEF HistoryInv, ClientInv, PartOfRevision
  <2>3. DOMAIN values \cap DOMAIN log[r] = DOMAIN values
    BY <2>2
  <2>. HIDE DEF values
  <2>4. values = Restrict(log[r], DOMAIN values)
    BY <2>1, <2>2 DEF Restrict
  <2>. QED
    BY <2>3, <2>4 DEF values
<1>. QED
  BY <1>1, <1>2, <1>3, PTL DEF Spec

-----------------------------------------------------------------------------
(* Readiness.  Every known key has a default or is required, so a manager   *)
(* that misses nothing has read all of them: a read that failed half-way is *)
(* never mistaken for a complete one.                                      *)

Agrees(values, stored, known) ==
  /\ Missing(values, known) = {}
  /\ \A k \in known : k \in DOMAIN values /\ k \in DOMAIN stored /\ values[k] = stored[k]

ReadyInv ==
  manager.state = "READY" /\ manager.at # "refresh" =>
    manager.healthy /\ Agrees(manager.values, db.values, manager.known)

LEMMA NothingMissing ==
  ASSUME NEW stored \in Configurations, NEW values \in Parts(stored), NEW known \in Releases,
         Missing(values, known) = {}
  PROVE  Agrees(values, stored, known)
<1>. SUFFICES ASSUME NEW k \in known
              PROVE  k \in DOMAIN values /\ k \in DOMAIN stored /\ values[k] = stored[k]
  BY DEF Agrees
<1>1. k \in Key
  BY ManagerAssumption
<1>2. k \in DOMAIN values
  <2>1. CASE k \in Required
    <3>1. ~IsMissing(values, k)
      BY <2>1 DEF Missing, MissingRequired
    <3>. QED
      BY <3>1 DEF IsMissing
  <2>2. CASE k \notin Required
    BY <1>1, <2>2, DefaultsShape DEF Missing
  <2>. QED
    BY <2>1, <2>2
<1>. QED
  BY <1>2, PartShape

LEMMA RequiredInDatabase ==
  ASSUME NEW values, NEW stored, NEW known \in Releases, Agrees(values, stored, known)
  PROVE  MissingRequired(stored, known) = {}
<1>1. \A k \in known : IsMissing(stored, k) <=> IsMissing(values, k)
  BY DEF Agrees, IsMissing
<1>2. MissingRequired(values, known) = {}
  BY DEF Agrees, Missing
<1>3. \A k \in Required \cap known : ~IsMissing(stored, k)
  BY <1>1, <1>2 DEF MissingRequired
<1>4. ASSUME NEW k \in Needs \cap known, Switch \in DOMAIN stored, stored[Switch] = On
      PROVE  ~IsMissing(stored, k)
  <2>1. Switch \in known
    BY ManagerAssumption
  <2>2. Switch \in DOMAIN values /\ values[Switch] = On
    BY <1>4, <2>1 DEF Agrees
  <2>. QED
    BY <1>1, <1>2, <2>2 DEF MissingRequired
<1>. QED
  BY <1>3, <1>4 DEF MissingRequired

LEMMA StepKeepsReady ==
  ASSUME Inv, ReadyInv, [Next]_vars PROVE ReadyInv'
<1>1. TypeOK /\ RevisionInv /\ manager \in Managers
  BY DEF Inv, TypeOK
<1>2. CASE OpenAndInitialize
  <2>1. CASE manager'.state = "ERROR"
    BY <2>1 DEF ReadyInv
  <2>2. CASE /\ db' = WithSchema /\ manager'.healthy
             /\ manager'.values \in Parts(db'.values)
             /\ manager'.state = StateOf(manager') /\ manager'.known = manager.known
    <3>1. db'.values \in Configurations /\ manager'.known \in Releases
      BY <1>1, <2>2, WithSchemaShape, ManagerFields DEF Databases
    <3>2. ASSUME manager'.state = "READY"
          PROVE  Agrees(manager'.values, db'.values, manager'.known)
      <4>1. Missing(manager'.values, manager'.known) = {}
        BY <2>2, <3>2 DEF StateOf
      <4>. QED
        BY <2>2, <3>1, <4>1, NothingMissing
    <3>. QED
      BY <2>2, <3>2 DEF ReadyInv
  <2>. QED
    BY <1>1, <1>2, <2>1, <2>2, OpenEffect
<1>3. ASSUME NEW updates \in Updates, OnSet(updates) PROVE ReadyInv'
  <2>1. db' = db
    BY <1>3 DEF OnSet
  <2>2. /\ manager.at = "idle" /\ manager.healthy /\ manager'.known = manager.known
        /\ manager'.values = manager.values
        /\ \/ manager'.state = manager.state /\ manager'.healthy
           \/ manager'.state = "DEGRADED"
    BY <1>1, <1>3, SetEffect
  <2>. QED
    BY <2>1, <2>2 DEF ReadyInv
<1>4. CASE WriteRow
  <2>1. /\ db' = db /\ manager'.at = manager.at /\ manager'.state = manager.state
        /\ manager'.healthy = manager.healthy /\ manager'.known = manager.known
        /\ manager'.values = manager.values
    BY <1>1, <1>4, WriteEffect
  <2>. QED
    BY <2>1 DEF ReadyInv
<1>5. CASE Commit
  BY <1>1, <1>5, CommitEffect DEF ReadyInv
<1>6. CASE Rollback
  BY <1>1, <1>6, DegradeEffect DEF ReadyInv, Rollback
<1>7. CASE Refresh
  <2>1. /\ manager.at = "refresh" /\ manager'.values \in Parts(db.values) /\ db' = db
        /\ manager'.known = manager.known /\ manager'.healthy = manager.healthy
        /\ manager'.state = StateOf(manager')
    BY <1>1, <1>7, RefreshEffect
  <2>2. manager'.healthy /\ manager'.known \in Releases /\ db.values \in Configurations
    BY <1>1, <2>1, ManagerFields DEF RevisionInv, TypeOK
  <2>3. ASSUME manager'.state = "READY"
        PROVE  Agrees(manager'.values, db'.values, manager'.known)
    <3>1. Missing(manager'.values, manager'.known) = {}
      BY <2>1, <2>3 DEF StateOf
    <3>. QED
      BY <2>1, <2>2, <3>1, NothingMissing
  <2>. QED
    BY <2>2, <2>3 DEF ReadyInv
<1>8. ASSUME NEW c \in Client, ClientStep(c) PROVE ReadyInv'
  <2>1. UNCHANGED <<db, manager>>
    BY <1>1, <1>8, OnGetEffect, NoticeEffect, OnReplyEffect DEF ClientStep
  <2>. QED
    BY <2>1 DEF ReadyInv
<1>9. ASSUME NEW known \in Releases, Restart(known) PROVE ReadyInv'
  BY <1>9 DEF Restart, Down, ReadyInv
<1>10. CASE StatusTimer \/ UNCHANGED vars
  BY <1>10 DEF StatusTimer, vars, ReadyInv
<1>. QED
  BY <1>2, <1>3, <1>4, <1>5, <1>6, <1>7, <1>8, <1>9, <1>10 DEF Next, ClientStep

\* A manager that reports READY has everything the release needs, as it is in
\* the database, although it reads the database key by key and keeps what it
\* has read when a read fails.
THEOREM ReadyMeansComplete == Spec => []ReadyIsComplete
<1>1. Init => Inv /\ ReadyInv
  <2>. SUFFICES ASSUME Init PROVE ReadyInv
    BY InitType
  <2>1. PICK known \in Releases : manager = Down(known)
    BY DEF Init
  <2>. QED
    BY <2>1 DEF Down, ReadyInv
<1>2. Inv /\ ReadyInv /\ [Next]_vars => (Inv /\ ReadyInv)'
  BY StepKeepsInv, StepKeepsReady
<1>3. Inv /\ ReadyInv => ReadyIsComplete
  <2>. SUFFICES ASSUME Inv, ReadyInv, manager.at = "idle", manager.state = "READY"
                PROVE  /\ manager.revision = db.revision
                       /\ MissingRequired(db.values, manager.known) = {}
                       /\ \A k \in manager.known \cap DOMAIN db.values :
                            k \in DOMAIN manager.values /\ manager.values[k] = db.values[k]
    BY DEF ReadyIsComplete
  <2>1. manager.healthy /\ Agrees(manager.values, db.values, manager.known)
    BY DEF ReadyInv
  <2>2. manager.known \in Releases
    BY ManagerFields DEF Inv, TypeOK
  <2>. QED
    BY <2>1, <2>2, RequiredInDatabase DEF Inv, RevisionInv, Agrees
<1>. QED
  BY <1>1, <1>2, <1>3, PTL DEF Spec

-----------------------------------------------------------------------------
(* The news.  A client whose last status carried the revision that is       *)
(* published, and that wishes for nothing, has the values of that revision, *)
(* or they are on their way, or an answer was incomplete.                   *)

\* The manager's values are a part of the revision that is published, until
\* those of a commit have been read.
Published == topics.status.revision
IsPart(values, stored) == \A k \in DOMAIN values : k \in DOMAIN stored /\ values[k] = stored[k]
TopicInv ==
  /\ manager.at = "down" => ~manager.healthy /\ ~topics.status.ready
  /\ manager.at = "idle" => topics.status.ready = (manager.state = "READY")
  /\ manager.healthy =>
       /\ Published <= manager.revision
       /\ manager.at # "refresh" => Published = manager.revision
       /\ IsPart(manager.values, log[Published])

\* An answer is to come, or it has come, for as long as a request is under way.
FlightInv(client) ==
  /\ client.asked => client.inFlight /\ client.reply = <<>>
  /\ client.reply # <<>> => client.inFlight

Told(client, revision) == client.seen /\ client.revision = revision
Fits(values, wanted, stored) == DOMAIN values = wanted /\ IsPart(values, stored)
ServedInv(client, wanted, stored) ==
  /\ client.reply # <<>> /\ DOMAIN client.reply[1] = wanted => IsPart(client.reply[1], stored)
  /\ ~client.inFlight =>
       IF client.ready THEN Fits(client.snapshot, wanted, stored) ELSE client.incomplete
ToldInv(client, c) ==
  /\ FlightInv(client)
  /\ manager.at = "down" => ~client.seen
  /\ topics.status.ready /\ ~client.statusNew => Told(client, Published)
  /\ manager.healthy /\ client.seen => client.revision <= Published
  /\ manager.healthy /\ Told(client, Published) /\ ~client.requested =>
       ServedInv(client, Fetched(c), log[Published])
NewsInv == TopicInv /\ \A c \in Client : ToldInv(clients[c], c)

\* What a step of the manager may do to a client: announce something to it.
Heard(before, after) ==
  /\ \A f \in {"seen", "revision", "requested", "inFlight", "asked", "reply", "ready",
               "snapshot", "incomplete"} : after[f] = before[f]
  /\ after.statusNew \/ (UNCHANGED topics /\ after.statusNew = before.statusNew)
Announces == \A c \in Client : Heard(clients[c], clients'[c])

LEMMA PublishingAnnounces == ASSUME TypeOK, NEW m, PublishStatus(m) PROVE Announces
<1>. SUFFICES ASSUME NEW c \in Client PROVE Heard(clients[c], clients'[c])
  BY DEF Announces
<1>1. clients[c] \in Clients /\ clients'[c] = [clients[c] EXCEPT !.statusNew = TRUE]
  BY DEF TypeOK, PublishStatus
<1>. QED
  BY <1>1 DEF Clients, Heard

LEMMA SilenceAnnounces == ASSUME UNCHANGED <<clients, topics>> PROVE Announces
BY DEF Announces, Heard

LEMMA StatusPublished ==
  ASSUME NEW m \in Managers, PublishStatus(m)
  PROVE  topics'.status.ready = (m.state = "READY") /\ Published' = m.revision
BY DEF PublishStatus, Published

\* A manager that is healthy knows the content of the revision it published.
LEMMA PublishedIsLogged ==
  ASSUME Inv, TopicInv, manager.healthy
  PROVE  Published \in DOMAIN log /\ Published \in Nat /\ manager.revision \in Nat
<1>1. /\ db \in Databases /\ log \in Logs(db) /\ topics \in Topics /\ manager \in Managers
      /\ RevisionInv
  BY TypeParts DEF Inv
<1>2. Published \in Nat /\ db.revision \in Nat
  BY <1>1 DEF Published, Topics, Statuses, Databases
<1>. QED
  BY <1>1, <1>2 DEF RevisionInv, TopicInv, Logs

\* Clients notice a revision that is new to them, and keep what is theirs of
\* the one they know.
LEMMA AnnouncedNews ==
  ASSUME Inv, NewsInv, LogGrows, Inv', TopicInv', Announces,
         manager'.at = "down" => manager.at = "down",
         manager'.healthy =>
           \/ manager.at = "down"
           \/ manager.healthy /\ manager'.known = manager.known /\ Published <= Published'
  PROVE  NewsInv'
<1>. SUFFICES ASSUME NEW c \in Client PROVE ToldInv(clients[c], c)'
  BY DEF NewsInv
<1>1. ToldInv(clients[c], c) /\ Heard(clients[c], clients'[c])
  BY DEF NewsInv, Announces
<1>2. clients[c] \in Clients /\ clients'[c] \in Clients
  BY DEF Inv, TypeOK
<1>. DEFINE old == clients[c]
            new == clients'[c]
<1>3. /\ new.seen = old.seen /\ new.revision = old.revision /\ new.requested = old.requested
      /\ new.inFlight = old.inFlight /\ new.asked = old.asked /\ new.reply = old.reply
      /\ new.ready = old.ready /\ new.snapshot = old.snapshot
      /\ new.incomplete = old.incomplete
      /\ new.statusNew \/ (UNCHANGED topics /\ new.statusNew = old.statusNew)
  BY <1>1 DEF Heard
<1>4. old.revision \in Nat
  BY <1>2, ClientFields
<1>. HIDE DEF old, new
<1>5. /\ FlightInv(old)
      /\ manager.at = "down" => ~old.seen
      /\ topics.status.ready /\ ~old.statusNew => Told(old, Published)
      /\ manager.healthy /\ old.seen => old.revision <= Published
      /\ manager.healthy /\ Told(old, Published) /\ ~old.requested =>
           ServedInv(old, Fetched(c), log[Published])
  BY <1>1 DEF ToldInv, old
<1>6. FlightInv(new) /\ (manager'.at = "down" => ~new.seen)
  BY <1>3, <1>5 DEF FlightInv
<1>7. topics'.status.ready /\ ~new.statusNew => Told(new, Published')
  BY <1>3, <1>5 DEF Told, Published
<1>8. ASSUME manager'.healthy, new.seen
      PROVE  /\ manager.healthy /\ manager'.known = manager.known /\ Published <= Published'
             /\ Published \in Nat /\ Published' \in Nat /\ Published \in DOMAIN log
  <2>1. manager.at # "down"
    BY <1>3, <1>5, <1>8
  <2>2. manager.healthy /\ manager'.known = manager.known /\ Published <= Published'
    BY <1>8, <2>1
  <2>3. Published' \in Nat
    BY DEF Inv, TypeOK, Statuses, Published
  <2>. QED
    BY <2>2, <2>3, PublishedIsLogged DEF NewsInv
<1>9. manager'.healthy /\ new.seen => new.revision <= Published'
  BY <1>3, <1>4, <1>5, <1>8
<1>10. ASSUME manager'.healthy, new.seen, new.revision = Published', ~new.requested
       PROVE  ServedInv(new, Fetched(c)', log'[Published'])
  <2>1. Published' = Published
    BY <1>3, <1>4, <1>5, <1>8, <1>10
  <2>2. ServedInv(old, Fetched(c), log[Published])
    BY <1>3, <1>5, <1>8, <1>10, <2>1 DEF Told
  <2>3. log'[Published] = log[Published] /\ Fetched(c)' = Fetched(c)
    BY <1>8, <1>10 DEF LogGrows, Fetched
  <2>. QED
    BY <1>3, <2>1, <2>2, <2>3 DEF ServedInv
<1>. QED
  BY <1>6, <1>7, <1>9, <1>10 DEF ToldInv, Told, new, Published

\* The revision that is read after the manager starts, or after a write.
LEMMA ReadIsPart ==
  ASSUME Inv', HistoryInv', manager'.healthy, manager'.values \in Parts(db'.values)
  PROVE  IsPart(manager'.values, log'[manager'.revision])
<1>1. db'.values \in Configurations /\ manager'.revision = db'.revision /\ db'.created
  BY DEF Inv, TypeOK, RevisionInv
<1>2. log'[db'.revision] = db'.values
  BY <1>1 DEF HistoryInv, LatestIsLogged
<1>. QED
  BY <1>1, <1>2, PartShape DEF IsPart

LEMMA OpenKeepsNews ==
  ASSUME Inv, NewsInv, OpenAndInitialize, LogGrows, Inv', HistoryInv'
  PROVE  NewsInv'
<1>1. TypeOK /\ manager' \in Managers
  BY DEF Inv, TypeOK
<1>2. /\ manager.at = "down" /\ manager'.at = "idle" /\ PublishStatus(manager')
      /\ \/ manager'.healthy /\ manager'.values \in Parts(db'.values)
         \/ manager'.healthy = manager.healthy
  BY <1>1, OpenEffect
<1>3. topics'.status.ready = (manager'.state = "READY") /\ Published' = manager'.revision
  BY <1>1, <1>2, StatusPublished
<1>4. ~manager.healthy
  BY <1>2 DEF NewsInv, TopicInv
<1>5. ASSUME manager'.healthy
      PROVE  /\ Published' = manager'.revision /\ IsPart(manager'.values, log'[Published'])
             /\ manager'.revision \in Nat
  BY <1>1, <1>2, <1>3, <1>4, <1>5, ReadIsPart, ManagerFields
<1>6. TopicInv'
  BY <1>2, <1>3, <1>5 DEF TopicInv
<1>. QED
  BY <1>1, <1>2, <1>6, PublishingAnnounces, AnnouncedNews

LEMMA TimerKeepsNews ==
  ASSUME Inv, NewsInv, StatusTimer, LogGrows, Inv' PROVE NewsInv'
<1>1. TypeOK /\ manager \in Managers
  BY DEF Inv, TypeOK
<1>2. /\ manager.at = "idle" /\ UNCHANGED <<manager, log>> /\ PublishStatus(manager)
  BY DEF StatusTimer
<1>3. topics'.status.ready = (manager.state = "READY") /\ Published' = manager.revision
  BY <1>1, <1>2, StatusPublished
<1>4. manager.healthy => Published' = Published /\ Published \in Nat
  BY <1>2, <1>3, PublishedIsLogged DEF NewsInv, TopicInv
<1>5. TopicInv'
  BY <1>2, <1>3, <1>4 DEF NewsInv, TopicInv
<1>. QED
  BY <1>1, <1>2, <1>4, <1>5, PublishingAnnounces, AnnouncedNews

\* A manager that gives up tells so, and nobody hears more of it.
LEMMA DegradedKeepsNews ==
  ASSUME Inv, NewsInv, Degrades, LogGrows, Inv' PROVE NewsInv'
<1>1. TypeOK
  BY DEF Inv
<1>2. /\ manager' \in Managers /\ manager'.at = "idle" /\ manager'.state = "DEGRADED"
      /\ ~manager'.healthy /\ PublishStatus(manager')
  BY <1>1, DegradeEffect
<1>3. topics'.status.ready = (manager'.state = "READY")
  BY <1>2, StatusPublished
<1>4. TopicInv'
  BY <1>2, <1>3 DEF TopicInv
<1>. QED
  BY <1>1, <1>2, <1>4, PublishingAnnounces, AnnouncedNews

\* Requests, rows and commits: nothing is published.
LEMMA SilentKeepsNews ==
  ASSUME Inv, NewsInv, UNCHANGED <<topics, clients>>, LogGrows, Inv',
         manager'.healthy = manager.healthy, manager'.values = manager.values,
         manager'.known = manager.known,
         \/ manager'.at = manager.at /\ manager'.state = manager.state
            /\ manager'.revision = manager.revision
         \/ manager.at = "idle" /\ manager'.at \in {"writing", "refresh"}
            /\ manager'.revision = manager.revision
         \/ manager.at = "writing" /\ manager'.at = "refresh"
            /\ manager'.revision = manager.revision + 1
  PROVE  NewsInv'
<1>1. Published' = Published /\ topics' = topics
  BY DEF Published
<1>2. ASSUME manager.healthy
      PROVE  /\ Published \in Nat /\ manager.revision \in Nat
             /\ log'[Published] = log[Published]
  BY <1>2, PublishedIsLogged DEF NewsInv, LogGrows
<1>3. TopicInv'
  BY <1>1, <1>2 DEF NewsInv, TopicInv
<1>. QED
  BY <1>1, <1>2, <1>3, SilenceAnnounces, AnnouncedNews

LEMMA SetKeepsNews ==
  ASSUME Inv, NewsInv, NEW updates \in Updates, OnSet(updates), LogGrows, Inv' PROVE NewsInv'
<1>1. CASE Degrades
  BY <1>1, DegradedKeepsNews
<1>2. CASE UNCHANGED <<manager, topics, clients>>
  BY <1>2, SilentKeepsNews
<1>3. ASSUME NEW at \in {"writing", "refresh"}, NEW changed, UNCHANGED <<topics, clients>>,
             manager' = [manager EXCEPT !.at = at, !.updates = changed]
      PROVE  NewsInv'
  <2>1. manager \in Managers /\ manager.at = "idle"
    BY DEF Inv, TypeOK, OnSet
  <2>2. /\ manager'.at = at /\ manager'.healthy = manager.healthy
        /\ manager'.values = manager.values /\ manager'.known = manager.known
        /\ manager'.revision = manager.revision
    BY <1>3, <2>1 DEF Managers
  <2>. QED
    BY <1>3, <2>1, <2>2, SilentKeepsNews
<1>. QED
  BY <1>1, <1>2, <1>3 DEF OnSet

LEMMA WriteKeepsNews ==
  ASSUME Inv, NewsInv, WriteRow \/ Commit \/ UNCHANGED vars, LogGrows, Inv' PROVE NewsInv'
<1>1. TypeOK
  BY DEF Inv
<1>2. CASE WriteRow
  <2>1. /\ manager'.at = manager.at /\ manager'.state = manager.state
        /\ manager'.healthy = manager.healthy /\ manager'.values = manager.values
        /\ manager'.known = manager.known /\ manager'.revision = manager.revision
        /\ UNCHANGED <<topics, clients>>
    BY <1>1, <1>2, WriteEffect
  <2>. QED
    BY <2>1, SilentKeepsNews
<1>3. CASE Commit
  BY <1>1, <1>3, CommitEffect, SilentKeepsNews
<1>4. CASE UNCHANGED vars
  BY <1>4, SilentKeepsNews DEF vars
<1>. QED
  BY <1>2, <1>3, <1>4

LEMMA RefreshKeepsNews ==
  ASSUME Inv, NewsInv, Refresh, LogGrows, Inv', HistoryInv' PROVE NewsInv'
<1>1. TypeOK /\ manager.healthy
  BY DEF Inv, Refresh, RevisionInv
<1>2. /\ manager'.at = "idle" /\ manager' \in Managers /\ manager'.known = manager.known
      /\ manager'.healthy = manager.healthy /\ manager'.revision = manager.revision
      /\ manager'.values \in Parts(db'.values)
      /\ clients' = [c \in Client |->
           [clients[c] EXCEPT !.statusNew = TRUE, !.changeNew = TRUE]]
  BY <1>1, RefreshEffect
<1>3. topics'.status.ready = (manager'.state = "READY") /\ Published' = manager'.revision
  BY DEF Refresh, Published
<1>4. IsPart(manager'.values, log'[Published'])
  BY <1>1, <1>2, <1>3, ReadIsPart
<1>5. Published <= Published' /\ Published' \in Nat
  <2>1. Published \in Nat /\ manager.revision \in Nat /\ Published <= manager.revision
    BY <1>1, PublishedIsLogged DEF NewsInv, TopicInv
  <2>. QED
    BY <1>2, <1>3, <2>1
<1>6. TopicInv'
  <2>1. manager'.at = "idle" /\ manager'.revision \in Nat
    BY <1>2, ManagerFields
  <2>. QED
    BY <1>3, <1>4, <2>1 DEF TopicInv
<1>7. Announces
  <2>. SUFFICES ASSUME NEW c \in Client PROVE Heard(clients[c], clients'[c])
    BY DEF Announces
  <2>1. clients[c] \in Clients
    BY <1>1 DEF TypeOK
  <2>. QED
    BY <1>2, <2>1 DEF Clients, Heard
<1>. QED
  BY <1>1, <1>2, <1>5, <1>6, <1>7, AnnouncedNews

LEMMA RestartKeepsNews ==
  ASSUME NEW known \in Releases, Restart(known) PROVE NewsInv'
<1>1. /\ manager' = Down(known) /\ topics'.status = NoStatus
      /\ \A c \in Client : clients'[c] = FreshClient
  BY DEF Restart
<1>2. manager'.at = "down" /\ ~manager'.healthy /\ ~topics'.status.ready
  BY <1>1, DownShape DEF NoStatus
<1>3. TopicInv'
  BY <1>2 DEF TopicInv
<1>4. FlightInv(FreshClient) /\ ~FreshClient.seen
  BY DEF FreshClient, FlightInv
<1>. QED
  BY <1>1, <1>2, <1>3, <1>4 DEF NewsInv, ToldInv

-----------------------------------------------------------------------------
\* What a client does: the topics and the manager stay as they are.
LEMMA OneClientKeepsNews ==
  ASSUME Inv, NewsInv, NEW c \in Client, UNCHANGED <<manager, topics, log>>,
         \A d \in Client \ {c} : clients'[d] = clients[d], ToldInv(clients'[c], c)
  PROVE  NewsInv'
<1>1. TopicInv'
  BY DEF NewsInv, TopicInv, Published
<1>2. ASSUME NEW d \in Client PROVE ToldInv(clients'[d], d)
  BY <1>2 DEF NewsInv
<1>. QED
  BY <1>1, <1>2 DEF NewsInv, ToldInv, Published, Fetched

LEMMA GetKeepsNews == ASSUME Inv, NewsInv, NEW c \in Client, OnGet(c) PROVE NewsInv'
<1>1. /\ TypeOK /\ clients[c] \in Clients /\ clients \in [Client -> Clients]
      /\ manager \in Managers /\ TopicInv /\ ToldInv(clients[c], c)
  BY DEF Inv, TypeOK, NewsInv
<1>2. /\ manager.at = "idle" /\ clients[c].asked
      /\ UNCHANGED <<manager, topics, log>>
      /\ \A d \in Client \ {c} : clients'[d] = clients[d]
  BY <1>1, OnGetEffect DEF OnGet
<1>. DEFINE values == Restrict(manager.values, Fetched(c) \cap DOMAIN manager.values)
            old == clients[c]
            new == [old EXCEPT !.asked = FALSE, !.reply = <<values>>]
<1>3. clients'[c] = new
  BY <1>1 DEF OnGet
<1>4. ASSUME manager.healthy PROVE IsPart(values, log[Published])
  BY <1>1, <1>4 DEF TopicInv, IsPart, Restrict
<1>. HIDE DEF values
<1>5. /\ new.asked = FALSE /\ new.reply = <<values>> /\ new.reply # <<>> /\ new.reply[1] = values
      /\ new.inFlight = old.inFlight /\ new.seen = old.seen /\ new.revision = old.revision
      /\ new.requested = old.requested /\ new.statusNew = old.statusNew
  BY <1>1 DEF Clients
<1>. HIDE DEF old, new
<1>6. old.inFlight /\ FlightInv(new)
  BY <1>1, <1>2, <1>5 DEF ToldInv, FlightInv, old
<1>7. manager.healthy => ServedInv(new, Fetched(c), log[Published])
  BY <1>4, <1>5, <1>6 DEF ServedInv
<1>8. ToldInv(new, c)
  BY <1>1, <1>5, <1>6, <1>7 DEF ToldInv, Told, old
<1>. QED
  BY <1>2, <1>3, <1>8, OneClientKeepsNews

LEMMA StatusKeepsNews == ASSUME Inv, NewsInv, NEW c \in Client, OnStatus(c) PROVE NewsInv'
<1>1. /\ TypeOK /\ clients[c] \in Clients /\ clients \in [Client -> Clients]
      /\ TopicInv /\ ToldInv(clients[c], c)
      /\ topics.status.ready \in BOOLEAN /\ Published \in Nat
  BY DEF Inv, TypeOK, NewsInv, Statuses, Published
<1>2. /\ UNCHANGED <<manager, topics, log>>
      /\ \A d \in Client \ {c} : clients'[d] = clients[d]
  BY <1>1, NoticeEffect
<1>. DEFINE old == clients[c]
            read == [old EXCEPT !.statusNew = FALSE]
            needs == NeedsRefresh(read, topics.status)
            off == [read EXCEPT !.ready = FALSE, !.seen = FALSE]
            on == [read EXCEPT !.requested = @ \/ needs,
                               !.seen = TRUE, !.revision = topics.status.revision]
<1>3. clients'[c] = IF ~topics.status.ready THEN off ELSE on
  BY <1>1 DEF OnStatus
<1>4. CASE ~topics.status.ready
  <2>1. /\ ~off.seen /\ off.asked = old.asked /\ off.inFlight = old.inFlight
        /\ off.reply = old.reply
    BY <1>1 DEF Clients
  <2>. HIDE DEF off
  <2>2. ToldInv(off, c)
    BY <1>1, <1>4, <2>1 DEF ToldInv, FlightInv, Told, old
  <2>. QED
    BY <1>2, <1>3, <1>4, <2>2, OneClientKeepsNews
<1>5. CASE topics.status.ready
  <2>1. /\ on.seen = TRUE /\ on.revision = Published /\ on.asked = old.asked
        /\ on.inFlight = old.inFlight /\ on.reply = old.reply /\ on.ready = old.ready
        /\ on.snapshot = old.snapshot /\ on.incomplete = old.incomplete
        /\ on.requested = (old.requested \/ needs)
    BY <1>1 DEF Clients, Published
  <2>2. needs <=> ~Told(old, Published)
    BY <1>1 DEF NeedsRefresh, Told, Published, Clients
  <2>. HIDE DEF on, needs
  <2>3. manager.at # "down"
    BY <1>1, <1>5 DEF TopicInv
  <2>4. ~on.requested => Told(old, Published) /\ ~old.requested
    BY <2>1, <2>2
  <2>5. manager.healthy /\ ~on.requested => ServedInv(on, Fetched(c), log[Published])
    BY <1>1, <2>1, <2>4 DEF ToldInv, ServedInv, old
  <2>6. ToldInv(on, c)
    BY <1>1, <2>1, <2>3, <2>5 DEF ToldInv, FlightInv, Told, old
  <2>. QED
    BY <1>2, <1>3, <1>5, <2>6, OneClientKeepsNews
<1>. QED
  BY <1>4, <1>5

LEMMA ChangeKeepsNews == ASSUME Inv, NewsInv, NEW c \in Client, OnChanged(c) PROVE NewsInv'
<1>1. /\ TypeOK /\ clients[c] \in Clients /\ clients \in [Client -> Clients]
      /\ ToldInv(clients[c], c)
  BY DEF Inv, TypeOK, NewsInv
<1>2. /\ UNCHANGED <<manager, topics, log>>
      /\ \A d \in Client \ {c} : clients'[d] = clients[d]
  BY <1>1, NoticeEffect
<1>. DEFINE old == clients[c]
            wanted == topics.change \cap KeysOf[c] # {}
            new == [old EXCEPT !.changeNew = FALSE, !.requested = @ \/ wanted]
<1>3. clients'[c] = new
  BY <1>1 DEF OnChanged
<1>4. /\ new.seen = old.seen /\ new.revision = old.revision
      /\ new.inFlight = old.inFlight /\ new.asked = old.asked /\ new.reply = old.reply
      /\ new.ready = old.ready /\ new.snapshot = old.snapshot
      /\ new.incomplete = old.incomplete /\ new.statusNew = old.statusNew
      /\ new.requested = (old.requested \/ wanted)
  BY <1>1 DEF Clients
<1>. HIDE DEF new, wanted
<1>5. ToldInv(new, c)
  BY <1>1, <1>4 DEF ToldInv, FlightInv, Told, ServedInv, old
<1>. QED
  BY <1>2, <1>3, <1>5, OneClientKeepsNews

LEMMA RequestKeepsNews ==
  ASSUME Inv, NewsInv, NEW c \in Client, RefreshIfPossible(c) PROVE NewsInv'
<1>1. /\ TypeOK /\ clients[c] \in Clients /\ clients \in [Client -> Clients]
      /\ ToldInv(clients[c], c)
  BY DEF Inv, TypeOK, NewsInv
<1>2. /\ UNCHANGED <<manager, topics, log>> /\ ~clients[c].inFlight
      /\ \A d \in Client \ {c} : clients'[d] = clients[d]
  BY <1>1, NoticeEffect DEF RefreshIfPossible
<1>. DEFINE old == clients[c]
            new == [old EXCEPT !.requested = FALSE, !.inFlight = TRUE, !.asked = TRUE]
<1>3. clients'[c] = new
  BY <1>1 DEF RefreshIfPossible
<1>4. /\ new.seen = old.seen /\ new.revision = old.revision /\ new.inFlight = TRUE
      /\ new.reply = old.reply /\ new.statusNew = old.statusNew
  BY <1>1 DEF Clients
<1>. HIDE DEF new
<1>5. new.reply = <<>>
  BY <1>1, <1>2, <1>4 DEF ToldInv, FlightInv, old
<1>6. ToldInv(new, c)
  BY <1>1, <1>4, <1>5 DEF ToldInv, FlightInv, Told, ServedInv, old
<1>. QED
  BY <1>2, <1>3, <1>6, OneClientKeepsNews

LEMMA ReplyKeepsNews == ASSUME Inv, NewsInv, NEW c \in Client, OnReply(c) PROVE NewsInv'
<1>1. /\ TypeOK /\ clients[c] \in Clients /\ clients \in [Client -> Clients]
      /\ ToldInv(clients[c], c)
  BY DEF Inv, TypeOK, NewsInv
<1>2. /\ UNCHANGED <<manager, topics, log>> /\ clients[c].reply # <<>>
      /\ \A d \in Client \ {c} : clients'[d] = clients[d]
  BY <1>1, OnReplyEffect
<1>. DEFINE old == clients[c]
            values == old.reply[1]
            done == [old EXCEPT !.inFlight = FALSE, !.reply = <<>>]
            full == [done EXCEPT !.ready = TRUE, !.loaded = TRUE, !.snapshot = values,
                                 !.incomplete = FALSE]
            short == [done EXCEPT !.ready = FALSE, !.incomplete = TRUE]
            new == IF DOMAIN values = Fetched(c) THEN full ELSE short
<1>3. clients'[c] = new
  BY <1>1 DEF OnReply
<1>4. /\ new.seen = old.seen /\ new.revision = old.revision /\ new.requested = old.requested
      /\ new.asked = old.asked /\ new.statusNew = old.statusNew
      /\ ~new.inFlight /\ new.reply = <<>>
      /\ \/ new.ready = TRUE /\ new.snapshot = values /\ DOMAIN values = Fetched(c)
         \/ new.ready = FALSE /\ new.incomplete = TRUE
  BY <1>1 DEF Clients
<1>. HIDE DEF new, values
<1>5. ~old.asked
  BY <1>1, <1>2 DEF ToldInv, FlightInv, old
<1>6. manager.healthy /\ Told(new, Published) /\ ~new.requested =>
        ServedInv(new, Fetched(c), log[Published])
  BY <1>1, <1>2, <1>4 DEF ToldInv, Told, ServedInv, Fits, old, values
<1>7. ToldInv(new, c)
  BY <1>1, <1>4, <1>5, <1>6 DEF ToldInv, FlightInv, Told, old
<1>. QED
  BY <1>2, <1>3, <1>7, OneClientKeepsNews

-----------------------------------------------------------------------------
LEMMA StepKeepsNews ==
  ASSUME Inv, HistoryInv, NewsInv, [Next]_vars PROVE NewsInv'
<1>1. Inv' /\ LogGrows /\ HistoryInv'
  BY StepKeepsInv, StepKeepsHistory
<1>. QED
  BY <1>1, OpenKeepsNews, TimerKeepsNews, SetKeepsNews, WriteKeepsNews, DegradedKeepsNews,
     RefreshKeepsNews, RestartKeepsNews, GetKeepsNews, StatusKeepsNews, ChangeKeepsNews,
     RequestKeepsNews, ReplyKeepsNews DEF Next, Rollback

LEMMA HistoryIsInv == Init => HistoryInv
<1>. SUFFICES ASSUME Init PROVE HistoryInv
  OBVIOUS
<1>1. LatestIsLogged
  BY DEF Init, NoDatabase, LatestIsLogged
<1>2. Traceable(manager.values, log)
  BY NothingShape DEF Init, Down, Traceable
<1>3. \A c \in Client : ClientInv(clients[c], log)
  BY DEF Init, ClientInv, FreshClient
<1>. QED
  BY <1>1, <1>2, <1>3 DEF HistoryInv

\* A client that has nothing left to do, and calls itself ready, has the values
\* of a READY manager, whichever announcements were replaced before it saw them.
THEOREM SettledHasCurrent == Spec => []SettledIsCurrent
<1>1. Init => Inv /\ HistoryInv /\ ReadyInv /\ NewsInv
  <2>. SUFFICES ASSUME Init PROVE ReadyInv /\ NewsInv
    BY InitType, HistoryIsInv
  <2>1. PICK known \in Releases : manager = Down(known)
    BY DEF Init
  <2>2. ReadyInv
    BY <2>1 DEF Down, ReadyInv
  <2>3. /\ manager.at = "down" /\ ~manager.healthy /\ ~topics.status.ready
        /\ \A c \in Client : clients[c] = FreshClient
    BY <2>1, DownShape DEF Init, NoStatus
  <2>4. TopicInv
    BY <2>3 DEF TopicInv
  <2>5. FlightInv(FreshClient) /\ ~FreshClient.seen
    BY DEF FreshClient, FlightInv
  <2>. QED
    BY <2>2, <2>3, <2>4, <2>5 DEF NewsInv, ToldInv
<1>2. Inv /\ HistoryInv /\ ReadyInv /\ NewsInv /\ [Next]_vars
        => (Inv /\ HistoryInv /\ ReadyInv /\ NewsInv)'
  BY StepKeepsInv, StepKeepsHistory, StepKeepsReady, StepKeepsNews
<1>3. Inv /\ HistoryInv /\ ReadyInv /\ NewsInv => SettledIsCurrent
  <2>. SUFFICES ASSUME Inv, HistoryInv, ReadyInv, NewsInv, manager.at = "idle",
                       manager.state = "READY", NEW c \in Client, Settled(c)
                PROVE  IF clients[c].ready THEN Current(c) ELSE clients[c].incomplete
    BY DEF SettledIsCurrent
  <2>. DEFINE client == clients[c]
              stored == log[Published]
  <2>1. manager.healthy /\ Agrees(manager.values, db.values, manager.known)
    BY DEF ReadyInv
  <2>2. topics.status.ready /\ Published = manager.revision /\ ToldInv(client, c)
    BY <2>1 DEF NewsInv, TopicInv
  <2>3. ServedInv(client, Fetched(c), stored) /\ ~client.inFlight
    BY <2>1, <2>2 DEF Settled, ToldInv
  <2>4. stored = db.values
    BY <2>1, <2>2 DEF Inv, RevisionInv, HistoryInv, LatestIsLogged
  <2>. HIDE DEF stored
  <2>5. CASE ~client.ready
    BY <2>3, <2>5 DEF ServedInv
  <2>6. CASE client.ready
    <3>1. Fits(client.snapshot, Fetched(c), stored)
      BY <2>3, <2>6 DEF ServedInv
    <3>. DEFINE snapshot == client.snapshot
    <3>2. snapshot \in [DOMAIN snapshot -> Value]
      BY ClientFields, ConfigurationShape DEF Inv, TypeOK
    <3>3. DOMAIN snapshot = Fetched(c)
      BY <3>1 DEF Fits
    <3>4. ASSUME NEW k \in Fetched(c) PROVE snapshot[k] = manager.values[k]
      BY <2>1, <2>4, <3>1 DEF Fits, IsPart, Agrees, Fetched
    <3>. HIDE DEF snapshot
    <3>5. snapshot = Restrict(manager.values, Fetched(c))
      BY <3>2, <3>3, <3>4 DEF Restrict
    <3>. QED
      BY <2>6, <3>5 DEF Current, snapshot
  <2>. QED
    BY <2>5, <2>6
<1>. QED
  BY <1>1, <1>2, <1>3, PTL DEF Spec
=============================================================================
