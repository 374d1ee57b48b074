----------------------------- MODULE ConfigManager -----------------------------
(***************************************************************************)
(* The configuration: ConfigManagerNode over a SQLite database, and the    *)
(* ConfigClient of every other node, which fetches its keys when a status  *)
(* or a change announces news.  Both topics keep their last message only.  *)
(*                                                                         *)
(* The manager handles one request after the other, but a set is many      *)
(* statements, and the power may go between any two of them.  SQLite       *)
(* itself is external: a transaction counts from its COMMIT on.            *)
(*                                                                         *)
(* log is a history: what each revision stood for when it was committed.   *)
(***************************************************************************)
EXTENDS ConfigRegistry, Naturals

CONSTANTS
  Client, KeysOf,  \* the clients and the keys each of them fetches
  Updates,         \* bound: what a set may ask for
  Releases,        \* the keys known to each release of the software
  MaxSets,         \* bound: sets in a behaviour
  MaxTrouble       \* bound: failures, losses of power and changes of release

ASSUME ManagerAssumption ==
  /\ KeysOf \in [Client -> SUBSET Key]
  /\ \A c \in Client, known \in Releases : KeysOf[c] \cap known # {}
  /\ Updates \subseteq Configurations
  /\ Releases \subseteq SUBSET Key
  /\ \A known \in Releases : Needs \cap known # {} => Switch \in known
  /\ MaxSets \in Nat /\ MaxTrouble \in Nat

VARIABLES
  db,       \* the database: none, or its values and its revision
  manager,  \* the node and its repository
  topics,   \* the last status and the last change that were published
  clients,  \* for each client its members, and what is on its way to it
  log, sets, trouble

vars == <<db, manager, topics, clients, log, sets, trouble>>

NoDatabase == [created |-> FALSE, values |-> Nothing, revision |-> 0]
NoStatus == [sent |-> FALSE, ready |-> FALSE, revision |-> 0]
Down(known) ==
  [at |-> "down", known |-> known, state |-> "STARTING", healthy |-> FALSE,
   revision |-> 0, values |-> Nothing, updates |-> Nothing, rows |-> {}]
FreshClient ==
  [seen |-> FALSE, revision |-> 0, requested |-> FALSE, inFlight |-> FALSE,
   asked |-> FALSE, reply |-> <<>>, ready |-> FALSE, loaded |-> FALSE, snapshot |-> Nothing,
   incomplete |-> FALSE,  \* history: the last response was incomplete
   statusNew |-> FALSE, changeNew |-> FALSE]

Init ==
  /\ db = NoDatabase
  /\ \E known \in Releases : manager = Down(known)
  /\ topics = [status |-> NoStatus, change |-> {}]
  /\ clients = [c \in Client |-> FreshClient]
  /\ log = Nothing
  /\ sets = 0 /\ trouble = 0

Trouble == trouble < MaxTrouble /\ trouble' = trouble + 1

-----------------------------------------------------------------------------
(* The manager.                                                            *)

\* read_all: an error in between leaves what was read so far.
Parts(stored) == {Restrict(stored, K) : K \in SUBSET DOMAIN stored}
ReadAll(stored, values) ==
  /\ values \in Parts(stored)
  /\ IF values = stored THEN UNCHANGED trouble ELSE Trouble

\* Mutant of Missing: a key with a default need not be there.
MissingRequiredOnly(values, known) == MissingRequired(values, known)

Missing(values, known) ==
  MissingRequired(values, known) \cup (DOMAIN DefaultsOf(known) \ DOMAIN values)

\* evaluate_configuration.
Evaluated(m) ==
  [m EXCEPT !.state = IF AllValid(m.values, m.known) /\ Missing(m.values, m.known) = {}
                      THEN "READY" ELSE "ERROR"]

\* publish_status.
PublishStatus(m) ==
  /\ topics' = [topics EXCEPT !.status = [sent |-> TRUE, ready |-> m.state = "READY",
                                          revision |-> m.revision]]
  /\ clients' = [c \in Client |-> [clients[c] EXCEPT !.statusNew = TRUE]]

\* create_schema, in one transaction: the defaults of the release that
\* creates the database.
WithSchema == IF db.created THEN db
              ELSE [created |-> TRUE, values |-> DefaultsOf(manager.known), revision |-> 0]

\* The constructor, with open_and_initialize.
OpenAndInitialize ==
  /\ manager.at = "down"
  /\ \/ /\ db' = WithSchema
        /\ log' = IF db.created THEN log ELSE [r \in {0} |-> WithSchema.values]
        /\ \E values \in Parts(WithSchema.values) :
             /\ ReadAll(WithSchema.values, values)
             /\ manager' = Evaluated([manager EXCEPT
                             !.at = "idle", !.healthy = TRUE,
                             !.values = values, !.revision = WithSchema.revision])
     \/ /\ Trouble
        /\ manager' = [manager EXCEPT !.at = "idle", !.state = "ERROR"]
        /\ UNCHANGED <<db, log>>
  /\ PublishStatus(manager')
  /\ UNCHANGED sets

\* The timer, every second.
StatusTimer ==
  /\ manager.at = "idle"
  /\ PublishStatus(manager)
  /\ UNCHANGED <<db, manager, log, sets, trouble>>

\* What write_values finds to be changed.
Changed(updates, existing) ==
  {k \in DOMAIN updates : k \notin DOMAIN existing \/ existing[k] # updates[k]}

\* A failure that is not the caller's: no more sets until the next start.
Degrades ==
  /\ manager' = [manager EXCEPT !.at = "idle", !.state = "DEGRADED", !.healthy = FALSE,
                                !.updates = Nothing, !.rows = {}]
  /\ PublishStatus(manager')

\* on_set, up to the transaction.  The values are read once more, perhaps not
\* all of them: a row that was not read is written again.
OnSet(updates) ==
  /\ manager.at = "idle" /\ manager.healthy /\ sets < MaxSets
  /\ sets' = sets + 1
  /\ IF ~AllValid(updates, manager.known)
     THEN UNCHANGED <<manager, topics, clients, trouble>>
     ELSE \/ /\ \E existing \in Parts(db.values) :
                  LET changed == Changed(updates, existing)
                  IN  /\ ReadAll(db.values, existing)
                      /\ manager' = [manager EXCEPT
                                       !.at = IF changed = {} THEN "refresh" ELSE "writing",
                                       !.updates = Restrict(updates, changed)]
             /\ UNCHANGED <<topics, clients>>
          \/ Trouble /\ Degrades
  /\ UNCHANGED <<db, log>>

\* The stored values with some of the rows to be written.
Written(rows) ==
  [k \in DOMAIN db.values \cup rows |->
     IF k \in rows THEN manager.updates[k] ELSE db.values[k]]

\* The keys are written in an order of their own.
RowsLeft == DOMAIN manager.updates \ manager.rows
NextRow == CHOOSE k \in RowsLeft : TRUE

\* Mutant of WriteRow: every row is a transaction of its own.
AutoCommitRow ==
  /\ manager.at = "writing" /\ RowsLeft # {}
  /\ manager' = [manager EXCEPT !.rows = @ \cup {NextRow}]
  /\ db' = [db EXCEPT !.values = Written({NextRow})]
  /\ UNCHANGED <<topics, clients, log, sets, trouble>>

\* One row of the transaction: value_text, with the revision to come.
WriteRow ==
  /\ manager.at = "writing" /\ RowsLeft # {}
  /\ manager' = [manager EXCEPT !.rows = @ \cup {NextRow}]
  /\ UNCHANGED <<db, topics, clients, log, sets, trouble>>

\* Mutant of NextDatabase: the revision is not counted.
UncountedDatabase == [db EXCEPT !.values = Written(manager.rows)]

NextDatabase ==
  [db EXCEPT !.values = Written(manager.rows), !.revision = manager.revision + 1]

\* The revision in config_metadata, and the COMMIT.
Commit ==
  /\ manager.at = "writing" /\ manager.rows = DOMAIN manager.updates
  /\ db' = NextDatabase
  /\ log' = [r \in DOMAIN log \cup {NextDatabase.revision} |->
               IF r = NextDatabase.revision THEN NextDatabase.values ELSE log[r]]
  /\ manager' = [manager EXCEPT !.at = "refresh", !.revision = @ + 1]
  /\ UNCHANGED <<topics, clients, sets, trouble>>

\* A statement fails, and the transaction is rolled back.
Rollback ==
  /\ manager.at = "writing" /\ Trouble
  /\ Degrades
  /\ UNCHANGED <<db, log, sets>>

\* on_set, after the write: the values are read again and the change and the
\* status are published, with an empty change when nothing had to be written.
Refresh ==
  /\ manager.at = "refresh"
  /\ \E values \in Parts(db.values) :
       /\ ReadAll(db.values, values)
       /\ manager' = Evaluated([manager EXCEPT !.at = "idle", !.values = values,
                                               !.updates = Nothing, !.rows = {}])
  /\ topics' = [status |-> [sent |-> TRUE, ready |-> manager'.state = "READY",
                            revision |-> manager'.revision],
                change |-> DOMAIN manager.updates]
  /\ clients' = [c \in Client |-> [clients[c] EXCEPT !.statusNew = TRUE, !.changeNew = TRUE]]
  /\ UNCHANGED <<db, log, sets>>

\* The keys a client asks for: it is of the same release as the manager.
Fetched(c) == KeysOf[c] \cap manager.known

\* on_get, for the keys of a client.
OnGet(c) ==
  /\ manager.at = "idle" /\ clients[c].asked
  /\ clients' = [clients EXCEPT ![c].asked = FALSE, ![c].reply =
                   <<Restrict(manager.values, Fetched(c) \cap DOMAIN manager.values)>>]
  /\ UNCHANGED <<db, manager, topics, log, sets, trouble>>

-----------------------------------------------------------------------------
(* A client.                                                               *)

\* Mutant of NeedsRefresh: a status counts the first time only.
FirstTime(client, status) == ~client.seen

\* on_status: the revision tells of changes whose announcement was replaced.
NeedsRefresh(client, status) == ~client.seen \/ status.revision # client.revision

OnStatus(c) ==
  /\ clients[c].statusNew
  /\ LET status == topics.status
         client == [clients[c] EXCEPT !.statusNew = FALSE]
     IN  clients' = [clients EXCEPT ![c] =
           IF ~status.ready THEN [client EXCEPT !.ready = FALSE, !.seen = FALSE]
           ELSE [client EXCEPT !.requested = @ \/ NeedsRefresh(client, status),
                               !.seen = TRUE, !.revision = status.revision]]
  /\ UNCHANGED <<db, manager, topics, log, sets, trouble>>

OnChanged(c) ==
  /\ clients[c].changeNew
  /\ clients' = [clients EXCEPT
                   ![c].changeNew = FALSE,
                   ![c].requested = @ \/ topics.change \cap KeysOf[c] # {}]
  /\ UNCHANGED <<db, manager, topics, log, sets, trouble>>

\* Mutant of RefreshIfPossible: the wish is struck off before the look at the
\* request under way.
RefreshOrForget(c) ==
  /\ clients[c].requested
  /\ clients' = [clients EXCEPT ![c].requested = FALSE,
                                 ![c].inFlight = TRUE, ![c].asked = @ \/ ~clients[c].inFlight]
  /\ UNCHANGED <<db, manager, topics, log, sets, trouble>>

RefreshIfPossible(c) ==
  /\ clients[c].requested /\ ~clients[c].inFlight
  /\ clients' = [clients EXCEPT ![c].requested = FALSE,
                                 ![c].inFlight = TRUE, ![c].asked = TRUE]
  /\ UNCHANGED <<db, manager, topics, log, sets, trouble>>

\* The response: incomplete, it leaves the last snapshot as it is.
OnReply(c) ==
  /\ clients[c].reply # <<>>
  /\ LET values == clients[c].reply[1]
         client == [clients[c] EXCEPT !.inFlight = FALSE, !.reply = <<>>]
     IN  clients' = [clients EXCEPT ![c] =
           IF DOMAIN values = Fetched(c)
           THEN [client EXCEPT !.ready = TRUE, !.loaded = TRUE, !.snapshot = values,
                               !.incomplete = FALSE]
           ELSE [client EXCEPT !.ready = FALSE, !.incomplete = TRUE]]
  /\ UNCHANGED <<db, manager, topics, log, sets, trouble>>

-----------------------------------------------------------------------------
\* The service starts again, with the same release or with another one.
Restart(known) ==
  /\ Trouble
  /\ manager' = Down(known)
  /\ topics' = [status |-> NoStatus, change |-> {}]
  /\ clients' = [c \in Client |-> FreshClient]
  /\ UNCHANGED <<db, log, sets>>

Next ==
  \/ OpenAndInitialize \/ StatusTimer
  \/ \E updates \in Updates : OnSet(updates)
  \/ WriteRow \/ Commit \/ Rollback \/ Refresh
  \/ \E c \in Client : OnGet(c) \/ OnStatus(c) \/ OnChanged(c) \/ RefreshIfPossible(c) \/ OnReply(c)
  \/ \E known \in Releases : Restart(known)

Spec == Init /\ [][Next]_vars

\* Requests are answered, messages delivered and timers run; nobody has to set
\* anything, and nothing has to fail.
FairSpec ==
  /\ Spec
  /\ WF_vars(OpenAndInitialize) /\ WF_vars(WriteRow) /\ WF_vars(Commit) /\ WF_vars(Refresh)
  /\ \A c \in Client : /\ WF_vars(OnGet(c)) /\ WF_vars(OnStatus(c)) /\ WF_vars(OnChanged(c))
                       /\ WF_vars(RefreshIfPossible(c)) /\ WF_vars(OnReply(c))

-----------------------------------------------------------------------------
(* What the configuration promises.                                        *)

Managers ==
  [at : {"down", "idle", "writing", "refresh"}, known : Releases,
   state : {"STARTING", "READY", "ERROR", "DEGRADED"}, healthy : BOOLEAN,
   revision : Nat, values : Configurations, updates : Configurations, rows : SUBSET Key]
Statuses == [sent : BOOLEAN, ready : BOOLEAN, revision : Nat]
Replies == {<<>>} \cup {<<values>> : values \in Configurations}
Clients ==
  [seen : BOOLEAN, revision : Nat, requested : BOOLEAN, inFlight : BOOLEAN, asked : BOOLEAN,
   reply : Replies,
   ready : BOOLEAN, loaded : BOOLEAN, snapshot : Configurations, incomplete : BOOLEAN,
   statusNew : BOOLEAN, changeNew : BOOLEAN]

\* Types; and every revision so far has its place in the history.
TypeOK ==
  /\ db \in [created : BOOLEAN, values : Configurations, revision : Nat]
  /\ manager \in Managers /\ manager.rows \subseteq DOMAIN manager.updates
  /\ manager.at \in {"down", "idle"} => manager.rows = {}
  /\ topics \in [status : Statuses, change : SUBSET Key]
  /\ clients \in [Client -> Clients]
  /\ log \in [IF db.created THEN 0 .. db.revision ELSE {} -> Configurations]
  /\ sets \in 0 .. MaxSets /\ trouble \in 0 .. MaxTrouble

\* A manager that reports READY has, of every key the release knows, the value
\* in the database, and nothing is missing: also when a read failed half-way.
ReadyIsComplete ==
  manager.at = "idle" /\ manager.state = "READY" =>
    /\ manager.revision = db.revision /\ MissingRequired(db.values, manager.known) = {}
    /\ \A k \in manager.known \cap DOMAIN db.values :
         k \in DOMAIN manager.values /\ manager.values[k] = db.values[k]

\* What a node works with is a part of one committed revision: never half of
\* one set and half of another, whatever failed and whenever the power went.
SnapshotIsOfOneRevision ==
  \A c \in Client : clients[c].loaded =>
    \E r \in DOMAIN log : clients[c].snapshot = Restrict(log[r], DOMAIN clients[c].snapshot \cap DOMAIN log[r])

\* A client that has nothing left to do and calls itself ready has the current
\* values, although the announcements of earlier changes may have been replaced
\* before it saw them; and it is ready unless its last fetch was incomplete.
Settled(c) ==
  /\ ~clients[c].statusNew /\ ~clients[c].changeNew
  /\ ~clients[c].requested /\ ~clients[c].inFlight
Current(c) == clients[c].snapshot = Restrict(manager.values, Fetched(c))
SettledIsCurrent ==
  manager.at = "idle" /\ manager.state = "READY" =>
    \A c \in Client : Settled(c) =>
      IF clients[c].ready THEN Current(c) ELSE clients[c].incomplete

\* A revision stands for one configuration for ever: write_values never counts
\* a second content under a number that clients may have seen.
RevisionIsNotReused ==
  [][\A r \in DOMAIN log : r \in DOMAIN log' /\ log'[r] = log[r]]_log

\* The clients of a manager that stays READY get its values in the end, unless
\* a fetch was answered with less than it asked for: that is not tried again.
ConfigReachesClients ==
  \A c \in Client :
    manager.state = "READY" ~>
      (manager.state # "READY" \/ (clients[c].ready /\ Current(c)) \/ clients[c].incomplete)

=============================================================================
