# Cleanbot: specifications and proofs

TLA+ models of the control core of the Cleanbot solar-panel cleaning robot
(ROS 2, C++), model-checked with TLC and, for its central parts, proved with
TLAPS. The question behind most of it is one the code asks of itself
everywhere: *when the robot says that it stands still and may be worked on, or
that it has stopped, is that true whatever order messages, crashes and failures
come in?*

Contents: [the system](#the-system) - [components](#components) -
[plan](#plan) - [modules](#modules) - [runs](#runs) -
[fairness](#fairness) - [proofs](#proofs) - [findings](#findings) -
[not modelled](#not-modelled).

To check: `tlc -workers 2 -config X.cfg M` for a run, `tlapm M_proofs.tla` for
the proofs of a module. `PROJECT.json` lists the runs, the definitions with the
source lines each stands for, and for every property a mutation of the model
that violates it.

## The system

Nodes are single-threaded ROS 2 processes unless noted. Topics carry messages
with a bounded queue per subscriber (`qos_profiles.hpp`): commands keep the
last one and are not replayed to late subscribers, the maintenance state keeps
the last one and *is* replayed (transient local), hardware samples keep five,
command statuses twenty. Two topics are never ordered with respect to each
other.

```
 phone/HTTP, cloud           mission_manager (workers, gate, store)
      |  \                     |   ^        ^        \  /system/maintenance_state
      |   \ services/actions   |   |        |         \  (latched)
      |    +------------------>|   |        |          v
      | manual_cmd, emergency_cmd, mission_cmd, brush_cmd
      +-------------------------------> command_arbiter
                                   |        |
                     command_status|        | /control/final_cmd (keep last 1)
                                   |        v
                     hardware/status   lower_machine (ROS thread + I/O thread)
                                            |  serial line, 19/23-byte frames
                                            v
                                        motor controller
```

A *maintenance inhibitor* is requested by an updater or an operator
(`set_maintenance`), recorded durably with a new generation, announced on
`/system/maintenance_state`, turned by the arbiter into a brake that carries
the generation as `request_id`, written to the motor controller by the lower
machine, and confirmed to the mission manager by three independent streams:
the final command itself, its execution status and hardware samples that read
zero. Only then is the maintenance *ready*.

## Components

For every component: its state; its operations; what it interacts with; what is
hard about it; and what makes it correct. What is modelled of each is in
[modules](#modules); what is not, in [not modelled](#not-modelled).

### cleanbot_mission

* **Maintenance gate** (`maintenance_gate`). State: the active generation, the
  brake command it follows and whether that was acknowledged, the latched
  failure, statuses that came before their command (bounded table), the
  hardware evidence (publisher session, last frame, number of zero frames).
  Operations: restore, request, release, setMissionIdle, and one `observe` per
  evidence stream; `snapshot` gives readiness and the blocker. Hard: three
  streams without a common order, repeated and stale frames, sessions.
  Correct: ready only under an acknowledged, current brake with two distinct
  zero frames that came later; a failure is final for its request.
* **Maintenance store** (`maintenance_store`, `maintenance_store_init`). State:
  one JSON record in a file, a guard file locked with `flock`. Operations: load,
  initializeGenesis, activate, release. Callers in several processes. Hard: any
  system call fails or is the last one before a crash or a loss of power; the
  answer must still be honest. Correct: decisions are atomic, granted
  inhibitors survive, generations are never reused.
* **Maintenance runtime** (`maintenance_runtime`). State: gate, store record,
  admission, publisher tracker, last sample, fault flags and the published
  snapshot. Operations: initialize, setMissionIdle, enable, disable, four
  observers, refreshHardware. Hard: store failures after the commit point,
  allocation failures in the middle of a handler, two copies of every truth.
  Correct: record, gate, admission, snapshot and disk agree unless a fault is
  latched, and then admission stays closed.
* **Mission manager node** (`mission_manager_node`). State: the goal, one worker
  thread, flags for pause, recovery and maintenance, the last samples. The ROS
  thread answers goals, services and messages; the worker drives and looks
  between its steps at what the callbacks left behind. Hard: worker against
  callbacks, waits with deadlines, reports of an earlier target, crashes
  between driving and saving. Correct: the checkpoint tells what was driven,
  success means that everything was, nothing ordered is in force while it
  waits, a cancel is honoured.
* **Mission state machine** (`mission_state_machine`): nine phases and their
  transitions. **Checkpoints** (`mission_checkpoint`): two files, the progress
  of an interrupted mission. **Waypoint sequence, turn planning, edge guard**:
  pure algorithms.

### cleanbot_control

* **Command arbiter** (`command_arbiter_core`, `command_arbiter_node`). State: a
  slot per command source with its lease, the software stop and its boundary,
  the operator in control, the brush, the maintenance clamp, the last command
  published. Operations: one handler per topic, the configuration, a 50 ms
  timer. Hard: stops, commands and maintenance states on unordered topics,
  replays, late configuration. Correct: a stop holds until a newer operator
  command; the clamp is published at once; leases end.
* **Tracking and joystick** (`tracking_core`, `tracking_node`,
  `joystick_mapper`): control laws over floating point; the node takes a target
  with a generation and reports its end.

### cleanbot_hardware

* **Lower machine driver** (`lower_machine_node`, `lower_machine_serial`,
  `write_queue`, `frame_buffer`, `command_encoder`, `status_frame_parser`).
  State: the active command, a bounded priority queue, the port and its
  reconnection, completion flags. Two threads: ROS callbacks and an I/O thread
  whose handlers run in order. Hard: a command between the check of the
  connection and the queue while the port is lost; a callback per queue item;
  coalescing, eviction and overtaking; completion without sequence numbers.
  Correct: a brake is never lost in the queue, no command is both executed and
  refused, nothing is forgotten in an idle queue.

### cleanbot_config

* **Configuration** (`config_registry`, `sqlite_config_repository`,
  `config_manager_node`, `config_client`). State: the database with a revision,
  the manager's snapshot of it, the last status and the last change on their
  topics, and for each node its part of the values. Operations: open, set (one
  transaction, then the snapshot is read again), get, status, change; the client
  fetches when it learns of news. Hard: announcements that replace one another,
  a power loss inside a set, a read that fails half-way, a release of the
  software that does not know a key another release wrote. Correct: READY means
  complete, a client works with one committed revision, the current values
  arrive.

### cleanbot_modeling

* **Modeling** (`modeling_manager_node`, `sqlite_model_repository`,
  `region_recognizer`, `task_plan_builder`). State: models with points and
  groups as a draft and as versions, task plans, and the goals sent to the
  mission manager. Operations: twenty services, schema migrations, the hand-over
  of a plan. Hard: versions that must stay what they are while the draft is
  edited and the schema migrated; a service that waits for the mission manager
  while another thread receives its answer. Correct: versions keep their
  content, plans are of confirmed versions, a goal that timed out is cancelled.

### The rest

* **Publisher epoch tracker** (`cleanbot_common`): numbers publisher sessions
  and retires old ones, in bounded memory.
* **HTTP gateway**: sessions, joystick sequence guard, router with deadlines.
  **Cloud gateway**: MQTT, command deduplication. Hard: answers after timeouts.
* **RTK**: line and frame buffers, sample synchroniser, NTRIP reconnection.
* **Updater** (`deployment/updater`, Python): update transaction with a durable
  state and recovery; the user of the maintenance inhibitor.
* **Diagnostics, visualization, interfaces, launch, install scripts**: they
  observe, define or start the system.

## Plan

Modelled first is what protects people: the maintenance interlock and the stop.

1. Maintenance gate, with all its safety properties proved. *Done.*
2. Store: the promise, the system-call level that implements it, what it is
   worth to its callers, with the refinement and the safety properties proved.
   *Done.*
3. Publisher epochs and the maintenance runtime over the promised store, with
   all its properties proved. *Done.*
4. Command arbiter, with its safety properties proved. *Done.*
5. Write queue and lower machine driver with its two threads, with all its
   safety properties proved. *Done.*
6. Mission state machine, checkpoints, plans and the mission manager node with
   the tracking node beside it, with all its safety properties proved. *Done.*
7. Configuration with its clients, with its safety properties proved. *Done.*
8. Modeling: records, repository, services and the hand-over of plans, with
   all its safety properties proved. *Done.*
9. Next: the updater's transaction; the joystick guard and the deadlines of the
   HTTP router; the NTRIP reconnection of RTK; the composed handshake of mission
   manager, arbiter and lower machine over queues of the declared depth.

Modules meant for proofs declare no RECURSIVE operator and reach none, take
their parameters as CONSTANTS with named assumptions, and have one action per
operation.

## Modules

The maintenance components and the arbiter are written as operators on a record
of their fields (`*Ops`: one operator per method, from the state before a call
to the state after it), as a state machine over them, and as a module of proofs.
Handlers that call several methods in one go are then one action, as they are
one callback in the single-threaded executors of the nodes. Nodes with a thread
beside that of ROS (mission manager, lower machine, modeling) have an action
per step between two looks at what the threads share.

History variables (`seen`, `heard`, `newest`, `granted`, `arrived`, `told`,
`covered`, `log`) record what was delivered, published or really happened, independently
of what the component makes of it; properties relate the two. Every module
states its types in `TypeOK`; the runs do not repeat them.

| module | stands for | uses |
| --- | --- | --- |
| `MaintenanceGateOps`, `MaintenanceGate` | class `MaintenanceGate` and its callers | - |
| `MaintenanceRecords` | records, codes and decisions of the store | - |
| `AtomicMaintenanceStore` | what the store promises | `MaintenanceRecords` |
| `MaintenanceStore` | the POSIX implementation | `MaintenanceRecords`, instance of the promise |
| `MaintenanceGrants` | what callers were granted | `MaintenanceStore` |
| `PublisherEpochs` | `PublisherEpochTracker` | - |
| `MaintenanceRuntimeOps`, `MaintenanceRuntime` | class `MaintenanceRuntime` and the callbacks of the node that use it | gate, records, epochs |
| `MaintenancePublishers` | which hardware publishers the runtime really heard, and which came last | `MaintenanceRuntime` |
| `CommandArbiterOps`, `CommandArbiter` | core, maintenance coordinator and node of the arbiter | `PublisherEpochs` |
| `WriteQueue`, `LowerMachine` | queue, serial driver and node | - |
| `MissionMachine`, `MissionCheckpoint`, `MissionPlan` | state machine, checkpoint files, waypoint sequence, turns and edge guard | - |
| `MissionManager` | the mission manager node with the tracking node | the three above |
| `ConfigRegistry`, `ConfigManager` | registry; repository, manager node, topics and clients | - |
| `ModelRecords`, `ModelRepository` | models, recognition and what a plan needs; tables, transactions, migrations | - |
| `ModelingManager` | the modeling node and its hand-over of plans | the repository |
| `MC*` | values of the constants for TLC | |
| `*_proofs` | theorems | |

**Gate.** Every field of the class is a field of the record `gate`; `pending`
is the bounded table of statuses that came before their command. The three
speeds of a sample become the set of `Outputs` that read zero, `connected` is
folded into `fresh` as the code does, and generation, `request_id` and source
of a piece of evidence, which the code only compares with one another, become
one number that is 0 when they do not name one request. Commands, statuses and
samples arrive in any order and repeated.

**Store.** `MaintenanceStore` has one action per system call between which a
process can die; `file` is what the next reader sees and `entries` what a loss
of power may leave, a torn entry where the data was not synchronised.
`AtomicMaintenanceStore` has one action for the effect and one for the answer.
Temporary names are unique (`O_EXCL`, pid and sequence), so a temporary belongs
to its writer. The last generation is followed by 0, as an
unsigned number is, so that only the comparison before it keeps 0, and the
generations used before, from being granted.
`MaintenanceGrants` adds to the system calls who was told "ok"
and which of them released since.

**Runtime.** `rt` holds gate, record, admission, tracker, last sample, fault
flags, the published snapshot and the prepared emergency snapshot; `content`
and `survivors` are the promised store. `throws` in an action is an allocation
that fails where the code catches `bad_alloc`. The answer of a store call is
any that the promise allows, so that the two levels meet in one place:
`StoreResults`. The mission is the Boolean the runtime sees.
`MaintenancePublishers` keeps beside it which publishers were heard and which
appeared last, whatever the tracker made of them, so that a successor that is
ignored or wrongly retired shows.

**Arbiter.** One operator per topic handler (`OnCommand`, `OnBrush`,
`OnMaintenanceState`, `Configured`), `PublishedIfChanged` for the timer and the
calls that publish at once. A velocity is abstracted to whether it moves, a
time to a stamp, a lease to whether it still runs. No node publishes vision
commands, so the runs leave that source out. All publishers stamp their
commands, so the comparison by command id for unstamped ones is left out, as is
the clamp of the brush speed.

**Lower machine.** Two threads: `ros` is the program counter of `onCommand`,
`ready` the handlers posted to the I/O thread's strand, in order. `io` holds the
port, the connected flag both threads read, the burst in progress and the
reconnection timer. Commands are numbered in the order they are taken; their
kind decides priority and key. `finished` stands for both finished flags, of
which a kind of move uses one. A burst takes effect when its write completes.
The controller is external: it executes the last burst and keeps its finished
flag until the next move reaches it, which is how the node's reset of
`last_*_finished_` treats it.

**Mission manager.** `node` holds the members guarded by the mutex, `worker` the
place of the worker thread in `execute`, `executeTracking`, `executeTurn` and
the waits between them, with its state machine and its plan; an action of the
worker runs from one look at the shared members to the next. `goal` is the
action server's handle, whose change to "canceling" is a step of its own after
`onCancel` has returned. `disk` holds both checkpoint files, `out` what the last
orders left in force: a motion, the brush, the safety brake. `tracker` is the
tracking node: the target on its topic, the one it follows, and its reports on
the way back. A timeout is a report that has not come; a distance is "near",
"running" or "finished". `covered` records what was really driven to its end,
or given up for a contact the guard accepted.

**Configuration.** `manager` is the node with its repository, `db` the database
as SQLite keeps it: a set is a step per row, `COMMIT`, and the reading of all
values afterwards, of which any statement may fail. `topics` keep one status and
one change; a client has flags for a message, a request and a reply that are on
their way. A restart may bring another release, which knows other keys.

**Modeling.** The earth is a line of `Place`s: a point keeps where it was
sampled and its position in the model's own frame, so that the frame a plan is
laid out in can be told wrong. Whether the geometry of a group is good is left
open. The rows of version 0 are the draft. Each service is one action on the
tables, as it is one transaction, but opening an old database is one migration
after the other and generating a plan is two transactions. A `node` whose
repository is opened again (`Holding`) still has the old one until the new one is
there: a request that found the node configured and waited meanwhile is answered
from the old one when the opening fails ("overdue"). `ExecutePlan` is
three steps of the service thread beside `Response`, the action thread that
receives the mission manager's answer, and `MissionAnswers`, the manager itself.

## Runs

| run | question | bounds | distinct states |
| --- | --- | --- | --- |
| `gate` | Is readiness always earned by evidence for the current request, in whatever order it comes, and is a failure final? | generations 0..2, two command ids, one pending status, two sessions, frames 1..3 | 226,867 |
| `store` | Do the system calls keep the promise? | two callers, two requesters (symmetric), one generation | 36,447 |
| `grants` | What is an "ok" worth? | two callers, two requesters (symmetric), two generations | 513,025 |
| `runtime` | Do record, gate, admission, snapshot and disk agree under every failure? | two requesters and three publishers (symmetric), of which one may be retired, two generations, one command, frames 1..2 | 77,492 |
| `arbiter` | Do stops, clamp and leases hold in any order of topics? | four sources, stamps 1..3, two generations, two publishers, one retired, two epochs | 33,423 |
| `lower_machine` | Is the queue right under failures and reconnections? | three commands of the kinds brake, move and motion, a queue of three | 1,250,737 |
| `lower_machine_live` | Is the newest command answered? | two commands | 31,994 |
| `mission` | Does the checkpoint tell the truth, and do pauses, losses, cancels and crashes end as they should? | two missions: a cleaning of two segments, a return or a tour of two waypoints, then a recovery or a cleaning of one; two troubles; one report on its way | 709,917 |
| `config` | Do clients work with one committed revision, and get the current one? | three keys, one client, two releases, three sets, two troubles | 775,128 |
| `modeling` | Do versions stay what they are, and does a goal that timed out stay at home? | one model, one group, two places, two samples, two goals; versions, goals and failures within a load of four; new databases and two that are migrated, one of them with a plan | 361,074 |
| `old_after_brake`, `second_lap` | see [findings](#findings) | | |

Why the bounds are enough to see the interesting cases:

* *gate*: an old and a new request beside the empty one (generations), a
  command replaced by a second one (ids), a table that overflows (one pending
  status with two ids), a session that replaces another, and three frames so
  that a repeated, an older and two newer ones exist. The theorems hold for all
  values.
* *store*: two callers meet at every pair of system calls; a third adds no
  pair. One generation is enough for the activation that overflows; `grants`
  has two, so that a generation can be followed by another.
* *runtime*: with three publishers and one place in the retired table, the
  third finds it full (`Crowded`), while the second has room; two generations
  allow a release and a second request.
* *arbiter*: three stamps are a command before, at and after a stop; three
  operator-like sources can take control from one another; two generations and
  two sessions let a replayed state meet a newer one.
* *lower machine*: three commands and the driver's own stop are four bursts for
  a queue of three; all kinds of priorities and keys can meet there. The real
  capacity is larger, the queue's logic does not depend on it.
* *mission*: two segments have an end that is not the end of the mission; the
  second mission meets what the first left on the disk, in the tracking node
  and on the way; two troubles are a pause during a loss, or a crash during a
  recovery (`MaxTrouble`). `second_lap` has a run of two laps of its own.
* *config*: a required key, a switch and a key it needs are the three roles the
  registry knows; the first release does not know the last. Three sets let an
  announcement be replaced before a client has seen it.
* *modeling*: one boundary point makes an area (`Corners`; four in the code), so
  that two samples in two places make two areas and a move of the origin shows;
  two goals can be on their way at the same time. The database of the first
  release brings a plan along, which its migration leaves where it was.

Every property is broken by a mutation of the model that stands for a plausible
bug; `PROJECT.json` lists them. Deadlock is checked in `store`, `grants` and
`arbiter`; that `store` has none says that the guard's `flock` is released on
every way out. The other models may stop, because their environment can be used
up: all frames or commands given, missions over, bounds of sets, samples and
goals reached.

## Fairness

* *Arbiter*: weak fairness of `Tick`. The node creates a wall timer of 50 ms that
  is never cancelled. Nothing is assumed of the sources: that they go silent is
  the point of `LeasedMotionEnds`.
* *Lower machine*: weak fairness of each thread (`RosThread`, `IoThread`): a
  handler that was posted is run, and an asynchronous write completes or fails.
  Reconnection, new commands and the controller are not fair. A command may be
  followed by a newer one, so `NewestIsAnswered` speaks of the newest.
* *Mission manager*: weak fairness of the worker, which is a thread of its own;
  of the action server's step after `onCancel`; and of position fixes arriving,
  valid or not, at the rate of the receiver. The last is needed because the
  wake-up of `onCancel` can be lost (see below): then the next message of any
  kind wakes the worker. Neither reports nor statuses have to arrive.
* *Configuration*: weak fairness of the manager's steps and of each client's
  message, request and reply, whose queues ROS delivers; no set and no failure
  has to happen. A fetch that was answered with less than it asked for is not
  repeated by the code, and `ConfigReachesClients` says so.
* *Modeling*: weak fairness of the service thread, whose wait has a deadline of
  its own, and of the action thread receiving a response that was sent. The
  mission manager need not answer.

All other properties are safety properties and need none; `StaleReadinessEnds`
is stated of the timer's step itself.

## Proofs

TLAPS proves the following for all values of the constants that satisfy the
named assumptions: generations, frames and stamps are naturals, no name is one
that the code uses for "nobody", bounds are naturals. No assumption bounds how
many there are.

* `MaintenanceGate_proofs`: `TypeCorrect`, `ReadyCorrelated`, `ReadyConfirmed`,
  `FailureLatched`, `WaitingIsBounded`, `StatusOrderKept`: every property of the
  run `gate`.
  - *Readiness is correlated.* The property alone is not inductive: that the
    brake was acknowledged must be known before readiness, also for statuses
    that came early and wait in `pending`. `CorrelationInv` says so of every
    gate that heeds its request: its flags and its table claim nothing that was
    not delivered. `CorrelationStep` has a case per action; helpers state how
    each method changes the fields, so that no case expands the records.
  - *Readiness is confirmed.* `ConfirmationInv` bounds the frames the gate can
    have counted: as many distinct ones, of its session and above the frame at
    which the confirmation started over, were delivered. The hard case is a
    hardware sample (`HardwareConfirmationStep`), split by session, order and
    zero.
  - *A failure is latched.* An action property: `EvidenceKeepsRequest` and
    `OwnerRequests` say which methods touch which fields.
  - *The order of a status and its command.* A status either settles the brake
    that is applied (`CurrentStatus`) or is remembered (`EarlyStatus`), and the
    command settles what was remembered. Both orders end in a refusal, in an
    acknowledgement that nothing has confirmed yet, or in the same gate
    (`OutcomesAgree`); a remembered refusal outlives a later acknowledgement.
    That there is room is a comparison with the number of statuses that wait,
    which `WaitingIsBounded` shows to be finite and never above the capacity.
  - The module also holds the types of all operators of the gate and what its
    methods leave alone; those that the runtime needs are repeated there.
* `MaintenanceStore_proofs`: `TypeCorrect`, `StoreSafe`, `StoreKeepsPromise`,
  and over `MaintenanceGrants` `GrantsInvariant`, `GrantsDurable`, `GrantsNew`,
  `ReadabilityKept`: every property of the runs `store` and `grants`, for any
  number of callers, requesters and generations.
  - *The system calls.* `StoreInv` says that every entry a loss of power may
    leave is whole, that a caller between the lock and the answer holds the
    guard, that what it is about to write is still the decision on the file as
    it is, and that after its commit the file holds its record, alone once the
    directory is synchronised. `OthersKept` shows once that a step of one caller
    keeps this of the others; without the guard a decision would be stale.
  - *The refinement.* `StoreKeepsPromise` (`Spec => KeepsPromise`):
    `PromiseStep` maps each system call to a step of `AtomicMaintenanceStore` or
    to none. The rename is its `Publish`, the synchronised directory its
    `Harden`, the answer its `Decline`, `Fail` or `Confirm`; a failure of the
    directory's synchronisation is not seen until it is answered. `StoreInv` is
    needed at the rename (the decision) and at the answer (what is claimed).
  - *What was granted.* `GrantInv` adds to `GrantsAreDurable` that every granted
    generation lies in the past of all that may survive, that a committed
    activation which is not yet answered has a generation of its own, and that
    an unreadable content is the only one that can survive. Readability is about
    a loss of power too: what it leaves is unreadable only if the file already
    was, and a readable one is there afterwards if it was hard or a granted
    inhibitor vouches for it (`ReadabilityKept`).
* `MaintenanceRuntime_proofs`: `TypeCorrect`, `AgreesDisk`, `InhibitorBraked`,
  `SuccessorsHeeded`, `FaultStays`, `StaleEnds`: everything the run `runtime`
  checks, and `LivePublisher`, on which `SuccessorsHeeded` rests. `Inv` says
  that a runtime is new, `Healthy` (aligned with the state file, publishing what
  its gate says, with a spare snapshot that is not ready) or `Faulty` and
  `Braked`; and that its gate's evidence is `Evident`: fresh evidence belongs to
  an acknowledged request and to the publisher that is current, whose last
  sample it is. None of the properties is inductive without that:
  `InhibitorIsBraked` depends on what the runtime was before the store failed,
  and `StaleReadinessEnds` on the spare snapshot that is shown when memory runs
  out. `Waiting` describes a runtime while the store is asked;
  `ActivationOutcome` and `ReleaseOutcome` say what the store may answer it.
  `FaultStays` covers what is shown: closed, not ready, unchanged until the
  process restarts, and without the mark of a fault only after a second failing
  allocation (see the findings). `SuccessorsHeeded` compares the tracker with
  what was heard: its invariant `Roll` says that the tracker knows no publisher
  that was not heard and, unless more came than it has epochs or places for
  (`Full`), has a place for each of them and follows the one that appeared last
  (`Enrolled`).
* `CommandArbiter_proofs`: `TypeCorrect`, `StopKept`, `LastIntentMoves`,
  `ClampPublished`, `ReleasedKept`. `Sound` relates the core to what was heard:
  the boundary of the stop is the newest stop, only a source whose intent was
  the last to be accepted is in control, and released generations lie behind
  the gate; `LastInv` says what was published last: the configuration's brake
  before there is one, the maintenance brake of the gate's generation while it
  is closed, nothing that moves or brushes under a stop, and no operator's
  motion but that of the last intent.
* `LowerMachine_proofs`: `TypeCorrect`, `NothingLeftBehind`, `WaitingOrdered`,
  `RefusedNotExecuted`, `BrakeKept`.
  - *The queue.* `EnqueueSettles` says what `enqueue` does to any queue in
    order: at most one waiting item has the key of the new one, so the first
    found is the only one; what is dropped was waiting and is gone; and the new
    item's place (`PositionIs`) keeps the order. That `First` finds a least
    element is derived from the well-foundedness of set inclusion
    (`FirstIsLeast`).
  - *The driver.* `Arrival` says that commands travel from the ROS thread over
    the posted handlers into the queue in the order in which they were taken,
    and `SpentInv` that a command which was refused, written or executed is
    nowhere on that way; `RefusedIsNotExecuted` is not inductive without both.
  - *Brakes.* `BrakeKept` assumes a capacity of three or more, and needs it: the
    front, the driver's own stop and a brake are never given up, so a brake
    would be refused by a full queue of two. The code's capacity is
    32 (`kMaxWriteQueueSize`).
* `MissionManager_proofs`: `TypeCorrect`, `CheckpointsAreTrue`,
  `SuccessMeansDriven`, `WaitsStopped`, `PausesPromptly`, `MachineNeverRefuses`,
  `DrivenCanBeRecovered`: every safety property of the run `mission`, for plans
  of any length, any number of laps, missions and pauses. All of them follow from
  one inductive invariant, `IInv`, in three parts.
  - `Control`: what node, worker, goal, orders and machine know of one another.
    `GoalInv` ties the goal to where the worker is, `MachineInv` gives the phase
    of the state machine for each place of the worker, `OutInv` the orders in
    force there. Here lie `WaitingIsStopped`, `PauseIsPrompt` and
    `MachineFollows`.
  - `Mission`: `DiskInv` (what the files hold is valid, claims nothing undriven,
    and is the record of the run that is driven), `RecordInv`, `ProgressInv`
    (what the worker has counted is in `covered`), `TourInv` for waypoints, and
    `SuccessInv`: at the two places where a goal can succeed, all that was asked
    for is covered.
  - `TrackInv`: a report that the manager would believe is about the target it
    waits for. Generations come from a small set and are taken again; a target
    on its way, the one on the topic and a report hold at most three of them
    (`FreshGeneration`), so that the next one is nobody's, and a late report is
    told from one of the target that is waited for.
  - `MissionKept` is for the many steps that the mission does not notice;
    `LapDriven` says that a lap of which every segment is covered is done.
  `PlanAssumption` says that a return has one segment and one lap, as the code
  builds it (`mission_manager_node.cpp:1143`); the invariant needs it where a
  recovered return is completed. A segment that is given up for an early contact
  (see the findings, and `MayBeGivenUp`) is in `covered` too: "driven" in
  `SuccessMeansDriven` means driven to the end or given up, and these theorems
  do not rule the early contact out.
* `ConfigManager_proofs`: `TypeCorrect`, `RevisionKept`, `SnapshotTraced`,
  `ReadyMeansComplete`, `SettledHasCurrent`: every safety property of the run
  `config`. `RevisionInv` says that a healthy manager knows the
  revision of the database, which makes a commit append to the history;
  `HistoryInv` traces the manager's values, every reply on its way and every
  client's values to one entry of it; `ReadyInv` follows READY through a set.
  `NewsInv` is about the announcements, which replace each other: the manager's
  values are a part of the revision on the status topic until those of a commit
  have been read (`TopicInv`); a client that was told of that revision and
  wishes for nothing has its values, or they are on their way, or an answer was
  incomplete (`ToldInv`, `ServedInv`). No revision a client has seen is beyond
  the published one, so that a new one is never taken for one it knows.
* `ModelingManager_proofs`: `TypeCorrect`, `DraftsStayInFrame`,
  `PlansStayOfVersions`, `VersionsStay`, `PlannedWasConfirmed`, `AnswerKept`:
  every safety property of the run `modeling`.
  - *The database.* `DbInv` says that it is `Consistent`: tables keyed by each
    other, drafts in the frame of their origin, plans of versions that
    are there; that a node which is ready has the current schema; and
    that a plan is being made of a version that exists. The properties are not
    inductive alone: a draft stays in its frame only if a model that has points
    has an origin, and a plan keeps its version only because a new version's
    number is beyond every one there is (`NextVersionIsNew`) and a deletion
    takes the plans along.
  - One lemma for each transaction (`SaveDraftKeeps`, `DeleteKeeps`,
    `SaveVersionKeeps`, `SavePlanKeeps`, `CreatedKeeps`, `FirstMigrationKeeps`,
    `SecondMigrationKeeps`) shows that it keeps the database consistent and the
    content of all versions. The edits come down to one fact each: what is
    written is a model with its points in one frame (`IsModel`). The actions
    then add nothing but the states of node and service.
  - *Old databases* (`ManagerAssumption`) are `Consistent`, each by the rules of
    its release; they may hold plans, and nothing is assumed of where those
    lead. `PlansStayOfVersions` says of every database that its plans are of
    versions that are there, that a new plan is laid out as its version is, and
    that the two agree from then on. The one exception is stated in the property:
    the migration from schema 1 moves the points of the versions and leaves the
    plans (see the findings). `KeepsPlans` is the part of each lemma on a
    transaction that this needs.
  - *The answer.* `GoalInv` gives the states a goal can be in with the two flags,
    and `NewestInv` ties the service thread's wait to the newest goal, so that
    the threads cannot both answer or both cancel.

Only model-checked: the liveness properties, which are out of the prover's
reach. Every safety property that a passing run checks is proved.

## Findings

Disagreements between a statement of the repository and what its code does,
each a run that ends in a counterexample:

1. `old_after_brake`: a brake overtakes a waiting motion, which is executed
   after it (`write_queue.cpp:90`). `qos_profiles.hpp:13` says of the command
   topic that feeds the driver that only the newest command is kept, so that no
   old one is executed late; the driver's queue behind it keeps older ones. For
   that queue `tests/test_hardware_write_queue_runtime.py:66-81` accepts a move
   that waits behind a brake, so the repository says both.
2. `second_lap`: the checkpoint of a cleaning counts the segments of all laps,
   and a record that has completed more than there are in one lap is refused
   (`mission_checkpoint.cpp:64`): a run of several laps fails after the first
   segment of the second (`test_mission_checkpoint.cpp:149`).

Seen while modelling, without a run of their own.

*Maintenance and arbiter*

* A zero sample from before the brake is fed to the gate again by the timer and
  counts as the first of the two confirming frames (`maintenance_runtime.cpp:352`;
  compare `test_maintenance_gate.cpp:343`).
* `latchEmergencyFault` exchanges two snapshots, so a second failing allocation
  in one handler shows the state from before the fault again
  (`maintenance_runtime.cpp:688`): closed and not ready, but without the mark of
  a fault. `FaultIsFinal` allows exactly that.
* An emergency stop before the configuration leaves no trace
  (`command_arbiter_node.cpp:109`), nor does any stop in an arbiter that
  restarts: its state is in memory only.
* A brush command issued before a stop and delivered after it turns the brush on
  with the next resumption (`command_arbiter_core.cpp:197`).

*Lower machine*

* A command posted between the connected flag and the driver's stop is written
  before the stop (`lower_machine_serial.cpp:283`; `lower_machine_node.cpp:315`).
* A frame that still shows the previous move's flag completes the new move
  (`lower_machine_node.cpp:163`).
* `handleTransportError` clears the queue without calling the callbacks, so
  commands other than the active one get no verdict
  (`lower_machine_serial.cpp:257`).

*Missions*

* A contact that is judged by the distance in a report from before the first fix
  on the target completes a segment that was not driven
  (`mission_manager_node.cpp:1882`, `tracking_node.cpp:106`).
* `onCancel` notifies without the mutex and before the goal is canceling: the
  wake-up can be lost, and a paused worker sees the cancel when the next message
  arrives.
* A tracking node without configuration answers with the previous generation,
  which the mission manager ignores; that wait has no deadline.
* A cancel does not clear the checkpoint, though `mission_checkpoint.hpp:62` says
  so; a turn that is started again after a pause is the full relative turn, and
  tracking that is started again does not repeat the turn.

*Configuration*

* Defaults are written by `create_schema` only, so a key that a later release adds
  has none in an existing database (`config_repository.hpp:39`); a release that
  does not know a key in the database reports ERROR; any failed write leaves the
  manager DEGRADED until it restarts; a switch that is turned on before the key it
  needs is ERROR; a fetch that was incomplete is not tried again.

*Modeling*

* The first migration moves the points of all versions and leaves the plans that
  were made of them (`sqlite_model_repository.cpp:463-504`): such a plan leads
  elsewhere than its version from then on. The models of that release had no
  origin to lay a plan out from, but nothing checks that there is none.
* A request that waits while the repository is opened again is answered from the
  old one when the opening fails (`modeling_manager_node.cpp:734`).
* `load_version` takes the origin of the draft (`sqlite_model_repository.cpp:928`),
  so the versions of a model that was deleted and made again under its name are
  laid out elsewhere, although `:593` calls a version immutable.
* The migration to schema 3 announces that groups "require re-recognition" by
  a text only; a recognition that fails saves the group and leaves the model's
  flag; `onGeneratePlan` with version 0 saves a version nobody confirmed. None
  of these becomes a plan: the builder looks at every group (`PlannedIsConfirmed`).
* `save_plan` replaces a plan of the same version and with it the preview that was
  confirmed; the fingerprint of a plan leaves out the origin.
* The number of samples may be set to 1000, the buffer keeps 500; whether the
  vehicle stands is taken from the last message however old it is; transfers
  inside a concave area are not checked against its edge.
* If the process dies while it waits for the mission manager, the mission goes on.

## Not modelled

* *Floating point*: control laws, geometry, edge and waypoint computations.
  Their results enter as free choices where a modelled component uses them.
* *Encodings*: frames, JSON, SQL and ROS messages. A frame enters as what the
  parser takes from it; a state file as readable, of another version or
  unreadable; a database as its rows.
* *Windows*: the store's other implementation, and the length checks of
  requester and reason.
* *Process shutdown* and destructors of the lower machine; the publication of
  `HardwareStatus`, whose samples the gate and the runtime take as inputs; the
  mission manager's markers, idle heartbeats and vehicle state, which report.
* *Restarts of the arbiter*: its state is in memory only, a restart is `Init`.
  No document says what it keeps.
* *QoS profiles*: topics have, where they are used, the depth the profile gives.
* *HTTP and cloud gateway, RTK*: transports, parsers and transforms. What they send
  to the modelled nodes is an input of theirs; their own deadlines, deduplication
  and reconnection are not modelled.
* *Updater*: Python beside the nodes; its transaction is the next module of the
  plan.
* *Diagnostics, visualization, interfaces, launch files and installation scripts*
  keep no state that others depend on.
