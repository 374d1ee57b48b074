----------------------------- MODULE LowerMachine -----------------------------
(***************************************************************************)
(* LowerMachineNode and LowerMachineSerial: the ROS thread takes commands  *)
(* and hands them to an I/O thread, which owns the port, the write queue   *)
(* and the reconnection and runs the handlers posted to it in order.  The  *)
(* threads share the connected flag and the record of the active command.  *)
(*                                                                         *)
(* Outside is the motor controller, as the code uses it: it executes the   *)
(* last command it was sent and shows in its status frames, until the next *)
(* finite command reaches it, that the previous one is finished.           *)
(***************************************************************************)
EXTENDS WriteQueue

VARIABLES ros,      \* the ROS thread: where it is in onCommand
          kinds,    \* the commands taken so far, by number
          active,   \* active_command_ (0: none) and last_*_finished_
          io,       \* the port, the burst being written, the reconnection timer
          ready,    \* handlers posted to the I/O thread, in order
          queue,    \* write_queue_
          told,     \* states published of every command
          machine   \* external: the command executed, and the finished flags

vars == <<ros, kinds, active, io, ready, queue, told, machine>>

States == {"queued", "sent", "rejected", "transport_lost", "completed"}

\* Handlers in the I/O thread's queue: a burst to be queued, the opening of
\* the port, the end of a cancelled read or write, a frame read before it.
Handler(what) == [id |-> 0, kind |-> what]
Handlers == Items \cup {Handler(what) : what \in {"open", "aborted", "frame"}}
Nothing == Handler("nothing")

Taken == DOMAIN kinds
ItemOf(c) == [id |-> c, kind |-> kinds[c]]
ExpectsCompletion(c) == kinds[c] = "move"

Tell(state, commands) ==
  told' = [c \in 1..MaxCommand |-> IF c \in commands THEN told[c] \cup {state} ELSE told[c]]

-----------------------------------------------------------------------------
\* start() has posted openSerial.
Init ==
  /\ ros = [at |-> "idle", cmd |-> 0]
  /\ kinds = <<>>
  /\ active = [id |-> 0, finished |-> FALSE]
  /\ io = [port |-> "closed", connected |-> FALSE, burst |-> Nothing, timer |-> "none"]
  /\ ready = <<Handler("open")>>
  /\ queue = <<>>
  /\ told = [c \in 1..MaxCommand |-> {}]
  /\ machine = [id |-> 0, kind |-> "stop", finished |-> FALSE]

(* The ROS thread: onCommand, one command at a time.                       *)

\* The next command is taken; without a connection it is rejected at once.
Take(kind) ==
  LET c == Len(kinds) + 1
  IN  /\ ros.at = "idle" /\ Len(kinds) < MaxCommand
      /\ kinds' = Append(kinds, kind)
      /\ IF io.connected THEN ros' = [at |-> "checked", cmd |-> c] /\ UNCHANGED told
         ELSE Tell("rejected", {c}) /\ UNCHANGED ros
      /\ UNCHANGED <<active, io, ready, queue, machine>>

\* It becomes the active command; a move forgets the finished flags.
Activate ==
  /\ ros.at = "checked"
  /\ ros' = [ros EXCEPT !.at = "active"]
  /\ active' = [id |-> ros.cmd,
                finished |-> IF ExpectsCompletion(ros.cmd) THEN FALSE ELSE active.finished]
  /\ UNCHANGED <<kinds, io, ready, queue, told, machine>>

PublishQueued ==
  /\ ros.at = "active"
  /\ ros' = [ros EXCEPT !.at = "queued"]
  /\ Tell("queued", {ros.cmd})
  /\ UNCHANGED <<kinds, active, io, ready, queue, machine>>

\* serial_->send posts enqueueWrite.
Send ==
  /\ ros.at = "queued"
  /\ ros' = [at |-> "idle", cmd |-> 0]
  /\ ready' = Append(ready, ItemOf(ros.cmd))
  /\ UNCHANGED <<kinds, active, io, queue, told, machine>>

-----------------------------------------------------------------------------
(* The I/O thread.                                                         *)

Commands(items) == {x.id : x \in items} \ {0}

\* scheduleReconnect: at most one reconnection is pending.
Lost(timer) ==
  [port |-> "closed", connected |-> FALSE, burst |-> Nothing,
   timer |-> IF timer = "none" THEN "running" ELSE timer]

\* Mutant of Lose: the queue keeps what was not written.
LoseKeepsQueue(timer) ==
  /\ io' = Lost(timer)
  /\ UNCHANGED queue
  /\ Tell("transport_lost", {active.id} \ {0})

\* handleTransportError: everything is closed and cleared, and the loss of
\* the active command is published (onConnectionChanged).
Lose(timer) ==
  /\ io' = Lost(timer)
  /\ queue' = <<>>
  /\ Tell("transport_lost", {active.id} \ {0})

IsWriting == io.burst # Nothing  \* write_in_progress_

\* beginWrite: the front, if there is one, is handed to the port.
Writing(q) == IF q = <<>> THEN Nothing ELSE Head(q)

\* What the controller does with a command that reaches it.
Executing(item) ==
  [id |-> item.id, kind |-> item.kind,
   finished |-> IF item.kind = "move" THEN FALSE ELSE machine.finished]

\* The I/O thread is between two handlers.
Free == io.port # "announcing"
Runs(handler) ==
  /\ Free
  /\ ready # <<>> /\ Head(ready) = handler
  /\ ready' = Tail(ready)

\* openSerial succeeds: connected() holds from here on.
Open ==
  /\ Runs(Handler("open"))
  /\ io' = IF io.port = "closed"
           THEN [io EXCEPT !.port = "announcing", !.connected = TRUE, !.timer = "none"]
           ELSE [io EXCEPT !.timer = "none"]
  /\ UNCHANGED <<ros, kinds, active, queue, told, machine>>

OpenFails ==
  /\ Runs(Handler("open"))
  /\ io.port = "closed"
  /\ Lose("none")
  /\ UNCHANGED <<ros, kinds, active, machine>>

\* onConnectionChanged(true) sends a stop of its own; reading begins.
Announce ==
  /\ io.port = "announcing"
  /\ io' = [io EXCEPT !.port = "open"]
  /\ ready' = Append(ready, Handler("stop"))
  /\ UNCHANGED <<ros, kinds, active, queue, told, machine>>

\* The timer of scheduleReconnect.
TimerExpires ==
  /\ io.timer = "running"
  /\ io' = [io EXCEPT !.timer = "expired"]
  /\ ready' = Append(ready, Handler("open"))
  /\ UNCHANGED <<ros, kinds, active, queue, told, machine>>

\* Mutant of WhenOffline: nobody is told.
SilentWhenOffline(item) == UNCHANGED told

WhenOffline(item) == Tell("rejected", Commands({item}))

\* enqueueWrite: a command that is not accepted, and each one it displaces,
\* is rejected; an idle port starts writing.
EnqueueWrite(item) ==
  LET e == Enqueue(queue, item, IsWriting)
  IN  /\ Runs(item)
      /\ IF io.port = "open"
         THEN /\ queue' = e.queue
              /\ io' = [io EXCEPT !.burst = IF IsWriting THEN @ ELSE Writing(e.queue)]
              /\ Tell("rejected",
                      Commands(e.dropped \cup IF e.accepted THEN {} ELSE {item}))
         ELSE WhenOffline(item) /\ UNCHANGED <<io, queue>>
      /\ UNCHANGED <<ros, kinds, active, machine>>

\* onWrite: the front counts as written, the next one begins.
WriteCompletes ==
  /\ Free /\ IsWriting
  /\ machine' = Executing(io.burst)
  /\ Tell("sent", Commands({Head(queue)}))
  /\ queue' = Tail(queue)
  /\ io' = [io EXCEPT !.burst = Writing(Tail(queue))]
  /\ UNCHANGED <<ros, kinds, active, ready>>

\* A read or a write fails.  The burst in progress may have reached the
\* controller.  Of two operations the other one is cancelled; its handler
\* reports the loss again, unless it had completed before.
TransportFails ==
  /\ io.port = "open"
  /\ Lose(io.timer)
  /\ ready' \in {ready} \cup IF IsWriting
                           THEN {Append(ready, Handler(h)) : h \in {"aborted", "frame"}}
                           ELSE {}
  /\ machine' \in {machine} \cup IF IsWriting THEN {Executing(io.burst)} ELSE {}
  /\ UNCHANGED <<ros, kinds, active>>

Aborted ==
  /\ Runs(Handler("aborted"))
  /\ Lose(io.timer)
  /\ UNCHANGED <<ros, kinds, active, machine>>

\* onFrame: a rising edge of the flags completes the active command.
FrameParsed ==
  /\ active' = [active EXCEPT !.finished = machine.finished]
  /\ IF machine.finished /\ ~active.finished /\ active.id # 0 /\ ExpectsCompletion(active.id)
     THEN Tell("completed", {active.id})
     ELSE UNCHANGED told
  /\ UNCHANGED <<ros, kinds, io, queue, machine>>

OnFrame == io.port = "open" /\ FrameParsed /\ UNCHANGED ready
OnLateFrame == Runs(Handler("frame")) /\ FrameParsed

\* External: the controller finishes the move it executes.
Finish ==
  /\ machine.kind = "move" /\ ~machine.finished
  /\ machine' = [machine EXCEPT !.finished = TRUE]
  /\ UNCHANGED <<ros, kinds, active, io, ready, queue, told>>

RosThread == Activate \/ PublishQueued \/ Send
IoThread ==
  \/ Open
  \/ OpenFails
  \/ Announce
  \/ \E item \in Items : EnqueueWrite(item)
  \/ WriteCompletes
  \/ Aborted
  \/ OnLateFrame

Next ==
  \/ \E kind \in Kinds : Take(kind)
  \/ RosThread
  \/ IoThread
  \/ TimerExpires
  \/ TransportFails
  \/ OnFrame
  \/ Finish

Spec == Init /\ [][Next]_vars

\* Both threads go on running their handlers, and writes end.
FairSpec == Spec /\ WF_vars(RosThread) /\ WF_vars(IoThread)

-----------------------------------------------------------------------------
\* Types; the queue never exceeds its capacity.
TypeOK ==
  /\ ros \in [at : {"idle", "checked", "active", "queued"}, cmd : 0..MaxCommand]
  /\ kinds \in Seq(Kinds) /\ Len(kinds) <= MaxCommand
  /\ active \in [id : 0..MaxCommand, finished : BOOLEAN]
  /\ io \in [port : {"closed", "announcing", "open"}, connected : BOOLEAN,
            burst : Items \cup {Nothing}, timer : {"none", "running", "expired"}]
  /\ ready \in Seq(Handlers)
  /\ queue \in Seq(Items) /\ Len(queue) <= MaxSize
  /\ told \in [1..MaxCommand -> SUBSET States]
  /\ machine \in [id : 0..MaxCommand, kind : Kinds \cup {"stop"}, finished : BOOLEAN]

InQueue(item) == \E i \in DOMAIN queue : queue[i] = item

\* While the port is open a brake that reaches the write queue is neither
\* refused nor given up, however full the queue is: it stays until it is
\* written or replaced by a newer brake (enqueue).
BrakeIsKept ==
  [][io.port = "open" /\ io'.port = "open" =>
       \A b \in {c \in Taken : kinds[c] = "brake"} :
         InQueue(ItemOf(b)) \/ (Len(ready') < Len(ready) /\ Head(ready) = ItemOf(b))
         => \/ InQueue(ItemOf(b))'
            \/ "sent" \in told'[b]
            \/ \E c \in Taken : c > b /\ kinds[c] = "brake" /\ InQueue(ItemOf(c))']_vars

\* What waits is in the order of urgency, and of arrival among equals, so
\* that a brake waits for one burst in progress and for brakes only.
WaitingIsInOrder ==
  \A i, j \in Waiting(queue, IsWriting) :
    i < j => \/ Priority(queue[i].kind) > Priority(queue[j].kind)
             \/ /\ Priority(queue[i].kind) = Priority(queue[j].kind)
                /\ 0 \in {queue[i].id, queue[j].id} \/ queue[i].id < queue[j].id

\* A command published as refused, superseded or given up is not published
\* as written and is not executed, whatever is replaced in the queue while
\* bursts are written (front_callback, preserve_front): whoever waits for the
\* verdict on a brake can rely on it.
RefusedIsNotExecuted ==
  \A c \in 1..MaxCommand :
    "rejected" \in told[c] => "sent" \notin told[c] /\ machine.id # c

\* Nothing is left behind in the queue when no write is in progress, across
\* failing writes, cancelled operations and reconnections.
IdleIsEmpty ==
  /\ ~IsWriting => queue = <<>>
  /\ IsWriting => io.port = "open" /\ queue # <<>>

\* The newest command taken is answered: written, rejected or lost with the
\* transport, wherever in onCommand the connection breaks.
NewestIsAnswered ==
  \A c \in 1..MaxCommand :
    Len(kinds) = c ~> \/ Len(kinds) > c
                      \/ told[c] \cap {"sent", "rejected", "transport_lost"} # {}

\* The command topic keeps only the newest, "to avoid that old commands are
\* queued and executed late" (qos_profiles.hpp:13): the driver it feeds executes
\* no older command after it has sent a brake.
NothingOldAfterBrake ==
  \A b \in Taken :
    kinds[b] = "brake" /\ "sent" \in told[b] => machine.id >= b \/ machine.kind = "stop"

=========================================================================
