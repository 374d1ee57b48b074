----------------------- MODULE AtomicMaintenanceStore -----------------------
(***************************************************************************)
(* What MaintenanceStore promises its callers, whatever it does inside: an *)
(* operation decides on the content of the moment it takes effect, takes   *)
(* effect at most once, and an answer tells the caller what it may rely    *)
(* on.  "ok" after a write means the record outlives a loss of power; a    *)
(* failure with committed set means it is visible but may not outlive one; *)
(* any other answer means the operation changed nothing.                   *)
(***************************************************************************)
EXTENDS MaintenanceRecords

CONSTANT Caller  \* threads and processes that use one state file

VARIABLES content,    \* what a load would read now
          survivors,  \* what a load may read after a loss of power
          call        \* what each caller is doing

avars == <<content, survivors, call>>

NoOperation == [kind |-> "load", requester |-> Nobody, generation |-> 0]
NoRecord == Unreadable("missing")
Idle ==
  [stage |-> "idle", op |-> NoOperation, code |-> "ok", committed |-> FALSE,
   record |-> NoRecord]

Init ==
  /\ content \in Contents
  /\ survivors = {content}
  /\ call = [c \in Caller |-> Idle]

Call(c, op) ==
  /\ call[c].stage = "idle"
  /\ call' = [call EXCEPT ![c] = [Idle EXCEPT !.stage = "called", !.op = op]]
  /\ UNCHANGED <<content, survivors>>

Reaches(c, stage, code, committed, record) ==
  call' = [call EXCEPT ![c] = [stage |-> stage, op |-> call[c].op, code |-> code,
                               committed |-> committed, record |-> record]]

Answer(c, code, committed, record) == Reaches(c, "answered", code, committed, record)

\* The operation needs no write; releasing the guard may still fail.
Decline(c) ==
  LET d == Decision(call[c].op, content)
  IN  /\ call[c].stage = "called"
      /\ ~d.writes
      /\ \E code \in {d.code, "io_error"} : Answer(c, code, FALSE, d.record)
      /\ UNCHANGED <<content, survivors>>

\* Nothing was changed and nothing is known.
Fail(c) ==
  /\ call[c].stage = "called"
  /\ \E code \in {"io_error", "invalid"} : Answer(c, code, FALSE, NoRecord)
  /\ UNCHANGED <<content, survivors>>

\* The write becomes visible; from now on it may survive, it need not.
Publish(c) ==
  LET d == Decision(call[c].op, content)
  IN  /\ call[c].stage = "called"
      /\ d.writes
      /\ content' = d.record
      /\ survivors' = survivors \cup {d.record}
      /\ Reaches(c, "published", "ok", FALSE, d.record)

Harden(c) ==
  /\ call[c].stage = "published"
  /\ survivors' = {content}
  /\ Reaches(c, "hardened", "ok", FALSE, call[c].record)
  /\ UNCHANGED content

Confirm(c) ==
  /\ \/ /\ call[c].stage = "hardened"
        /\ \E code \in {"ok", "io_error"} : Answer(c, code, TRUE, call[c].record)
     \/ /\ call[c].stage = "published"
        /\ Answer(c, "io_error", TRUE, call[c].record)
  /\ UNCHANGED <<content, survivors>>

Return(c) ==
  /\ call[c].stage = "answered"
  /\ call' = [call EXCEPT ![c] = Idle]
  /\ UNCHANGED <<content, survivors>>

\* The caller's process dies; what is visible stays visible.
Crash(c) ==
  /\ call[c].stage # "idle"
  /\ call' = [call EXCEPT ![c] = Idle]
  /\ UNCHANGED <<content, survivors>>

PowerLoss ==
  /\ content' \in survivors
  /\ survivors' = {content'}
  /\ call' = [c \in Caller |-> Idle]

Next ==
  \/ \E c \in Caller :
       \/ \E op \in Operations : Call(c, op)
       \/ Decline(c)
       \/ Fail(c)
       \/ Publish(c)
       \/ Harden(c)
       \/ Confirm(c)
       \/ Return(c)
       \/ Crash(c)
  \/ PowerLoss

Spec == Init /\ [][Next]_avars
=============================================================================
