-------------------------- MODULE MaintenanceStore --------------------------
(***************************************************************************)
(* The POSIX implementation of MaintenanceStore, one action per system     *)
(* call that matters: every caller takes the guard lock, reads the state   *)
(* file, writes a temporary file, synchronises it, renames it over the     *)
(* state file and synchronises the directory.  Any call may fail, any      *)
(* caller may throw or die between two of them, and power may be lost.     *)
(*                                                                         *)
(* The disk: file is the entry a reader finds under the state file's name, *)
(* entries are those a loss of power may leave there.  An entry whose data *)
(* was not synchronised is torn by a loss of power.  Temporary names are   *)
(* unique (O_EXCL, pid and sequence), so a temporary belongs to its writer *)
(* and one that was left behind is never read.                             *)
(***************************************************************************)
EXTENDS MaintenanceRecords

CONSTANT Caller  \* threads and processes that use one state file
ASSUME CallerAssumption == "free" \notin Caller

VARIABLES file,     \* the entry under the name of the state file
          entries,  \* the entries a loss of power may leave there
          guard,    \* the caller that holds the flock, or Free
          caller    \* the operation each caller is in

vars == <<file, entries, guard, caller>>

Free == "free"
Steps ==
  {"idle", "open", "read", "create", "write", "sync", "rename", "syncdir",
   "finish", "answered"}
Entries == [content : Contents, synced : BOOLEAN]
NoOperation == [kind |-> "load", requester |-> Nobody, generation |-> 0]
NoRecord == Unreadable("missing")
NoTemp == [content |-> NoRecord, synced |-> FALSE]

\* temp: the temporary file; code, committed, record: the result so far.
Callers ==
  [at : Steps, op : Operations, temp : Entries, code : Codes,
   committed : BOOLEAN, record : Contents]
Idle ==
  [at |-> "idle", op |-> NoOperation, temp |-> NoTemp, code |-> "ok",
   committed |-> FALSE, record |-> NoRecord]

-----------------------------------------------------------------------------
Init ==
  /\ file \in {[content |-> c, synced |-> TRUE] : c \in Contents}
  /\ entries = {file}
  /\ guard = Free
  /\ caller = [c \in Caller |-> Idle]

At(c, step) == caller[c].at = step
Becomes(c, k) == caller' = [caller EXCEPT ![c] = k]
Moves(c, step) == Becomes(c, [caller[c] EXCEPT !.at = step])
Concludes(c, step, code, committed, record) ==
  Becomes(c, [caller[c] EXCEPT !.at = step, !.code = code,
                               !.committed = committed, !.record = record])

Call(c, op) ==
  /\ At(c, "idle")
  /\ Becomes(c, [Idle EXCEPT !.at = "open", !.op = op])
  /\ UNCHANGED <<file, entries, guard>>

\* LockedStore::open: a failed open leaves nothing locked.
OpenFails(c) ==
  /\ At(c, "open")
  /\ \E code \in {"io_error", "invalid"} : Concludes(c, "answered", code, FALSE, NoRecord)
  /\ UNCHANGED <<file, entries, guard>>

\* Mutant of Acquire: the guard is shared, not exclusive.
AcquireShared(c) == guard' = c

Acquire(c) == guard = Free /\ guard' = c

Lock(c) ==
  /\ At(c, "open")
  /\ Acquire(c)
  /\ Moves(c, "read")
  /\ UNCHANGED <<file, entries>>

\* read_locked and the operation's decision on what it read.
Read(c) ==
  LET d == Decision(caller[c].op, file.content)
  IN  /\ At(c, "read")
      /\ IF d.writes
         THEN Becomes(c, [caller[c] EXCEPT !.at = "create", !.record = d.record])
         ELSE Concludes(c, "finish", d.code, FALSE, d.record)
      /\ UNCHANGED <<file, entries, guard>>

ReadFails(c) ==
  /\ At(c, "read")
  /\ \E code \in {"io_error", "invalid"} : Concludes(c, "finish", code, FALSE, NoRecord)
  /\ UNCHANGED <<file, entries, guard>>

CreateTemp(c) ==
  /\ At(c, "create")
  /\ Moves(c, "write")
  /\ UNCHANGED <<file, entries, guard>>

WriteTemp(c) ==
  /\ At(c, "write")
  /\ Becomes(c, [caller[c] EXCEPT !.at = "sync",
                    !.temp = [content |-> caller[c].record, synced |-> FALSE]])
  /\ UNCHANGED <<file, entries, guard>>

SyncTemp(c) ==
  /\ At(c, "sync")
  /\ Becomes(c, [caller[c] EXCEPT !.at = "rename", !.temp = [@ EXCEPT !.synced = TRUE]])
  /\ UNCHANGED <<file, entries, guard>>

\* fail_before_commit: the temporary is removed, the result is uncommitted.
FailBeforeCommit(c) ==
  /\ caller[c].at \in {"create", "write", "sync", "rename"}
  /\ Becomes(c, [caller[c] EXCEPT !.at = "finish", !.temp = NoTemp, !.code = "io_error",
                                  !.record = NoRecord])
  /\ UNCHANGED <<file, entries, guard>>

\* renameat succeeds: the commit point.
Rename(c) ==
  /\ At(c, "rename")
  /\ file' = caller[c].temp
  /\ entries' = entries \cup {caller[c].temp}
  /\ Becomes(c, [caller[c] EXCEPT !.at = "syncdir", !.temp = NoTemp, !.committed = TRUE])
  /\ UNCHANGED guard

SyncDirectory(c) ==
  /\ At(c, "syncdir")
  /\ entries' = {file}
  /\ Moves(c, "finish")
  /\ UNCHANGED <<file, guard>>

\* post_commit_failure keeps the record and says it was committed.
SyncDirectoryFails(c) ==
  /\ At(c, "syncdir")
  /\ Becomes(c, [caller[c] EXCEPT !.at = "finish", !.code = "io_error"])
  /\ UNCHANGED <<file, entries, guard>>

Unlocks == guard' = Free

\* LockedStore::finish: a failure to unlock or close overrides the code.
Finish(c) ==
  /\ At(c, "finish")
  /\ Unlocks
  /\ \E code \in {caller[c].code, "io_error"} :
       Becomes(c, [caller[c] EXCEPT !.at = "answered", !.code = code])
  /\ UNCHANGED <<file, entries>>

\* Steps that may throw: everything after the commit point is prepared
\* before it, so that no exception can hide a commit.
MayThrow == {"read", "create", "write", "sync", "rename"}

\* An exception unwinds to the operation; ~LockedStore unlocks.
Throw(c) ==
  /\ caller[c].at \in MayThrow
  /\ Unlocks
  /\ Becomes(c, [Idle EXCEPT !.at = "answered", !.op = caller[c].op, !.code = "io_error"])
  /\ UNCHANGED <<file, entries>>

Return(c) ==
  /\ At(c, "answered")
  /\ Becomes(c, Idle)
  /\ UNCHANGED <<file, entries, guard>>

\* The process dies: the kernel drops its lock, the disk stays as it is.
Crash(c) ==
  /\ ~At(c, "idle")
  /\ guard' = IF guard = c THEN Free ELSE guard
  /\ Becomes(c, Idle)
  /\ UNCHANGED <<file, entries>>

AfterPowerLoss(e) ==
  [content |-> IF e.synced THEN e.content ELSE Unreadable("invalid"), synced |-> TRUE]

PowerLoss ==
  /\ \E e \in entries : file' = AfterPowerLoss(e)
  /\ entries' = {file'}
  /\ guard' = Free
  /\ caller' = [c \in Caller |-> Idle]

\* What a caller does by itself once it is in an operation.
Proceed(c) ==
  \/ OpenFails(c)
  \/ Lock(c)
  \/ Read(c)
  \/ ReadFails(c)
  \/ CreateTemp(c)
  \/ WriteTemp(c)
  \/ SyncTemp(c)
  \/ FailBeforeCommit(c)
  \/ Rename(c)
  \/ SyncDirectory(c)
  \/ SyncDirectoryFails(c)
  \/ Finish(c)
  \/ Throw(c)

Next ==
  \/ \E c \in Caller :
       \/ \E op \in Operations : Call(c, op)
       \/ Proceed(c)
       \/ Return(c)
       \/ Crash(c)
  \/ PowerLoss

Spec == Init /\ [][Next]_vars

-----------------------------------------------------------------------------
\* File, entries, guard and callers keep their types.
TypeOK ==
  /\ file \in Entries
  /\ entries \subseteq Entries
  /\ guard \in Caller \cup {Free}
  /\ caller \in [Caller -> Callers]

\* The promise, seen through the implementation: a write takes effect at the
\* rename, is hard once the directory is synchronised, and everything else
\* takes effect when the answer is given.
StageOf(k) ==
  CASE k.at = "idle" -> "idle"
    [] k.at = "answered" -> "answered"
    [] k.at = "syncdir" -> "published"
    [] k.at = "finish" /\ k.committed -> IF k.code = "ok" THEN "hardened" ELSE "published"
    [] OTHER -> "called"

CallOf(k) ==
  [stage |-> StageOf(k), op |-> k.op,
   code |-> IF StageOf(k) = "answered" THEN k.code ELSE "ok",
   committed |-> StageOf(k) = "answered" /\ k.committed,
   record |-> IF StageOf(k) \in {"published", "hardened", "answered"}
              THEN k.record ELSE NoRecord]

Seen == [c \in Caller |-> CallOf(caller[c])]

\* What a load may read after a loss of power.
Survivors == {AfterPowerLoss(e).content : e \in entries}

Promise == INSTANCE AtomicMaintenanceStore WITH
  content <- file.content,
  survivors <- Survivors,
  call <- Seen

\* Whatever fails, throws or dies at whichever system call, and however
\* callers interleave, the store keeps the promise of AtomicMaintenanceStore
\* (guard lock, temporary file, fsync before rename, commit point).
KeepsPromise == Promise!Spec

=============================================================================
