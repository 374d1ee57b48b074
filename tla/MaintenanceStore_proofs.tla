----------------------- MODULE MaintenanceStore_proofs -----------------------
(***************************************************************************)
(* Proofs about the maintenance store at the level of its system calls,    *)
(* for any number of callers, requesters and generations: it implements    *)
(* AtomicMaintenanceStore, and what it has granted outlives whatever fails *)
(* (MaintenanceGrants).                                                    *)
(***************************************************************************)
EXTENDS MaintenanceGrants, TLAPS

-----------------------------------------------------------------------------
(* What the operations decide.                                             *)

LEMMA ContentTypes ==
  /\ \A code \in {"missing", "invalid", "unsupported"} : Unreadable(code) \in Contents
  /\ \A g \in Generations : Inactive(g) \in Contents
  /\ \A g \in Generations \ {0}, r \in Requester : Active(g, r) \in Contents
<1>1. 0 \in Generations
  BY MaxGenerationAssumption DEF Generations
<1>. QED
  BY <1>1, RequesterAssumption DEF Contents, Unreadable, Inactive, Active, Nobody

\* A readable content is inactive or active under its last generation.
LEMMA Readable ==
  ASSUME NEW c \in Contents
  PROVE  /\ c.last \in Generations
         /\ c.code = "ok" /\ c.owner = Nobody => c = Inactive(c.last)
         /\ c.owner # Nobody =>
              c = Active(c.last, c.owner) /\ c.last # 0 /\ c.owner \in Requester
BY DEF Contents, Inactive, Active, Nobody

LEMMA OperationTypes ==
  ASSUME NEW op \in Operations
  PROVE  /\ op.kind \in {"load", "genesis", "activate", "release"}
         /\ op.kind \in {"activate", "release"} => op.requester \in Requester
         /\ op.kind = "release" => op.generation \in Generations
BY DEF Operations

\* An operation writes in three cases only, and never moves the last
\* generation back.
LEMMA DecisionCases ==
  ASSUME NEW op \in Operations, NEW c \in Contents,
         NEW d, d = Decision(op, c)
  PROVE  /\ d.code \in Codes
         /\ ~d.writes => d.record = c
         /\ d.writes =>
              \/ /\ op.kind = "genesis" /\ c.code = "missing" /\ d.record = Genesis
              \/ /\ op.kind = "activate" /\ c = Inactive(c.last)
                 /\ c.last < MaxGeneration
                 /\ d.record = Active(c.last + 1, op.requester)
              \/ /\ op.kind = "release" /\ c = Active(c.last, op.requester)
                 /\ d.record = Inactive(c.last)
<1>1. c.code \in Codes /\ c.last \in Nat /\ MaxGeneration \in Nat /\ c.last <= MaxGeneration
  BY MaxGenerationAssumption DEF Contents, Codes, Generations
<1>2. CASE op.kind = "load"
  BY <1>1, <1>2 DEF Decision, Answers
<1>3. CASE op.kind = "genesis"
  BY <1>1, <1>3 DEF Decision, Answers, GenesisDecision, Writes, Codes
<1>4. CASE op.kind = "activate"
  <2>1. d = ActivateDecision(op.requester, c)
    BY <1>4 DEF Decision
  <2>. QED
    BY <1>1, <1>4, <2>1, Readable DEF ActivateDecision, Successor, Answers, Writes, Codes
<1>5. CASE op.kind = "release"
  <2>1. d = ReleaseDecision(op.generation, op.requester, c) /\ op.requester \in Requester
    BY <1>5, OperationTypes DEF Decision
  <2>2. op.requester # Nobody
    BY <2>1, RequesterAssumption DEF Nobody
  <2>. QED
    BY <1>1, <1>5, <2>1, <2>2, Readable DEF ReleaseDecision, Answers, Writes, Codes
<1>. QED
  BY <1>2, <1>3, <1>4, <1>5, OperationTypes

LEMMA WritesAreReadable ==
  ASSUME NEW op \in Operations, NEW c \in Contents, Decision(op, c).writes
  PROVE  c.code \in {"ok", "missing"} /\ Decision(op, c).record.code = "ok"
<1>. DEFINE d == Decision(op, c)
<1>1. \/ c.code = "missing" /\ d.record = Genesis
      \/ c = Inactive(c.last) /\ d.record = Active(c.last + 1, op.requester)
      \/ c = Active(c.last, op.requester) /\ d.record = Inactive(c.last)
  BY DecisionCases
<1>. HIDE DEF d
<1>2. d.record.code = "ok"
  BY <1>1 DEF Genesis, Inactive, Active
<1>3. c.code \in {"ok", "missing"}
  BY <1>1 DEF Inactive, Active
<1>. QED
  BY <1>2, <1>3 DEF d

LEMMA DecisionType ==
  ASSUME NEW op \in Operations, NEW c \in Contents
  PROVE  Decision(op, c).record \in Contents /\ Decision(op, c).code \in Codes
<1>. DEFINE d == Decision(op, c)
<1>1. d.writes => d.record \in Contents
  <2>1. c.last \in Nat /\ c.last <= MaxGeneration /\ 0 \in Generations
    BY MaxGenerationAssumption DEF Contents, Generations
  <2>2. c.last < MaxGeneration => c.last + 1 \in Generations \ {0}
    BY <2>1, MaxGenerationAssumption DEF Generations
  <2>3. op.kind = "activate" => op.requester \in Requester
    BY OperationTypes
  <2>. QED
    BY <2>1, <2>2, <2>3, DecisionCases, ContentTypes, Readable DEF Genesis
<1>. QED
  BY <1>1, DecisionCases

-----------------------------------------------------------------------------
(* Types.                                                                  *)

LEMMA NoRecordType == NoRecord \in Contents
BY ContentTypes DEF NoRecord

LEMMA IdleType == Idle \in Callers
<1>1. NoOperation \in Operations
  BY DEF NoOperation, Operations
<1>. QED
  BY <1>1, NoRecordType DEF Idle, Callers, Steps, Codes, Entries, NoTemp

LEMMA CallerFields ==
  ASSUME TypeOK, NEW c \in Caller
  PROVE  /\ caller[c].at \in Steps /\ caller[c].op \in Operations
         /\ caller[c].temp \in Entries /\ caller[c].code \in Codes
         /\ caller[c].committed \in BOOLEAN /\ caller[c].record \in Contents
BY DEF TypeOK, Callers

LEMMA AfterPowerLossType == ASSUME NEW e \in Entries PROVE AfterPowerLoss(e) \in Entries
BY ContentTypes DEF AfterPowerLoss, Entries

\* A step of one caller leaves the others alone.
LEMMA OneBecomes ==
  ASSUME TypeOK, NEW c \in Caller, NEW k, Becomes(c, k)
  PROVE  /\ caller'[c] = k /\ \A d \in Caller \ {c} : caller'[d] = caller[d]
         /\ k \in Callers => caller' \in [Caller -> Callers]
BY DEF TypeOK, Becomes

LEMMA ConcludesType ==
  ASSUME TypeOK, NEW c \in Caller, NEW step \in Steps, NEW code \in Codes,
         NEW committed \in BOOLEAN, NEW record \in Contents,
         Concludes(c, step, code, committed, record)
  PROVE  caller' \in [Caller -> Callers]
<1>1. [caller[c] EXCEPT !.at = step, !.code = code, !.committed = committed,
                        !.record = record] \in Callers
  BY DEF TypeOK, Callers
<1>. QED
  BY <1>1, OneBecomes DEF Concludes

LEMMA MovesType ==
  ASSUME TypeOK, NEW c \in Caller, NEW step \in Steps, Moves(c, step)
  PROVE  caller' \in [Caller -> Callers]
<1>1. [caller[c] EXCEPT !.at = step] \in Callers
  BY DEF TypeOK, Callers
<1>. QED
  BY <1>1, OneBecomes DEF Moves

LEMMA TypeStep == TypeOK /\ [Next]_vars => TypeOK'
<1>. SUFFICES ASSUME TypeOK, [Next]_vars
              PROVE  TypeOK'
  OBVIOUS
<1>1. /\ file \in Entries /\ file.content \in Contents /\ entries \subseteq Entries
      /\ guard \in Caller \cup {Free} /\ caller \in [Caller -> Callers]
  BY DEF TypeOK, Entries
<1>2. {"ok", "io_error", "invalid"} \subseteq Codes /\ NoTemp \in Entries
  BY NoRecordType DEF Codes, NoTemp, Entries
<1>3. ASSUME NEW c \in Caller, NEW op \in Operations, Call(c, op)
      PROVE  TypeOK'
  <2>1. [Idle EXCEPT !.at = "open", !.op = op] \in Callers
    BY IdleType DEF Callers, Steps
  <2>. QED
    BY <1>1, <1>3, <2>1, OneBecomes DEF Call, TypeOK
<1>4. ASSUME NEW c \in Caller, OpenFails(c) \/ ReadFails(c)
      PROVE  TypeOK'
  <2>1. PICK step \in {"answered", "finish"}, code \in {"io_error", "invalid"} :
               Concludes(c, step, code, FALSE, NoRecord)
    BY <1>4 DEF OpenFails, ReadFails
  <2>2. step \in Steps /\ code \in Codes
    BY <1>2 DEF Steps
  <2>. QED
    BY <1>1, <1>4, <2>1, <2>2, NoRecordType, ConcludesType DEF OpenFails, ReadFails, TypeOK
<1>5. ASSUME NEW c \in Caller, Lock(c) \/ CreateTemp(c) \/ SyncDirectory(c)
      PROVE  TypeOK'
  <2>1. PICK step \in {"read", "write", "finish"} : Moves(c, step)
    BY <1>5 DEF Lock, CreateTemp, SyncDirectory
  <2>2. caller' \in [Caller -> Callers]
    BY <2>1, MovesType DEF Steps
  <2>. QED
    BY <1>1, <1>5, <2>2 DEF Lock, Acquire, CreateTemp, SyncDirectory, TypeOK
<1>6. ASSUME NEW c \in Caller, Read(c)
      PROVE  TypeOK'
  <2>. DEFINE d == Decision(caller[c].op, file.content)
              k == [caller[c] EXCEPT !.at = "create", !.record = d.record]
  <2>1. d.record \in Contents /\ d.code \in Codes
    BY <1>1, CallerFields, DecisionType
  <2>2. UNCHANGED <<file, entries, guard>>
    BY <1>6 DEF Read
  <2>3. Becomes(c, k) \/ Concludes(c, "finish", d.code, FALSE, d.record)
    BY <1>6 DEF Read
  <2>4. k \in Callers
    <3>. HIDE DEF d
    <3>. QED
      BY <1>1, <2>1 DEF Callers, Steps
  <2>. HIDE DEF d, k
  <2>5. caller' \in [Caller -> Callers]
    BY <2>1, <2>3, <2>4, OneBecomes, ConcludesType DEF Steps
  <2>. QED
    BY <1>1, <2>2, <2>5 DEF TypeOK
<1>7. ASSUME NEW c \in Caller, WriteTemp(c)
      PROVE  TypeOK'
  <2>1. [content |-> caller[c].record, synced |-> FALSE] \in Entries
    BY CallerFields DEF Entries
  <2>2. [caller[c] EXCEPT !.at = "sync",
           !.temp = [content |-> caller[c].record, synced |-> FALSE]] \in Callers
    BY <1>1, <2>1 DEF Callers, Steps
  <2>. QED
    BY <1>1, <1>7, <2>2, OneBecomes DEF WriteTemp, TypeOK
<1>8. ASSUME NEW c \in Caller, SyncTemp(c)
      PROVE  TypeOK'
  <2>1. [caller[c].temp EXCEPT !.synced = TRUE] \in Entries
    BY CallerFields DEF Entries
  <2>2. [caller[c] EXCEPT !.at = "rename", !.temp = [@ EXCEPT !.synced = TRUE]] \in Callers
    BY <1>1, <2>1 DEF Callers, Steps
  <2>. QED
    BY <1>1, <1>8, <2>2, OneBecomes DEF SyncTemp, TypeOK
<1>9. ASSUME NEW c \in Caller, FailBeforeCommit(c)
      PROVE  TypeOK'
  <2>1. [caller[c] EXCEPT !.at = "finish", !.temp = NoTemp, !.code = "io_error",
                          !.record = NoRecord] \in Callers
    BY <1>1, <1>2, NoRecordType DEF Callers, Steps
  <2>. QED
    BY <1>1, <1>9, <2>1, OneBecomes DEF FailBeforeCommit, TypeOK
<1>10. ASSUME NEW c \in Caller, Rename(c)
       PROVE  TypeOK'
  <2>1. [caller[c] EXCEPT !.at = "syncdir", !.temp = NoTemp, !.committed = TRUE] \in Callers
    BY <1>1, <1>2 DEF Callers, Steps
  <2>2. caller[c].temp \in Entries
    BY CallerFields
  <2>. QED
    BY <1>1, <1>10, <2>1, <2>2, OneBecomes DEF Rename, TypeOK
<1>11. ASSUME NEW c \in Caller, SyncDirectoryFails(c)
       PROVE  TypeOK'
  <2>1. [caller[c] EXCEPT !.at = "finish", !.code = "io_error"] \in Callers
    BY <1>1, <1>2 DEF Callers, Steps
  <2>. QED
    BY <1>1, <1>11, <2>1, OneBecomes DEF SyncDirectoryFails, TypeOK
<1>12. ASSUME NEW c \in Caller, Finish(c)
       PROVE  TypeOK'
  <2>1. PICK code \in {caller[c].code, "io_error"} :
               Becomes(c, [caller[c] EXCEPT !.at = "answered", !.code = code])
    BY <1>12 DEF Finish
  <2>2. [caller[c] EXCEPT !.at = "answered", !.code = code] \in Callers
    BY <1>1, <1>2 DEF Callers, Steps
  <2>. QED
    BY <1>1, <1>12, <2>1, <2>2, OneBecomes DEF Finish, Unlocks, TypeOK
<1>13. ASSUME NEW c \in Caller, Throw(c)
       PROVE  TypeOK'
  <2>1. [Idle EXCEPT !.at = "answered", !.op = caller[c].op, !.code = "io_error"] \in Callers
    BY <1>2, IdleType, CallerFields DEF Callers, Steps
  <2>. QED
    BY <1>1, <1>13, <2>1, OneBecomes DEF Throw, Unlocks, TypeOK
<1>14. ASSUME NEW c \in Caller, Return(c) \/ Crash(c)
       PROVE  TypeOK'
  BY <1>1, <1>14, IdleType, OneBecomes DEF Return, Crash, TypeOK
<1>15. CASE PowerLoss
  <2>1. file' \in Entries /\ entries' = {file'}
    BY <1>1, <1>15, AfterPowerLossType DEF PowerLoss
  <2>. QED
    BY <1>15, <2>1, IdleType DEF PowerLoss, TypeOK
<1>16. CASE UNCHANGED vars
  BY <1>16 DEF vars, TypeOK
<1>. QED
  BY <1>3, <1>4, <1>5, <1>6, <1>7, <1>8, <1>9, <1>10, <1>11, <1>12, <1>13, <1>14, <1>15, <1>16
     DEF Next, Proceed

LEMMA InitialDisk == ASSUME Init PROVE file.synced /\ file.content \in Contents
<1>1. PICK c \in Contents : file = [content |-> c, synced |-> TRUE]
  BY DEF Init
<1>. QED
  BY <1>1

\* File, entries, guard and callers keep their types.
THEOREM TypeCorrect == Spec => []TypeOK
<1>1. Init => TypeOK
  <2>. SUFFICES ASSUME Init PROVE TypeOK
    OBVIOUS
  <2>1. PICK c \in Contents : file = [content |-> c, synced |-> TRUE]
    BY DEF Init
  <2>2. file \in Entries /\ entries = {file}
    BY <2>1 DEF Init, Entries
  <2>. QED
    BY <2>2, IdleType DEF Init, TypeOK
<1>. QED
  BY <1>1, TypeStep, PTL DEF Spec

-----------------------------------------------------------------------------
(* What holds between two calls.  The entries on the disk are whole, since *)
(* a temporary is synchronised before it is renamed; a caller between the  *)
(* lock and the answer holds the guard, so that the decision it took is    *)
(* still the one for the file it will replace; and once it has committed,  *)
(* the file holds its record.                                              *)

Critical == {"read", "create", "write", "sync", "rename", "syncdir", "finish"}
Writing == {"create", "write", "sync", "rename"}
DecisionOf(c) == Decision(caller[c].op, file.content)

Declines(c) ==
  /\ ~DecisionOf(c).writes
  /\ caller[c].record = DecisionOf(c).record /\ caller[c].code = DecisionOf(c).code
Failed(c) == caller[c].record = NoRecord /\ caller[c].code \in {"io_error", "invalid"}
Committed(c) ==
  /\ caller[c].record = file.content
  /\ caller[c].op.kind = "activate" =>
       caller[c].record = Active(caller[c].record.last, caller[c].op.requester)
  /\ caller[c].code = "io_error" \/ (caller[c].code = "ok" /\
                                     (caller[c].at = "finish" => entries = {file}))

CallerInv(c) ==
  /\ caller[c].at \in Critical => guard = c
  /\ caller[c].at \in Writing \cup {"open", "read"} =>
       ~caller[c].committed /\ caller[c].code = "ok"
  /\ caller[c].at \in Writing =>
       DecisionOf(c).writes /\ caller[c].record = DecisionOf(c).record
  /\ caller[c].at \in {"sync", "rename"} => caller[c].temp.content = caller[c].record
  /\ caller[c].at = "rename" => caller[c].temp.synced
  /\ caller[c].at = "syncdir" => caller[c].committed /\ caller[c].code = "ok"
  /\ caller[c].at \in {"syncdir", "finish"} /\ caller[c].committed => Committed(c)
  /\ caller[c].at = "finish" /\ ~caller[c].committed => Declines(c) \/ Failed(c)

DiskInv == file \in entries /\ \A e \in entries : e.synced
StoreInv == DiskInv /\ \A c \in Caller : CallerInv(c)

\* A step of one caller keeps what holds of the others: who changes the disk
\* holds the guard, and nobody takes the guard from its holder.
LEMMA OthersKept ==
  ASSUME TypeOK, StoreInv, NEW c \in Caller, NEW k, Becomes(c, k),
         UNCHANGED <<file, entries>> \/ guard = c,
         guard' = guard \/ guard = c \/ guard = Free,
         DiskInv', CallerInv(c)'
  PROVE  StoreInv'
<1>. SUFFICES ASSUME NEW d \in Caller \ {c} PROVE CallerInv(d)'
  BY DEF StoreInv
<1>1. caller'[d] = caller[d]
  BY OneBecomes
<1>2. CASE caller[d].at \in Critical
  <2>1. guard = d
    BY <1>2 DEF StoreInv, CallerInv
  <2>2. guard # c /\ guard # Free
    BY <2>1, CallerAssumption DEF Free
  <2>3. guard' = guard /\ file' = file /\ entries' = entries /\ CallerInv(d)
    BY <2>2 DEF StoreInv
  <2>. QED
    BY <1>1, <2>3 DEF CallerInv, DecisionOf, Declines, Failed, Committed
<1>3. CASE caller[d].at \notin Critical
  <2>1. CallerInv(d)
    BY DEF StoreInv
  <2>. QED
    BY <1>1, <1>3, <2>1 DEF CallerInv, Critical, Writing
<1>. QED
  BY <1>2, <1>3

\* What a caller has decided when it holds the guard.
LEMMA GuardHeld ==
  ASSUME StoreInv, NEW c \in Caller, caller[c].at \in Critical
  PROVE  guard = c /\ CallerInv(c)
BY DEF StoreInv, CallerInv

LEMMA StoreInvStep == TypeOK /\ StoreInv /\ [Next]_vars => StoreInv'
<1>. SUFFICES ASSUME TypeOK, StoreInv, [Next]_vars
              PROVE  StoreInv'
  OBVIOUS
<1>1. \A c \in Caller : caller[c] \in Callers /\ CallerInv(c)
  BY DEF TypeOK, StoreInv
<1>2. DiskInv
  BY DEF StoreInv
<1>3. ASSUME UNCHANGED <<file, entries>> PROVE DiskInv'
  BY <1>2, <1>3 DEF DiskInv
<1>4. ASSUME NEW c \in Caller, NEW op \in Operations, Call(c, op)
      PROVE  StoreInv'
  <2>. DEFINE k == [Idle EXCEPT !.at = "open", !.op = op]
  <2>1. Becomes(c, k) /\ UNCHANGED <<file, entries, guard>>
    BY <1>4 DEF Call
  <2>2. k.at = "open" /\ ~k.committed /\ k.code = "ok"
    BY DEF Idle
  <2>. HIDE DEF k
  <2>3. CallerInv(c)'
    BY <2>1, <2>2, OneBecomes DEF CallerInv, Critical, Writing
  <2>. QED
    BY <1>3, <2>1, <2>3, OthersKept
<1>5. ASSUME NEW c \in Caller, OpenFails(c) \/ ReadFails(c)
      PROVE  StoreInv'
  <2>1. PICK step \in {"answered", "finish"}, code \in {"io_error", "invalid"} :
               /\ Concludes(c, step, code, FALSE, NoRecord)
               /\ step = "finish" => caller[c].at = "read"
    BY <1>5 DEF OpenFails, ReadFails, At
  <2>. DEFINE k == [caller[c] EXCEPT !.at = step, !.code = code, !.committed = FALSE,
                                     !.record = NoRecord]
  <2>2. Becomes(c, k) /\ UNCHANGED <<file, entries, guard>>
    BY <1>5, <2>1 DEF Concludes, OpenFails, ReadFails
  <2>3. /\ k.at = step /\ k.code = code /\ ~k.committed /\ k.record = NoRecord
    BY <1>1 DEF Callers
  <2>. HIDE DEF k
  <2>4. step = "finish" => guard = c
    BY <2>1, GuardHeld DEF Critical
  <2>5. CallerInv(c)'
    BY <2>1, <2>2, <2>3, <2>4, OneBecomes DEF CallerInv, Critical, Writing, Failed
  <2>. QED
    BY <1>3, <2>2, <2>5, OthersKept
<1>6. ASSUME NEW c \in Caller, Lock(c)
      PROVE  StoreInv'
  <2>. DEFINE k == [caller[c] EXCEPT !.at = "read"]
  <2>1. Becomes(c, k) /\ UNCHANGED <<file, entries>> /\ guard = Free /\ guard' = c
    BY <1>6 DEF Lock, Acquire, Moves
  <2>2. k.at = "read" /\ ~k.committed /\ k.code = "ok"
    BY <1>1, <1>6 DEF Callers, Lock, At, CallerInv
  <2>. HIDE DEF k
  <2>3. CallerInv(c)'
    BY <2>1, <2>2, OneBecomes DEF CallerInv, Critical, Writing
  <2>. QED
    BY <1>3, <2>1, <2>3, OthersKept
<1>7. ASSUME NEW c \in Caller, Read(c), DecisionOf(c).writes
      PROVE  StoreInv'
  <2>. DEFINE d == DecisionOf(c)
              k == [caller[c] EXCEPT !.at = "create", !.record = d.record]
  <2>1. /\ Becomes(c, k) /\ UNCHANGED <<file, entries, guard>> /\ guard = c
        /\ caller[c].at = "read"
    BY <1>7, GuardHeld DEF Read, At, Critical, DecisionOf
  <2>2. /\ k.at = "create" /\ ~k.committed /\ k.code = "ok" /\ k.record = d.record
        /\ k.op = caller[c].op
    BY <1>1, <2>1 DEF Callers, CallerInv
  <2>. HIDE DEF k
  <2>3. DecisionOf(c)' = d
    BY <2>1, <2>2, OneBecomes DEF DecisionOf
  <2>. HIDE DEF d
  <2>4. d.writes
    BY <1>7 DEF d
  <2>5. CallerInv(c)'
    BY <2>1, <2>2, <2>3, <2>4, OneBecomes DEF CallerInv, Critical, Writing
  <2>. QED
    BY <1>3, <2>1, <2>5, OthersKept
<1>8. ASSUME NEW c \in Caller, Read(c), ~DecisionOf(c).writes
      PROVE  StoreInv'
  <2>. DEFINE d == DecisionOf(c)
              k == [caller[c] EXCEPT !.at = "finish", !.code = d.code, !.committed = FALSE,
                                     !.record = d.record]
  <2>1. Becomes(c, k) /\ UNCHANGED <<file, entries, guard>> /\ guard = c
    BY <1>8, GuardHeld DEF Read, At, Critical, DecisionOf, Concludes
  <2>2. /\ k.at = "finish" /\ ~k.committed /\ k.code = d.code /\ k.record = d.record
        /\ k.op = caller[c].op
    BY <1>1 DEF Callers
  <2>. HIDE DEF k
  <2>3. DecisionOf(c)' = d
    BY <2>1, <2>2, OneBecomes DEF DecisionOf
  <2>4. Declines(c)'
    BY <1>8, <2>1, <2>2, <2>3, OneBecomes DEF Declines
  <2>5. CallerInv(c)'
    BY <2>1, <2>2, <2>4, OneBecomes DEF CallerInv, Critical, Writing
  <2>. QED
    BY <1>3, <2>1, <2>5, OthersKept
<1>9. ASSUME NEW c \in Caller, CreateTemp(c) \/ WriteTemp(c) \/ SyncTemp(c)
      PROVE  StoreInv'
  <2>1. PICK k : /\ Becomes(c, k)
                 /\ k.at \in {"write", "sync", "rename"} /\ k.op = caller[c].op
                 /\ k.committed = caller[c].committed /\ k.code = caller[c].code
                 /\ k.record = caller[c].record
                 /\ k.at = "sync" => k.temp.content = k.record
                 /\ k.at = "rename" =>
                      /\ caller[c].at = "sync"
                      /\ k.temp.content = caller[c].temp.content /\ k.temp.synced
    <3>1. CASE CreateTemp(c)
      BY <1>1, <3>1 DEF CreateTemp, Moves, Callers
    <3>2. CASE WriteTemp(c)
      <4>. DEFINE k == [caller[c] EXCEPT !.at = "sync",
                          !.temp = [content |-> caller[c].record, synced |-> FALSE]]
      <4>1. /\ k.at = "sync" /\ k.op = caller[c].op
            /\ k.committed = caller[c].committed /\ k.code = caller[c].code
            /\ k.record = caller[c].record /\ k.temp.content = k.record
        BY <1>1 DEF Callers
      <4>2. Becomes(c, k)
        BY <3>2 DEF WriteTemp
      <4>. HIDE DEF k
      <4>. QED
        BY <4>1, <4>2
    <3>3. CASE SyncTemp(c)
      <4>. DEFINE k == [caller[c] EXCEPT !.at = "rename", !.temp = [@ EXCEPT !.synced = TRUE]]
      <4>1. caller[c].temp \in Entries
        BY CallerFields
      <4>2. /\ k.at = "rename" /\ k.op = caller[c].op
            /\ k.committed = caller[c].committed /\ k.code = caller[c].code
            /\ k.record = caller[c].record
            /\ k.temp.content = caller[c].temp.content /\ k.temp.synced
        BY <1>1, <4>1 DEF Callers, Entries
      <4>3. Becomes(c, k) /\ caller[c].at = "sync"
        BY <3>3 DEF SyncTemp, At
      <4>. HIDE DEF k
      <4>. QED
        BY <4>2, <4>3
    <3>. QED
      BY <1>9, <3>1, <3>2, <3>3
  <2>2. UNCHANGED <<file, entries, guard>> /\ caller[c].at \in {"create", "write", "sync"}
    BY <1>9 DEF CreateTemp, WriteTemp, SyncTemp, At
  <2>3. guard = c /\ CallerInv(c)
    BY <2>2, GuardHeld DEF Critical
  <2>4. DecisionOf(c)' = DecisionOf(c)
    BY <2>1, <2>2, OneBecomes DEF DecisionOf
  <2>5. CallerInv(c)'
    BY <2>1, <2>2, <2>3, <2>4, OneBecomes DEF CallerInv, Critical, Writing
  <2>. QED
    BY <1>3, <2>1, <2>2, <2>5, OthersKept
<1>10. ASSUME NEW c \in Caller, FailBeforeCommit(c)
       PROVE  StoreInv'
  <2>. DEFINE k == [caller[c] EXCEPT !.at = "finish", !.temp = NoTemp, !.code = "io_error",
                                     !.record = NoRecord]
  <2>1. Becomes(c, k) /\ UNCHANGED <<file, entries, guard>> /\ caller[c].at \in Writing
    BY <1>10 DEF FailBeforeCommit, Writing
  <2>2. guard = c /\ ~caller[c].committed
    BY <2>1, GuardHeld DEF Critical, Writing, CallerInv
  <2>3. k.at = "finish" /\ ~k.committed /\ k.code = "io_error" /\ k.record = NoRecord
    BY <1>1, <2>2 DEF Callers
  <2>. HIDE DEF k
  <2>4. CallerInv(c)'
    BY <2>1, <2>2, <2>3, OneBecomes DEF CallerInv, Critical, Writing, Failed
  <2>. QED
    BY <1>3, <2>1, <2>4, OthersKept
<1>11. ASSUME NEW c \in Caller, Rename(c)
       PROVE  StoreInv'
  <2>. DEFINE k == [caller[c] EXCEPT !.at = "syncdir", !.temp = NoTemp, !.committed = TRUE]
  <2>1. /\ Becomes(c, k) /\ file' = caller[c].temp /\ entries' = entries \cup {file'}
        /\ guard' = guard /\ caller[c].at = "rename"
    BY <1>11 DEF Rename, At
  <2>2. /\ guard = c /\ DecisionOf(c).writes /\ caller[c].record = DecisionOf(c).record
        /\ caller[c].temp.content = caller[c].record /\ caller[c].temp.synced
        /\ ~caller[c].committed /\ caller[c].code = "ok"
    BY <2>1, GuardHeld DEF Critical, CallerInv, Writing
  <2>3. DiskInv'
    BY <1>2, <2>1, <2>2 DEF DiskInv
  <2>4. /\ k.at = "syncdir" /\ k.committed /\ k.code = "ok" /\ k.record = caller[c].record
        /\ k.op = caller[c].op
    BY <1>1, <2>2 DEF Callers
  <2>. HIDE DEF k
  <2>5. k.op.kind = "activate" => k.record = Active(k.record.last, k.op.requester)
    <3>1. caller[c].op \in Operations /\ file.content \in Contents
      BY CallerFields DEF TypeOK, Entries
    <3>2. caller[c].op.kind = "activate" =>
            caller[c].record = Active(file.content.last + 1, caller[c].op.requester)
      BY <2>2, <3>1, DecisionCases DEF DecisionOf
    <3>. QED
      BY <2>4, <3>2 DEF Active
  <2>6. Committed(c)'
    BY <2>1, <2>2, <2>4, <2>5, OneBecomes DEF Committed
  <2>7. CallerInv(c)'
    BY <2>1, <2>2, <2>4, <2>6, OneBecomes DEF CallerInv, Critical, Writing
  <2>. QED
    BY <2>1, <2>2, <2>3, <2>7, OthersKept
<1>12. ASSUME NEW c \in Caller, SyncDirectory(c) \/ SyncDirectoryFails(c)
       PROVE  StoreInv'
  <2>1. PICK k : /\ Becomes(c, k) /\ k.at = "finish" /\ k.op = caller[c].op
                 /\ k.committed = caller[c].committed /\ k.record = caller[c].record
                 /\ \/ k.code = caller[c].code /\ entries' = {file}
                    \/ k.code = "io_error" /\ entries' = entries
    <3>1. CASE SyncDirectory(c)
      <4>. DEFINE k == [caller[c] EXCEPT !.at = "finish"]
      <4>1. Becomes(c, k) /\ entries' = {file}
        BY <3>1 DEF SyncDirectory, Moves
      <4>2. /\ k.at = "finish" /\ k.op = caller[c].op /\ k.committed = caller[c].committed
            /\ k.record = caller[c].record /\ k.code = caller[c].code
        BY <1>1 DEF Callers
      <4>. HIDE DEF k
      <4>. QED
        BY <4>1, <4>2
    <3>2. CASE SyncDirectoryFails(c)
      <4>. DEFINE k == [caller[c] EXCEPT !.at = "finish", !.code = "io_error"]
      <4>1. Becomes(c, k) /\ entries' = entries
        BY <3>2 DEF SyncDirectoryFails
      <4>2. /\ k.at = "finish" /\ k.op = caller[c].op /\ k.committed = caller[c].committed
            /\ k.record = caller[c].record /\ k.code = "io_error"
        BY <1>1 DEF Callers
      <4>. HIDE DEF k
      <4>. QED
        BY <4>1, <4>2
    <3>. QED
      BY <1>12, <3>1, <3>2
  <2>2. file' = file /\ guard' = guard /\ caller[c].at = "syncdir"
    BY <1>12 DEF SyncDirectory, SyncDirectoryFails, At
  <2>3. guard = c /\ caller[c].committed /\ caller[c].code = "ok" /\ Committed(c)
    BY <2>2, GuardHeld DEF Critical, CallerInv
  <2>4. DiskInv'
    BY <1>2, <2>1, <2>2 DEF DiskInv
  <2>5. Committed(c)'
    BY <2>1, <2>2, <2>3, OneBecomes DEF Committed
  <2>6. CallerInv(c)'
    BY <2>1, <2>2, <2>3, <2>5, OneBecomes DEF CallerInv, Critical, Writing
  <2>. QED
    BY <2>1, <2>2, <2>3, <2>4, <2>6, OthersKept
<1>13. ASSUME NEW c \in Caller, Finish(c) \/ Throw(c) \/ Return(c) \/ Crash(c)
       PROVE  StoreInv'
  <2>1. PICK k : Becomes(c, k) /\ k.at \in {"idle", "answered"}
    <3>1. CASE Finish(c)
      <4>1. PICK code \in {caller[c].code, "io_error"} :
                   Becomes(c, [caller[c] EXCEPT !.at = "answered", !.code = code])
        BY <3>1 DEF Finish
      <4>. DEFINE k == [caller[c] EXCEPT !.at = "answered", !.code = code]
      <4>2. Becomes(c, k) /\ k.at = "answered"
        BY <1>1, <4>1 DEF Callers
      <4>. HIDE DEF k
      <4>. QED
        BY <4>2
    <3>2. CASE Throw(c)
      <4>. DEFINE k == [Idle EXCEPT !.at = "answered", !.op = caller[c].op, !.code = "io_error"]
      <4>1. Becomes(c, k) /\ k.at = "answered"
        BY <3>2 DEF Throw, Idle
      <4>. HIDE DEF k
      <4>. QED
        BY <4>1
    <3>3. CASE Return(c) \/ Crash(c)
      BY <3>3 DEF Return, Crash, Idle
    <3>. QED
      BY <1>13, <3>1, <3>2, <3>3
  <2>2. UNCHANGED <<file, entries>>
    BY <1>13 DEF Finish, Throw, Return, Crash
  <2>3. guard' = guard \/ guard = c
    <3>1. Finish(c) \/ Throw(c) => guard = c
      BY GuardHeld DEF Finish, Throw, At, MayThrow, Critical
    <3>. QED
      BY <1>13, <3>1 DEF Return, Crash
  <2>4. CallerInv(c)'
    BY <2>1, OneBecomes DEF CallerInv, Critical, Writing
  <2>. QED
    BY <1>3, <2>1, <2>2, <2>3, <2>4, OthersKept
<1>14. CASE PowerLoss
  <2>1. \A c \in Caller : caller'[c].at = "idle"
    BY <1>14 DEF PowerLoss, Idle
  <2>2. \A c \in Caller : CallerInv(c)'
    BY <2>1 DEF CallerInv, Critical, Writing
  <2>3. DiskInv'
    BY <1>14 DEF PowerLoss, AfterPowerLoss, DiskInv
  <2>. QED
    BY <2>2, <2>3 DEF StoreInv
<1>15. CASE UNCHANGED vars
  BY <1>1, <1>2, <1>15
     DEF vars, StoreInv, DiskInv, CallerInv, DecisionOf, Declines, Failed, Committed
<1>. QED
  BY <1>4, <1>5, <1>6, <1>7, <1>8, <1>9, <1>10, <1>11, <1>12, <1>13, <1>14, <1>15
     DEF Next, Proceed

LEMMA StoreInvInit == Init => StoreInv
<1>. SUFFICES ASSUME Init PROVE StoreInv
  OBVIOUS
<1>1. DiskInv
  BY InitialDisk DEF Init, DiskInv
<1>2. \A c \in Caller : caller[c].at = "idle"
  BY DEF Init, Idle
<1>. QED
  BY <1>1, <1>2 DEF StoreInv, CallerInv, Critical, Writing

\* The disk stays whole and no decision is overtaken, whatever fails or dies.
THEOREM StoreSafe == Spec => []StoreInv
BY StoreInvInit, StoreInvStep, TypeCorrect, PTL DEF Spec

-----------------------------------------------------------------------------
(* The refinement: what the promise sees of each caller.                   *)

Shown(stage, op, code, committed, record) ==
  [stage |-> stage, op |-> op, code |-> code, committed |-> committed, record |-> record]
Undecided(k) ==
  \/ k.at \in {"open", "read", "create", "write", "sync", "rename"}
  \/ k.at = "finish" /\ ~k.committed

\* The promise's records and decisions are those of the store.
LEMMA SameRecords ==
  /\ Promise!Contents = Contents
  /\ Promise!Operations = Operations
  /\ \A op, c : Promise!Decision(op, c) = Decision(op, c)
  /\ Promise!NoRecord = NoRecord
  /\ Promise!Idle = Shown("idle", NoOperation, "ok", FALSE, NoRecord)
<1>1. Promise!Contents = Contents
  BY DEF Contents, Generations, Nobody, Promise!Contents, Promise!Generations, Promise!Nobody
<1>2. Promise!Operations = Operations
  BY DEF Operations, Generations, Nobody,
         Promise!Operations, Promise!Generations, Promise!Nobody
<1>3. ASSUME NEW op, NEW c PROVE Promise!Decision(op, c) = Decision(op, c)
  BY DEF Decision, Answers, Writes, GenesisDecision, ActivateDecision, ReleaseDecision,
         Successor, Genesis, Inactive, Active, Nobody,
         Promise!Decision, Promise!Answers, Promise!Writes, Promise!GenesisDecision,
         Promise!ActivateDecision, Promise!ReleaseDecision, Promise!Successor, Promise!Genesis,
         Promise!Inactive, Promise!Active, Promise!Nobody
<1>4. Promise!NoRecord = NoRecord
  BY DEF NoRecord, Unreadable, Nobody, Promise!NoRecord, Promise!Unreadable, Promise!Nobody
<1>5. Promise!Idle = Shown("idle", NoOperation, "ok", FALSE, NoRecord)
  BY <1>4 DEF Shown, NoOperation, Nobody, Promise!Idle, Promise!NoOperation, Promise!Nobody
<1>. QED
  BY <1>1, <1>2, <1>3, <1>4, <1>5

\* What the promise sees of a caller at each of its steps.
LEMMA CallOfCases ==
  ASSUME NEW k \in Callers
  PROVE  /\ k.at = "idle" => CallOf(k).stage = "idle"
         /\ k.at = "answered" => CallOf(k) = Shown("answered", k.op, k.code, k.committed, k.record)
         /\ Undecided(k) => CallOf(k) = Shown("called", k.op, "ok", FALSE, NoRecord)
         /\ k.at = "syncdir" => CallOf(k) = Shown("published", k.op, "ok", FALSE, k.record)
         /\ k.at = "finish" /\ k.committed /\ k.code # "ok" =>
              CallOf(k) = Shown("published", k.op, "ok", FALSE, k.record)
         /\ k.at = "finish" /\ k.committed /\ k.code = "ok" =>
              CallOf(k) = Shown("hardened", k.op, "ok", FALSE, k.record)
<1>1. /\ k.at = "idle" => StageOf(k) = "idle"
      /\ k.at = "answered" => StageOf(k) = "answered"
      /\ Undecided(k) => StageOf(k) = "called"
      /\ k.at = "syncdir" => StageOf(k) = "published"
      /\ k.at = "finish" /\ k.committed /\ k.code # "ok" => StageOf(k) = "published"
      /\ k.at = "finish" /\ k.committed /\ k.code = "ok" => StageOf(k) = "hardened"
  BY DEF StageOf, Undecided
<1>2. k.committed \in BOOLEAN
  BY DEF Callers
<1>. QED
  BY <1>1, <1>2 DEF CallOf, Shown

LEMMA IdleShown == CallOf(Idle) = Promise!Idle
BY SameRecords DEF CallOf, StageOf, Idle, Shown

LEMMA SeenBecomes ==
  ASSUME TypeOK, NEW c \in Caller, NEW k, Becomes(c, k)
  PROVE  /\ Seen[c] = CallOf(caller[c])
         /\ Seen' = [Seen EXCEPT ![c] = CallOf(k)]
<1>1. \A d \in Caller : CallOf(caller[d])' = CallOf(caller'[d])
  BY DEF CallOf, StageOf
<1>2. caller'[c] = k /\ \A d \in Caller \ {c} : caller'[d] = caller[d]
  BY OneBecomes
<1>3. Seen' = [d \in Caller |-> CallOf(caller'[d])]
  BY <1>1 DEF Seen
<1>. QED
  BY <1>2, <1>3 DEF Seen

\* With whole entries, what survives is what the entries hold.
LEMMA WholeSurvivors == DiskInv => Survivors = {e.content : e \in entries}
BY DEF DiskInv, Survivors, AfterPowerLoss

LEMMA DiskUnseen == UNCHANGED <<file, entries>> => UNCHANGED <<file.content, Survivors>>
BY DEF Survivors, AfterPowerLoss

\* A caller that becomes k reaches what the promise sees of k.
LEMMA ReachesShown ==
  ASSUME TypeOK, NEW c \in Caller, NEW k, NEW stage, NEW code, NEW committed, NEW record,
         Becomes(c, k), Seen[c].op = k.op,
         CallOf(k) = Shown(stage, k.op, code, committed, record)
  PROVE  Promise!Reaches(c, stage, code, committed, record)
<1>1. Seen' = [Seen EXCEPT ![c] = CallOf(k)]
  BY SeenBecomes
<1>. QED
  BY <1>1 DEF Promise!Reaches, Shown

LEMMA CalledShown ==
  ASSUME NEW op
  PROVE  [Promise!Idle EXCEPT !.stage = "called", !.op = op]
           = Shown("called", op, "ok", FALSE, NoRecord)
<1>1. PICK no : no = FALSE
  BY Zenon
<1>2. [Shown("idle", NoOperation, "ok", no, NoRecord) EXCEPT !.stage = "called"]
        = Shown("called", NoOperation, "ok", no, NoRecord)
  BY DEF Shown
<1>3. [Shown("called", NoOperation, "ok", no, NoRecord) EXCEPT !.op = op]
        = Shown("called", op, "ok", no, NoRecord)
  BY DEF Shown
<1>. QED
  BY <1>1, <1>2, <1>3, SameRecords, Zenon

\* Every step of the store is a step of the promise or is not seen by it.
LEMMA PromiseStep ==
  TypeOK /\ TypeOK' /\ StoreInv /\ StoreInv' /\ [Next]_vars => [Promise!Next]_(Promise!avars)
<1>. SUFFICES ASSUME TypeOK, TypeOK', StoreInv, StoreInv', [Next]_vars
              PROVE  [Promise!Next]_(Promise!avars)
  OBVIOUS
<1>1. \A c \in Caller : /\ caller[c] \in Callers /\ caller'[c] \in Callers
                        /\ CallerInv(c) /\ CallerInv(c)'
                        /\ Seen[c] = CallOf(caller[c])
  BY DEF TypeOK, StoreInv, Seen
<1>2. ASSUME NEW c \in Caller, NEW k, Becomes(c, k)
      PROVE  /\ k = caller'[c] /\ k \in Callers
             /\ Seen' = [Seen EXCEPT ![c] = CallOf(k)]
             /\ CallOf(k) = CallOf(caller[c]) => Seen' = Seen
  <2>1. k = caller'[c] /\ k \in Callers
    BY <1>1, <1>2, OneBecomes
  <2>2. Seen' = [Seen EXCEPT ![c] = CallOf(k)]
    BY <1>2, SeenBecomes
  <2>. QED
    BY <1>1, <2>1, <2>2 DEF Seen
<1>3. ASSUME NEW c \in Caller, NEW op \in Operations, Call(c, op)
      PROVE  Promise!Next
  <2>. DEFINE k == [Idle EXCEPT !.at = "open", !.op = op]
  <2>1. Becomes(c, k) /\ UNCHANGED <<file, entries>> /\ caller[c].at = "idle"
    BY <1>3 DEF Call, At
  <2>2. k.at = "open" /\ k.op = op
    BY DEF Idle
  <2>. HIDE DEF k
  <2>3. CallOf(k) = Shown("called", op, "ok", FALSE, NoRecord)
    BY <1>2, <2>1, <2>2, CallOfCases DEF Undecided
  <2>4. CallOf(k) = [Promise!Idle EXCEPT !.stage = "called", !.op = op]
    BY <2>3, CalledShown, Zenon
  <2>5. Seen[c].stage = "idle"
    BY <1>1, <2>1, CallOfCases
  <2>6. Promise!Call(c, op)
    BY <1>2, <2>1, <2>4, <2>5, DiskUnseen DEF Promise!Call
  <2>. QED
    BY <2>6, SameRecords DEF Promise!Next
<1>4. ASSUME NEW c \in Caller, NEW k, Becomes(c, k), UNCHANGED <<file, entries>>,
             Undecided(caller[c]), Undecided(k), k.op = caller[c].op
      PROVE  UNCHANGED Promise!avars
  <2>1. CallOf(k) = CallOf(caller[c])
    BY <1>1, <1>2, <1>4, CallOfCases
  <2>. QED
    BY <1>2, <1>4, <2>1, DiskUnseen DEF Promise!avars
<1>5. ASSUME NEW c \in Caller, NEW code \in {"io_error", "invalid"},
             NEW k, Becomes(c, k), UNCHANGED <<file, entries>>,
             Undecided(caller[c]), k.at = "answered", k.op = caller[c].op, k.code = code,
             ~k.committed, k.record = NoRecord
      PROVE  Promise!Next
  <2>1. CallOf(caller[c]) = Shown("called", k.op, "ok", FALSE, NoRecord)
    BY <1>1, <1>5, CallOfCases
  <2>2. CallOf(k) = Shown("answered", k.op, code, FALSE, NoRecord)
    <3>1. k \in Callers /\ k.committed = FALSE
      BY <1>2, <1>5 DEF Callers
    <3>. QED
      BY <1>5, <3>1, CallOfCases
  <2>3. Promise!Answer(c, code, FALSE, Promise!NoRecord)
    <3>1. Promise!NoRecord = NoRecord
      BY SameRecords
    <3>2. Seen[c].op = k.op
      BY <1>1, <2>1 DEF Shown
    <3>. QED
      BY <1>5, <2>2, <3>1, <3>2, ReachesShown DEF Promise!Answer
  <2>4. Seen[c].stage = "called"
    BY <1>1, <2>1 DEF Shown
  <2>5. Promise!Fail(c)
    BY <1>5, <2>3, <2>4, DiskUnseen DEF Promise!Fail
  <2>. QED
    BY <2>5 DEF Promise!Next
<1>6. ASSUME NEW c \in Caller, OpenFails(c)
      PROVE  Promise!Next
  <2>1. PICK code \in {"io_error", "invalid"} : Concludes(c, "answered", code, FALSE, NoRecord)
    BY <1>6 DEF OpenFails
  <2>. DEFINE k == [caller[c] EXCEPT !.at = "answered", !.code = code, !.committed = FALSE,
                                     !.record = NoRecord]
  <2>2. Becomes(c, k) /\ UNCHANGED <<file, entries>> /\ Undecided(caller[c])
    BY <1>6, <2>1 DEF OpenFails, Concludes, At, Undecided
  <2>3. /\ k.at = "answered" /\ k.op = caller[c].op /\ k.code = code /\ ~k.committed
        /\ k.record = NoRecord
    BY <1>1 DEF Callers
  <2>. HIDE DEF k
  <2>. QED
    BY <1>5, <2>2, <2>3
<1>7. ASSUME NEW c \in Caller, Throw(c)
      PROVE  Promise!Next
  <2>. DEFINE k == [Idle EXCEPT !.at = "answered", !.op = caller[c].op, !.code = "io_error"]
  <2>1. Becomes(c, k) /\ UNCHANGED <<file, entries>> /\ Undecided(caller[c])
    BY <1>7 DEF Throw, MayThrow, Undecided
  <2>2. /\ k.at = "answered" /\ k.op = caller[c].op /\ k.code = "io_error" /\ ~k.committed
        /\ k.record = NoRecord
    BY DEF Idle
  <2>. HIDE DEF k
  <2>. QED
    BY <1>5, <2>1, <2>2
<1>8. ASSUME NEW c \in Caller, Lock(c) \/ CreateTemp(c)
      PROVE  UNCHANGED Promise!avars
  <2>1. PICK step \in {"read", "write"} : Moves(c, step)
    BY <1>8 DEF Lock, CreateTemp
  <2>. DEFINE k == [caller[c] EXCEPT !.at = step]
  <2>2. Becomes(c, k) /\ UNCHANGED <<file, entries>> /\ Undecided(caller[c])
    BY <1>8, <2>1 DEF Lock, CreateTemp, Moves, At, Undecided
  <2>3. k.at \in {"read", "write"} /\ k.op = caller[c].op
    BY <1>1 DEF Callers
  <2>. HIDE DEF k
  <2>. QED
    BY <1>4, <2>2, <2>3 DEF Undecided
<1>9. ASSUME NEW c \in Caller, WriteTemp(c)
      PROVE  UNCHANGED Promise!avars
  <2>. DEFINE k == [caller[c] EXCEPT !.at = "sync",
                      !.temp = [content |-> caller[c].record, synced |-> FALSE]]
  <2>1. Becomes(c, k) /\ UNCHANGED <<file, entries>> /\ Undecided(caller[c])
    BY <1>9 DEF WriteTemp, At, Undecided
  <2>2. k.at = "sync" /\ k.op = caller[c].op
    BY <1>1 DEF Callers
  <2>. HIDE DEF k
  <2>. QED
    BY <1>4, <2>1, <2>2 DEF Undecided
<1>10. ASSUME NEW c \in Caller, SyncTemp(c)
       PROVE  UNCHANGED Promise!avars
  <2>. DEFINE k == [caller[c] EXCEPT !.at = "rename", !.temp = [@ EXCEPT !.synced = TRUE]]
  <2>1. Becomes(c, k) /\ UNCHANGED <<file, entries>> /\ Undecided(caller[c])
    BY <1>10 DEF SyncTemp, At, Undecided
  <2>2. k.at = "rename" /\ k.op = caller[c].op
    BY <1>1 DEF Callers
  <2>. HIDE DEF k
  <2>. QED
    BY <1>4, <2>1, <2>2 DEF Undecided
<1>11. ASSUME NEW c \in Caller, Read(c)
       PROVE  UNCHANGED Promise!avars
  <2>. DEFINE d == Decision(caller[c].op, file.content)
              k == [caller[c] EXCEPT !.at = "create", !.record = d.record]
              l == [caller[c] EXCEPT !.at = "finish", !.code = d.code, !.committed = FALSE,
                                     !.record = d.record]
  <2>1. (Becomes(c, k) \/ Becomes(c, l)) /\ UNCHANGED <<file, entries>> /\ Undecided(caller[c])
    BY <1>11 DEF Read, Concludes, At, Undecided
  <2>2. k.at = "create" /\ k.op = caller[c].op
    BY <1>1 DEF Callers
  <2>3. l.at = "finish" /\ l.op = caller[c].op /\ ~l.committed
    BY <1>1 DEF Callers
  <2>. HIDE DEF k, l
  <2>. QED
    BY <1>4, <2>1, <2>2, <2>3 DEF Undecided
<1>12. ASSUME NEW c \in Caller, ReadFails(c)
       PROVE  UNCHANGED Promise!avars
  <2>1. PICK code \in {"io_error", "invalid"} : Concludes(c, "finish", code, FALSE, NoRecord)
    BY <1>12 DEF ReadFails
  <2>. DEFINE k == [caller[c] EXCEPT !.at = "finish", !.code = code, !.committed = FALSE,
                                     !.record = NoRecord]
  <2>2. Becomes(c, k) /\ UNCHANGED <<file, entries>> /\ Undecided(caller[c])
    BY <1>12, <2>1 DEF ReadFails, Concludes, At, Undecided
  <2>3. k.at = "finish" /\ k.op = caller[c].op /\ ~k.committed
    BY <1>1 DEF Callers
  <2>. HIDE DEF k
  <2>. QED
    BY <1>4, <2>2, <2>3 DEF Undecided
<1>13. ASSUME NEW c \in Caller, FailBeforeCommit(c)
       PROVE  UNCHANGED Promise!avars
  <2>. DEFINE k == [caller[c] EXCEPT !.at = "finish", !.temp = NoTemp, !.code = "io_error",
                                     !.record = NoRecord]
  <2>1. Becomes(c, k) /\ UNCHANGED <<file, entries>> /\ Undecided(caller[c])
    BY <1>13 DEF FailBeforeCommit, Undecided
  <2>2. ~caller[c].committed
    BY <1>1, <1>13 DEF FailBeforeCommit, CallerInv, Writing
  <2>3. k.at = "finish" /\ k.op = caller[c].op /\ ~k.committed
    BY <1>1, <2>2 DEF Callers
  <2>. HIDE DEF k
  <2>. QED
    BY <1>4, <2>1, <2>3 DEF Undecided
<1>14. ASSUME NEW c \in Caller, Rename(c)
       PROVE  Promise!Next
  <2>. DEFINE k == [caller[c] EXCEPT !.at = "syncdir", !.temp = NoTemp, !.committed = TRUE]
  <2>1. /\ Becomes(c, k) /\ file' = caller[c].temp /\ entries' = entries \cup {file'}
        /\ caller[c].at = "rename"
    BY <1>14 DEF Rename, At
  <2>2. /\ DecisionOf(c).writes /\ caller[c].record = DecisionOf(c).record
        /\ caller[c].temp.content = caller[c].record
    BY <1>1, <2>1 DEF CallerInv, Writing
  <2>3. /\ k.at = "syncdir" /\ k.op = caller[c].op /\ k.record = caller[c].record
    BY <1>1 DEF Callers
  <2>. HIDE DEF k
  <2>4. CallOf(k) = Shown("published", k.op, "ok", FALSE, k.record)
    BY <1>2, <2>1, <2>3, CallOfCases
  <2>5. Seen[c] = Shown("called", k.op, "ok", FALSE, NoRecord)
    BY <1>1, <2>1, <2>3, CallOfCases DEF Undecided
  <2>6. file'.content = k.record /\ Survivors' = Survivors \cup {k.record}
    <3>1. DiskInv /\ DiskInv'
      BY DEF StoreInv
    <3>2. Survivors = {e.content : e \in entries} /\ Survivors' = {e.content : e \in entries'}
      BY <3>1, WholeSurvivors DEF DiskInv, Survivors, AfterPowerLoss
    <3>. QED
      BY <2>1, <2>2, <2>3, <3>2
  <2>7. Seen[c].stage = "called" /\ Seen[c].op = caller[c].op
    BY <2>3, <2>5 DEF Shown
  <2>8. Promise!Reaches(c, "published", "ok", FALSE, k.record)
    BY <2>1, <2>3, <2>4, <2>7, ReachesShown
  <2>9. Promise!Decision(Seen[c].op, file.content) = DecisionOf(c)
    BY <2>7, SameRecords DEF DecisionOf
  <2>10. Promise!Publish(c)
    BY <2>2, <2>3, <2>8, <2>6, <2>7, <2>9 DEF Promise!Publish
  <2>. QED
    BY <2>10 DEF Promise!Next
<1>15. ASSUME NEW c \in Caller, SyncDirectory(c)
       PROVE  Promise!Next
  <2>. DEFINE k == [caller[c] EXCEPT !.at = "finish"]
  <2>1. /\ Becomes(c, k) /\ file' = file /\ entries' = {file} /\ caller[c].at = "syncdir"
    BY <1>15 DEF SyncDirectory, At, Moves
  <2>2. caller[c].committed /\ caller[c].code = "ok"
    BY <1>1, <2>1 DEF CallerInv
  <2>3. /\ k.at = "finish" /\ k.op = caller[c].op /\ k.record = caller[c].record
        /\ k.committed /\ k.code = "ok"
    BY <1>1, <2>2 DEF Callers
  <2>. HIDE DEF k
  <2>4. CallOf(k) = Shown("hardened", k.op, "ok", FALSE, k.record)
    BY <1>2, <2>1, <2>3, CallOfCases
  <2>5. Seen[c] = Shown("published", k.op, "ok", FALSE, k.record)
    BY <1>1, <2>1, <2>3, CallOfCases
  <2>6. Seen[c].stage = "published" /\ Seen[c].op = k.op /\ Seen[c].record = k.record
    BY <2>5 DEF Shown
  <2>7. Promise!Reaches(c, "hardened", "ok", FALSE, Seen[c].record)
    BY <2>1, <2>4, <2>6, ReachesShown
  <2>8. Survivors' = {file.content} /\ file'.content = file.content
    BY <2>1 DEF StoreInv, DiskInv, Survivors, AfterPowerLoss
  <2>9. Promise!Harden(c)
    BY <2>6, <2>7, <2>8 DEF Promise!Harden
  <2>. QED
    BY <2>9 DEF Promise!Next
<1>16. ASSUME NEW c \in Caller, SyncDirectoryFails(c)
       PROVE  UNCHANGED Promise!avars
  <2>. DEFINE k == [caller[c] EXCEPT !.at = "finish", !.code = "io_error"]
  <2>1. Becomes(c, k) /\ UNCHANGED <<file, entries>> /\ caller[c].at = "syncdir"
    BY <1>16 DEF SyncDirectoryFails, At
  <2>2. caller[c].committed
    BY <1>1, <2>1 DEF CallerInv
  <2>3. /\ k.at = "finish" /\ k.op = caller[c].op /\ k.record = caller[c].record
        /\ k.committed /\ k.code # "ok"
    BY <1>1, <2>2 DEF Callers
  <2>. HIDE DEF k
  <2>4. CallOf(k) = CallOf(caller[c])
    <3>1. CallOf(k) = Shown("published", k.op, "ok", FALSE, k.record)
      BY <1>2, <2>1, <2>3, CallOfCases
    <3>2. CallOf(caller[c]) = Shown("published", k.op, "ok", FALSE, k.record)
      BY <1>1, <2>1, <2>3, CallOfCases
    <3>. QED
      BY <3>1, <3>2
  <2>. QED
    BY <1>2, <2>1, <2>4, DiskUnseen DEF Promise!avars
<1>17. ASSUME NEW c \in Caller, Finish(c)
       PROVE  Promise!Next
  <2>1. PICK code \in {caller[c].code, "io_error"} :
               Becomes(c, [caller[c] EXCEPT !.at = "answered", !.code = code])
    BY <1>17 DEF Finish
  <2>. DEFINE k == [caller[c] EXCEPT !.at = "answered", !.code = code]
  <2>2. Becomes(c, k) /\ UNCHANGED <<file, entries>> /\ caller[c].at = "finish"
    BY <1>17, <2>1 DEF Finish, At
  <2>3. /\ k.at = "answered" /\ k.op = caller[c].op /\ k.code = code
        /\ k.committed = caller[c].committed /\ k.record = caller[c].record
    BY <1>1 DEF Callers
  <2>. HIDE DEF k
  <2>4. CallOf(k) = Shown("answered", k.op, code, k.committed, k.record)
    BY <1>2, <2>2, <2>3, CallOfCases
  <2>5. caller[c].committed \in BOOLEAN
    BY <1>1 DEF Callers
  <2>6. CASE ~caller[c].committed /\ Declines(c)
    <3>1. Seen[c] = Shown("called", k.op, "ok", FALSE, NoRecord)
      BY <1>1, <2>2, <2>3, <2>6, CallOfCases DEF Undecided
    <3>2. Seen[c].stage = "called" /\ Seen[c].op = caller[c].op
      BY <2>3, <3>1 DEF Shown
    <3>3. Promise!Decision(Seen[c].op, file.content) = DecisionOf(c)
      BY <3>2, SameRecords DEF DecisionOf
    <3>4. CallOf(k) = Shown("answered", k.op, code, FALSE, DecisionOf(c).record)
      BY <2>3, <2>4, <2>5, <2>6 DEF Declines
    <3>5. Promise!Answer(c, code, FALSE, DecisionOf(c).record)
      BY <2>2, <2>3, <3>2, <3>4, ReachesShown DEF Promise!Answer
    <3>6. Promise!Decline(c)
      BY <2>2, <2>6, <3>2, <3>3, <3>5, DiskUnseen DEF Promise!Decline, Declines
    <3>. QED
      BY <3>6 DEF Promise!Next
  <2>7. CASE ~caller[c].committed /\ Failed(c)
    <3>1. code \in {"io_error", "invalid"} /\ k.record = NoRecord /\ Undecided(caller[c])
      BY <2>2, <2>3, <2>7 DEF Failed, Undecided
    <3>. QED
      BY <1>5, <2>2, <2>3, <2>7, <3>1
  <2>8. CASE caller[c].committed
    <3>1. CASE caller[c].code = "ok"
      <4>1. Seen[c] = Shown("hardened", k.op, "ok", FALSE, k.record)
        BY <1>1, <2>2, <2>3, <2>8, <3>1, CallOfCases
      <4>2. CallOf(k) = Shown("answered", k.op, code, TRUE, k.record)
        BY <2>3, <2>4, <2>5, <2>8
      <4>3. Seen[c].stage = "hardened" /\ Seen[c].op = k.op /\ Seen[c].record = k.record
        BY <4>1 DEF Shown
      <4>4. Promise!Answer(c, code, TRUE, Seen[c].record)
        BY <2>2, <4>2, <4>3, ReachesShown DEF Promise!Answer
      <4>5. Promise!Confirm(c)
        BY <2>2, <3>1, <4>3, <4>4, DiskUnseen DEF Promise!Confirm
      <4>. QED
        BY <4>5 DEF Promise!Next
    <3>2. CASE caller[c].code # "ok"
      <4>1. Seen[c] = Shown("published", k.op, "ok", FALSE, k.record)
        BY <1>1, <2>2, <2>3, <2>8, <3>2, CallOfCases
      <4>2. code = "io_error"
        BY <1>1, <2>2, <2>8, <3>2 DEF CallerInv, Committed
      <4>3. CallOf(k) = Shown("answered", k.op, "io_error", TRUE, k.record)
        BY <2>3, <2>4, <2>5, <2>8, <4>2
      <4>4. Seen[c].stage = "published" /\ Seen[c].op = k.op /\ Seen[c].record = k.record
        BY <4>1 DEF Shown
      <4>5. Promise!Answer(c, "io_error", TRUE, Seen[c].record)
        BY <2>2, <4>3, <4>4, ReachesShown DEF Promise!Answer
      <4>6. Promise!Confirm(c)
        BY <2>2, <4>4, <4>5, DiskUnseen DEF Promise!Confirm
      <4>. QED
        BY <4>6 DEF Promise!Next
    <3>. QED
      BY <3>1, <3>2
  <2>. QED
    BY <1>1, <2>2, <2>6, <2>7, <2>8 DEF CallerInv
<1>18. ASSUME NEW c \in Caller, Return(c) \/ Crash(c)
       PROVE  Promise!Next
  <2>1. Becomes(c, Idle) /\ UNCHANGED <<file, entries>>
    BY <1>18 DEF Return, Crash
  <2>2. Seen' = [Seen EXCEPT ![c] = Promise!Idle]
    BY <1>2, <2>1, IdleShown
  <2>3. CASE Return(c)
    <3>1. Seen[c].stage = "answered"
      BY <1>1, <2>3, CallOfCases DEF Return, At, Shown
    <3>2. Promise!Return(c)
      BY <2>1, <2>2, <3>1, DiskUnseen DEF Promise!Return
    <3>. QED
      BY <3>2 DEF Promise!Next
  <2>4. CASE Crash(c)
    <3>1. StageOf(caller[c]) # "idle"
      BY <1>1, <2>4 DEF Crash, At, StageOf, Callers, Steps
    <3>2. CallOf(caller[c]).stage # "idle"
      BY <3>1 DEF CallOf
    <3>3. Promise!Crash(c)
      BY <1>1, <2>1, <2>2, <3>2, DiskUnseen DEF Promise!Crash
    <3>. QED
      BY <3>3 DEF Promise!Next
  <2>. QED
    BY <1>18, <2>3, <2>4
<1>19. CASE PowerLoss
  <2>1. PICK e \in entries : file' = AfterPowerLoss(e)
    BY <1>19 DEF PowerLoss
  <2>2. entries' = {file'} /\ caller' = [c \in Caller |-> Idle]
    BY <1>19 DEF PowerLoss
  <2>3. file'.content \in Survivors /\ Survivors' = {file'.content}
    BY <2>1, <2>2 DEF Survivors, AfterPowerLoss
  <2>4. Seen' = [c \in Caller |-> Promise!Idle]
    <3>1. \A c \in Caller : CallOf(caller[c])' = CallOf(caller'[c])
      BY DEF CallOf, StageOf
    <3>2. Seen' = [c \in Caller |-> CallOf(caller'[c])]
      BY <3>1 DEF Seen
    <3>. QED
      BY <2>2, <3>2, IdleShown
  <2>5. Promise!PowerLoss
    BY <2>3, <2>4 DEF Promise!PowerLoss
  <2>. QED
    BY <2>5 DEF Promise!Next
<1>20. CASE UNCHANGED vars
  <2>1. \A c \in Caller : CallOf(caller[c])' = CallOf(caller'[c])
    BY DEF CallOf, StageOf
  <2>2. Seen' = [c \in Caller |-> CallOf(caller'[c])]
    BY <2>1 DEF Seen
  <2>3. Seen' = Seen
    BY <1>20, <2>2 DEF vars, Seen
  <2>. QED
    BY <1>20, <2>3, DiskUnseen DEF vars, Promise!avars
<1>. QED
  BY <1>3, <1>6, <1>7, <1>8, <1>9, <1>10, <1>11, <1>12, <1>13, <1>14, <1>15, <1>16, <1>17,
     <1>18, <1>19, <1>20
     DEF Next, Proceed

\* The store keeps its promise at every system call, for any number of
\* callers and through every failure, crash and loss of power: the decision
\* is atomic, taken at most once, and "ok" means durable.
THEOREM StoreKeepsPromise == Spec => KeepsPromise
<1>1. Init => Promise!Init
  <2>. SUFFICES ASSUME Init PROVE Promise!Init
    OBVIOUS
  <2>1. file.content \in Promise!Contents /\ Survivors = {file.content}
    BY InitialDisk, SameRecords DEF Init, Survivors, AfterPowerLoss
  <2>2. Seen = [c \in Caller |-> Promise!Idle]
    BY IdleShown DEF Init, Seen
  <2>. QED
    BY <2>1, <2>2 DEF Promise!Init
<1>. QED
  BY <1>1, PromiseStep, TypeCorrect, StoreSafe, PTL DEF Spec, KeepsPromise, Promise!Spec

-----------------------------------------------------------------------------
(* What was granted.                                                       *)

Past(g) == \A s \in Survivors : s.code = "ok" /\ g <= s.last
Pending(c) ==
  /\ caller[c].at \in {"syncdir", "finish"} /\ caller[c].committed
  /\ caller[c].op.kind = "activate"

\* Whatever a loss of power leaves, it is past every grant, and an inhibitor
\* that is about to be granted has a generation of its own.
GrantInv ==
  /\ \A s \in Survivors : s.code \in {"invalid", "unsupported"} => Survivors = {s}
  /\ \A t \in granted : Past(t[1])
  /\ GrantsAreDurable
  /\ \A c \in Caller :
       Pending(c) => /\ caller[c].record.last # 0
                     /\ \A t \in granted : t[1] # caller[c].record.last

LEMMA StoreStep == [GNext]_gvars => [Next]_vars
BY DEF GNext, gvars, vars

LEMMA StoreTypes == GSpec => []TypeOK /\ []StoreInv
<1>1. GInit => Init
  BY DEF GInit
<1>2. GSpec => Spec
  BY <1>1, StoreStep, PTL DEF GSpec, Spec
<1>. QED
  BY <1>2, TypeCorrect, StoreSafe, PTL

LEMMA GrantsTypeStep == TypeOK /\ GrantsOK /\ [GNext]_gvars => GrantsOK'
<1>. SUFFICES ASSUME TypeOK, GrantsOK, [GNext]_gvars
              PROVE  GrantsOK'
  OBVIOUS
<1>1. ASSUME NEW c \in Caller, Granting(c)
      PROVE  TokenOf(c) \in Generations \X Requester
  <2>1. caller[c].record \in Contents /\ caller[c].op \in Operations
    BY CallerFields
  <2>2. caller[c].record.last \in Generations
    BY <2>1, Readable
  <2>3. caller[c].op.requester \in Requester
    BY <1>1, <2>1, OperationTypes DEF Granting
  <2>. QED
    BY <2>2, <2>3 DEF TokenOf
<1>2. CASE GNext
  BY <1>1, <1>2 DEF GNext, GrantsOK
<1>3. CASE UNCHANGED gvars
  BY <1>3 DEF gvars, GrantsOK
<1>. QED
  BY <1>2, <1>3

\* A step in which no caller's answer grants and no rename releases.
LEMMA NothingGranted ==
  ASSUME GNext, \A c \in Caller : ~Granting(c)
  PROVE  granted' = granted
BY DEF GNext

LEMMA NothingSurrendered ==
  ASSUME GNext, \A c \in Caller : ~Surrendering(c)
  PROVE  surrendered' = surrendered
BY DEF GNext

\* The survivors of a disk whose entries are whole.
LEMMA SurvivorsOf ==
  ASSUME TypeOK, DiskInv
  PROVE  /\ file.content \in Survivors /\ Survivors \subseteq Contents
         /\ entries = {file} => Survivors = {file.content}
BY WholeSurvivors DEF DiskInv, TypeOK, Entries

LEMMA SurvivorTypes == TypeOK => \A s \in Survivors : s \in Contents /\ s.last \in Nat
BY AfterPowerLossType DEF TypeOK, Survivors, Entries, Contents, Generations

\* A step that leaves nothing new to survive, grants and publishes nothing.
LEMMA GrantsKept ==
  ASSUME GrantInv, Survivors' \subseteq Survivors,
         granted' = granted, surrendered' = surrendered,
         \A c \in Caller : Pending(c)' => Pending(c) /\ caller'[c].record = caller[c].record,
         Survivors' = Survivors \/ \E s : Survivors' = {s}
  PROVE  GrantInv'
BY DEF GrantInv, Past, GrantsAreDurable

\* Who is past its commit holds the guard, so nobody else is.
LEMMA OnePending ==
  ASSUME StoreInv, NEW c \in Caller, guard = c, NEW d \in Caller \ {c}
  PROVE  ~Pending(d)
BY DEF StoreInv, CallerInv, Critical, Pending

\* What a grant that is not surrendered says of the file.
LEMMA GrantInForce ==
  ASSUME TypeOK, GrantsOK, StoreInv, GrantInv, NEW t \in granted
  PROVE  /\ t \in Generations \X Requester
         /\ file.content.code = "ok" /\ t[1] <= file.content.last
         /\ t \notin surrendered => file.content = Active(t[1], t[2])
<1>1. file.content \in Survivors
  BY SurvivorsOf DEF StoreInv
<1>. QED
  BY <1>1 DEF GrantsOK, GrantInv, Past, GrantsAreDurable

LEMMA RenameKeepsGrants ==
  ASSUME TypeOK, TypeOK', GrantsOK, StoreInv, StoreInv', GrantInv,
         NEW c \in Caller, Rename(c), GNext
  PROVE  GrantInv'
<1>. DEFINE k == [caller[c] EXCEPT !.at = "syncdir", !.temp = NoTemp, !.committed = TRUE]
            op == caller[c].op
            d == DecisionOf(c)
            last == file.content.last
<1>1. /\ Becomes(c, k) /\ file' = caller[c].temp /\ entries' = entries \cup {file'}
      /\ caller[c].at = "rename"
  BY DEF Rename, At
<1>2. /\ guard = c /\ d.writes /\ caller[c].record = d.record
      /\ caller[c].temp.content = caller[c].record
  BY <1>1, GuardHeld DEF Critical, CallerInv, Writing
<1>3. /\ k.at = "syncdir" /\ k.op = op /\ k.record = caller[c].record
  BY DEF TypeOK, Callers
<1>. HIDE DEF k
<1>4. caller'[c] = k /\ \A e \in Caller \ {c} : caller'[e] = caller[e]
  BY <1>1, OneBecomes
<1>5. Survivors' = Survivors \cup {d.record}
  <2>1. Survivors = {e.content : e \in entries} /\ Survivors' = {e.content : e \in entries'}
    BY DEF StoreInv, DiskInv, Survivors, AfterPowerLoss
  <2>. QED
    BY <1>1, <1>2, <2>1
<1>6. granted' = granted
  BY <1>1, <1>3, <1>4, NothingGranted DEF Granting, At
<1>7. \A e \in Caller \ {c} : ~Surrendering(e)
  BY <1>4 DEF Surrendering, At
<1>8. Surrendering(c) <=> op.kind = "release"
  BY <1>1, <1>3, <1>4 DEF Surrendering, At
<1>9. /\ file.content \in Contents /\ op \in Operations /\ last \in Nat
      /\ file.content \in Survivors
  BY CallerFields, SurvivorsOf DEF TypeOK, Entries, StoreInv, Contents, Generations
<1>10. \A e \in Caller \ {c} : ~Pending(e)'
  BY <1>2, <1>4, OnePending DEF Pending
<1>11. \A t \in granted : /\ t \in Generations \X Requester
                          /\ file.content.code = "ok" /\ t[1] <= last
                          /\ t \notin surrendered => file.content = Active(t[1], t[2])
  BY GrantInForce
<1>12. file.content.code \notin {"invalid", "unsupported"} =>
         \A s \in Survivors : s.code \notin {"invalid", "unsupported"}
  BY <1>9 DEF GrantInv
<1>13. CASE op.kind = "genesis" /\ file.content.code = "missing" /\ d.record = Genesis
  <2>1. granted = {}
    BY <1>11, <1>13
  <2>2. granted' \ surrendered' = {}
    BY <1>6, <2>1
  <2>3. Genesis.code = "ok"
    BY DEF Genesis, Inactive
  <2>4. ~Pending(c)'
    BY <1>3, <1>4, <1>13 DEF Pending
  <2>. HIDE DEF d
  <2>. QED
    BY <1>5, <1>6, <1>10, <1>12, <1>13, <2>1, <2>2, <2>3, <2>4 DEF GrantInv, GrantsAreDurable
<1>14. CASE /\ op.kind = "activate" /\ file.content = Inactive(last)
            /\ d.record = Active(last + 1, op.requester)
  <2>1. granted \ surrendered = {}
    <3>. SUFFICES ASSUME NEW t \in granted, t \notin surrendered PROVE FALSE
      OBVIOUS
    <3>1. t[2] \in Requester /\ file.content = Active(t[1], t[2])
      BY <1>11
    <3>2. file.content.owner = t[2]
      BY <3>1 DEF Active
    <3>3. file.content.owner = Nobody
      BY <1>14 DEF Inactive
    <3>. QED
      BY <3>1, <3>2, <3>3, RequesterAssumption DEF Nobody
  <2>2. surrendered' = surrendered
    BY <1>7, <1>8, <1>14, NothingSurrendered
  <2>3. d.record.code = "ok" /\ d.record.last = last + 1 /\ file.content.code = "ok"
    BY <1>14 DEF Active, Inactive
  <2>. HIDE DEF d
  <2>4. \A t \in granted : Past(t[1])'
    <3>. SUFFICES ASSUME NEW t \in granted PROVE Past(t[1])'
      OBVIOUS
    <3>1. Past(t[1]) /\ t[1] \in Nat /\ t[1] <= last
      BY <1>11 DEF GrantInv, Generations
    <3>. QED
      BY <1>5, <1>9, <2>3, <3>1 DEF Past
  <2>5. /\ caller'[c].record.last # 0
        /\ \A t \in granted : t[1] # caller'[c].record.last
    <3>1. caller'[c].record.last # 0
      BY <1>2, <1>3, <1>4, <1>9, <2>3
    <3>2. \A t \in granted : t[1] # caller'[c].record.last
      <4>. SUFFICES ASSUME NEW t \in granted PROVE t[1] # caller'[c].record.last
        OBVIOUS
      <4>1. t[1] \in Nat /\ t[1] <= last
        BY <1>11 DEF Generations
      <4>. QED
        BY <1>2, <1>3, <1>4, <1>9, <2>3, <4>1
    <3>. QED
      BY <3>1, <3>2
  <2>6. \A s \in Survivors' : s.code \notin {"invalid", "unsupported"}
    BY <1>5, <1>12, <2>3
  <2>7. GrantsAreDurable'
    BY <1>6, <2>1, <2>2 DEF GrantsAreDurable
  <2>. QED
    BY <1>6, <1>10, <2>4, <2>5, <2>6, <2>7 DEF GrantInv
<1>15. CASE /\ op.kind = "release" /\ file.content = Active(last, op.requester)
            /\ d.record = Inactive(last)
  <2>1. TokenOf(c) = <<last, op.requester>>
    BY <1>2, <1>15 DEF TokenOf, Inactive
  <2>2. granted \ surrendered \subseteq {TokenOf(c)}
    <3>. SUFFICES ASSUME NEW t \in granted, t \notin surrendered PROVE t = TokenOf(c)
      OBVIOUS
    <3>1. t \in Generations \X Requester /\ file.content = Active(t[1], t[2])
      BY <1>11
    <3>2. last = t[1] /\ file.content.owner = t[2]
      BY <3>1 DEF Active
    <3>3. file.content.owner = op.requester
      BY <1>15 DEF Active
    <3>4. t = <<t[1], t[2]>>
      BY <3>1
    <3>5. t = <<last, op.requester>>
      BY <3>2, <3>3, <3>4
    <3>. QED
      BY <2>1, <3>5
  <2>3. granted' \ surrendered' = {}
    BY <1>6, <1>8, <1>15, <2>2 DEF GNext
  <2>4. d.record.code = "ok" /\ d.record.last = last /\ file.content.code = "ok"
    BY <1>15 DEF Active, Inactive
  <2>. HIDE DEF d
  <2>5. \A t \in granted : Past(t[1])'
    BY <1>5, <1>11, <2>4 DEF Past, GrantInv
  <2>6. \A s \in Survivors' : s.code \notin {"invalid", "unsupported"}
    BY <1>5, <1>12, <2>4
  <2>7. ~Pending(c)'
    BY <1>3, <1>4, <1>15 DEF Pending
  <2>8. GrantsAreDurable'
    BY <2>3 DEF GrantsAreDurable
  <2>. QED
    BY <1>6, <1>10, <2>5, <2>6, <2>7, <2>8 DEF GrantInv
<1>. QED
  BY <1>2, <1>9, <1>13, <1>14, <1>15, DecisionCases DEF DecisionOf

\* The answer that grants: the directory is synchronised, so nothing but the
\* granted record survives.
LEMMA FinishKeepsGrants ==
  ASSUME TypeOK, GrantsOK, StoreInv, GrantInv, NEW c \in Caller, Finish(c), GNext
  PROVE  GrantInv'
<1>1. PICK code \in {caller[c].code, "io_error"} :
             Becomes(c, [caller[c] EXCEPT !.at = "answered", !.code = code])
  BY DEF Finish
<1>. DEFINE k == [caller[c] EXCEPT !.at = "answered", !.code = code]
            t == TokenOf(c)
<1>2. Becomes(c, k) /\ file' = file /\ entries' = entries /\ caller[c].at = "finish"
  BY <1>1 DEF Finish, At
<1>3. k.at = "answered" /\ k.code = code
  BY DEF TypeOK, Callers
<1>. HIDE DEF k
<1>4. caller'[c] = k /\ \A e \in Caller \ {c} : caller'[e] = caller[e]
  BY <1>2, OneBecomes
<1>5. \A e \in Caller \ {c} : ~Granting(e)
  BY <1>4 DEF Granting, At
<1>6. surrendered' = surrendered
  BY <1>2, <1>4, NothingSurrendered DEF Surrendering, At
<1>7. Survivors' = Survivors
  BY <1>2, DiskUnseen
<1>8. \A e \in Caller : ~Pending(e)'
  BY <1>2, <1>3, <1>4, GuardHeld, OnePending DEF Critical, Pending
<1>9. CASE ~Granting(c)
  <2>1. granted' = granted
    BY <1>5, <1>9, NothingGranted
  <2>. QED
    BY <1>6, <1>7, <1>8, <2>1, GrantsKept
<1>10. CASE Granting(c)
  <2>1. granted' = granted \cup {t}
    BY <1>5, <1>10 DEF GNext
  <2>2. Committed(c) /\ caller[c].code = "ok" /\ caller[c].op.kind = "activate"
    BY <1>2, <1>3, <1>4, <1>10, GuardHeld DEF Granting, CallerInv, Critical
  <2>3. /\ entries = {file} /\ file.content = caller[c].record
        /\ file.content = Active(caller[c].record.last, caller[c].op.requester)
    BY <1>2, <2>2 DEF Committed
  <2>4. Survivors = {file.content}
    BY <2>3, SurvivorsOf DEF StoreInv
  <2>5. t = <<file.content.last, caller[c].op.requester>> /\ file.content = Active(t[1], t[2])
    BY <2>3 DEF TokenOf
  <2>. HIDE DEF t
  <2>6. file.content.code = "ok" /\ file.content.last = t[1] /\ t[1] \in Nat
    BY <2>5 DEF Active, TypeOK, Entries, Contents, Generations
  <2>7. \A u \in granted' : Past(u[1])'
    BY <1>7, <2>1, <2>4, <2>6 DEF Past, GrantInv
  <2>8. GrantsAreDurable'
    BY <1>6, <1>7, <2>1, <2>4, <2>5 DEF GrantsAreDurable, GrantInv
  <2>. QED
    BY <1>7, <1>8, <2>4, <2>7, <2>8 DEF GrantInv
<1>. QED
  BY <1>9, <1>10

\* A step of one caller that changes nothing on the disk and answers nothing
\* that was committed.
LEMMA QuietKeepsGrants ==
  ASSUME TypeOK, GrantInv, GNext, NEW c \in Caller, NEW k, Becomes(c, k),
         UNCHANGED <<file, entries>>,
         caller[c].at # "finish" \/ k.at # "answered", k.at # "syncdir",
         k.at = "finish" /\ k.committed =>
           (Pending(c) /\ k.record = caller[c].record) \/ k.op.kind # "activate"
  PROVE  GrantInv'
<1>1. caller'[c] = k /\ \A e \in Caller \ {c} : caller'[e] = caller[e]
  BY OneBecomes
<1>2. granted' = granted
  BY <1>1, NothingGranted DEF Granting, At
<1>3. surrendered' = surrendered
  BY <1>1, NothingSurrendered DEF Surrendering, At
<1>4. \A e \in Caller : Pending(e)' => Pending(e) /\ caller'[e].record = caller[e].record
  BY <1>1 DEF Pending
<1>. QED
  BY <1>2, <1>3, <1>4, DiskUnseen, GrantsKept

LEMMA GrantInvStep ==
  /\ TypeOK /\ TypeOK' /\ GrantsOK /\ StoreInv /\ StoreInv' /\ GrantInv /\ [GNext]_gvars
  => GrantInv'
<1>. SUFFICES ASSUME TypeOK, TypeOK', GrantsOK, StoreInv, StoreInv', GrantInv, [GNext]_gvars
              PROVE  GrantInv'
  OBVIOUS
<1>1. \A c \in Caller : caller[c] \in Callers /\ CallerInv(c)
  BY DEF TypeOK, StoreInv
<1>2. ASSUME GNext, NEW c \in Caller, NEW op \in Operations, Call(c, op)
      PROVE  GrantInv'
  <2>. DEFINE k == [Idle EXCEPT !.at = "open", !.op = op]
  <2>1. Becomes(c, k) /\ UNCHANGED <<file, entries>> /\ caller[c].at = "idle"
    BY <1>2 DEF Call, At
  <2>2. k.at = "open"
    BY DEF Idle
  <2>. HIDE DEF k
  <2>. QED
    BY <1>2, <2>1, <2>2, QuietKeepsGrants
<1>3. ASSUME GNext, NEW c \in Caller, OpenFails(c) \/ ReadFails(c)
      PROVE  GrantInv'
  <2>1. PICK step \in {"answered", "finish"}, code \in {"io_error", "invalid"} :
               Concludes(c, step, code, FALSE, NoRecord)
    BY <1>3 DEF OpenFails, ReadFails
  <2>. DEFINE k == [caller[c] EXCEPT !.at = step, !.code = code, !.committed = FALSE,
                                     !.record = NoRecord]
  <2>2. Becomes(c, k) /\ UNCHANGED <<file, entries>> /\ caller[c].at \in {"open", "read"}
    BY <1>3, <2>1 DEF Concludes, OpenFails, ReadFails, At
  <2>3. k.at = step /\ ~k.committed
    BY <1>1 DEF Callers
  <2>. HIDE DEF k
  <2>. QED
    BY <1>3, <2>2, <2>3, QuietKeepsGrants
<1>4. ASSUME GNext, NEW c \in Caller, Lock(c) \/ CreateTemp(c)
      PROVE  GrantInv'
  <2>1. PICK step \in {"read", "write"} : Moves(c, step)
    BY <1>4 DEF Lock, CreateTemp
  <2>. DEFINE k == [caller[c] EXCEPT !.at = step]
  <2>2. Becomes(c, k) /\ UNCHANGED <<file, entries>>
    BY <1>4, <2>1 DEF Lock, CreateTemp, Moves
  <2>3. k.at \in {"read", "write"}
    BY <1>1 DEF Callers
  <2>. HIDE DEF k
  <2>. QED
    BY <1>4, <2>2, <2>3, QuietKeepsGrants
<1>5. ASSUME GNext, NEW c \in Caller, Read(c)
      PROVE  GrantInv'
  <2>. DEFINE d == Decision(caller[c].op, file.content)
              k == [caller[c] EXCEPT !.at = "create", !.record = d.record]
              l == [caller[c] EXCEPT !.at = "finish", !.code = d.code, !.committed = FALSE,
                                     !.record = d.record]
  <2>1. (Becomes(c, k) \/ Becomes(c, l)) /\ UNCHANGED <<file, entries>>
    BY <1>5 DEF Read, Concludes
  <2>2. k.at = "create"
    BY <1>1 DEF Callers
  <2>3. l.at = "finish" /\ ~l.committed
    BY <1>1 DEF Callers
  <2>. HIDE DEF k, l
  <2>. QED
    BY <1>5, <2>1, <2>2, <2>3, QuietKeepsGrants
<1>6. ASSUME GNext, NEW c \in Caller, WriteTemp(c)
      PROVE  GrantInv'
  <2>. DEFINE k == [caller[c] EXCEPT !.at = "sync",
                      !.temp = [content |-> caller[c].record, synced |-> FALSE]]
  <2>1. Becomes(c, k) /\ UNCHANGED <<file, entries>>
    BY <1>6 DEF WriteTemp
  <2>2. k.at = "sync"
    BY <1>1 DEF Callers
  <2>. HIDE DEF k
  <2>. QED
    BY <1>6, <2>1, <2>2, QuietKeepsGrants
<1>7. ASSUME GNext, NEW c \in Caller, SyncTemp(c)
      PROVE  GrantInv'
  <2>. DEFINE k == [caller[c] EXCEPT !.at = "rename", !.temp = [@ EXCEPT !.synced = TRUE]]
  <2>1. Becomes(c, k) /\ UNCHANGED <<file, entries>>
    BY <1>7 DEF SyncTemp
  <2>2. k.at = "rename"
    BY <1>1 DEF Callers
  <2>. HIDE DEF k
  <2>. QED
    BY <1>7, <2>1, <2>2, QuietKeepsGrants
<1>8. ASSUME GNext, NEW c \in Caller, FailBeforeCommit(c)
      PROVE  GrantInv'
  <2>. DEFINE k == [caller[c] EXCEPT !.at = "finish", !.temp = NoTemp, !.code = "io_error",
                                     !.record = NoRecord]
  <2>1. Becomes(c, k) /\ UNCHANGED <<file, entries>> /\ caller[c].at \in Writing
    BY <1>8 DEF FailBeforeCommit, Writing
  <2>2. k.at = "finish" /\ ~k.committed
    BY <1>1, <2>1 DEF Callers, CallerInv
  <2>. HIDE DEF k
  <2>. QED
    BY <1>8, <2>1, <2>2, QuietKeepsGrants
<1>9. ASSUME GNext, NEW c \in Caller, SyncDirectoryFails(c)
      PROVE  GrantInv'
  <2>. DEFINE k == [caller[c] EXCEPT !.at = "finish", !.code = "io_error"]
  <2>1. Becomes(c, k) /\ UNCHANGED <<file, entries>> /\ caller[c].at = "syncdir"
    BY <1>9 DEF SyncDirectoryFails, At
  <2>2. /\ k.at = "finish" /\ k.op = caller[c].op /\ k.committed = caller[c].committed
        /\ k.record = caller[c].record
    BY <1>1 DEF Callers
  <2>. HIDE DEF k
  <2>. QED
    BY <1>9, <2>1, <2>2, QuietKeepsGrants DEF Pending
<1>10. ASSUME GNext, NEW c \in Caller, Throw(c)
       PROVE  GrantInv'
  <2>. DEFINE k == [Idle EXCEPT !.at = "answered", !.op = caller[c].op, !.code = "io_error"]
  <2>1. Becomes(c, k) /\ UNCHANGED <<file, entries>> /\ caller[c].at # "finish"
    BY <1>10 DEF Throw, MayThrow
  <2>2. k.at = "answered"
    BY DEF Idle
  <2>. HIDE DEF k
  <2>. QED
    BY <1>10, <2>1, <2>2, QuietKeepsGrants
<1>11. ASSUME GNext, NEW c \in Caller, Return(c) \/ Crash(c)
       PROVE  GrantInv'
  <2>1. Becomes(c, Idle) /\ UNCHANGED <<file, entries>>
    BY <1>11 DEF Return, Crash
  <2>2. Idle.at = "idle"
    BY DEF Idle
  <2>. QED
    BY <1>11, <2>1, <2>2, QuietKeepsGrants
<1>12. ASSUME GNext, NEW c \in Caller, SyncDirectory(c)
       PROVE  GrantInv'
  <2>. DEFINE k == [caller[c] EXCEPT !.at = "finish"]
  <2>1. Becomes(c, k) /\ file' = file /\ entries' = {file} /\ caller[c].at = "syncdir"
    BY <1>12 DEF SyncDirectory, At, Moves
  <2>2. /\ k.at = "finish" /\ k.op = caller[c].op /\ k.committed = caller[c].committed
        /\ k.record = caller[c].record
    BY <1>1 DEF Callers
  <2>. HIDE DEF k
  <2>3. caller'[c] = k /\ \A e \in Caller \ {c} : caller'[e] = caller[e]
    BY <2>1, OneBecomes
  <2>4. granted' = granted
    BY <1>12, <2>1, <2>3, NothingGranted DEF Granting, At
  <2>5. surrendered' = surrendered
    BY <1>12, <2>1, <2>3, NothingSurrendered DEF Surrendering, At
  <2>6. \A e \in Caller : Pending(e)' => Pending(e) /\ caller'[e].record = caller[e].record
    BY <2>1, <2>2, <2>3 DEF Pending
  <2>7. Survivors' = {file.content} /\ file.content \in Survivors
    BY <2>1, SurvivorsOf DEF StoreInv, DiskInv, Survivors, AfterPowerLoss
  <2>. QED
    BY <2>4, <2>5, <2>6, <2>7, GrantsKept
<1>13. ASSUME GNext, PowerLoss
       PROVE  GrantInv'
  <2>1. PICK e \in entries : file' = AfterPowerLoss(e)
    BY <1>13 DEF PowerLoss
  <2>2. entries' = {file'} /\ \A c \in Caller : caller'[c].at = "idle"
    BY <1>13 DEF PowerLoss, Idle
  <2>3. file'.content \in Survivors /\ Survivors' = {file'.content}
    BY <2>1, <2>2 DEF Survivors, AfterPowerLoss
  <2>4. granted' = granted
    BY <1>13, <2>2, NothingGranted DEF Granting
  <2>5. surrendered' = surrendered
    BY <1>13, <2>2, NothingSurrendered DEF Surrendering
  <2>6. \A c \in Caller : ~Pending(c)'
    BY <2>2 DEF Pending
  <2>. QED
    BY <2>3, <2>4, <2>5, <2>6, GrantsKept
<1>14. CASE UNCHANGED gvars
  <2>1. Survivors' = Survivors
    BY <1>14, DiskUnseen DEF gvars
  <2>2. \A c \in Caller : Pending(c)' => Pending(c) /\ caller'[c].record = caller[c].record
    BY <1>14 DEF gvars, Pending
  <2>. QED
    BY <1>14, <2>1, <2>2, GrantsKept DEF gvars
<1>15. ASSUME GNext, NEW c \in Caller, Rename(c) \/ Finish(c)
       PROVE  GrantInv'
  BY <1>15, RenameKeepsGrants, FinishKeepsGrants
<1>. QED
  BY <1>2, <1>3, <1>4, <1>5, <1>6, <1>7, <1>8, <1>9, <1>10, <1>11, <1>12, <1>13, <1>14, <1>15
     DEF GNext, Next, Proceed

\* The grants keep their types, and their inductive invariant holds.
THEOREM GrantsInvariant == GSpec => [](GrantsOK /\ GrantInv)
<1>1. GInit => GrantsOK /\ GrantInv
  <2>. SUFFICES ASSUME GInit PROVE GrantsOK /\ GrantInv
    OBVIOUS
  <2>1. Survivors = {file.content}
    BY InitialDisk DEF GInit, Init, Survivors, AfterPowerLoss
  <2>2. \A c \in Caller : ~Pending(c)
    BY DEF GInit, Init, Idle, Pending
  <2>. QED
    BY <2>1, <2>2 DEF GInit, GrantsOK, GrantInv, GrantsAreDurable
<1>. QED
  BY <1>1, StoreTypes, GrantsTypeStep, GrantInvStep, PTL DEF GSpec

\* A granted inhibitor is in every content that may survive, until its own
\* requester releases it.
THEOREM GrantsDurable == GSpec => []GrantsAreDurable
BY GrantsInvariant, PTL DEF GrantInv

\* No generation is granted twice, and none is 0.
THEOREM GrantsNew == GSpec => GrantsAreNew
<1>1. GrantInv /\ [GNext]_gvars =>
        [\A c \in Caller :
           Granting(c) => \A t \in granted \cup {<<0, Nobody>>} :
                            t[1] # caller[c].record.last]_gvars
  BY DEF GrantInv, Granting, Pending, At
<1>. QED
  BY <1>1, GrantsInvariant, PTL DEF GSpec, GrantsAreNew

\* An unreadable state is never repaired and never arises, not even from a
\* loss of power, and a readable one stays readable once it is hard or
\* something was granted.
THEOREM ReadabilityKept == GSpec => ReadabilityIsKept
<1>. DEFINE Torn == {"invalid", "unsupported"}
            Kept ==
              /\ file.content.code \in Torn \/ file'.content.code \in Torn => file' = file
              /\ file.content.code = "ok" /\ (entries = {file} \/ granted # {}) =>
                   file'.content.code = "ok"
<1>1. TypeOK /\ StoreInv /\ GrantInv /\ [Next]_vars => Kept
  <2>. SUFFICES ASSUME TypeOK, StoreInv, GrantInv, [Next]_vars PROVE Kept
    OBVIOUS
  <2>1. file.content \in Survivors
    BY SurvivorsOf DEF StoreInv
  <2>2. CASE file' = file
    BY <2>2
  <2>3. ASSUME NEW c \in Caller, Rename(c) PROVE Kept
    <3>1. /\ DecisionOf(c).writes /\ file'.content = DecisionOf(c).record
          /\ file.content \in Contents /\ caller[c].op \in Operations
      BY <2>3, GuardHeld, CallerFields
         DEF Rename, At, Critical, CallerInv, Writing, TypeOK, Entries
    <3>2. file.content.code \in {"ok", "missing"} /\ file'.content.code = "ok"
      BY <3>1, WritesAreReadable DEF DecisionOf
    <3>. QED
      BY <3>2
  <2>4. CASE PowerLoss
    <3>1. PICK e \in entries : file' = AfterPowerLoss(e)
      BY <2>4 DEF PowerLoss
    <3>2. e \in Entries /\ file \in Entries /\ e.synced = TRUE /\ file.synced = TRUE
      BY DEF TypeOK, StoreInv, DiskInv, Entries
    <3>3. file' = e /\ e.content \in Survivors
      BY <3>1, <3>2 DEF AfterPowerLoss, Entries, Survivors
    <3>4. file.content.code \in Torn \/ e.content.code \in Torn => e.content = file.content
      BY <2>1, <3>3 DEF GrantInv
    <3>5. /\ e = [content |-> e.content, synced |-> TRUE]
          /\ file = [content |-> file.content, synced |-> TRUE]
      BY <3>2 DEF Entries
    <3>6. file'.content = e.content /\ (e.content = file.content => file' = file)
      BY <3>3, <3>5
    <3>7. granted # {} => e.content.code = "ok"
      BY <3>3 DEF GrantInv, Past
    <3>8. entries = {file} => e = file
      BY <3>1
    <3>. QED
      BY <3>4, <3>6, <3>7, <3>8
  <2>. QED
    BY <2>2, <2>3, <2>4
       DEF Next, Proceed, vars, Call, OpenFails, Lock, Read, ReadFails, CreateTemp, WriteTemp,
           SyncTemp, FailBeforeCommit, SyncDirectory, SyncDirectoryFails, Finish, Throw, Return,
           Crash
<1>2. Kept => [Kept]_gvars
  OBVIOUS
<1>. QED
  BY <1>1, <1>2, StoreStep, StoreTypes, GrantsInvariant, PTL DEF GSpec, ReadabilityIsKept
=============================================================================
