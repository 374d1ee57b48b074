------------------------- MODULE MaintenanceRecords -------------------------
(***************************************************************************)
(* The record the maintenance store keeps in its state file, and what each *)
(* operation of MaintenanceStore decides on the content it has read: the   *)
(* code it answers and, when it writes, the record it writes.              *)
(*                                                                         *)
(* A content is what parse_record makes of the file: a record (code "ok")  *)
(* or the reason there is none.  The generation of the inhibitor equals    *)
(* lastGeneration in every record that parses, so one number stands for    *)
(* both; owner is the inhibitor's requester; its reason is left out.       *)
(***************************************************************************)
EXTENDS Naturals

CONSTANTS Requester,     \* requesters of valid length
          MaxGeneration  \* numeric_limits<uint64_t>::max() in the code

ASSUME MaxGenerationAssumption == MaxGeneration \in Nat
ASSUME RequesterAssumption == "nobody" \notin Requester

Nobody == "nobody"
Generations == 0 .. MaxGeneration

Contents ==
  {c \in [code : {"ok", "missing", "invalid", "unsupported"},
          last : Generations, owner : Requester \cup {Nobody}] :
     /\ c.owner # Nobody => c.code = "ok" /\ c.last # 0
     /\ c.code # "ok" => c.last = 0}

Unreadable(code) == [code |-> code, last |-> 0, owner |-> Nobody]
Inactive(last) == [code |-> "ok", last |-> last, owner |-> Nobody]
Active(last, r) == [code |-> "ok", last |-> last, owner |-> r]
Genesis == Inactive(0)

\* Unsigned arithmetic wraps around.
Successor(g) == IF g = MaxGeneration THEN 0 ELSE g + 1

\* The operations a caller may ask for.
Operations ==
  [kind : {"load", "genesis"}, requester : {Nobody}, generation : {0}]
  \cup [kind : {"activate"}, requester : Requester, generation : {0}]
  \cup [kind : {"release"}, requester : Requester, generation : Generations]

Codes ==
  {"ok", "missing", "invalid", "unsupported", "io_error", "already_active",
   "owned_by_other", "token_mismatch", "generation_exhausted"}

-----------------------------------------------------------------------------
\* A decision without a write: the answer carries what was read.
Answers(code, c) == [code |-> code, writes |-> FALSE, record |-> c]
Writes(next) == [code |-> "ok", writes |-> TRUE, record |-> next]

GenesisDecision(c) ==
  IF c.code = "missing" THEN Writes(Genesis) ELSE Answers(c.code, c)

\* Mutant of ActivateDecision: the generation of a released inhibitor is
\* given out again.
ActivateReuses(r, c) ==
  IF c.code # "ok" THEN Answers(c.code, c)
  ELSE IF c.owner = r THEN Answers("already_active", c)
  ELSE IF c.owner # Nobody THEN Answers("owned_by_other", c)
  ELSE IF c.last # 0 THEN Writes(Active(c.last, r))
  ELSE IF c.last = MaxGeneration THEN Answers("generation_exhausted", c)
  ELSE Writes(Active(Successor(c.last), r))

\* Mutant of ActivateDecision: nothing looks for the end of the generations.
ActivateWraps(r, c) ==
  IF c.code # "ok" THEN Answers(c.code, c)
  ELSE IF c.owner = r THEN Answers("already_active", c)
  ELSE IF c.owner # Nobody THEN Answers("owned_by_other", c)
  ELSE Writes(Active(Successor(c.last), r))

ActivateDecision(r, c) ==
  IF c.code # "ok" THEN Answers(c.code, c)
  ELSE IF c.owner = r THEN Answers("already_active", c)
  ELSE IF c.owner # Nobody THEN Answers("owned_by_other", c)
  ELSE IF c.last = MaxGeneration THEN Answers("generation_exhausted", c)
  ELSE Writes(Active(Successor(c.last), r))

\* Mutant of ReleaseDecision: the requester is not compared.
ReleaseByAnyone(generation, r, c) ==
  IF c.code # "ok" THEN Answers(c.code, c)
  ELSE IF c.owner = Nobody \/ c.last # generation THEN Answers("token_mismatch", c)
  ELSE Writes(Inactive(c.last))

ReleaseDecision(generation, r, c) ==
  IF c.code # "ok" THEN Answers(c.code, c)
  ELSE IF c.owner # r \/ c.last # generation THEN Answers("token_mismatch", c)
  ELSE Writes(Inactive(c.last))

Decision(op, c) ==
  CASE op.kind = "load"     -> Answers(c.code, c)
    [] op.kind = "genesis"  -> GenesisDecision(c)
    [] op.kind = "activate" -> ActivateDecision(op.requester, c)
    [] op.kind = "release"  -> ReleaseDecision(op.generation, op.requester, c)
=============================================================================
