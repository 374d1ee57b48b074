------------------------- MODULE MaintenanceGrants -------------------------
(***************************************************************************)
(* What the maintenance store is worth to its callers: the activations it  *)
(* has granted (answered "ok") are recorded together with the releases of  *)
(* them that took effect, across failures, crashes and losses of power at  *)
(* any system call.                                                        *)
(***************************************************************************)
EXTENDS MaintenanceStore

VARIABLES granted,     \* <<generation, requester>> of activations answered "ok"
          surrendered  \* those of them that were released since

gvars == <<file, entries, guard, caller, granted, surrendered>>

TokenOf(c) == <<caller[c].record.last, caller[c].op.requester>>

Granting(c) ==
  /\ At(c, "finish") /\ caller[c].committed
  /\ caller[c].op.kind = "activate"
  /\ caller'[c].at = "answered" /\ caller'[c].code = "ok"

Surrendering(c) ==
  /\ At(c, "rename") /\ caller'[c].at = "syncdir"
  /\ caller[c].op.kind = "release"

GInit == Init /\ granted = {} /\ surrendered = {}

GNext ==
  /\ Next
  /\ granted' = granted \cup {TokenOf(c) : c \in {d \in Caller : Granting(d)}}
  /\ surrendered' = surrendered \cup
       (granted \cap {TokenOf(c) : c \in {d \in Caller : Surrendering(d)}})

GSpec == GInit /\ [][GNext]_gvars

-----------------------------------------------------------------------------
\* Grants are pairs of a generation and its requester.
GrantsOK ==
  /\ granted \subseteq Generations \X Requester
  /\ surrendered \subseteq granted

\* A granted inhibitor is in force until its own requester releases it:
\* neither another caller, nor a failing call, nor a crash, nor a loss of
\* power at any moment removes it (activate, release, the commit point of
\* write_locked).
GrantsAreDurable ==
  \A t \in granted \ surrendered :
    \A s \in Survivors : s = Active(t[1], t[2])

\* No generation is granted twice, and none is 0, which is no generation to
\* those who read the record: whoever asks, whatever was lost, and also when
\* the last generation has been given (activate, parse_record).
GrantsAreNew ==
  [][\A c \in Caller :
       Granting(c) => \A t \in granted \cup {<<0, Nobody>>} :
                        t[1] # caller[c].record.last]_gvars

\* An unreadable state is never repaired by the store, and no step makes a
\* state unreadable, a loss of power in the middle of a write included.  A
\* readable state stays readable once it is hard or an inhibitor was granted;
\* only the genesis whose directory was not yet synchronised may be missing
\* again (initializeGenesis, parse_record, the order of write_locked).
ReadabilityIsKept ==
  [][LET Torn == {"invalid", "unsupported"}
     IN  /\ file.content.code \in Torn \/ file'.content.code \in Torn => file' = file
         /\ file.content.code = "ok" /\ (entries = {file} \/ granted # {}) =>
              file'.content.code = "ok"]_gvars
=============================================================================
