-------------------------- MODULE MissionCheckpoint --------------------------
(* The record a mission leaves on disk so that it can be resumed.  A save   *)
(* writes and syncs a temporary file and renames it: whenever the power     *)
(* goes, the old record or the new one is there.                            *)
EXTENDS Naturals

NoRecord == [run |-> 0]

\* validate_record; "laps" of 0 stands for a run without end.
ValidRecord(r) ==
  /\ r.run # 0
  /\ r.kind \in {"cleaning", "return_home"}
  /\ r.total # 0
  /\ r.next <= r.total
  /\ r.completed <= r.total
  /\ ~r.loop => r.laps = 1
  /\ r.laps # 0 => r.lap < r.laps

\* load_latest: a record that is not valid counts as none.
Loaded(file) == IF file # NoRecord /\ ValidRecord(file) THEN file ELSE NoRecord

\* save: an invalid record is refused, the file keeps what it had.
Saves(r) == ValidRecord(r)
=============================================================================
