------------------------ MODULE MaintenancePublishers ------------------------
(***************************************************************************)
(* The maintenance runtime together with what it has really heard: which   *)
(* hardware publishers sent a sample since the process started, whatever   *)
(* the runtime's tracker made of them.                                     *)
(***************************************************************************)
EXTENDS MaintenanceRuntime

VARIABLES heard,  \* publishers a running runtime has had a sample from
          newest  \* the one of them that appeared last, or NoPublisher

pvars == <<rt, content, survivors, heard, newest>>

\* A runtime that is at fault or gone observes nothing any more.
Forgets == heard' = {} /\ newest' = NoPublisher
Remembers == IF Available(rt') THEN UNCHANGED <<heard, newest>> ELSE Forgets

Hears(publisher) ==
  IF publisher \in heard \cup {NoPublisher} THEN Remembers
  ELSE IF Available(rt') THEN heard' = heard \cup {publisher} /\ newest' = publisher
  ELSE Forgets

PInit == Init /\ heard = {} /\ newest = NoPublisher

PNext ==
  \/ \E publisher \in Publisher \cup {NoPublisher} :
       OnHardwareStatus(publisher) /\ Hears(publisher)
  \/ OtherStep /\ Remembers

PSpec == PInit /\ [][PNext]_pvars

-----------------------------------------------------------------------------
\* More publishers came one after the other than the tracker can tell apart.
Crowded ==
  \/ Cardinality(heard) > MaximumEpoch
  \/ Cardinality(heard) > MaximumRetired + 1

\* A hardware driver that appears for the first time takes readiness away at
\* once, even when the tracker has no room left to number it; and as long as
\* there is room, readiness is published only on a connected standstill that
\* the driver which appeared last has reported: no sample its predecessors
\* left behind, however late, makes the rover ready (observeHardware of
\* tracker, runtime and gate).
SuccessorsAreHeeded ==
  [][/\ newest' # newest => ~rt'.snap.ready
     /\ rt'.snap.ready =>
          /\ ReadyFollowsLivePublisher'
          /\ rt'.tracker.current = newest' \/ Crowded']_pvars
=============================================================================
