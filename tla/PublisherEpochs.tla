--------------------------- MODULE PublisherEpochs ---------------------------
(***************************************************************************)
(* The class PublisherEpochTracker of cleanbot_common as a value.  It      *)
(* numbers the publishers of a topic in the order in which they are first  *)
(* seen, so that what a publisher sent can be told from what its           *)
(* predecessor sent.  A publisher is a DDS identity; NoPublisher stands    *)
(* for an identity is_valid refuses and for "no current identity".         *)
(***************************************************************************)
EXTENDS Naturals, FiniteSets

CONSTANTS Publisher,       \* valid publisher identities
          MaximumRetired,  \* maximum_retired_identities_
          MaximumEpoch     \* maximum_epoch_

NoPublisher == "none"
ASSUME PublisherAssumption == NoPublisher \notin Publisher
ASSUME MaximaAssumption == MaximumRetired \in Nat /\ MaximumEpoch \in Nat

Trackers ==
  [current : Publisher \cup {NoPublisher}, epoch : 0 .. MaximumEpoch,
   retired : SUBSET Publisher]

NewTracker == [current |-> NoPublisher, epoch |-> 0, retired |-> {}]

\* Mutant of Verdict: a newcomer there is no room for counts as a
\* predecessor and is ignored.
VerdictIgnoresNewcomers(t, p) ==
  IF p = NoPublisher THEN "invalid"
  ELSE IF p = t.current THEN "accepted"
  ELSE IF p \in t.retired THEN "retired"
  ELSE IF t.epoch >= MaximumEpoch THEN "retired"
  ELSE IF t.current # NoPublisher /\ Cardinality(t.retired) >= MaximumRetired
       THEN "retired"
  ELSE "accepted"

Verdict(t, p) ==
  IF p = NoPublisher THEN "invalid"
  ELSE IF p = t.current THEN "accepted"
  ELSE IF p \in t.retired THEN "retired"
  ELSE IF t.epoch >= MaximumEpoch THEN "exhausted"
  ELSE IF t.current # NoPublisher /\ Cardinality(t.retired) >= MaximumRetired
       THEN "exhausted"
  ELSE "accepted"

\* Mutant of Succeeds: the publisher that is replaced may return.
SucceedsForgetting(t, p) ==
  [current |-> p, epoch |-> t.epoch + 1, retired |-> t.retired]

\* The publisher that is replaced is retired for good.
Succeeds(t, p) ==
  [current |-> p, epoch |-> t.epoch + 1,
   retired |-> t.retired \cup ({t.current} \ {NoPublisher})]

\* observe(): only an accepted identity changes the tracker.
Observed(t, p) ==
  IF Verdict(t, p) = "accepted" /\ p # t.current THEN Succeeds(t, p) ELSE t
=============================================================================
