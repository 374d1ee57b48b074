------------------------------ MODULE WriteQueue ------------------------------
(***************************************************************************)
(* PriorityWriteQueue of cleanbot_hardware: a bounded queue of command     *)
(* bursts, ordered by priority and, within a priority, by arrival.  An     *)
(* item with a coalescing key replaces the waiting item with the same key; *)
(* a full queue gives up its least urgent waiting item for a more urgent   *)
(* one.  While a write is in progress its front is not touched.            *)
(*                                                                         *)
(* An item is the command it carries: its number and its kind, from which  *)
(* writePriorityFor and coalescingKeyFor compute priority and key.  0 is   *)
(* the number of the stop the driver sends by itself after connecting.     *)
(***************************************************************************)
EXTENDS Naturals, Sequences, SequencesExt

CONSTANTS MaxCommand,       \* commands are numbered 1, 2, ..., MaxCommand
          Kinds,      \* the kinds of command the arbiter sends
          MaxSize     \* max_size_

\* A move expects a completion; a mode change is finite and does not.
ASSUME MaxCommandAssumption == MaxCommand \in Nat
ASSUME KindsAssumption == Kinds \subseteq {"brake", "move", "mode", "motion"}
ASSUME MaxSizeAssumption == MaxSize \in Nat \ {0}

Items == [id : 0..MaxCommand, kind : Kinds \cup {"stop"}]

Safety == 30
Priority(kind) ==
  CASE kind \in {"brake", "stop"}  -> Safety
    [] kind \in {"move", "mode"}   -> 20
    [] kind = "motion"             -> 10

\* Finite commands have no key; for the others the key is the kind.
SameKey(x, y) == x.kind = y.kind /\ x.kind \notin {"move", "mode"}

\* Mutant of FirstMutable: the front may be replaced while it is written.
IncludesFront(q, busy) == 1

FirstMutable(q, busy) == IF busy /\ q # <<>> THEN 2 ELSE 1

Waiting(q, busy) == FirstMutable(q, busy)..Len(q)

\* Mutant of Evictable: the comparison is the wrong way round.
EvictsMoreUrgent(q, item, busy) ==
  {i \in Waiting(q, busy) :
     Priority(q[i].kind) < Safety /\ Priority(q[i].kind) > Priority(item.kind)}

\* Items that a full queue may give up for the new one.
Evictable(q, item, busy) ==
  {i \in Waiting(q, busy) :
     Priority(q[i].kind) < Safety /\ Priority(q[i].kind) < Priority(item.kind)}

First(S) == CHOOSE i \in S : \A j \in S : i <= j

\* The least urgent of them, the first of several.
Victim(q, candidates) ==
  First({i \in candidates :
           \A j \in candidates : Priority(q[i].kind) <= Priority(q[j].kind)})

\* Mutant of Position: a new item goes before its equals.
BeforeEquals(q, item, busy) ==
  First({i \in Waiting(q, busy) : Priority(q[i].kind) <= Priority(item.kind)}
        \cup {Len(q) + 1})

\* A new item goes behind all that are at least as urgent.
Position(q, item, busy) ==
  First({i \in Waiting(q, busy) : Priority(q[i].kind) < Priority(item.kind)}
        \cup {Len(q) + 1})

Full(q) == Len(q) >= MaxSize

\* enqueue: the queue afterwards, whether the item is in it, and the items
\* whose callbacks are told that they were superseded or evicted.
Enqueue(q, item, busy) ==
  LET equals     == {i \in Waiting(q, busy) : SameKey(q[i], item)}
      kept       == IF equals = {} THEN q ELSE RemoveAt(q, First(equals))
      superseded == IF equals = {} THEN {} ELSE {q[First(equals)]}
      candidates == Evictable(kept, item, busy)
      victim     == Victim(kept, candidates)
      room       == IF Full(kept) THEN RemoveAt(kept, victim) ELSE kept
  IN  IF Full(kept) /\ candidates = {}
      THEN [queue |-> kept, accepted |-> FALSE, dropped |-> superseded]
      ELSE [queue |-> InsertAt(room, Position(room, item, busy), item),
            accepted |-> TRUE,
            dropped |-> superseded \cup IF Full(kept) THEN {kept[victim]} ELSE {}]
=============================================================================
