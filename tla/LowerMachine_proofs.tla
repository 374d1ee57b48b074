------------------------- MODULE LowerMachine_proofs -------------------------
(***************************************************************************)
(* Proofs about LowerMachine: types, the order of what waits, that nothing *)
(* is left in an idle queue, that a refused command is not executed, and   *)
(* that a brake is kept by any queue of at least three.                    *)
(***************************************************************************)
EXTENDS LowerMachine, TLAPS, FiniteSetTheorems

-----------------------------------------------------------------------------
(* Sequences and numbers.                                                  *)

\* First is the least element of a set of naturals: the naturals are as well
\* founded as the initial segments 0..i are by inclusion.
LEMMA FirstIsLeast ==
  ASSUME NEW S \in SUBSET Nat, S # {}
  PROVE  First(S) \in S /\ \A j \in S : First(S) <= j
<1> DEFINE R == StrictSubsetOrdering(Nat)
           F == FiniteSubsetsOf(Nat)
           T == {0..i : i \in S}
<1>1. T \subseteq F
  <2> SUFFICES ASSUME NEW i \in S PROVE 0..i \in F
    OBVIOUS
  <2>1. IsFiniteSet(0..i)
    BY FS_Interval
  <2>2. 0..i \in SUBSET Nat
    OBVIOUS
  <2>. QED  BY <2>1, <2>2, Zenon DEF FiniteSubsetsOf
<1>2. PICK t \in T : \A u \in T : <<u, t>> \notin R
  <2>1. IsWellFoundedOn(R, F)
    BY FS_StrictSubsetOrderingWellFounded
  <2>2. T # {}
    OBVIOUS
  <2>. HIDE DEF R, F, T
  <2>. QED  BY <1>1, <2>1, <2>2, WFMin
<1>3. PICK i \in S : t = 0..i
  BY <1>2
<1>4. ASSUME NEW j \in S PROVE i <= j
  <2>1. <<0..j, 0..i>> \notin R
    BY <1>2, <1>3
  <2>2. 0..j \in SUBSET Nat /\ 0..i \in SUBSET Nat
    OBVIOUS
  <2>3. ~(0..j \subseteq 0..i) \/ 0..j = 0..i
    BY <2>1, <2>2 DEF StrictSubsetOrdering
  <2>. QED  BY <2>3
<1>5. \E k \in S : \A j \in S : k <= j
  BY <1>3, <1>4
<1>. QED  BY <1>5 DEF First

\* Removing an item moves those behind it one place forward.
LEMMA RemoveAtIs ==
  ASSUME NEW S, NEW q \in Seq(S), NEW i \in 1..Len(q)
  PROVE  /\ RemoveAt(q, i) \in Seq(S)
         /\ Len(RemoveAt(q, i)) = Len(q) - 1
         /\ \A j \in 1..(Len(q) - 1) :
              RemoveAt(q, i)[j] = IF j < i THEN q[j] ELSE q[j + 1]
<1> DEFINE front == SubSeq(q, 1, i - 1)
           back == SubSeq(q, i + 1, Len(q))
<1>1. front \in Seq(S) /\ Len(front) = i - 1 /\ \A j \in 1..(i - 1) : front[j] = q[j]
  OBVIOUS
<1>2. back \in Seq(S) /\ Len(back) = Len(q) - i
      /\ \A j \in 1..(Len(q) - i) : back[j] = q[i + j]
  OBVIOUS
<1>3. RemoveAt(q, i) = front \o back
  BY DEF RemoveAt
<1>. HIDE DEF front, back
<1>4. front \o back \in Seq(S) /\ Len(front \o back) = Len(q) - 1
  BY <1>1, <1>2
<1>5. ASSUME NEW j \in 1..(Len(q) - 1)
      PROVE  (front \o back)[j] = IF j < i THEN q[j] ELSE q[j + 1]
  <2>1. CASE j < i
    BY <1>1, <1>2, <2>1
  <2>2. CASE ~(j < i)
    <3>1. j - (i - 1) \in 1..(Len(q) - i) /\ i + (j - (i - 1)) = j + 1
      BY <2>2
    <3>2. (front \o back)[j] = back[j - (i - 1)]
      BY <1>1, <1>2, <2>2
    <3>. QED  BY <1>2, <2>2, <3>1, <3>2
  <2>. QED  BY <2>1, <2>2
<1>. QED  BY <1>3, <1>4, <1>5

\* Inserting an item moves those from its place on one place back.
LEMMA InsertAtIs ==
  ASSUME NEW S, NEW q \in Seq(S), NEW i \in 1..(Len(q) + 1), NEW x \in S
  PROVE  /\ InsertAt(q, i, x) \in Seq(S)
         /\ Len(InsertAt(q, i, x)) = Len(q) + 1
         /\ \A j \in 1..(Len(q) + 1) :
              InsertAt(q, i, x)[j] =
                IF j < i THEN q[j] ELSE IF j = i THEN x ELSE q[j - 1]
<1> DEFINE front == SubSeq(q, 1, i - 1)
           back == SubSeq(q, i, Len(q))
<1>1. front \in Seq(S) /\ Len(front) = i - 1 /\ \A j \in 1..(i - 1) : front[j] = q[j]
  OBVIOUS
<1>2. back \in Seq(S) /\ Len(back) = Len(q) - i + 1
      /\ \A j \in 1..(Len(q) - i + 1) : back[j] = q[i + j - 1]
  OBVIOUS
<1>3. InsertAt(q, i, x) = (front \o <<x>>) \o back
  BY DEF InsertAt
<1>. HIDE DEF front, back
<1>4. front \o <<x>> \in Seq(S) /\ Len(front \o <<x>>) = i
      /\ \A j \in 1..i : (front \o <<x>>)[j] = IF j < i THEN q[j] ELSE x
  BY <1>1
<1>. DEFINE start == front \o <<x>>
<1>. HIDE DEF start
<1>5. start \o back \in Seq(S) /\ Len(start \o back) = Len(q) + 1
  BY <1>2, <1>4 DEF start
<1>6. ASSUME NEW j \in 1..(Len(q) + 1)
      PROVE  (start \o back)[j] =
               IF j < i THEN q[j] ELSE IF j = i THEN x ELSE q[j - 1]
  <2>1. CASE j <= i
    BY <1>2, <1>4, <2>1 DEF start
  <2>2. CASE ~(j <= i)
    <3>1. j - i \in 1..(Len(q) - i + 1) /\ i + (j - i) - 1 = j - 1
      BY <2>2
    <3>2. (start \o back)[j] = back[j - i]
      BY <1>2, <1>4, <2>2 DEF start
    <3>. QED  BY <1>2, <2>2, <3>1, <3>2
  <2>. QED  BY <2>1, <2>2
<1>. QED  BY <1>3, <1>5, <1>6 DEF start

-----------------------------------------------------------------------------
(* The write queue.                                                        *)

LEMMA PriorityIs ==
  ASSUME NEW kind \in Kinds \cup {"stop"}
  PROVE  /\ Priority(kind) \in Nat /\ Priority(kind) <= Safety
         /\ Priority(kind) = Safety <=> kind \in {"brake", "stop"}
BY KindsAssumption DEF Priority, Safety

\* x may wait before y.
Precedes(x, y) ==
  \/ Priority(x.kind) > Priority(y.kind)
  \/ /\ Priority(x.kind) = Priority(y.kind)
     /\ 0 \in {x.id, y.id} \/ x.id < y.id

Apart(x, y) == x.id # y.id \/ x.id = 0

\* No command is in the queue twice; what waits is ordered, one of a key.
Ordered(q, busy) ==
  \A i, j \in 1..Len(q) :
    i < j => /\ Apart(q[i], q[j])
             /\ FirstMutable(q, busy) <= i =>
                  Precedes(q[i], q[j]) /\ ~SameKey(q[i], q[j])

\* The item was taken after those in the queue.
Newest(item, q) ==
  \A i \in 1..Len(q) : q[i].id = 0 \/ item.id = 0 \/ q[i].id < item.id

\* None of the waiting items has the key of the new one.
NewKey(item, q, busy) ==
  \A i \in Waiting(q, busy) : ~SameKey(q[i], item)

Queues == {q \in Seq(Items) : Len(q) <= MaxSize}

\* Removing a waiting item keeps the order, the front and all other items.
LEMMA RemoveKeeps ==
  ASSUME NEW q \in Seq(Items), NEW busy \in BOOLEAN, Ordered(q, busy),
         NEW i \in Waiting(q, busy)
  PROVE  LET r == RemoveAt(q, i)
         IN  /\ r \in Seq(Items) /\ Len(r) = Len(q) - 1
             /\ Ordered(r, busy)
             /\ FirstMutable(r, busy) = FirstMutable(q, busy)
             /\ \A j \in 1..(FirstMutable(q, busy) - 1) : j \in 1..Len(r) /\ r[j] = q[j]
             /\ \A j \in 1..Len(r) : \E k \in 1..Len(q) \ {i} :
                  /\ r[j] = q[k]
                  /\ j \in Waiting(r, busy) => k \in Waiting(q, busy)
             /\ \A k \in 1..Len(q) \ {i} : \E j \in 1..Len(r) : r[j] = q[k]
<1> DEFINE r == RemoveAt(q, i)
           m == FirstMutable(q, busy)
<1>1. i \in 1..Len(q) /\ m <= i /\ m \in {1, 2}
  BY DEF Waiting, FirstMutable
<1>2. /\ r \in Seq(Items) /\ Len(r) = Len(q) - 1
      /\ \A j \in 1..(Len(q) - 1) : r[j] = IF j < i THEN q[j] ELSE q[j + 1]
  BY <1>1, RemoveAtIs
<1>3. FirstMutable(r, busy) = m
  BY <1>1, <1>2 DEF FirstMutable, Waiting
<1>. HIDE DEF r, m
<1>4. \A j \in 1..(m - 1) : j \in 1..Len(r) /\ r[j] = q[j]
  BY <1>1, <1>2
<1>5. Ordered(r, busy)
  <2> SUFFICES ASSUME NEW j \in 1..Len(r), NEW k \in 1..Len(r), j < k
               PROVE  Apart(r[j], r[k])
                      /\ (m <= j => Precedes(r[j], r[k]) /\ ~SameKey(r[j], r[k]))
    BY <1>3 DEF Ordered
  <2>. DEFINE a == IF j < i THEN j ELSE j + 1
              b == IF k < i THEN k ELSE k + 1
  <2>1. a \in 1..Len(q) /\ b \in 1..Len(q) /\ r[j] = q[a] /\ r[k] = q[b]
    BY <1>1, <1>2
  <2>2. j <= a /\ a < b
    BY <1>1
  <2>. HIDE DEF a, b
  <2>. QED  BY <2>1, <2>2, <1>1 DEF Ordered, m
<1>6. ASSUME NEW j \in 1..Len(r)
      PROVE  \E k \in 1..Len(q) \ {i} :
               r[j] = q[k] /\ (j \in Waiting(r, busy) => k \in Waiting(q, busy))
  <2>1. CASE j < i
    <3>1. r[j] = q[j] /\ j \in 1..Len(q) \ {i}
      BY <1>1, <1>2, <2>1
    <3>2. j \in Waiting(r, busy) => j \in Waiting(q, busy)
      BY <1>1, <1>2, <1>3 DEF Waiting, m
    <3>. QED  BY <3>1, <3>2
  <2>2. CASE ~(j < i)
    <3>1. r[j] = q[j + 1] /\ j + 1 \in 1..Len(q) \ {i}
      BY <1>1, <1>2, <2>2
    <3>2. j \in Waiting(r, busy) => j + 1 \in Waiting(q, busy)
      BY <1>1, <1>2, <1>3 DEF Waiting, m
    <3>. QED  BY <3>1, <3>2
  <2>. QED  BY <2>1, <2>2
<1>7. ASSUME NEW k \in 1..Len(q) \ {i} PROVE \E j \in 1..Len(r) : r[j] = q[k]
  <2>1. CASE k < i
    BY <1>1, <1>2, <2>1
  <2>2. CASE k > i
    <3>1. k - 1 \in 1..Len(r) /\ r[k - 1] = q[k]
      BY <1>1, <1>2, <2>2
    <3>. QED  BY <3>1
  <2>. QED  BY <1>1, <2>1, <2>2
<1>. QED  BY <1>2, <1>3, <1>4, <1>5, <1>6, <1>7 DEF r, m

\* Where a new item goes, all before it may precede it, and it all behind it.
LEMMA PositionIs ==
  ASSUME NEW q \in Seq(Items), NEW busy \in BOOLEAN, Ordered(q, busy),
         NEW item \in Items, Newest(item, q)
  PROVE  LET p == Position(q, item, busy)
         IN  /\ p \in FirstMutable(q, busy)..(Len(q) + 1)
             /\ \A j \in Waiting(q, busy) :
                  IF j < p THEN Precedes(q[j], item) ELSE Precedes(item, q[j])
<1> DEFINE m == FirstMutable(q, busy)
           less == {j \in Waiting(q, busy) : Priority(q[j].kind) < Priority(item.kind)}
           p == Position(q, item, busy)
<1>1. m \in {1, 2} /\ m <= Len(q) + 1
  BY DEF FirstMutable
<1>2. Waiting(q, busy) = m..Len(q)
  BY DEF Waiting
<1>. HIDE DEF m
<1>3. p \in less \cup {Len(q) + 1} /\ \A j \in less \cup {Len(q) + 1} : p <= j
  <2>1. p = First(less \cup {Len(q) + 1})
    BY DEF Position
  <2>2. less \cup {Len(q) + 1} \in SUBSET Nat
    BY <1>1, <1>2
  <2>. HIDE DEF less, p
  <2>. QED  BY <2>1, <2>2, FirstIsLeast
<1>4. p \in m..(Len(q) + 1)
  BY <1>1, <1>2, <1>3
<1>5. ASSUME NEW j \in m..Len(q)
      PROVE  IF j < p THEN Precedes(q[j], item) ELSE Precedes(item, q[j])
  <2>1. /\ q[j] \in Items /\ Priority(q[j].kind) \in Nat /\ Priority(item.kind) \in Nat
        /\ q[j].id \in Nat /\ item.id \in Nat
    <3>1. q[j] \in Items
      BY <1>1
    <3>. QED  BY <3>1, PriorityIs, MaxCommandAssumption DEF Items
  <2>2. CASE j < p
    <3>1. j \notin less
      <4>1. p \in Int /\ j \in Int
        BY <1>1, <1>4
      <4>. HIDE DEF p, less
      <4>. QED  BY <1>3, <2>2, <4>1
    <3>2. Priority(q[j].kind) >= Priority(item.kind)
      BY <1>2, <2>1, <3>1
    <3>3. q[j].id = 0 \/ item.id = 0 \/ q[j].id < item.id
      BY <1>1 DEF Newest
    <3>. QED  BY <2>1, <2>2, <3>2, <3>3 DEF Precedes
  <2>3. CASE ~(j < p)
    <3>1. p \in less /\ p \in m..Len(q) /\ p <= j
      BY <1>2, <1>3, <1>4, <2>3
    <3>2. Priority(q[p].kind) < Priority(item.kind)
      BY <3>1
    <3>3. Priority(q[p].kind) \in Nat /\ Priority(q[p].kind) >= Priority(q[j].kind)
      <4>1. q[p] \in Items
        BY <1>1, <3>1
      <4>2. Priority(q[p].kind) \in Nat
        BY <4>1, PriorityIs DEF Items
      <4>3. p # j => Precedes(q[p], q[j])
        BY <1>1, <3>1 DEF Ordered, m
      <4>. QED  BY <2>1, <4>2, <4>3 DEF Precedes
    <3>. QED  BY <2>1, <2>3, <3>2, <3>3 DEF Precedes
  <2>. QED  BY <2>2, <2>3
<1>. QED  BY <1>2, <1>4, <1>5 DEF m

\* Inserting an item with a new key at its place keeps order, front and items.
LEMMA InsertKeeps ==
  ASSUME NEW q \in Seq(Items), NEW busy \in BOOLEAN, Ordered(q, busy),
         NEW item \in Items, Newest(item, q), NewKey(item, q, busy),
         busy => q # <<>>
  PROVE  LET r == InsertAt(q, Position(q, item, busy), item)
         IN  /\ r \in Seq(Items) /\ Len(r) = Len(q) + 1
             /\ Ordered(r, busy)
             /\ busy => r[1] = q[1]
             /\ \A j \in 1..Len(r) : r[j] = item \/ \E k \in 1..Len(q) : r[j] = q[k]
             /\ \A k \in 1..Len(q) : \E j \in 1..Len(r) : r[j] = q[k]
             /\ \E j \in 1..Len(r) : r[j] = item
<1> DEFINE p == Position(q, item, busy)
           r == InsertAt(q, p, item)
           m == FirstMutable(q, busy)
<1>1. m \in {1, 2} /\ (busy <=> m = 2) /\ m <= Len(q) + 1
  BY DEF FirstMutable
<1>2. /\ p \in m..(Len(q) + 1)
      /\ \A j \in m..Len(q) :
           IF j < p THEN Precedes(q[j], item) ELSE Precedes(item, q[j])
  BY PositionIs DEF Waiting
<1>3. \A j \in m..Len(q) : ~SameKey(q[j], item) /\ ~SameKey(item, q[j])
  BY DEF NewKey, SameKey, Waiting
<1>. HIDE DEF m, p
<1>4. /\ r \in Seq(Items) /\ Len(r) = Len(q) + 1
      /\ \A j \in 1..(Len(q) + 1) :
           r[j] = IF j < p THEN q[j] ELSE IF j = p THEN item ELSE q[j - 1]
  BY <1>1, <1>2, InsertAtIs
<1>. HIDE DEF r
<1>5. FirstMutable(r, busy) = m
  BY <1>1, <1>4 DEF FirstMutable
<1>6. \A j \in 1..Len(q) : Apart(q[j], item) /\ Apart(item, q[j])
  <2> SUFFICES ASSUME NEW j \in 1..Len(q) PROVE q[j].id # item.id \/ (q[j].id = 0 /\ item.id = 0)
    BY DEF Apart
  <2>1. q[j].id \in Nat /\ item.id \in Nat
    <3>1. q[j] \in Items
      OBVIOUS
    <3>. QED  BY <3>1, MaxCommandAssumption DEF Items
  <2>. QED  BY <2>1 DEF Newest
<1>7. Ordered(r, busy)
  <2> SUFFICES ASSUME NEW j \in 1..Len(r), NEW k \in 1..Len(r), j < k
               PROVE  Apart(r[j], r[k])
                      /\ (m <= j => Precedes(r[j], r[k]) /\ ~SameKey(r[j], r[k]))
    BY <1>5 DEF Ordered
  <2>1. CASE k = p
    <3>1. r[k] = item /\ r[j] = q[j] /\ j \in 1..Len(q) /\ j < p
      BY <1>1, <1>2, <1>4, <2>1
    <3>2. m <= j => j \in m..Len(q)
      BY <1>1, <3>1
    <3>. QED  BY <1>2, <1>3, <1>6, <3>1, <3>2
  <2>2. CASE j = p
    <3>1. r[j] = item /\ r[k] = q[k - 1] /\ k - 1 \in m..Len(q) /\ ~(k - 1 < p)
          /\ k - 1 \in 1..Len(q)
      BY <1>1, <1>2, <1>4, <2>2
    <3>. QED  BY <1>2, <1>3, <1>6, <3>1
  <2>3. CASE j # p /\ k # p
    <3>. DEFINE a == IF j < p THEN j ELSE j - 1
                b == IF k < p THEN k ELSE k - 1
    <3>1. a \in 1..Len(q) /\ b \in 1..Len(q) /\ r[j] = q[a] /\ r[k] = q[b]
      BY <1>1, <1>2, <1>4, <2>3
    <3>2. a < b /\ (m <= j => m <= a)
      BY <1>1, <1>2, <2>3
    <3>. HIDE DEF a, b
    <3>. QED  BY <3>1, <3>2 DEF Ordered, m
  <2>. QED  BY <2>1, <2>2, <2>3
<1>8. busy => r[1] = q[1]
  BY <1>1, <1>2, <1>4
<1>9. ASSUME NEW j \in 1..Len(r)
      PROVE  r[j] = item \/ \E k \in 1..Len(q) : r[j] = q[k]
  <2>1. CASE j < p
    BY <1>1, <1>2, <1>4, <2>1
  <2>2. CASE j = p
    BY <1>1, <1>2, <1>4, <2>2
  <2>3. CASE ~(j < p) /\ j # p
    <3>1. r[j] = q[j - 1] /\ j - 1 \in 1..Len(q)
      BY <1>1, <1>2, <1>4, <2>3
    <3>. QED  BY <3>1
  <2>. QED  BY <2>1, <2>2, <2>3
<1>10. ASSUME NEW k \in 1..Len(q) PROVE \E j \in 1..Len(r) : r[j] = q[k]
  <2>1. CASE k < p
    BY <1>1, <1>2, <1>4, <2>1
  <2>2. CASE ~(k < p)
    <3>1. k + 1 \in 1..Len(r) /\ r[k + 1] = q[k]
      BY <1>1, <1>2, <1>4, <2>2
    <3>. QED  BY <3>1
  <2>. QED  BY <2>1, <2>2
<1>11. p \in 1..Len(r) /\ r[p] = item
  BY <1>1, <1>2, <1>4
<1>. QED  BY <1>4, <1>7, <1>8, <1>9, <1>10, <1>11 DEF r, p

\* r is q without the waiting items out.
Thinned(q, r, busy, out) ==
  /\ r \in Queues /\ Ordered(r, busy)
  /\ busy => r # <<>> /\ r[1] = q[1]
  /\ \A j \in 1..Len(r) : \E k \in 1..Len(q) :
       r[j] = q[k] /\ (j \in Waiting(r, busy) => k \in Waiting(q, busy))
  /\ \A k \in 1..Len(q) : q[k] \in out \/ \E j \in 1..Len(r) : r[j] = q[k]
  /\ \A x \in out :
       /\ \E k \in Waiting(q, busy) : x = q[k]
       /\ \A j \in 1..Len(r) : Apart(x, r[j])

LEMMA WaitingIs ==
  ASSUME NEW q \in Seq(Items), NEW busy, NEW i \in Waiting(q, busy)
  PROVE  i \in 1..Len(q) /\ q[i] \in Items
BY DEF Waiting, FirstMutable

LEMMA RemoveThins ==
  ASSUME NEW q \in Queues, NEW busy \in BOOLEAN, Ordered(q, busy),
         busy => q # <<>>, NEW i \in Waiting(q, busy)
  PROVE  /\ Thinned(q, RemoveAt(q, i), busy, {q[i]})
         /\ Len(RemoveAt(q, i)) = Len(q) - 1
<1> DEFINE r == RemoveAt(q, i)
<1>1. q \in Seq(Items) /\ Len(q) <= MaxSize
  BY DEF Queues
<1>2. /\ r \in Seq(Items) /\ Len(r) = Len(q) - 1
      /\ Ordered(r, busy)
      /\ \A j \in 1..(FirstMutable(q, busy) - 1) : j \in 1..Len(r) /\ r[j] = q[j]
      /\ \A j \in 1..Len(r) : \E k \in 1..Len(q) \ {i} :
           r[j] = q[k] /\ (j \in Waiting(r, busy) => k \in Waiting(q, busy))
      /\ \A k \in 1..Len(q) \ {i} : \E j \in 1..Len(r) : r[j] = q[k]
  BY <1>1, RemoveKeeps
<1>3. i \in 1..Len(q)
  BY <1>1, WaitingIs
<1>. HIDE DEF r
<1>4. r \in Queues
  BY <1>1, <1>2, MaxSizeAssumption DEF Queues
<1>5. ASSUME busy PROVE r # <<>> /\ r[1] = q[1]
  <2>1. 1 \in 1..(FirstMutable(q, busy) - 1)
    BY <1>5 DEF FirstMutable
  <2>2. 1 \in 1..Len(r) /\ r[1] = q[1]
    BY <1>2, <2>1
  <2>. QED  BY <1>2, <2>2
<1>6. ASSUME NEW j \in 1..Len(r) PROVE Apart(q[i], r[j])
  <2>1. PICK k \in 1..Len(q) \ {i} : r[j] = q[k]
    BY <1>2
  <2>2. i < k \/ k < i
    BY <1>3
  <2>. QED  BY <1>3, <2>1, <2>2 DEF Ordered, Apart
<1>. QED  BY <1>2, <1>4, <1>5, <1>6, Zenon DEF Thinned, r

LEMMA ThinsNone ==
  ASSUME NEW q \in Queues, NEW busy \in BOOLEAN, Ordered(q, busy), busy => q # <<>>
  PROVE  Thinned(q, q, busy, {})
BY DEF Thinned

LEMMA ThinsTwice ==
  ASSUME NEW q \in Queues, NEW busy \in BOOLEAN, NEW r, NEW s, NEW a, NEW b,
         Thinned(q, r, busy, a), Thinned(r, s, busy, b)
  PROVE  Thinned(q, s, busy, a \cup b)
<1>1. s \in Queues /\ Ordered(s, busy) /\ (busy => s # <<>> /\ s[1] = q[1])
  BY DEF Thinned
<1>2. ASSUME NEW j \in 1..Len(s)
      PROVE  \E k \in 1..Len(q) :
               s[j] = q[k] /\ (j \in Waiting(s, busy) => k \in Waiting(q, busy))
  <2>1. PICK l \in 1..Len(r) :
          s[j] = r[l] /\ (j \in Waiting(s, busy) => l \in Waiting(r, busy))
    BY Zenon DEF Thinned
  <2>2. PICK k \in 1..Len(q) :
          r[l] = q[k] /\ (l \in Waiting(r, busy) => k \in Waiting(q, busy))
    BY <2>1, Zenon DEF Thinned
  <2>. QED  BY <2>1, <2>2
<1>3. ASSUME NEW k \in 1..Len(q)
      PROVE  q[k] \in a \cup b \/ \E j \in 1..Len(s) : s[j] = q[k]
  <2>1. q[k] \in a \/ \E l \in 1..Len(r) : r[l] = q[k]
    BY Zenon DEF Thinned
  <2>2. \A l \in 1..Len(r) : r[l] \in b \/ \E j \in 1..Len(s) : s[j] = r[l]
    BY Zenon DEF Thinned
  <2>. QED  BY <2>1, <2>2, Zenon
<1>4. ASSUME NEW x \in a
      PROVE  /\ \E k \in Waiting(q, busy) : x = q[k]
             /\ \A j \in 1..Len(s) : Apart(x, s[j])
  <2>1. \A l \in 1..Len(r) : Apart(x, r[l])
    BY Zenon DEF Thinned
  <2>2. \A j \in 1..Len(s) : \E l \in 1..Len(r) : s[j] = r[l]
    BY Zenon DEF Thinned
  <2>3. \E k \in Waiting(q, busy) : x = q[k]
    BY Zenon DEF Thinned
  <2>. QED  BY <2>1, <2>2, <2>3, Zenon
<1>5. ASSUME NEW x \in b
      PROVE  /\ \E k \in Waiting(q, busy) : x = q[k]
             /\ \A j \in 1..Len(s) : Apart(x, s[j])
  <2>1. PICK k \in Waiting(r, busy) : x = r[k]
    BY DEF Thinned
  <2>2. k \in 1..Len(r)
    BY <2>1, WaitingIs DEF Thinned, Queues
  <2>3. \E l \in Waiting(q, busy) : r[k] = q[l]
    BY <2>1, <2>2, Zenon DEF Thinned
  <2>. QED  BY <2>1, <2>3, Zenon DEF Thinned
<1>. QED  BY <1>1, <1>2, <1>3, <1>4, <1>5, Zenon DEF Thinned

\* What enqueue does to a queue in order.  The dropped items were waiting and
\* are gone; a brake is dropped for a newer brake only, and a brake is accepted
\* if three items fit.
Settled(q, item, busy, e) ==
  /\ e.queue \in Queues /\ e.queue # <<>>
  /\ Ordered(e.queue, busy)
  /\ busy => e.queue[1] = q[1]
  /\ e.accepted \in BOOLEAN
  /\ \A j \in 1..Len(e.queue) :
       (e.accepted /\ e.queue[j] = item) \/ \E k \in 1..Len(q) : e.queue[j] = q[k]
  /\ \A x \in e.dropped :
       /\ \E k \in 1..Len(q) : x = q[k]
       /\ \A j \in 1..Len(e.queue) : Apart(x, e.queue[j])
  /\ e.accepted => \E j \in 1..Len(e.queue) : e.queue[j] = item

KeepsBrakes(q, item, e) ==
  /\ \A k \in 1..Len(q) :
       q[k].kind = "brake" =>
         \/ \E j \in 1..Len(e.queue) : e.queue[j] = q[k]
         \/ item.kind = "brake" /\ e.accepted
  /\ item.kind = "brake" /\ MaxSize >= 3 => e.accepted

\* The item with the key of the new one goes first.
LEMMA KeptIs ==
  ASSUME NEW q \in Queues, NEW busy \in BOOLEAN, Ordered(q, busy),
         NEW item \in Items, busy => q # <<>>
  PROVE  LET equals     == {i \in Waiting(q, busy) : SameKey(q[i], item)}
             kept       == IF equals = {} THEN q ELSE RemoveAt(q, First(equals))
             superseded == IF equals = {} THEN {} ELSE {q[First(equals)]}
         IN  /\ Thinned(q, kept, busy, superseded)
             /\ NewKey(item, kept, busy)
             /\ \A x \in superseded : x.kind = item.kind
             /\ superseded # {} => ~Full(kept)
<1> DEFINE equals     == {i \in Waiting(q, busy) : SameKey(q[i], item)}
           kept       == IF equals = {} THEN q ELSE RemoveAt(q, First(equals))
           superseded == IF equals = {} THEN {} ELSE {q[First(equals)]}
<1>1. CASE equals = {}
  <2>1. kept = q /\ superseded = {}
    BY <1>1
  <2>2. NewKey(item, q, busy)
    BY <1>1 DEF NewKey
  <2>. QED  BY <2>1, <2>2, ThinsNone
<1>2. CASE equals # {}
  <2>. DEFINE i == First(equals)
  <2>1. i \in equals
    <3>1. equals \in SUBSET Nat
      BY DEF Waiting, FirstMutable
    <3>. HIDE DEF equals
    <3>. QED  BY <1>2, <3>1, FirstIsLeast
  <2>2. i \in Waiting(q, busy) /\ SameKey(q[i], item)
    BY <2>1
  <2>3. kept = RemoveAt(q, i) /\ superseded = {q[i]}
    BY <1>2
  <2>. HIDE DEF i, equals, kept, superseded
  <2>4. Thinned(q, kept, busy, superseded) /\ Len(kept) = Len(q) - 1
    BY <2>2, <2>3, RemoveThins
  <2>5. ~Full(kept)
    BY <2>4, MaxSizeAssumption DEF Full, Queues
  <2>6. NewKey(item, kept, busy)
    <3> SUFFICES ASSUME NEW j \in Waiting(kept, busy), SameKey(kept[j], item) PROVE FALSE
      BY DEF NewKey
    <3>1. i \in 1..Len(q) /\ FirstMutable(q, busy) <= i
      BY <2>2 DEF Waiting, FirstMutable, Queues
    <3>2. PICK k \in 1..Len(q) \ {i} : kept[j] = q[k] /\ FirstMutable(q, busy) <= k
      <4>1. q \in Seq(Items)
        BY DEF Queues
      <4>2. j \in 1..Len(kept)
        BY <2>4, WaitingIs DEF Thinned, Queues
      <4>3. \E k \in 1..Len(q) \ {i} : kept[j] = q[k] /\ k \in Waiting(q, busy)
        <5>1. \A l \in 1..Len(RemoveAt(q, i)) : \E k \in 1..Len(q) \ {i} :
                /\ RemoveAt(q, i)[l] = q[k]
                /\ l \in Waiting(RemoveAt(q, i), busy) => k \in Waiting(q, busy)
          BY <2>2, <4>1, RemoveKeeps
        <5>. QED  BY <2>3, <4>2, <5>1
      <4>. QED  BY <4>1, <4>3 DEF Waiting, FirstMutable
    <3>3. SameKey(q[i], q[k]) /\ SameKey(q[k], q[i])
      BY <2>2, <3>2 DEF SameKey
    <3>4. i < k \/ k < i
      BY <3>1, <3>2
    <3>. QED  BY <3>1, <3>2, <3>3, <3>4 DEF Ordered
  <2>7. q[i].kind = item.kind
    BY <2>2 DEF SameKey
  <2>. QED  BY <2>3, <2>4, <2>5, <2>6, <2>7 DEF equals, kept, superseded
<1>. QED  BY <1>1, <1>2

\* The victim is one of the candidates.
LEMMA VictimIs ==
  ASSUME NEW q \in Queues, NEW busy \in BOOLEAN, NEW item,
         Evictable(q, item, busy) # {}
  PROVE  Victim(q, Evictable(q, item, busy)) \in Evictable(q, item, busy)
<1> DEFINE candidates == Evictable(q, item, busy)
           least == {i \in candidates :
                       \A j \in candidates : Priority(q[i].kind) <= Priority(q[j].kind)}
           levels == {Priority(q[i].kind) : i \in candidates}
<1>1. candidates \subseteq Waiting(q, busy)
  BY DEF Evictable
<1>2. \A i \in candidates : i \in Nat /\ Priority(q[i].kind) \in Nat
  <2> SUFFICES ASSUME NEW i \in candidates PROVE i \in Nat /\ Priority(q[i].kind) \in Nat
    OBVIOUS
  <2>1. i \in 1..Len(q) /\ q[i] \in Items
    BY <1>1, WaitingIs DEF Queues
  <2>. QED  BY <2>1, PriorityIs DEF Items
<1>. HIDE DEF candidates
<1>3. least # {}
  <2>1. levels \in SUBSET Nat /\ levels # {}
    BY <1>2 DEF candidates
  <2>2. First(levels) \in levels /\ \A n \in levels : First(levels) <= n
    <3>. HIDE DEF levels
    <3>. QED  BY <2>1, FirstIsLeast
  <2>3. PICK i \in candidates : First(levels) = Priority(q[i].kind)
    BY <2>2
  <2>. QED  BY <2>2, <2>3
<1>4. least \in SUBSET Nat /\ least \subseteq candidates
  BY <1>2
<1>5. First(least) \in candidates
  <2>. HIDE DEF least
  <2>. QED  BY <1>3, <1>4, FirstIsLeast
<1>. QED  BY <1>5 DEF Victim, candidates

\* A full queue of three or more has a waiting item to give up for a brake:
\* of the urgent ones only a stop may wait beside the front.
LEMMA BrakeFindsVictim ==
  ASSUME NEW q \in Queues, NEW busy \in BOOLEAN, Ordered(q, busy),
         NEW item \in Items, item.kind = "brake", NewKey(item, q, busy),
         MaxSize >= 3, Full(q)
  PROVE  Evictable(q, item, busy) # {}
<1>1. Len(q) >= 3 /\ q \in Seq(Items) /\ Len(q) \in Nat
  BY MaxSizeAssumption DEF Full, Queues
<1>2. 2 \in Waiting(q, busy) /\ 3 \in Waiting(q, busy)
  BY <1>1 DEF Waiting, FirstMutable
<1>3. q[2] \in Items /\ q[3] \in Items
  BY <1>1
<1>4. ~SameKey(q[2], item) /\ ~SameKey(q[3], item) /\ ~SameKey(q[2], q[3])
  BY <1>1, <1>2 DEF NewKey, Ordered, Waiting, FirstMutable
<1>5. \E i \in {2, 3} : q[i].kind \notin {"brake", "stop"}
  BY <1>4 DEF SameKey
<1>6. PICK i \in {2, 3} : Priority(q[i].kind) \in Nat /\ Priority(q[i].kind) < Safety
  BY <1>3, <1>5, PriorityIs DEF Items, Safety
<1>7. Priority(item.kind) = Safety
  BY PriorityIs DEF Items
<1>. QED  BY <1>2, <1>6, <1>7 DEF Evictable

LEMMA ThinnedKeepsNew ==
  ASSUME NEW q \in Queues, NEW r, NEW busy \in BOOLEAN, NEW out, NEW item,
         Thinned(q, r, busy, out)
  PROVE  /\ Newest(item, q) => Newest(item, r)
         /\ NewKey(item, q, busy) => NewKey(item, r, busy)
<1>1. ASSUME Newest(item, q) PROVE Newest(item, r)
  <2>1. \A j \in 1..Len(r) : \E k \in 1..Len(q) : r[j] = q[k]
    BY Zenon DEF Thinned
  <2>. QED  BY <1>1, <2>1, Zenon DEF Newest
<1>2. ASSUME NewKey(item, q, busy) PROVE NewKey(item, r, busy)
  <2> SUFFICES ASSUME NEW j \in Waiting(r, busy) PROVE ~SameKey(r[j], item)
    BY DEF NewKey
  <2>1. j \in 1..Len(r)
    BY WaitingIs DEF Thinned, Queues
  <2>2. PICK k \in Waiting(q, busy) : r[j] = q[k]
    BY <2>1, Zenon DEF Thinned
  <2>. QED  BY <1>2, <2>2 DEF NewKey
<1>. QED  BY <1>1, <1>2

\* A thinned queue with room takes the new item.
LEMMA InsertSettles ==
  ASSUME NEW q \in Queues, NEW busy \in BOOLEAN, NEW r, NEW out,
         Thinned(q, r, busy, out), Len(r) < MaxSize,
         NEW item \in Items, Newest(item, q), NewKey(item, r, busy)
  PROVE  Settled(q, item, busy,
                 [queue |-> InsertAt(r, Position(r, item, busy), item),
                  accepted |-> TRUE, dropped |-> out])
<1> DEFINE s == InsertAt(r, Position(r, item, busy), item)
           e == [queue |-> s, accepted |-> TRUE, dropped |-> out]
<1>1. r \in Seq(Items) /\ Ordered(r, busy) /\ (busy => r # <<>> /\ r[1] = q[1])
  BY DEF Thinned, Queues
<1>2. Newest(item, r)
  BY ThinnedKeepsNew
<1>3. /\ s \in Seq(Items) /\ Len(s) = Len(r) + 1
      /\ Ordered(s, busy)
      /\ busy => s[1] = r[1]
      /\ \A j \in 1..Len(s) : s[j] = item \/ \E k \in 1..Len(r) : s[j] = r[k]
      /\ \E j \in 1..Len(s) : s[j] = item
  BY <1>1, <1>2, InsertKeeps
<1>. HIDE DEF s
<1>4. s \in Queues /\ s # <<>>
  BY <1>1, <1>3, MaxSizeAssumption DEF Queues
<1>5. \A j \in 1..Len(s) : s[j] = item \/ \E k \in 1..Len(q) : s[j] = q[k]
  <2>1. \A k \in 1..Len(r) : \E l \in 1..Len(q) : r[k] = q[l]
    BY Zenon DEF Thinned
  <2>2. ASSUME NEW j \in 1..Len(s)
        PROVE  s[j] = item \/ \E k \in 1..Len(q) : s[j] = q[k]
    <3>1. s[j] = item \/ \E k \in 1..Len(r) : s[j] = r[k]
      BY <1>3
    <3>. QED  BY <2>1, <3>1
  <2>. QED  BY <2>2
<1>6. ASSUME NEW x \in out
      PROVE  /\ \E k \in 1..Len(q) : x = q[k]
             /\ \A j \in 1..Len(s) : Apart(x, s[j])
  <2>1. PICK k \in Waiting(q, busy) : x = q[k]
    BY Zenon DEF Thinned
  <2>2. k \in 1..Len(q) /\ x \in Items
    BY <2>1, WaitingIs DEF Queues
  <2>3. Apart(x, item)
    <3>1. x.id \in Nat /\ item.id \in Nat
      BY <2>2, MaxCommandAssumption DEF Items
    <3>. QED  BY <2>1, <2>2, <3>1 DEF Newest, Apart
  <2>4. \A j \in 1..Len(r) : Apart(x, r[j])
    BY Zenon DEF Thinned
  <2>. QED  BY <1>3, <2>1, <2>2, <2>3, <2>4
<1>. HIDE DEF e
<1>7. e.queue = s /\ e.accepted = TRUE /\ e.dropped = out
  BY DEF e
<1>8. Settled(q, item, busy, e)
  BY <1>1, <1>3, <1>4, <1>5, <1>6, <1>7 DEF Settled
<1>. QED  BY <1>8 DEF e, s

LEMMA EnqueueSettles ==
  ASSUME NEW q \in Queues, NEW busy \in BOOLEAN, Ordered(q, busy),
         busy => q # <<>>, NEW item \in Items, Newest(item, q)
  PROVE  /\ Settled(q, item, busy, Enqueue(q, item, busy))
         /\ KeepsBrakes(q, item, Enqueue(q, item, busy))
<1> DEFINE equals     == {i \in Waiting(q, busy) : SameKey(q[i], item)}
           kept       == IF equals = {} THEN q ELSE RemoveAt(q, First(equals))
           superseded == IF equals = {} THEN {} ELSE {q[First(equals)]}
           candidates == Evictable(kept, item, busy)
           victim     == Victim(kept, candidates)
           e          == Enqueue(q, item, busy)
<1>1. /\ Thinned(q, kept, busy, superseded)
      /\ NewKey(item, kept, busy)
      /\ \A x \in superseded : x.kind = item.kind
      /\ superseded # {} => ~Full(kept)
  BY KeptIs
<1>2. e = LET room == IF Full(kept) THEN RemoveAt(kept, victim) ELSE kept
          IN  IF Full(kept) /\ candidates = {}
              THEN [queue |-> kept, accepted |-> FALSE, dropped |-> superseded]
              ELSE [queue |-> InsertAt(room, Position(room, item, busy), item),
                    accepted |-> TRUE,
                    dropped |-> superseded \cup IF Full(kept) THEN {kept[victim]} ELSE {}]
  BY DEF Enqueue
<1>. HIDE DEF equals, kept, superseded, candidates, victim, e
<1>3. kept \in Queues /\ Ordered(kept, busy) /\ (busy => kept # <<>> /\ kept[1] = q[1])
  BY <1>1 DEF Thinned
<1>4. Len(kept) \in Nat /\ Len(kept) <= MaxSize /\ MaxSize \in Nat
  BY <1>3, MaxSizeAssumption DEF Queues
<1>5. CASE Full(kept) /\ candidates = {}
  <2>1. e = [queue |-> kept, accepted |-> FALSE, dropped |-> superseded]
    BY <1>2, <1>5
  <2>2. superseded = {}
    BY <1>1, <1>5
  <2>3. kept # <<>>
    BY <1>4, <1>5, MaxSizeAssumption DEF Full
  <2>4. Settled(q, item, busy, e)
    <3>1. \A j \in 1..Len(kept) : \E k \in 1..Len(q) : kept[j] = q[k]
      BY <1>1, Zenon DEF Thinned
    <3>2. e.queue = kept /\ e.accepted = FALSE /\ e.dropped = {}
      BY <2>1, <2>2
    <3>. QED  BY <1>3, <2>3, <3>1, <3>2 DEF Settled
  <2>5. \A k \in 1..Len(q) : \E j \in 1..Len(kept) : kept[j] = q[k]
    BY <1>1, <2>2, Zenon DEF Thinned
  <2>6. ~(item.kind = "brake" /\ MaxSize >= 3)
    BY <1>1, <1>3, <1>5, BrakeFindsVictim DEF candidates
  <2>7. KeepsBrakes(q, item, e)
    BY <2>1, <2>5, <2>6 DEF KeepsBrakes
  <2>. QED  BY <2>4, <2>7 DEF e
<1>6. CASE ~Full(kept)
  <2>1. e = [queue |-> InsertAt(kept, Position(kept, item, busy), item),
             accepted |-> TRUE, dropped |-> superseded]
    BY <1>2, <1>6
  <2>2. Len(kept) < MaxSize
    BY <1>4, <1>6 DEF Full
  <2>3. Settled(q, item, busy, e)
    BY <1>1, <2>1, <2>2, InsertSettles
  <2>4. ASSUME NEW k \in 1..Len(q), q[k].kind = "brake"
        PROVE  \/ \E j \in 1..Len(e.queue) : e.queue[j] = q[k]
               \/ item.kind = "brake"
    <3>1. q[k] \in superseded => item.kind = "brake"
      BY <1>1, <2>4
    <3>2. q[k] \in superseded \/ \E l \in 1..Len(kept) : kept[l] = q[k]
      BY <1>1, Zenon DEF Thinned
    <3>3. \A l \in 1..Len(kept) : \E j \in 1..Len(e.queue) : e.queue[j] = kept[l]
      <4>1. Newest(item, kept) /\ kept \in Seq(Items)
        BY <1>1, <1>3, ThinnedKeepsNew DEF Queues
      <4>2. e.queue = InsertAt(kept, Position(kept, item, busy), item)
        BY <2>1
      <4>. QED  BY <1>1, <1>3, <4>1, <4>2, InsertKeeps
    <3>. QED  BY <3>1, <3>2, <3>3
  <2>5. KeepsBrakes(q, item, e)
    BY <2>1, <2>4 DEF KeepsBrakes
  <2>. QED  BY <2>3, <2>5 DEF e
<1>7. CASE Full(kept) /\ candidates # {}
  <2>. DEFINE room == RemoveAt(kept, victim)
  <2>1. e = [queue |-> InsertAt(room, Position(room, item, busy), item),
             accepted |-> TRUE, dropped |-> superseded \cup {kept[victim]}]
    BY <1>2, <1>7
  <2>2. victim \in candidates
    BY <1>3, <1>7, VictimIs DEF victim, candidates
  <2>3. victim \in Waiting(kept, busy) /\ Priority(kept[victim].kind) < Safety
    BY <2>2 DEF candidates, Evictable
  <2>4. Thinned(kept, room, busy, {kept[victim]}) /\ Len(room) = Len(kept) - 1
    BY <1>3, <2>3, RemoveThins
  <2>. HIDE DEF room
  <2>5. Thinned(q, room, busy, superseded \cup {kept[victim]})
    BY <1>1, <2>4, ThinsTwice
  <2>6. NewKey(item, room, busy) /\ Newest(item, room)
    BY <1>1, <1>3, <2>4, <2>5, ThinnedKeepsNew
  <2>7. Len(room) < MaxSize
    BY <1>4, <2>4
  <2>8. Settled(q, item, busy, e)
    BY <2>1, <2>5, <2>6, <2>7, InsertSettles
  <2>9. ASSUME NEW k \in 1..Len(q), q[k].kind = "brake"
        PROVE  \/ \E j \in 1..Len(e.queue) : e.queue[j] = q[k]
               \/ item.kind = "brake"
    <3>1. q[k] \in superseded => item.kind = "brake"
      BY <1>1, <2>9
    <3>2. q[k] # kept[victim]
      <4>1. Priority("brake") = Safety
        BY DEF Priority
      <4>. QED  BY <2>3, <2>9, <4>1 DEF Safety
    <3>3. q[k] \in superseded \/ \E l \in 1..Len(room) : room[l] = q[k]
      BY <2>5, <3>2, Zenon DEF Thinned
    <3>4. \A l \in 1..Len(room) : \E j \in 1..Len(e.queue) : e.queue[j] = room[l]
      <4>1. room \in Seq(Items) /\ Ordered(room, busy) /\ (busy => room # <<>>)
        BY <2>4 DEF Queues, Thinned
      <4>2. e.queue = InsertAt(room, Position(room, item, busy), item)
        BY <2>1
      <4>. QED  BY <2>6, <4>1, <4>2, InsertKeeps
    <3>. QED  BY <3>1, <3>3, <3>4
  <2>10. KeepsBrakes(q, item, e)
    BY <2>1, <2>9 DEF KeepsBrakes
  <2>. QED  BY <2>8, <2>10 DEF e
<1>. QED  BY <1>5, <1>6, <1>7

-----------------------------------------------------------------------------
(* The inductive invariant.                                                *)

Ids(s) == {s[i].id : i \in 1..Len(s)}

\* What is on its way carries a command that was taken and left the ROS thread,
\* or is the driver's own; a brake is never the driver's own.
Known(x, taken, cmd) ==
  IF x.id = 0 THEN x.kind # "brake"
  ELSE x.id <= Len(taken) /\ x.kind = taken[x.id] /\ x.id # cmd

Earlier(x, y) == x.id = 0 \/ y.id = 0 \/ x.id < y.id

\* Commands travel in the order in which they were taken.
Arrival(q, r, taken, cmd) ==
  /\ \A i \in 1..Len(q) : Known(q[i], taken, cmd)
  /\ \A j \in 1..Len(r) : Known(r[j], taken, cmd)
  /\ \A i \in 1..Len(q), j \in 1..Len(r) : Earlier(q[i], r[j])
  /\ \A i, j \in 1..Len(r) : i < j => Earlier(r[i], r[j])

RosInv ==
  /\ ros.at = "idle" <=> ros.cmd = 0
  /\ ros.cmd # 0 => ros.cmd = Len(kinds)

Spent(c) == told[c] \cap {"rejected", "sent"} # {} \/ machine.id = c

\* A command that was refused, written or executed is nowhere on its way.
SpentInv ==
  \A c \in 1..MaxCommand :
    Spent(c) => c <= Len(kinds) /\ c # ros.cmd /\ c \notin Ids(queue) \cup Ids(ready)

\* The front is what is being written; what waits behind it is in order.
QueueInv ==
  /\ IdleIsEmpty
  /\ IsWriting => io.burst = queue[1]
  /\ Ordered(queue, IsWriting)

Inv ==
  /\ TypeOK
  /\ QueueInv
  /\ RosInv
  /\ Arrival(queue, ready, kinds, ros.cmd)
  /\ SpentInv
  /\ RefusedIsNotExecuted

\* How the paths of commands change: a handler leaves or joins the I/O
\* thread's queue, the write queue is cleared or takes the first handler.
LEMMA HandlerIs ==
  ASSUME NEW x \in Handlers
  PROVE  x.id \in 0..MaxCommand
BY MaxCommandAssumption DEF Handlers, Handler, Items

LEMMA TailIs ==
  ASSUME NEW S, NEW r \in Seq(S), r # <<>>
  PROVE  /\ Tail(r) \in Seq(S) /\ Len(Tail(r)) = Len(r) - 1
         /\ \A j \in 1..Len(Tail(r)) : j + 1 \in 1..Len(r) /\ Tail(r)[j] = r[j + 1]
         /\ Head(r) = r[1] /\ 1 \in 1..Len(r)
OBVIOUS

LEMMA ArrivalTail ==
  ASSUME NEW q, NEW S, NEW r \in Seq(S), NEW taken, NEW cmd, r # <<>>,
         Arrival(q, r, taken, cmd)
  PROVE  /\ Arrival(q, Tail(r), taken, cmd)
         /\ Ids(Tail(r)) \subseteq Ids(r) /\ Head(r).id \in Ids(r)
<1>1. Arrival(q, Tail(r), taken, cmd)
  <2>1. \A j \in 1..Len(Tail(r)) : Known(Tail(r)[j], taken, cmd)
    BY TailIs DEF Arrival
  <2>2. \A i \in 1..Len(q), j \in 1..Len(Tail(r)) : Earlier(q[i], Tail(r)[j])
    BY TailIs DEF Arrival
  <2>3. ASSUME NEW i \in 1..Len(Tail(r)), NEW j \in 1..Len(Tail(r)), i < j
        PROVE  Earlier(Tail(r)[i], Tail(r)[j])
    <3>1. i + 1 < j + 1
      BY <2>3
    <3>. QED  BY <3>1, TailIs DEF Arrival
  <2>. QED  BY <2>1, <2>2, <2>3 DEF Arrival
<1>2. Ids(Tail(r)) \subseteq Ids(r) /\ Head(r).id \in Ids(r)
  BY TailIs DEF Ids
<1>. QED  BY <1>1, <1>2

LEMMA ArrivalCleared ==
  ASSUME NEW q, NEW r, NEW taken, NEW cmd, Arrival(q, r, taken, cmd)
  PROVE  Arrival(<<>>, r, taken, cmd) /\ Ids(<<>>) = {}
BY DEF Arrival, Ids

LEMMA ArrivalAppended ==
  ASSUME NEW q, NEW S, NEW r \in Seq(S), NEW taken, NEW cmd,
         Arrival(q, r, taken, cmd), NEW x \in S, Known(x, taken, cmd),
         \A i \in 1..Len(q) : Earlier(q[i], x),
         \A j \in 1..Len(r) : Earlier(r[j], x)
  PROVE  /\ Arrival(q, Append(r, x), taken, cmd)
         /\ Ids(Append(r, x)) = Ids(r) \cup {x.id}
<1> DEFINE s == Append(r, x)
<1>1. /\ Len(s) = Len(r) + 1 /\ s[Len(r) + 1] = x /\ Len(r) \in Nat
      /\ \A j \in 1..Len(r) : s[j] = r[j]
  OBVIOUS
<1>. HIDE DEF s
<1>2. \A j \in 1..Len(s) : j \in 1..Len(r) \/ j = Len(r) + 1
  BY <1>1
<1>3. Arrival(q, s, taken, cmd)
  BY <1>1, <1>2 DEF Arrival
<1>4. Ids(s) = Ids(r) \cup {x.id}
  BY <1>1, <1>2 DEF Ids
<1>. QED  BY <1>3, <1>4 DEF s

LEMMA ArrivalEnqueued ==
  ASSUME NEW q, NEW S, NEW r \in Seq(S), NEW taken, NEW cmd, r # <<>>,
         Arrival(q, r, taken, cmd), NEW s,
         \A j \in 1..Len(s) : s[j] = Head(r) \/ \E k \in 1..Len(q) : s[j] = q[k]
  PROVE  /\ Arrival(s, Tail(r), taken, cmd)
         /\ Ids(s) \subseteq Ids(q) \cup {Head(r).id}
<1>1. \A j \in 1..Len(s) : Known(s[j], taken, cmd)
  BY TailIs DEF Arrival
<1>2. ASSUME NEW i \in 1..Len(s), NEW j \in 1..Len(Tail(r))
      PROVE  Earlier(s[i], Tail(r)[j])
  <2>1. Tail(r)[j] = r[j + 1] /\ j + 1 \in 1..Len(r) /\ 1 < j + 1
    BY TailIs
  <2>2. Earlier(Head(r), r[j + 1])
    BY <2>1, TailIs DEF Arrival
  <2>3. \A k \in 1..Len(q) : Earlier(q[k], r[j + 1])
    BY <2>1 DEF Arrival
  <2>. QED  BY <2>1, <2>2, <2>3
<1>3. Arrival(s, Tail(r), taken, cmd)
  BY <1>1, <1>2, ArrivalTail DEF Arrival
<1>4. Ids(s) \subseteq Ids(q) \cup {Head(r).id}
  BY DEF Ids
<1>. QED  BY <1>3, <1>4

LEMMA TellIs ==
  ASSUME TypeOK, NEW state \in States, NEW C, Tell(state, C)
  PROVE  /\ told' \in [1..MaxCommand -> SUBSET States]
         /\ \A c \in 1..MaxCommand :
              told'[c] = IF c \in C THEN told[c] \cup {state} ELSE told[c]
BY DEF TypeOK, Tell

LEMMA NumbersAre ==
  ASSUME TypeOK
  PROVE  /\ \A i \in 1..Len(queue) : queue[i].id \in Nat
         /\ \A i \in 1..Len(ready) : ready[i].id \in Nat
<1>1. \A i \in 1..Len(queue) : queue[i] \in Items
  BY DEF TypeOK
<1>2. \A i \in 1..Len(ready) : ready[i] \in Handlers
  BY DEF TypeOK
<1>3. \A x \in Items : x.id \in Nat
  BY MaxCommandAssumption DEF Items
<1>4. \A x \in Handlers : x.id \in Nat
  BY HandlerIs, MaxCommandAssumption
<1>. QED  BY <1>1, <1>2, <1>3, <1>4

LEMMA InitInv == Init => Inv
<1> SUFFICES ASSUME Init PROVE Inv
  OBVIOUS
<1>. USE DEF Init
<1>1. queue = <<>> /\ Len(queue) = 0 /\ ~IsWriting
  BY DEF IsWriting
<1>2. TypeOK
  BY MaxCommandAssumption, MaxSizeAssumption
     DEF TypeOK, Handlers, Handler, Nothing, States
<1>3. QueueInv
  BY <1>1 DEF QueueInv, IdleIsEmpty, Ordered
<1>4. RosInv
  BY DEF RosInv
<1>5. Arrival(queue, ready, kinds, ros.cmd)
  BY DEF Arrival, Known, Earlier, Handler
<1>6. SpentInv
  BY MaxCommandAssumption DEF SpentInv, Spent
<1>7. RefusedIsNotExecuted
  BY DEF RefusedIsNotExecuted
<1>. QED  BY <1>1, <1>2, <1>3, <1>4, <1>5, <1>6, <1>7 DEF Inv

\* The ROS thread takes a command: its number is new.
LEMMA TakeStep ==
  ASSUME Inv, NEW kind \in Kinds, Take(kind)
  PROVE  Inv'
<1> DEFINE c == Len(kinds) + 1
<1>. USE DEF Inv, Take
<1>1. /\ Len(kinds) \in Nat /\ c \in 1..MaxCommand /\ ros.cmd = 0
      /\ kinds' = Append(kinds, kind) /\ kinds' \in Seq(Kinds) /\ Len(kinds') = c
      /\ \A d \in 1..Len(kinds) : kinds'[d] = kinds[d]
  BY MaxCommandAssumption DEF TypeOK, RosInv
<1>2. \/ ros' = [at |-> "checked", cmd |-> c] /\ told' = told
      \/ Tell("rejected", {c}) /\ ros' = ros
  OBVIOUS
<1>3. /\ told' \in [1..MaxCommand -> SUBSET States]
      /\ \A d \in 1..MaxCommand : d # c => told'[d] = told[d]
      /\ told'[c] # told[c] => told'[c] = told[c] \cup {"rejected"} /\ ros' = ros
  <2>1. CASE told' = told
    BY <2>1 DEF TypeOK
  <2>2. CASE Tell("rejected", {c}) /\ ros' = ros
    <3>1. TypeOK /\ "rejected" \in States
      BY DEF States
    <3>2. /\ told' \in [1..MaxCommand -> SUBSET States]
          /\ \A d \in 1..MaxCommand :
               told'[d] = IF d \in {c} THEN told[d] \cup {"rejected"} ELSE told[d]
      <4>. HIDE DEF c, Inv, Take
      <4>. QED  BY <2>2, <3>1, TellIs
    <3>. QED  BY <1>1, <2>2, <3>2
  <2>. QED  BY <1>2, <2>1, <2>2
<1>4. TypeOK'
  BY <1>1, <1>2, <1>3 DEF TypeOK
<1>5. QueueInv'
  BY DEF QueueInv, IdleIsEmpty, IsWriting
<1>6. RosInv'
  BY <1>1, <1>2 DEF RosInv
<1>7. Arrival(queue, ready, kinds, ros.cmd)'
  <2>1. ros'.cmd = 0 \/ ros'.cmd = c
    BY <1>1, <1>2
  <2>2. ASSUME NEW x, x.id \in Nat, Known(x, kinds, ros.cmd) PROVE Known(x, kinds', ros'.cmd)
    BY <1>1, <2>1, <2>2 DEF Known
  <2>3. /\ \A i \in 1..Len(queue) : queue[i].id \in Nat
        /\ \A i \in 1..Len(ready) : ready[i].id \in Nat
    BY NumbersAre
  <2>. QED  BY <2>2, <2>3 DEF Arrival
<1>8. c \notin Ids(queue) \cup Ids(ready)
  <2>1. \A i \in 1..Len(queue) : queue[i].id = 0 \/ queue[i].id <= Len(kinds)
    BY DEF Arrival, Known
  <2>2. \A i \in 1..Len(ready) : ready[i].id = 0 \/ ready[i].id <= Len(kinds)
    BY DEF Arrival, Known
  <2>. QED  BY <1>1, <2>1, <2>2 DEF Ids
<1>9. SpentInv' /\ RefusedIsNotExecuted'
  <2> SUFFICES ASSUME NEW d \in 1..MaxCommand
               PROVE  /\ Spent(d)' => /\ d <= Len(kinds') /\ d # ros'.cmd
                                      /\ d \notin Ids(queue) \cup Ids(ready)
                      /\ "rejected" \in told'[d] => "sent" \notin told'[d] /\ machine.id # d
    BY DEF SpentInv, RefusedIsNotExecuted
  <2>1. CASE d # c
    <3>1. Spent(d)' <=> Spent(d)
      BY <1>3, <2>1 DEF Spent
    <3>. QED  BY <1>1, <1>2, <1>3, <2>1, <3>1 DEF SpentInv, RefusedIsNotExecuted
  <2>2. CASE d = c
    <3>1. ~Spent(d)
      BY <1>1, <2>2 DEF SpentInv
    <3>2. "rejected" \notin told[d] /\ "sent" \notin told[d] /\ machine.id # d
      BY <3>1 DEF Spent
    <3>3. told'[d] \in {told[d], told[d] \cup {"rejected"}}
      BY <1>3, <2>2
    <3>4. Spent(d)' => told'[d] # told[d]
      BY <3>2 DEF Spent
    <3>5. told'[d] # told[d] => ros'.cmd = 0
      BY <1>1, <1>3, <2>2
    <3>. QED  BY <1>1, <1>8, <2>2, <3>2, <3>3, <3>4, <3>5
  <2>. QED  BY <2>1, <2>2
<1>. QED  BY <1>4, <1>5, <1>6, <1>7, <1>9

\* No command is refused, written or executed, and none joins the way.
LEMMA QuietStep ==
  ASSUME Inv, kinds' = kinds, machine'.id = machine.id,
         \A c \in 1..MaxCommand :
           told'[c] \cap {"rejected", "sent"} = told[c] \cap {"rejected", "sent"},
         Ids(queue') \cup Ids(ready') \cup {ros'.cmd}
           \subseteq Ids(queue) \cup Ids(ready) \cup {ros.cmd, 0}
  PROVE  SpentInv' /\ RefusedIsNotExecuted'
<1> SUFFICES ASSUME NEW c \in 1..MaxCommand
             PROVE  /\ Spent(c)' => /\ c <= Len(kinds') /\ c # ros'.cmd
                                    /\ c \notin Ids(queue') \cup Ids(ready')
                    /\ "rejected" \in told'[c] => "sent" \notin told'[c] /\ machine'.id # c
  BY DEF SpentInv, RefusedIsNotExecuted, Ids
<1>1. Spent(c)' <=> Spent(c)
  BY DEF Spent
<1>2. Spent(c)' => /\ c <= Len(kinds') /\ c # ros'.cmd
                   /\ c \notin Ids(queue') \cup Ids(ready')
  <2>1. c # 0
    OBVIOUS
  <2>. QED  BY <1>1, <2>1 DEF Inv, SpentInv
<1>3. "rejected" \in told'[c] => "sent" \notin told'[c] /\ machine'.id # c
  <2>1. /\ "rejected" \in told'[c] <=> "rejected" \in told[c]
        /\ "sent" \in told'[c] <=> "sent" \in told[c]
    BY Zenon
  <2>. QED  BY <2>1 DEF Inv, RefusedIsNotExecuted
<1>. QED  BY <1>2, <1>3

LEMMA ToldQuietly ==
  ASSUME TypeOK, NEW state \in {"queued", "transport_lost", "completed"}, NEW C,
         Tell(state, C)
  PROVE  /\ told' \in [1..MaxCommand -> SUBSET States]
         /\ \A c \in 1..MaxCommand :
              told'[c] \cap {"rejected", "sent"} = told[c] \cap {"rejected", "sent"}
<1>1. state \in States
  BY DEF States
<1>2. /\ told' \in [1..MaxCommand -> SUBSET States]
      /\ \A c \in 1..MaxCommand :
           told'[c] = IF c \in C THEN told[c] \cup {state} ELSE told[c]
  BY <1>1, TellIs
<1>3. state \notin {"rejected", "sent"}
  OBVIOUS
<1>4. ASSUME NEW T PROVE (T \cup {state}) \cap {"rejected", "sent"} = T \cap {"rejected", "sent"}
  BY <1>3
<1>. QED  BY <1>2, <1>4

LEMMA ActivateStep == ASSUME Inv, Activate PROVE Inv'
<1>. USE DEF Inv, Activate
<1>1. TypeOK' /\ ros'.cmd = ros.cmd
  BY DEF TypeOK, ExpectsCompletion
<1>2. QueueInv' /\ RosInv'
  BY DEF QueueInv, IdleIsEmpty, IsWriting, RosInv, TypeOK
<1>3. Arrival(queue, ready, kinds, ros.cmd)'
  BY <1>1
<1>4. SpentInv' /\ RefusedIsNotExecuted'
  BY <1>1, QuietStep
<1>. QED  BY <1>1, <1>2, <1>3, <1>4

LEMMA PublishQueuedStep == ASSUME Inv, PublishQueued PROVE Inv'
<1>. USE DEF Inv, PublishQueued
<1>1. /\ told' \in [1..MaxCommand -> SUBSET States]
      /\ \A c \in 1..MaxCommand :
           told'[c] \cap {"rejected", "sent"} = told[c] \cap {"rejected", "sent"}
  BY ToldQuietly
<1>2. TypeOK' /\ ros'.cmd = ros.cmd
  BY <1>1 DEF TypeOK
<1>3. QueueInv' /\ RosInv'
  BY DEF QueueInv, IdleIsEmpty, IsWriting, RosInv, TypeOK
<1>4. Arrival(queue, ready, kinds, ros.cmd)'
  BY <1>2
<1>5. SpentInv' /\ RefusedIsNotExecuted'
  BY <1>1, <1>2, QuietStep
<1>. QED  BY <1>2, <1>3, <1>4, <1>5

\* The command goes behind all that were taken before it.
LEMMA SendStep == ASSUME Inv, Send PROVE Inv'
<1>. USE DEF Inv, Send
<1> DEFINE x == ItemOf(ros.cmd)
<1>1. /\ ros.cmd = Len(kinds) /\ ros.cmd # 0 /\ ros.cmd \in 1..MaxCommand
      /\ x = [id |-> ros.cmd, kind |-> kinds[ros.cmd]]
  BY DEF RosInv, TypeOK, ItemOf
<1>2. x \in Items /\ x \in Handlers
  BY <1>1 DEF TypeOK, Items, Handlers
<1>3. ready \in Seq(Handlers) /\ ready' = Append(ready, x) /\ ros'.cmd = 0 /\ ros'.at = "idle"
  BY DEF TypeOK
<1>4. TypeOK'
  BY <1>2, <1>3, MaxCommandAssumption DEF TypeOK
<1>5. QueueInv' /\ RosInv'
  BY <1>3 DEF QueueInv, IdleIsEmpty, IsWriting, RosInv
<1>6. /\ Arrival(queue, ready', kinds, 0)
      /\ Ids(ready') = Ids(ready) \cup {ros.cmd}
  <2>1. Arrival(queue, ready, kinds, 0)
    BY DEF Arrival, Known
  <2>2. Known(x, kinds, 0)
    BY <1>1 DEF Known
  <2>3. ASSUME NEW y, y.id \in Nat, Known(y, kinds, ros.cmd) PROVE Earlier(y, x)
    <3>1. x.id = ros.cmd
      BY <1>1
    <3>2. y.id = 0 \/ y.id < ros.cmd
      BY <1>1, <2>3 DEF Known
    <3>. QED  BY <3>1, <3>2 DEF Earlier
  <2>. HIDE DEF x
  <2>4. /\ \A i \in 1..Len(queue) : Earlier(queue[i], x)
        /\ \A i \in 1..Len(ready) : Earlier(ready[i], x)
    BY <2>3, NumbersAre DEF Arrival
  <2>5. Arrival(queue, ready', kinds, 0) /\ Ids(ready') = Ids(ready) \cup {x.id}
    BY <1>2, <1>3, <2>1, <2>2, <2>4, ArrivalAppended
  <2>. QED  BY <1>1, <2>5
<1>7. SpentInv' /\ RefusedIsNotExecuted'
  BY <1>3, <1>6, QuietStep
<1>. QED  BY <1>3, <1>4, <1>5, <1>6, <1>7

\* A handler of the I/O thread that carries no command has run, or joins.
LEMMA HandlerRuns ==
  ASSUME Inv, NEW x, Runs(x)
  PROVE  /\ ready' \in Seq(Handlers) /\ ready # <<>> /\ x = Head(ready)
         /\ Arrival(queue, ready', kinds, ros.cmd) /\ Ids(ready') \subseteq Ids(ready)
<1>1. ready \in Seq(Handlers) /\ ready # <<>> /\ ready' = Tail(ready) /\ x = Head(ready)
  BY DEF Inv, TypeOK, Runs
<1>2. Arrival(queue, ready, kinds, ros.cmd)
  BY DEF Inv
<1>3. Arrival(queue, Tail(ready), kinds, ros.cmd) /\ Ids(Tail(ready)) \subseteq Ids(ready)
  BY <1>1, <1>2, ArrivalTail
<1>4. Tail(ready) \in Seq(Handlers)
  BY <1>1, TailIs
<1>. QED  BY <1>1, <1>3, <1>4

LEMMA HandlerJoins ==
  ASSUME Inv, NEW what \in {"open", "aborted", "frame", "stop"},
         ready' = Append(ready, Handler(what))
  PROVE  /\ ready' \in Seq(Handlers)
         /\ Arrival(queue, ready', kinds, ros.cmd)
         /\ Ids(ready') \subseteq Ids(ready) \cup {0}
<1> DEFINE x == Handler(what)
<1>1. x \in Handlers /\ x.id = 0 /\ x.kind # "brake"
  BY MaxCommandAssumption DEF Handler, Handlers, Items
<1>2. ready \in Seq(Handlers) /\ Arrival(queue, ready, kinds, ros.cmd)
  BY DEF Inv, TypeOK
<1>3. /\ Known(x, kinds, ros.cmd)
      /\ \A i \in 1..Len(queue) : Earlier(queue[i], x)
      /\ \A i \in 1..Len(ready) : Earlier(ready[i], x)
  BY <1>1 DEF Known, Earlier
<1>4. ready' = Append(ready, x)
  OBVIOUS
<1>. HIDE DEF x
<1>5. Arrival(queue, ready', kinds, ros.cmd) /\ Ids(ready') = Ids(ready) \cup {x.id}
  BY <1>1, <1>2, <1>3, <1>4, ArrivalAppended
<1>. QED  BY <1>1, <1>2, <1>4, <1>5

\* Losing the transport empties the queue and ends the write.
LEMMA LoseKeeps ==
  ASSUME Inv, NEW timer \in {"none", "running", "expired"}, Lose(timer)
  PROVE  /\ queue' = <<>> /\ queue' \in Seq(Items) /\ Len(queue') = 0
         /\ io' \in [port : {"closed", "announcing", "open"}, connected : BOOLEAN,
                     burst : Items \cup {Nothing}, timer : {"none", "running", "expired"}]
         /\ io'.port = "closed"
         /\ QueueInv'
         /\ told' \in [1..MaxCommand -> SUBSET States]
         /\ \A c \in 1..MaxCommand :
              told'[c] \cap {"rejected", "sent"} = told[c] \cap {"rejected", "sent"}
<1>1. queue' = <<>> /\ io' = Lost(timer) /\ Tell("transport_lost", {active.id} \ {0})
  BY DEF Lose
<1>2. io'.port = "closed" /\ io'.burst = Nothing
  BY <1>1 DEF Lost
<1>3. QueueInv'
  BY <1>1, <1>2 DEF QueueInv, IdleIsEmpty, IsWriting, Ordered
<1>4. /\ told' \in [1..MaxCommand -> SUBSET States]
      /\ \A c \in 1..MaxCommand :
           told'[c] \cap {"rejected", "sent"} = told[c] \cap {"rejected", "sent"}
  BY <1>1, ToldQuietly DEF Inv
<1>. QED  BY <1>1, <1>2, <1>3, <1>4 DEF Lost

LEMMA OpenStep == ASSUME Inv, Open PROVE Inv'
<1>1. /\ ready' \in Seq(Handlers) /\ Arrival(queue, ready', kinds, ros.cmd)
      /\ Ids(ready') \subseteq Ids(ready)
  BY HandlerRuns DEF Open
<1>. USE DEF Inv, Open
<1>2. TypeOK'
  BY <1>1 DEF TypeOK
<1>3. QueueInv' /\ RosInv'
  BY DEF QueueInv, IdleIsEmpty, IsWriting, RosInv, TypeOK
<1>4. SpentInv' /\ RefusedIsNotExecuted'
  BY <1>1, QuietStep
<1>. QED  BY <1>1, <1>2, <1>3, <1>4

LEMMA AnnounceStep == ASSUME Inv, Announce PROVE Inv'
<1>1. /\ ready' \in Seq(Handlers) /\ Arrival(queue, ready', kinds, ros.cmd)
      /\ Ids(ready') \subseteq Ids(ready) \cup {0}
  BY HandlerJoins DEF Announce
<1>. USE DEF Inv, Announce
<1>2. TypeOK'
  BY <1>1 DEF TypeOK
<1>3. QueueInv' /\ RosInv'
  BY DEF QueueInv, IdleIsEmpty, IsWriting, RosInv, TypeOK
<1>4. SpentInv' /\ RefusedIsNotExecuted'
  BY <1>1, QuietStep
<1>. QED  BY <1>1, <1>2, <1>3, <1>4

LEMMA TimerExpiresStep == ASSUME Inv, TimerExpires PROVE Inv'
<1>1. /\ ready' \in Seq(Handlers) /\ Arrival(queue, ready', kinds, ros.cmd)
      /\ Ids(ready') \subseteq Ids(ready) \cup {0}
  BY HandlerJoins DEF TimerExpires
<1>. USE DEF Inv, TimerExpires
<1>2. TypeOK'
  BY <1>1 DEF TypeOK
<1>3. QueueInv' /\ RosInv'
  BY DEF QueueInv, IdleIsEmpty, IsWriting, RosInv, TypeOK
<1>4. SpentInv' /\ RefusedIsNotExecuted'
  BY <1>1, QuietStep
<1>. QED  BY <1>1, <1>2, <1>3, <1>4

\* The opening fails, or a cancelled operation reports the loss again.
LEMMA LossStep ==
  ASSUME Inv, OpenFails \/ Aborted
  PROVE  Inv'
<1>1. /\ ready' \in Seq(Handlers) /\ Arrival(queue, ready', kinds, ros.cmd)
      /\ Ids(ready') \subseteq Ids(ready)
  BY HandlerRuns DEF OpenFails, Aborted
<1>2. PICK timer \in {"none", "running", "expired"} : Lose(timer)
  BY DEF OpenFails, Aborted, Inv, TypeOK
<1>3. UNCHANGED <<ros, kinds, active, machine>>
  BY DEF OpenFails, Aborted
<1>4. TypeOK' /\ QueueInv'
  BY <1>1, <1>2, <1>3, LoseKeeps, MaxSizeAssumption DEF TypeOK, Inv
<1>5. RosInv'
  BY <1>3 DEF Inv, RosInv
<1>6. Arrival(queue', ready', kinds, ros.cmd) /\ Ids(queue') = {}
  BY <1>1, <1>2, LoseKeeps, ArrivalCleared
<1>7. SpentInv' /\ RefusedIsNotExecuted'
  BY <1>1, <1>2, <1>3, <1>6, LoseKeeps, QuietStep
<1>. QED  BY <1>3, <1>4, <1>5, <1>6, <1>7 DEF Inv

LEMMA FrameStep ==
  ASSUME Inv, OnFrame \/ OnLateFrame
  PROVE  Inv'
<1>1. /\ ready' \in Seq(Handlers) /\ Arrival(queue, ready', kinds, ros.cmd)
      /\ Ids(ready') \subseteq Ids(ready)
  <2>1. CASE OnFrame
    BY <2>1 DEF OnFrame, Inv, TypeOK
  <2>2. CASE OnLateFrame
    BY <2>2, HandlerRuns DEF OnLateFrame
  <2>. QED  BY <2>1, <2>2
<1>2. FrameParsed
  BY DEF OnFrame, OnLateFrame
<1>3. /\ told' \in [1..MaxCommand -> SUBSET States]
      /\ \A c \in 1..MaxCommand :
           told'[c] \cap {"rejected", "sent"} = told[c] \cap {"rejected", "sent"}
  <2>1. told' = told \/ Tell("completed", {active.id})
    BY <1>2 DEF FrameParsed
  <2>. QED  BY <2>1, ToldQuietly DEF Inv, TypeOK
<1>. USE DEF Inv
<1>4. TypeOK'
  BY <1>1, <1>2, <1>3 DEF TypeOK, FrameParsed
<1>5. QueueInv' /\ RosInv'
  BY <1>2 DEF FrameParsed, QueueInv, IdleIsEmpty, IsWriting, RosInv
<1>6. SpentInv' /\ RefusedIsNotExecuted'
  BY <1>1, <1>2, <1>3, QuietStep DEF FrameParsed
<1>. QED  BY <1>1, <1>2, <1>4, <1>5, <1>6 DEF FrameParsed

LEMMA FinishStep == ASSUME Inv, Finish PROVE Inv'
<1>. USE DEF Inv, Finish
<1>1. TypeOK' /\ machine'.id = machine.id
  BY DEF TypeOK
<1>2. QueueInv' /\ RosInv'
  BY DEF QueueInv, IdleIsEmpty, IsWriting, RosInv
<1>3. SpentInv' /\ RefusedIsNotExecuted'
  BY <1>1, QuietStep
<1>. QED  BY <1>1, <1>2, <1>3

LEMMA ExecutingIs ==
  ASSUME TypeOK, NEW item \in Items
  PROVE  /\ Executing(item) \in [id : 0..MaxCommand, kind : Kinds \cup {"stop"},
                                finished : BOOLEAN]
         /\ Executing(item).id = item.id
<1>1. machine.finished \in BOOLEAN
  BY DEF TypeOK
<1>. QED  BY <1>1 DEF Executing, Items

\* A write or a read fails: the burst may have reached the controller, but it
\* is on its way no more.
LEMMA TransportFailsStep == ASSUME Inv, TransportFails PROVE Inv'
<1>1. /\ ready' \in Seq(Handlers) /\ Arrival(queue, ready', kinds, ros.cmd)
      /\ Ids(ready') \subseteq Ids(ready) \cup {0}
  <2>1. CASE ready' = ready
    BY <2>1 DEF Inv, TypeOK
  <2>2. CASE \E h \in {"aborted", "frame"} : ready' = Append(ready, Handler(h))
    BY <2>2, HandlerJoins
  <2>. QED  BY <2>1, <2>2 DEF TransportFails
<1>2. io.timer \in {"none", "running", "expired"} /\ Lose(io.timer)
  BY DEF TransportFails, Inv, TypeOK
<1>3. UNCHANGED <<ros, kinds, active>>
  BY DEF TransportFails
<1>4. \/ machine' = machine
      \/ IsWriting /\ machine' = Executing(io.burst) /\ io.burst = queue[1]
         /\ queue # <<>> /\ 1 \in 1..Len(queue) /\ queue[1] \in Items
  <2>1. IsWriting => io.burst = queue[1] /\ queue # <<>>
    BY DEF Inv, QueueInv, IdleIsEmpty
  <2>2. queue # <<>> => 1 \in 1..Len(queue) /\ queue[1] \in Items
    BY DEF Inv, TypeOK
  <2>. QED  BY <2>1, <2>2 DEF TransportFails
<1>5. machine' \in [id : 0..MaxCommand, kind : Kinds \cup {"stop"}, finished : BOOLEAN]
  BY <1>4, ExecutingIs DEF Inv, TypeOK
<1>6. TypeOK' /\ QueueInv'
  BY <1>1, <1>2, <1>3, <1>5, LoseKeeps, MaxSizeAssumption DEF TypeOK, Inv
<1>7. RosInv'
  BY <1>3 DEF Inv, RosInv
<1>8. Arrival(queue', ready', kinds, ros.cmd) /\ Ids(queue') = {}
  BY <1>1, <1>2, LoseKeeps, ArrivalCleared
<1>9. SpentInv' /\ RefusedIsNotExecuted'
  <2>1. \A c \in 1..MaxCommand :
          told'[c] \cap {"rejected", "sent"} = told[c] \cap {"rejected", "sent"}
    BY <1>2, LoseKeeps
  <2>2. CASE machine' = machine
    BY <1>1, <1>3, <1>8, <2>1, <2>2, QuietStep
  <2>3. CASE machine' # machine
    <3>. DEFINE b == queue[1].id
    <3>1. machine'.id = b /\ b \in Nat /\ 1 \in 1..Len(queue)
      BY <1>4, <2>3, NumbersAre, ExecutingIs DEF Inv
    <3>2. b # 0 => b <= Len(kinds) /\ b # ros.cmd
      BY <3>1 DEF Inv, Arrival, Known
    <3>3. b # 0 => b \notin Ids(ready)
      <4>1. \A j \in 1..Len(ready) : Earlier(queue[1], ready[j])
        BY <3>1 DEF Inv, Arrival
      <4>. QED  BY <3>1, <4>1 DEF Ids, Earlier
    <3>4. b \in Ids(queue)
      BY <3>1 DEF Ids
    <3>. HIDE DEF b
    <3> SUFFICES ASSUME NEW c \in 1..MaxCommand
                 PROVE  /\ Spent(c)' => /\ c <= Len(kinds') /\ c # ros'.cmd
                                        /\ c \notin Ids(queue') \cup Ids(ready')
                        /\ "rejected" \in told'[c] => "sent" \notin told'[c] /\ machine'.id # c
      BY DEF SpentInv, RefusedIsNotExecuted, Ids
    <3>5. /\ "rejected" \in told'[c] <=> "rejected" \in told[c]
          /\ "sent" \in told'[c] <=> "sent" \in told[c]
      BY <2>1, Zenon
    <3>6. Spent(c)' => Spent(c) \/ c = b
      BY <3>1, <3>5 DEF Spent
    <3>7. Spent(c)' => /\ c <= Len(kinds') /\ c # ros'.cmd
                       /\ c \notin Ids(queue') \cup Ids(ready')
      BY <1>1, <1>3, <1>8, <3>2, <3>3, <3>6 DEF Inv, SpentInv
    <3>8. ASSUME "rejected" \in told'[c] PROVE "sent" \notin told'[c] /\ machine'.id # c
      <4>1. Spent(c) /\ c \notin Ids(queue)
        BY <3>5, <3>8 DEF Spent, Inv, SpentInv
      <4>. QED  BY <3>1, <3>4, <3>5, <3>8, <4>1 DEF Inv, RefusedIsNotExecuted
    <3>. QED  BY <3>7, <3>8
  <2>. QED  BY <2>2, <2>3
<1>. QED  BY <1>3, <1>6, <1>7, <1>8, <1>9 DEF Inv

\* The front has been written: it is told so, and the next one is the front.
LEMMA WriteCompletesStep == ASSUME Inv, WriteCompletes PROVE Inv'
<1> DEFINE b == queue[1].id
<1>1. /\ queue \in Seq(Items) /\ queue # <<>> /\ io.burst = queue[1]
      /\ Head(queue) = queue[1] /\ 1 \in 1..Len(queue) /\ io.port = "open"
      /\ queue[1] \in Items /\ IsWriting
  BY DEF Inv, TypeOK, QueueInv, IdleIsEmpty, WriteCompletes
<1>2. /\ queue' = Tail(queue) /\ queue' \in Seq(Items) /\ Len(queue') = Len(queue) - 1
      /\ \A j \in 1..Len(queue') : j + 1 \in 1..Len(queue) /\ queue'[j] = queue[j + 1]
  BY <1>1, TailIs DEF WriteCompletes
<1>3. /\ machine' = Executing(queue[1]) /\ UNCHANGED <<ros, kinds, active, ready>>
      /\ io' = [io EXCEPT !.burst = Writing(queue')]
      /\ Tell("sent", Commands({queue[1]}))
  BY <1>1, <1>2 DEF WriteCompletes
<1>4. b \in 0..MaxCommand /\ b \in Nat /\ Commands({queue[1]}) = {b} \ {0}
  BY <1>1, MaxCommandAssumption DEF Items, Commands
<1>5. /\ told' \in [1..MaxCommand -> SUBSET States]
      /\ \A c \in 1..MaxCommand :
           told'[c] = IF c = b THEN told[c] \cup {"sent"} ELSE told[c]
  <2>1. "sent" \in States
    BY DEF States
  <2>. DEFINE C == Commands({queue[1]})
  <2>2. TypeOK /\ Tell("sent", C) /\ C = {b} \ {0}
    BY <1>3, <1>4 DEF Inv
  <2>. HIDE DEF C
  <2>3. /\ told' \in [1..MaxCommand -> SUBSET States]
        /\ \A c \in 1..MaxCommand :
             told'[c] = IF c \in C THEN told[c] \cup {"sent"} ELSE told[c]
    BY <2>1, <2>2, TellIs
  <2>. QED  BY <2>2, <2>3
<1>6. Writing(queue') \in Items \cup {Nothing}
      /\ (queue' = <<>> => Writing(queue') = Nothing)
      /\ (queue' # <<>> => Writing(queue') = queue'[1] /\ Writing(queue') # Nothing)
  <2>1. Nothing \notin Items
    BY KindsAssumption DEF Nothing, Handler, Items
  <2>2. queue' # <<>> => Head(queue') = queue'[1] /\ queue'[1] \in Items
    BY <1>2
  <2>. QED  BY <2>1, <2>2 DEF Writing
<1>7. TypeOK'
  <2>1. machine' \in [id : 0..MaxCommand, kind : Kinds \cup {"stop"}, finished : BOOLEAN]
    BY <1>1, <1>3, ExecutingIs DEF Inv
  <2>2. io' \in [port : {"closed", "announcing", "open"}, connected : BOOLEAN,
                burst : Items \cup {Nothing}, timer : {"none", "running", "expired"}]
    BY <1>3, <1>6 DEF TypeOK, Inv
  <2>3. Len(queue') <= MaxSize
    BY <1>1, <1>2, MaxSizeAssumption DEF TypeOK, Inv
  <2>. QED  BY <1>2, <1>3, <1>5, <2>1, <2>2, <2>3 DEF TypeOK, Inv
<1>8. QueueInv'
  <2>1. io'.port = "open" /\ io'.burst = Writing(queue')
    BY <1>1, <1>3 DEF Inv, TypeOK
  <2>2. Ordered(queue', IsWriting')
    <3> SUFFICES ASSUME NEW i \in 1..Len(queue'), NEW j \in 1..Len(queue'), i < j
                 PROVE  /\ Apart(queue'[i], queue'[j])
                        /\ Precedes(queue'[i], queue'[j]) /\ ~SameKey(queue'[i], queue'[j])
      BY DEF Ordered
    <3>1. i + 1 < j + 1 /\ FirstMutable(queue, IsWriting) <= i + 1
      BY <1>2 DEF FirstMutable
    <3>. QED  BY <1>2, <3>1 DEF Inv, QueueInv, Ordered
  <2>. QED  BY <1>6, <2>1, <2>2 DEF QueueInv, IdleIsEmpty, IsWriting
<1>9. RosInv'
  BY <1>3 DEF Inv, RosInv
<1>10. Arrival(queue', ready, kinds, ros.cmd) /\ Ids(queue') \subseteq Ids(queue)
  BY <1>2 DEF Inv, Arrival, Ids
<1>11. b # 0 => b \notin Ids(queue') \cup Ids(ready) /\ b <= Len(kinds) /\ b # ros.cmd
  <2>1. \A j \in 1..Len(ready) : Earlier(queue[1], ready[j])
    BY <1>1 DEF Inv, Arrival
  <2>2. \A j \in 1..Len(queue') : Apart(queue[1], queue'[j])
    <3>1. \A j \in 1..Len(queue') : 1 < j + 1
      BY <1>2
    <3>. QED  BY <1>1, <1>2, <3>1 DEF Inv, QueueInv, Ordered
  <2>3. b # 0 => b <= Len(kinds) /\ b # ros.cmd
    BY <1>1 DEF Inv, Arrival, Known
  <2>. QED  BY <1>4, <2>1, <2>2, <2>3 DEF Ids, Earlier, Apart
<1>12. b \in Ids(queue) /\ machine'.id = b
  BY <1>1, <1>3 DEF Ids, Executing
<1>. HIDE DEF b
<1>13. SpentInv' /\ RefusedIsNotExecuted'
  <2> SUFFICES ASSUME NEW c \in 1..MaxCommand
               PROVE  /\ Spent(c)' => /\ c <= Len(kinds') /\ c # ros'.cmd
                                      /\ c \notin Ids(queue') \cup Ids(ready')
                      /\ "rejected" \in told'[c] => "sent" \notin told'[c] /\ machine'.id # c
    BY DEF SpentInv, RefusedIsNotExecuted, Ids
  <2>1. Spent(c)' => Spent(c) \/ c = b
    BY <1>5, <1>12 DEF Spent
  <2>2. Spent(c)' => /\ c <= Len(kinds') /\ c # ros'.cmd
                     /\ c \notin Ids(queue') \cup Ids(ready')
    BY <1>3, <1>10, <1>11, <2>1 DEF Inv, SpentInv
  <2>3. ASSUME "rejected" \in told'[c] PROVE "sent" \notin told'[c] /\ machine'.id # c
    <3>1. "rejected" \in told[c]
      BY <1>5, <2>3
    <3>2. Spent(c) /\ c \notin Ids(queue)
      BY <3>1 DEF Spent, Inv, SpentInv
    <3>. QED  BY <1>5, <1>12, <3>1, <3>2 DEF Inv, RefusedIsNotExecuted
  <2>. QED  BY <2>2, <2>3
<1>. QED  BY <1>3, <1>7, <1>8, <1>9, <1>10, <1>13 DEF Inv

\* Commands are refused that were on their way and are so no more.
LEMMA RejectStep ==
  ASSUME Inv, UNCHANGED <<ros, kinds, machine>>,
         NEW R \in SUBSET (Ids(queue) \cup Ids(ready)), Tell("rejected", R \ {0}),
         Ids(queue') \cup Ids(ready') \subseteq Ids(queue) \cup Ids(ready),
         (R \ {0}) \cap (Ids(queue') \cup Ids(ready')) = {}
  PROVE  SpentInv' /\ RefusedIsNotExecuted'
<1> SUFFICES ASSUME NEW c \in 1..MaxCommand
             PROVE  /\ Spent(c)' => /\ c <= Len(kinds') /\ c # ros'.cmd
                                    /\ c \notin Ids(queue') \cup Ids(ready')
                    /\ "rejected" \in told'[c] => "sent" \notin told'[c] /\ machine'.id # c
  BY DEF SpentInv, RefusedIsNotExecuted, Ids
<1>1. told'[c] = IF c \in R \ {0} THEN told[c] \cup {"rejected"} ELSE told[c]
  BY TellIs DEF Inv, States
<1>2. CASE c \in R
  <2>1. ~Spent(c)
    BY <1>2 DEF Inv, SpentInv
  <2>2. c <= Len(kinds) /\ c # ros.cmd
    <3>1. \A i \in 1..Len(queue) : Known(queue[i], kinds, ros.cmd)
      BY DEF Inv, Arrival
    <3>2. \A i \in 1..Len(ready) : Known(ready[i], kinds, ros.cmd)
      BY DEF Inv, Arrival
    <3>. QED  BY <1>2, <3>1, <3>2 DEF Known, Ids
  <2>3. "sent" \notin told'[c] /\ machine'.id # c
    BY <1>1, <2>1 DEF Spent
  <2>. QED  BY <1>2, <2>2, <2>3
<1>3. CASE c \notin R
  <2>1. told'[c] = told[c]
    BY <1>1, <1>3
  <2>2. Spent(c)' <=> Spent(c)
    BY <2>1 DEF Spent
  <2>. QED  BY <2>1, <2>2 DEF Inv, SpentInv, RefusedIsNotExecuted
<1>. QED  BY <1>2, <1>3

\* What enqueueWrite gives to enqueue is as enqueue expects it.
LEMMA EnqueueWriteIs ==
  ASSUME Inv, NEW item \in Items, EnqueueWrite(item)
  PROVE  /\ ready \in Seq(Handlers) /\ ready # <<>> /\ item = Head(ready)
         /\ 1 \in 1..Len(ready) /\ item = ready[1] /\ ready' = Tail(ready)
         /\ Settled(queue, item, IsWriting, Enqueue(queue, item, IsWriting))
         /\ KeepsBrakes(queue, item, Enqueue(queue, item, IsWriting))
<1>1. /\ ready \in Seq(Handlers) /\ ready # <<>> /\ item = Head(ready)
      /\ ready' = Tail(ready)
  BY DEF Inv, TypeOK, EnqueueWrite, Runs
<1>2. 1 \in 1..Len(ready) /\ item = ready[1]
  BY <1>1, TailIs
<1>3. queue \in Queues /\ IsWriting \in BOOLEAN
      /\ Ordered(queue, IsWriting) /\ (IsWriting => queue # <<>>)
  BY DEF Inv, TypeOK, QueueInv, IdleIsEmpty, Queues, IsWriting
<1>4. Newest(item, queue)
  BY <1>2 DEF Inv, Arrival, Newest, Earlier
<1>. QED  BY <1>1, <1>2, <1>3, <1>4, EnqueueSettles

LEMMA EnqueueWriteStep ==
  ASSUME Inv, NEW item \in Items, EnqueueWrite(item)
  PROVE  Inv'
<1> DEFINE e == Enqueue(queue, item, IsWriting)
<1>1. /\ ready \in Seq(Handlers) /\ ready # <<>> /\ item = Head(ready)
      /\ 1 \in 1..Len(ready) /\ item = ready[1] /\ ready' = Tail(ready)
      /\ Settled(queue, item, IsWriting, e)
  BY EnqueueWriteIs
<1>2. ready' \in Seq(Handlers) /\ Arrival(queue, ready, kinds, ros.cmd)
      /\ Arrival(queue, ready', kinds, ros.cmd)
      /\ Ids(ready') \subseteq Ids(ready) /\ item.id \in Ids(ready)
  BY <1>1, TailIs, ArrivalTail DEF Inv
<1>3. UNCHANGED <<ros, kinds, active, machine>>
  BY DEF EnqueueWrite
<1>4. item.id # 0 => item.id \notin Ids(ready')
  <2>1. \A j \in 1..Len(ready') : j + 1 \in 1..Len(ready) /\ ready'[j] = ready[j + 1] /\ 1 < j + 1
    BY <1>1, TailIs
  <2>2. \A j \in 1..Len(ready') : Earlier(item, ready'[j])
    BY <1>1, <1>2, <2>1 DEF Arrival
  <2>3. item.id \in Nat
    BY MaxCommandAssumption DEF Items
  <2>. QED  BY <2>2, <2>3 DEF Ids, Earlier
<1>5. CASE io.port # "open"
  <2>1. io' = io /\ queue' = queue /\ Tell("rejected", {item.id} \ {0})
    BY <1>5 DEF EnqueueWrite, WhenOffline, Commands
  <2>2. told' \in [1..MaxCommand -> SUBSET States]
    BY <2>1, TellIs DEF Inv, States
  <2>3. TypeOK'
    BY <1>2, <1>3, <2>1, <2>2 DEF Inv, TypeOK
  <2>4. QueueInv' /\ RosInv'
    BY <1>3, <2>1 DEF Inv, QueueInv, IdleIsEmpty, IsWriting, RosInv
  <2>5. Ids(queue) = {}
    BY <1>5 DEF Inv, QueueInv, IdleIsEmpty, Ids, IsWriting
  <2>6. SpentInv' /\ RefusedIsNotExecuted'
    BY <1>2, <1>3, <1>4, <2>1, <2>5, RejectStep
  <2>. QED  BY <1>2, <1>3, <2>1, <2>3, <2>4, <2>6 DEF Inv
<1>6. CASE io.port = "open"
  <2>. DEFINE refused == e.dropped \cup IF e.accepted THEN {} ELSE {item}
  <2>1. /\ queue' = e.queue
        /\ io' = [io EXCEPT !.burst = IF IsWriting THEN @ ELSE Writing(e.queue)]
        /\ Tell("rejected", Commands(refused))
    BY <1>6 DEF EnqueueWrite
  <2>. HIDE DEF e
  <2>2. /\ queue' \in Seq(Items) /\ Len(queue') <= MaxSize /\ queue' # <<>>
        /\ queue'[1] \in Items /\ Head(queue') = queue'[1]
        /\ Ordered(queue', IsWriting) /\ (IsWriting => queue'[1] = queue[1])
    <3>1. queue' \in Queues /\ queue' # <<>>
      BY <1>1, <2>1 DEF Settled
    <3>2. queue' \in Seq(Items) /\ Len(queue') <= MaxSize
      BY <3>1 DEF Queues
    <3>3. queue'[1] \in Items /\ Head(queue') = queue'[1]
      BY <3>1, <3>2
    <3>. QED  BY <1>1, <2>1, <3>1, <3>2, <3>3 DEF Settled
  <2>3. told' \in [1..MaxCommand -> SUBSET States]
    BY <2>1, TellIs DEF Inv, States
  <2>4. io'.port = "open" /\ io'.burst = queue'[1] /\ io'.burst # Nothing
    <3>1. Nothing \notin Items
      BY KindsAssumption DEF Nothing, Handler, Items
    <3>2. io' = [io EXCEPT !.burst = queue'[1]]
      BY <2>1, <2>2 DEF Writing, Inv, QueueInv, TypeOK
    <3>. QED  BY <1>6, <2>2, <3>1, <3>2 DEF Inv, TypeOK
  <2>5. TypeOK'
    <3>1. io' \in [port : {"closed", "announcing", "open"}, connected : BOOLEAN,
                  burst : Items \cup {Nothing}, timer : {"none", "running", "expired"}]
      BY <2>1, <2>2 DEF Writing, Inv, TypeOK
    <3>. QED  BY <1>2, <1>3, <2>2, <2>3, <3>1 DEF Inv, TypeOK
  <2>6. QueueInv'
    <3>1. Ordered(queue', TRUE)
      BY <2>2 DEF Ordered, FirstMutable, IsWriting
    <3>. QED  BY <2>2, <2>4, <3>1 DEF QueueInv, IdleIsEmpty, IsWriting
  <2>7. RosInv'
    BY <1>3 DEF Inv, RosInv
  <2>8. Arrival(queue', ready', kinds, ros.cmd)
        /\ Ids(queue') \subseteq Ids(queue) \cup {item.id}
    <3>1. \A j \in 1..Len(queue') :
            queue'[j] = item \/ \E k \in 1..Len(queue) : queue'[j] = queue[k]
      BY <1>1, <2>1 DEF Settled
    <3>. QED  BY <1>1, <1>2, <3>1, ArrivalEnqueued
  <2>. DEFINE R == {x.id : x \in refused}
  <2>9. /\ R \in SUBSET (Ids(queue) \cup Ids(ready))
        /\ (R \ {0}) \cap (Ids(queue') \cup Ids(ready')) = {}
    <3> SUFFICES ASSUME NEW x \in refused
                 PROVE  /\ x.id \in Ids(queue) \cup Ids(ready)
                        /\ x.id # 0 => x.id \notin Ids(queue') \cup Ids(ready')
      OBVIOUS
    <3>1. CASE x \in e.dropped
      <4>1. PICK k \in 1..Len(queue) : x = queue[k]
        BY <1>1, <3>1 DEF Settled
      <4>2. \A j \in 1..Len(queue') : Apart(x, queue'[j])
        BY <1>1, <2>1, <3>1 DEF Settled
      <4>3. \A j \in 1..Len(ready') : Earlier(x, ready'[j])
        BY <1>2, <4>1 DEF Arrival
      <4>4. x.id \in Nat
        BY <4>1, NumbersAre DEF Inv
      <4>. QED  BY <4>1, <4>2, <4>3, <4>4 DEF Ids, Apart, Earlier
    <3>2. CASE x \notin e.dropped
      <4>1. x = item /\ ~e.accepted
        BY <3>2
      <4>2. \A j \in 1..Len(queue') : \E k \in 1..Len(queue) : queue'[j] = queue[k]
        BY <1>1, <2>1, <4>1 DEF Settled
      <4>3. \A k \in 1..Len(queue) : Earlier(queue[k], item)
        BY <1>1, <1>2 DEF Arrival
      <4>4. item.id \in Nat /\ \A k \in 1..Len(queue) : queue[k].id \in Nat
        BY <4>1, NumbersAre, MaxCommandAssumption DEF Inv, Items
      <4>5. item.id # 0 => item.id \notin Ids(queue')
        BY <4>2, <4>3, <4>4 DEF Ids, Earlier
      <4>. QED  BY <1>2, <1>4, <4>1, <4>5
    <3>. QED  BY <3>1, <3>2
  <2>10. Tell("rejected", R \ {0})
    BY <2>1 DEF Commands
  <2>. HIDE DEF R
  <2>11. SpentInv' /\ RefusedIsNotExecuted'
    BY <1>2, <1>3, <2>8, <2>9, <2>10, RejectStep
  <2>. QED  BY <1>3, <2>5, <2>6, <2>7, <2>8, <2>11 DEF Inv
<1>. QED  BY <1>5, <1>6

LEMMA NextInv == Inv /\ [Next]_vars => Inv'
<1> SUFFICES ASSUME Inv, [Next]_vars PROVE Inv'
  OBVIOUS
<1>1. CASE \E kind \in Kinds : Take(kind)
  BY <1>1, TakeStep
<1>2. CASE RosThread
  BY <1>2, ActivateStep, PublishQueuedStep, SendStep DEF RosThread
<1>3. CASE IoThread
  BY <1>3, OpenStep, LossStep, AnnounceStep, EnqueueWriteStep, WriteCompletesStep,
     FrameStep DEF IoThread
<1>4. CASE TimerExpires \/ TransportFails \/ OnFrame \/ Finish
  BY <1>4, TimerExpiresStep, TransportFailsStep, FrameStep, FinishStep
<1>5. CASE UNCHANGED vars
  BY <1>5 DEF vars, Inv, TypeOK, QueueInv, IdleIsEmpty, IsWriting, RosInv, SpentInv, Spent,
              RefusedIsNotExecuted
<1>. QED  BY <1>1, <1>2, <1>3, <1>4, <1>5 DEF Next

\* The invariant holds in every state of every behaviour.
THEOREM Invariance == Spec => []Inv
BY InitInv, NextInv, PTL DEF Spec

\* Everything has its type, and the write queue keeps to its capacity, in
\* both threads and across reconnections (LowerMachineSerial).
THEOREM TypeCorrect == Spec => []TypeOK
BY Invariance, PTL DEF Inv

\* When no write is in progress the queue is empty, after every failure and
\* every reconnection (handleTransportError, beginWrite).
THEOREM NothingLeftBehind == Spec => []IdleIsEmpty
<1>1. Inv => IdleIsEmpty
  BY DEF Inv, QueueInv
<1>. QED  BY <1>1, Invariance, PTL

\* What waits is ordered by urgency, and by arrival among equals, for every
\* capacity and every sequence of commands (enqueue).
THEOREM WaitingOrdered == Spec => []WaitingIsInOrder
<1>1. Inv => WaitingIsInOrder
  <2> SUFFICES ASSUME Inv,
                      NEW i \in Waiting(queue, IsWriting),
                      NEW j \in Waiting(queue, IsWriting), i < j
               PROVE  Precedes(queue[i], queue[j])
    BY DEF WaitingIsInOrder, Precedes
  <2>1. i \in 1..Len(queue) /\ j \in 1..Len(queue)
    BY WaitingIs DEF Inv, TypeOK
  <2>2. FirstMutable(queue, IsWriting) <= i
    BY <2>1 DEF Waiting, FirstMutable, Inv, TypeOK
  <2>. QED  BY <2>1, <2>2 DEF Inv, QueueInv, Ordered
<1>. QED  BY <1>1, Invariance, PTL

\* A command whose refusal was published is neither written nor executed,
\* whatever is replaced or given up while bursts are written (enqueueWrite).
THEOREM RefusedNotExecuted == Spec => []RefusedIsNotExecuted
<1>1. Inv => RefusedIsNotExecuted
  BY DEF Inv
<1>. QED  BY <1>1, Invariance, PTL

-----------------------------------------------------------------------------
(* Brakes.                                                                 *)

\* What BrakeIsKept says of a step and a brake.
KeepsBrake(b) ==
  InQueue(ItemOf(b)) \/ (Len(ready') < Len(ready) /\ Head(ready) = ItemOf(b))
  => \/ InQueue(ItemOf(b))'
     \/ "sent" \in told'[b]
     \/ \E c \in Taken : c > b /\ kinds[c] = "brake" /\ InQueue(ItemOf(c))'

\* A step of another handler leaves the queue and the commands taken alone.
LEMMA OtherStep ==
  ASSUME Inv, NEW b \in Taken, queue' = queue, kinds'[b] = kinds[b],
         Len(ready') < Len(ready) => Head(ready).id = 0
  PROVE  KeepsBrake(b)
<1>1. b \in 1..Len(kinds)
  BY DEF Taken, Inv, TypeOK
<1>2. ItemOf(b).id = b /\ ItemOf(b)' = ItemOf(b)
  BY DEF ItemOf
<1>. QED  BY <1>1, <1>2 DEF KeepsBrake, InQueue

LEMMA EnqueueWriteKeeps ==
  ASSUME Inv, MaxSize >= 3, NEW item \in Items, EnqueueWrite(item), io.port = "open",
         NEW b \in Taken, kinds[b] = "brake"
  PROVE  KeepsBrake(b)
<1> DEFINE e == Enqueue(queue, item, IsWriting)
<1>1. /\ item = Head(ready) /\ item = ready[1] /\ 1 \in 1..Len(ready)
      /\ Settled(queue, item, IsWriting, e) /\ KeepsBrakes(queue, item, e)
  BY EnqueueWriteIs
<1>2. queue' = e.queue /\ kinds' = kinds
  BY DEF EnqueueWrite
<1>. HIDE DEF e
<1>3. kinds \in Seq(Kinds) /\ Taken = 1..Len(kinds) /\ b \in Nat /\ b # 0
  BY DEF Inv, TypeOK, Taken
<1>4. queue' \in Seq(Items) /\ DOMAIN queue' = 1..Len(queue') /\ DOMAIN queue = 1..Len(queue)
  BY <1>1, <1>2 DEF Settled, Queues, Inv, TypeOK
<1>5. ItemOf(b)' = ItemOf(b) /\ ItemOf(b).id = b /\ ItemOf(b).kind = "brake"
  BY <1>2 DEF ItemOf
<1>6. ASSUME item.kind = "brake"
      PROVE  /\ item.id \in Taken /\ kinds[item.id] = "brake"
             /\ InQueue(ItemOf(item.id))' /\ InQueue(item)'
  <2>1. Known(item, kinds, ros.cmd)
    BY <1>1 DEF Inv, Arrival
  <2>2. item.id # 0 /\ item.id <= Len(kinds) /\ item.id \in Nat
    BY <1>6, <2>1, MaxCommandAssumption DEF Known, Items
  <2>3. item.id \in Taken /\ kinds[item.id] = "brake"
    BY <1>3, <1>6, <2>1, <2>2 DEF Known
  <2>4. [id |-> item.id, kind |-> kinds[item.id]] = item
    BY <1>6, <2>3 DEF Items
  <2>5. \E j \in 1..Len(queue') : queue'[j] = item
    BY <1>1, <1>2, <1>6 DEF Settled, KeepsBrakes
  <2>6. InQueue(item)'
    BY <1>4, <2>5 DEF InQueue
  <2>7. InQueue(ItemOf(item.id))'
    BY <1>2, <1>4, <2>4, <2>5 DEF InQueue, ItemOf
  <2>. QED  BY <2>3, <2>6, <2>7
<1>7. CASE InQueue(ItemOf(b))
  <2>1. PICK k \in 1..Len(queue) : queue[k] = ItemOf(b)
    BY <1>4, <1>7 DEF InQueue
  <2>2. CASE \E j \in 1..Len(queue') : queue'[j] = queue[k]
    BY <1>4, <1>5, <2>1, <2>2 DEF KeepsBrake, InQueue
  <2>3. CASE item.kind = "brake"
    <3>1. Earlier(ItemOf(b), item)
      BY <1>1, <2>1 DEF Inv, Arrival
    <3>2. item.id \in Taken /\ item.id # 0
      BY <1>3, <1>6, <2>3
    <3>3. item.id > b
      BY <1>3, <1>5, <3>1, <3>2 DEF Earlier
    <3>. QED  BY <1>6, <2>3, <3>3 DEF KeepsBrake
  <2>. QED  BY <1>1, <1>2, <1>5, <2>1, <2>2, <2>3 DEF KeepsBrakes
<1>8. CASE Head(ready) = ItemOf(b)
  <2>1. InQueue(ItemOf(b))'
    BY <1>1, <1>5, <1>6, <1>8
  <2>. QED  BY <2>1 DEF KeepsBrake
<1>. QED  BY <1>7, <1>8 DEF KeepsBrake

LEMMA WriteCompletesKeeps ==
  ASSUME Inv, WriteCompletes, NEW b \in Taken
  PROVE  KeepsBrake(b)
<1>1. kinds' = kinds /\ ready' = ready /\ queue' = Tail(queue)
  BY DEF WriteCompletes
<1>2. b \in 1..MaxCommand /\ ItemOf(b).id = b
  BY MaxCommandAssumption DEF Inv, TypeOK, Taken, ItemOf
<1>3. queue \in Seq(Items) /\ queue # <<>> /\ Head(queue) = queue[1]
  BY DEF Inv, TypeOK, QueueInv, IdleIsEmpty, WriteCompletes
<1>4. SUFFICES ASSUME InQueue(ItemOf(b))
               PROVE  InQueue(ItemOf(b))' \/ "sent" \in told'[b]
  BY <1>1 DEF KeepsBrake
<1>5. PICK k \in 1..Len(queue) : queue[k] = ItemOf(b)
  BY <1>3, <1>4 DEF InQueue
<1>6. CASE k = 1
  <2>1. b \in Commands({Head(queue)})
    BY <1>2, <1>3, <1>5, <1>6 DEF Commands
  <2>2. Tell("sent", Commands({Head(queue)})) /\ TypeOK /\ "sent" \in States
    BY DEF WriteCompletes, Inv, States
  <2>3. \A c \in 1..MaxCommand :
          told'[c] = IF c \in Commands({Head(queue)}) THEN told[c] \cup {"sent"} ELSE told[c]
    BY <2>2, TellIs
  <2>. QED  BY <1>2, <2>1, <2>3
<1>7. CASE k # 1
  <2>1. k - 1 \in 1..Len(queue') /\ queue'[k - 1] = ItemOf(b) /\ DOMAIN queue' = 1..Len(queue')
    BY <1>1, <1>3, <1>5, <1>7
  <2>. QED  BY <1>1, <2>1 DEF InQueue, ItemOf
<1>. QED  BY <1>6, <1>7

\* A brake that reaches the write queue while the port is open stays until it
\* is written or replaced by a newer one, if the queue holds three items: the
\* front, the driver's stop and the brake (enqueue).
THEOREM BrakeKept == ASSUME MaxSize >= 3 PROVE Spec => BrakeIsKept
<1> DEFINE Step ==
      io.port = "open" /\ io'.port = "open" =>
        \A b \in {c \in Taken : kinds[c] = "brake"} : KeepsBrake(b)
<1>1. Inv /\ [Next]_vars => [Step]_vars
  <2> SUFFICES ASSUME Inv, Next, io.port = "open", io'.port = "open",
                      NEW b \in Taken, kinds[b] = "brake"
               PROVE  KeepsBrake(b)
    OBVIOUS
  <2>1. CASE \E kind \in Kinds : Take(kind)
    <3>1. kinds'[b] = kinds[b] /\ queue' = queue /\ ready' = ready
      BY <2>1 DEF Take, Taken, Inv, TypeOK
    <3>2. ~(Len(ready') < Len(ready))
      BY <3>1 DEF Inv, TypeOK
    <3>. QED  BY <3>1, <3>2, OtherStep
  <2>2. CASE Activate \/ PublishQueued \/ OnFrame \/ Finish
    <3>1. kinds' = kinds /\ queue' = queue /\ ready' = ready
      BY <2>2 DEF Activate, PublishQueued, OnFrame, FrameParsed, Finish
    <3>2. ~(Len(ready') < Len(ready))
      BY <3>1 DEF Inv, TypeOK
    <3>. QED  BY <3>1, <3>2, OtherStep
  <2>3. CASE Send \/ Announce \/ TimerExpires
    <3>1. kinds' = kinds /\ queue' = queue /\ \E x : ready' = Append(ready, x)
      BY <2>3 DEF Send, Announce, TimerExpires
    <3>2. ~(Len(ready') < Len(ready))
      <4>1. ready \in Seq(Handlers) /\ Len(ready) \in Nat
        BY DEF Inv, TypeOK
      <4>2. Len(ready') = Len(ready) + 1
        BY <3>1, <4>1
      <4>. QED  BY <4>1, <4>2
    <3>. QED  BY <3>1, <3>2, OtherStep
  <2>4. CASE Open \/ OnLateFrame
    <3>1. kinds' = kinds /\ queue' = queue /\ Head(ready).id = 0
      BY <2>4 DEF Open, OnLateFrame, FrameParsed, Runs, Handler
    <3>. QED  BY <3>1, OtherStep
  <2>5. CASE OpenFails \/ Aborted \/ TransportFails
    <3>1. io'.port = "closed"
      BY <2>5 DEF OpenFails, Aborted, TransportFails, Lose, Lost
    <3>. QED  BY <3>1
  <2>6. CASE \E item \in Items : EnqueueWrite(item)
    BY <2>6, EnqueueWriteKeeps
  <2>7. CASE WriteCompletes
    BY <2>7, WriteCompletesKeeps
  <2>. QED  BY <2>1, <2>2, <2>3, <2>4, <2>5, <2>6, <2>7 DEF Next, RosThread, IoThread
<1>2. [Step]_vars =>
        [io.port = "open" /\ io'.port = "open" =>
           \A b \in {c \in Taken : kinds[c] = "brake"} :
             InQueue(ItemOf(b)) \/ (Len(ready') < Len(ready) /\ Head(ready) = ItemOf(b))
             => \/ InQueue(ItemOf(b))'
                \/ "sent" \in told'[b]
                \/ \E c \in Taken : c > b /\ kinds[c] = "brake" /\ InQueue(ItemOf(c))']_vars
  BY DEF KeepsBrake
<1>. QED  BY <1>1, <1>2, Invariance, PTL DEF Spec, BrakeIsKept
=============================================================================
