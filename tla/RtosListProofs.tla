--------------------------- MODULE RtosListProofs ---------------------------
(***************************************************************************)
(* Proofs about RtosList: every list stays one ring, counted and, where    *)
(* vListInsert alone fills it, sorted, and the walk by pxIndex is fair,    *)
(* for any items, lists and values.  No induction is needed: that a ring   *)
(* is connected is a statement about the sets closed under its links.      *)
(* Then, with the sequence that each ring threads kept along the steps,    *)
(* that the lists implement AbstractRing.                                  *)
(***************************************************************************)
EXTENDS RtosList, FiniteSetTheorems, FunctionTheorems, SequenceTheorems,
        WellFoundedInduction, TLAPS

-----------------------------------------------------------------------------
(* Rings *)

LEMMA RingNodes ==
    ASSUME NEW l \in Lists, NEW m \in Lists
    PROVE  /\ l \in Ring(l) /\ Ring(l) \subseteq Node
           /\ On(l) \subseteq Items /\ l \notin On(m) /\ l \notin Items
           /\ l # m => Ring(l) \cap Ring(m) = {}
<1>1. l \notin Items /\ m \notin Items
  BY NodesAssumption
<1>2. On(l) \subseteq Items /\ On(m) \subseteq Items
  BY DEF On
<1>3. l # m => On(l) \cap On(m) = {}
  BY DEF On
<1> QED BY <1>1, <1>2, <1>3 DEF Ring, Node

LEMMA Connected ==
    ASSUME NEW l \in Lists, OneRing(l), NEW S \in SUBSET Ring(l), l \in S,
           (\A x \in S : next[x] \in S) \/ (\A x \in S : prev[x] \in S)
    PROVE  S = Ring(l)
BY DEF OneRing, Closed

\* A ring is one cycle: what is closed under next is all of it or nothing.
LEMMA Cycle ==
    ASSUME NEW l \in Lists, OneRing(l), NEW S \in SUBSET Ring(l), S # {}, Closed(S, next)
    PROVE  S = Ring(l)
<1>1. l \in Ring(l)
  BY RingNodes
<1>2. CASE l \in S
  BY <1>2 DEF OneRing
<1>3. CASE l \notin S
  <2> DEFINE C == Ring(l) \ S
  <2>1. Closed(C, prev)
    BY DEF OneRing, Closed
  <2>2. C = Ring(l)
    BY <1>1, <1>3, <2>1 DEF OneRing
  <2> QED BY <2>2
<1> QED BY <1>2, <1>3

LEMMA SameRing ==
    ASSUME NEW m \in Lists, OneRing(m), Ring(m)' = Ring(m),
           \A x \in Ring(m) : next'[x] = next[x] /\ prev'[x] = prev[x],
           index'[m] \in Ring(m)
    PROVE  OneRing(m)'
BY DEF OneRing, Closed

\* Item i goes in between a and the next of a.
LEMMA LinkRing ==
    ASSUME next \in [Node -> Node], prev \in [Node -> Node],
           NEW l \in Lists, OneRing(l), NEW i \in Items, i \notin Ring(l),
           NEW a \in Ring(l), Link(i, a, next[a]),
           Ring(l)' = Ring(l) \cup {i}, index'[l] = index[l]
    PROVE  OneRing(l)'
<1> DEFINE R == Ring(l)
           b == next[a]
<1>1. /\ l \in R /\ R \subseteq Node /\ i \in Node /\ i \notin R /\ a \in R /\ b \in R
      /\ prev[b] = a
  BY RingNodes DEF OneRing, Closed, Node
<1>2. \A x \in R : /\ next[x] \in R /\ prev[x] \in R
                   /\ prev[next[x]] = x /\ next[prev[x]] = x
  BY DEF OneRing, Closed
<1>3. /\ next'[i] = b /\ prev'[b] = i /\ next'[a] = i /\ prev'[i] = a
      /\ \A x \in R : x # a => next'[x] = next[x]
      /\ \A x \in R : x # b => prev'[x] = prev[x]
  BY <1>1 DEF Link
<1> HIDE DEF R, b
<1>4. \A x \in R \cup {i} : next'[x] \in R \cup {i} /\ prev'[x] \in R \cup {i}
  BY <1>1, <1>2, <1>3
<1>5. \A x \in R \cup {i} : prev'[next'[x]] = x /\ next'[prev'[x]] = x
  BY <1>1, <1>2, <1>3 DEF b
<1>6. ASSUME NEW S \in SUBSET (R \cup {i}), l \in S, \A x \in S : next'[x] \in S
      PROVE  S = R \cup {i}
  <2> DEFINE T == S \ {i}
  <2>1. \A x \in T : next[x] \in T
    BY <1>1, <1>2, <1>3, <1>6 DEF b
  <2>2. T \in SUBSET Ring(l) /\ l \in T
    BY <1>1, <1>6 DEF R
  <2> HIDE DEF T
  <2>3. T = R
    BY <2>1, <2>2, Connected DEF R
  <2> QED BY <1>1, <1>3, <1>6, <2>3 DEF T
<1>7. ASSUME NEW S \in SUBSET (R \cup {i}), l \in S, \A x \in S : prev'[x] \in S
      PROVE  S = R \cup {i}
  <2> DEFINE T == S \ {i}
  <2>1. \A x \in T : prev[x] \in T
    BY <1>1, <1>2, <1>3, <1>7
  <2>2. T \in SUBSET Ring(l) /\ l \in T
    BY <1>1, <1>7 DEF R
  <2> HIDE DEF T
  <2>3. T = R
    BY <2>1, <2>2, Connected DEF R
  <2> QED BY <1>1, <1>3, <1>7, <2>3 DEF T
<1>8. Ring(l)' = R \cup {i} /\ index'[l] \in R
  BY DEF R, OneRing
<1> QED BY <1>4, <1>5, <1>6, <1>7, <1>8 DEF OneRing, Closed

\* An item is not alone on its ring.
LEMMA NotAlone ==
    ASSUME NEW l \in Lists, OneRing(l), NEW i \in Ring(l), i # l
    PROVE  next[i] # i /\ prev[i] # i
<1>1. next[i] # i
  <2> SUFFICES ASSUME next[i] = i PROVE FALSE
    OBVIOUS
  <2>1. {i} \in SUBSET Ring(l) /\ {i} # {} /\ Closed({i}, next)
    BY DEF Closed
  <2>2. {i} = Ring(l)
    BY <2>1, Cycle
  <2> QED BY <2>2, RingNodes
<1> QED BY <1>1 DEF OneRing, Closed

LEMMA UnlinkRing ==
    ASSUME next \in [Node -> Node], prev \in [Node -> Node],
           NEW l \in Lists, OneRing(l), NEW i \in Ring(l), i # l,
           next' = [next EXCEPT ![prev[i]] = next[i]],
           prev' = [prev EXCEPT ![next[i]] = prev[i]],
           Ring(l)' = Ring(l) \ {i}, index'[l] \in Ring(l) \ {i}
    PROVE  OneRing(l)'
<1> DEFINE R == Ring(l)
           a == prev[i]
           b == next[i]
<1>1. /\ l \in R /\ R \subseteq Node /\ a \in R /\ b \in R /\ i \in R
      /\ a # i /\ b # i /\ prev[b] = i /\ next[a] = i
  BY RingNodes, NotAlone DEF OneRing, Closed
<1>2. \A x \in R : /\ next[x] \in R /\ prev[x] \in R
                   /\ prev[next[x]] = x /\ next[prev[x]] = x
  BY DEF OneRing, Closed
<1>3. /\ next'[a] = b /\ prev'[b] = a
      /\ \A x \in R : x # a => next'[x] = next[x]
      /\ \A x \in R : x # b => prev'[x] = prev[x]
  BY <1>1
<1> HIDE DEF R, a, b
<1>4. \A x \in R \ {i} : next'[x] \in R \ {i} /\ prev'[x] \in R \ {i}
  BY <1>1, <1>2, <1>3 DEF a, b
<1>5. \A x \in R \ {i} : prev'[next'[x]] = x /\ next'[prev'[x]] = x
  BY <1>1, <1>2, <1>3
<1>6. ASSUME NEW S \in SUBSET (R \ {i}), l \in S, \A x \in S : next'[x] \in S
      PROVE  S = R \ {i}
  <2> DEFINE T == IF a \in S THEN S \cup {i} ELSE S
  <2>1. \A x \in T : next[x] \in T
    BY <1>1, <1>2, <1>3, <1>6 DEF b
  <2>2. T = R
    BY <1>1, <1>6, <2>1 DEF OneRing, Closed, R
  <2> QED BY <1>1, <1>6, <2>2
<1>7. ASSUME NEW S \in SUBSET (R \ {i}), l \in S, \A x \in S : prev'[x] \in S
      PROVE  S = R \ {i}
  <2> DEFINE T == IF b \in S THEN S \cup {i} ELSE S
  <2>1. \A x \in T : prev[x] \in T
    BY <1>1, <1>2, <1>3, <1>7 DEF a
  <2>2. T = R
    BY <1>1, <1>7, <2>1 DEF OneRing, Closed, R
  <2> QED BY <1>1, <1>7, <2>2
<1>8. Ring(l)' = R \ {i} /\ index'[l] \in R \ {i}
  BY DEF R
<1> QED BY <1>4, <1>5, <1>6, <1>7, <1>8 DEF OneRing, Closed

-----------------------------------------------------------------------------
(* vListInsert's loop *)

LEMMA Values0 ==
    ASSUME TypeOK
    PROVE  /\ MaxDelay \in Nat /\ \A x \in Node : ValueOf(x) \in 0 .. MaxDelay
           /\ \A l \in Lists : ValueOf(l) = MaxDelay
           /\ \A i \in Items : ValueOf(i) = value[i]
<1>1. MaxDelay \in Nat /\ Values \subseteq 0 .. MaxDelay /\ MaxDelay \in 0 .. MaxDelay
  BY ValuesAssumption
<1>2. \A l \in Lists : ValueOf(l) = MaxDelay
  BY DEF ValueOf
<1>3. \A i \in Items : ValueOf(i) = value[i] /\ value[i] \in Values
  BY NodesAssumption DEF ValueOf, TypeOK
<1> QED BY <1>1, <1>2, <1>3 DEF Node

\* It comes to an end, at the latest in front of the end marker, and where it
\* does the next value is larger and the last one is not.
LEMMA IteratorFound ==
    ASSUME TypeOK, NEW l \in Lists, OneRing(l), NEW v \in 0 .. MaxDelay, v # MaxDelay
    PROVE  /\ Iterator(l, v) \in Ring(l) /\ Iterator(l, v) \in Passed(l, v)
           /\ ValueOf(next[Iterator(l, v)]) > v
           /\ Iterator(l, v) # l => ValueOf(Iterator(l, v)) <= v
<1> DEFINE P == Passed(l, v)
           Kept(S) == l \in S /\ \A y \in S : ValueOf(next[y]) <= v => next[y] \in S
<1>0. P \subseteq Ring(l) /\ \A x \in Ring(l) : x \in P <=> \A S \in SUBSET Ring(l) : Kept(S) => x \in S
  BY DEF Passed
<1>1. /\ l \in Ring(l) /\ Ring(l) \subseteq Node
      /\ \A x \in Ring(l) : next[x] \in Ring(l) /\ prev[x] \in Ring(l) /\ next[prev[x]] = x
  BY RingNodes DEF OneRing, Closed
<1>2. MaxDelay \in Nat /\ ValueOf(l) = MaxDelay /\ \A x \in Ring(l) : ValueOf(x) \in 0 .. MaxDelay
  BY <1>1, Values0
<1>3. \E p \in P : ValueOf(next[p]) > v
  <2> SUFFICES ASSUME \A p \in P : ~(ValueOf(next[p]) > v) PROVE FALSE
    OBVIOUS
  <2>1. \A p \in P : ValueOf(next[p]) <= v
    BY <1>0, <1>1, <1>2
  <2>2. l \in P
    BY <1>0, <1>1
  <2>3. \A p \in P : next[p] \in P
    BY <1>0, <1>1, <2>1
  <2>4. P = Ring(l)
    BY <1>0, <2>2, <2>3 DEF OneRing, Closed
  <2>5. ValueOf(next[prev[l]]) <= v
    BY <1>1, <2>1, <2>4
  <2> QED BY <1>1, <1>2, <2>5
<1>4. \A x \in P : x # l => ValueOf(x) <= v
  <2> DEFINE S == {l} \cup {y \in Ring(l) : ValueOf(y) <= v}
  <2>1. S \in SUBSET Ring(l) /\ Kept(S)
    BY <1>1
  <2> QED BY <1>0, <2>1
<1>5. Iterator(l, v) \in P /\ ValueOf(next[Iterator(l, v)]) > v
  BY <1>3 DEF Iterator
<1> QED BY <1>0, <1>4, <1>5

-----------------------------------------------------------------------------
(* The walk *)

\* The items that the walk comes to before k, from where it stands.
Start(l) == next[index[l]]
Reaches(l, k, S) ==
    /\ Start(l) # k => Start(l) \in S
    /\ \A y \in S : next[y] # k => next[y] \in S
Ahead(l, k) == {j \in Ring(l) : \A S \in SUBSET Ring(l) : Reaches(l, k, S) => j \in S}

LEMMA AheadSame ==
    ASSUME NEW m \in Lists, OneRing(m), Ring(m)' = Ring(m), NEW k \in Ring(m),
           \A x \in Ring(m) : next'[x] = next[x], index'[m] = index[m]
    PROVE  Ahead(m, k)' = Ahead(m, k)
BY DEF Ahead, Reaches, Start, OneRing

LEMMA AheadLinked ==
    ASSUME next \in [Node -> Node],
           NEW l \in Lists, OneRing(l), NEW i \in Items, i \notin Ring(l),
           NEW a \in Ring(l), Link(i, a, next[a]),
           Ring(l)' = Ring(l) \cup {i}, index'[l] = index[l],
           NEW k \in Ring(l)
    PROVE  Ahead(l, k) \subseteq Ahead(l, k)'
<1> DEFINE R == Ring(l)
           b == next[a]
<1>1. /\ index[l] \in R /\ \A x \in R : next[x] \in R
      /\ R \subseteq Node /\ i \in Node /\ i \notin R /\ a \in R /\ k # i
  BY RingNodes DEF OneRing, Closed, Node
<1>2. next'[i] = b /\ next'[a] = i /\ \A x \in R : x # a => next'[x] = next[x]
  BY <1>1 DEF Link
<1>3. SUFFICES ASSUME NEW j \in Ahead(l, k), NEW S \in SUBSET (R \cup {i}),
                      next'[index[l]] # k => next'[index[l]] \in S,
                      \A y \in S : next'[y] # k => next'[y] \in S
               PROVE  j \in S
  BY DEF Ahead, Reaches, Start
<1> DEFINE T == S \ {i}
<1> HIDE DEF R, b
<1>4. \A y \in T : next[y] # k => next[y] \in T
  BY <1>1, <1>2, <1>3 DEF b
<1>5. next[index[l]] # k => next[index[l]] \in T
  BY <1>1, <1>2, <1>3 DEF b
<1>6. T \in SUBSET R
  OBVIOUS
<1> QED BY <1>4, <1>5, <1>6 DEF Ahead, Reaches, Start, R

LEMMA AheadUnlinked ==
    ASSUME next \in [Node -> Node],
           NEW l \in Lists, OneRing(l), NEW i \in Ring(l), i # l,
           next' = [next EXCEPT ![prev[i]] = next[i]],
           Ring(l)' = Ring(l) \ {i},
           index'[l] = IndexWithout(l, i),
           NEW k \in Ring(l) \ {i}
    PROVE  Ahead(l, k) \ {i} \subseteq Ahead(l, k)'
<1> DEFINE R == Ring(l)
           a == prev[i]
           b == next[i]
<1>1. /\ index[l] \in R /\ \A x \in R : next[x] \in R
      /\ R \subseteq Node /\ a \in R /\ b \in R /\ a # i /\ b # i /\ next[a] = i
      /\ \A x \in R : next[x] = i => x = a
  BY RingNodes, NotAlone DEF OneRing, Closed
<1>2. next'[a] = b /\ \A x \in R : x # a => next'[x] = next[x]
  BY <1>1
<1>3. index'[l] = IF index[l] = i THEN a ELSE index[l]
  BY DEF IndexWithout
<1>4. SUFFICES ASSUME NEW j \in Ahead(l, k) \ {i}, NEW S \in SUBSET (R \ {i}),
                      next'[index'[l]] # k => next'[index'[l]] \in S,
                      \A y \in S : next'[y] # k => next'[y] \in S
               PROVE  j \in S
  BY DEF Ahead, Reaches, Start
<1> DEFINE T == IF a \in S \/ index[l] \in {a, i} THEN S \cup {i} ELSE S
<1> HIDE DEF R, a, b
<1>5. \A y \in T : next[y] # k => next[y] \in T
  BY <1>1, <1>2, <1>3, <1>4 DEF b
<1>6. next[index[l]] # k => next[index[l]] \in T
  BY <1>1, <1>2, <1>3, <1>4 DEF b
<1>7. T \in SUBSET R
  BY DEF R
<1>8. j \in T
  BY <1>5, <1>6, <1>7 DEF Ahead, Reaches, Start, R
<1> QED BY <1>4, <1>8

\* The index comes to r; everything else is then ahead of r again.
LEMMA AheadReturned ==
    ASSUME NEW l \in Lists, OneRing(l), On(l) # {}, NEW r, r = Returned(l),
           UNCHANGED next, Ring(l)' = Ring(l), index'[l] = r
    PROVE  /\ r \in On(l)
           /\ Ring(l) \ {r} \subseteq Ahead(l, r)'
           /\ \A k \in Ring(l) \ {r} : Ahead(l, k) \ {r, l} \subseteq Ahead(l, k)'
<1> DEFINE R == Ring(l)
<1>1. index[l] \in R /\ l \in R /\ \A x \in R : next[x] \in R
  BY RingNodes DEF OneRing, Closed
<1>2. r \in On(l)
  <2>1. next[l] # l
    <3> SUFFICES ASSUME next[l] = l PROVE FALSE
      OBVIOUS
    <3>1. {l} \in SUBSET Ring(l) /\ \A x \in {l} : next[x] \in {l}
      BY <1>1
    <3>2. {l} = Ring(l)
      BY <3>1, Connected
    <3> QED BY <3>2, RingNodes DEF Ring
  <2> QED BY <1>1, <2>1 DEF Returned, Ring
<1>3. r \in R /\ r # l
  BY <1>2, RingNodes DEF Ring
<1>4. \/ next[index[l]] = r
      \/ next[index[l]] = l /\ next[l] = r
  BY DEF Returned
<1>5. ASSUME NEW S \in SUBSET R, next[r] # r => next[r] \in S,
             \A y \in S : next[y] # r => next[y] \in S
      PROVE  R \ {r} \subseteq S
  <2> DEFINE T == S \cup {r}
  <2>1. Closed(T, next)
    BY <1>5 DEF Closed
  <2>2. T \in SUBSET Ring(l) /\ T # {}
    BY <1>3
  <2>3. T = Ring(l)
    BY <2>1, <2>2, Cycle
  <2> QED BY <2>3
<1>6. ASSUME NEW k \in R \ {r}, NEW j \in Ahead(l, k) \ {r, l}, NEW S \in SUBSET R,
             next[r] # k => next[r] \in S,
             \A y \in S : next[y] # k => next[y] \in S
      PROVE  j \in S
  <2> DEFINE T == IF next[index[l]] = l THEN S \cup {r, l} ELSE S \cup {r}
  <2> HIDE DEF R
  <2>1. \A y \in T : next[y] # k => next[y] \in T
    BY <1>3, <1>4, <1>6
  <2>2. next[index[l]] # k => next[index[l]] \in T
    BY <1>3, <1>4, <1>6
  <2>3. T \in SUBSET R
    BY <1>1, <1>3
  <2>4. j \in T
    BY <1>6, <2>1, <2>2, <2>3 DEF Ahead, Reaches, Start, R
  <2> QED BY <1>6, <2>4
<1>7. Ring(l) \ {r} \subseteq Ahead(l, r)'
  BY <1>5 DEF Ahead, Reaches, Start
<1>8. \A k \in Ring(l) \ {r} : Ahead(l, k) \ {r, l} \subseteq Ahead(l, k)'
  BY <1>6 DEF Ahead, Reaches, Start
<1> QED BY <1>2, <1>7, <1>8

\* What is put in front of the index comes last.
LEMMA AheadOfLast ==
    ASSUME next \in [Node -> Node], prev \in [Node -> Node],
           NEW l \in Lists, OneRing(l), NEW i \in Items, i \notin Ring(l),
           Link(i, prev[index[l]], index[l]),
           Ring(l)' = Ring(l) \cup {i}, index'[l] = index[l]
    PROVE  Ring(l) \ {index[l]} \subseteq Ahead(l, i)'
<1> DEFINE R == Ring(l)
           b == index[l]
           a == prev[b]
<1>1. /\ b \in R /\ a \in R /\ next[a] = b /\ \A x \in R : next[x] \in R
      /\ R \subseteq Node /\ i \in Node /\ i \notin R
  BY RingNodes DEF OneRing, Closed, Node
<1>2. next'[a] = i /\ \A x \in R : x # a => next'[x] = next[x]
  BY <1>1 DEF Link
<1>3. SUFFICES ASSUME NEW S \in SUBSET (R \cup {i}),
                      next'[b] # i => next'[b] \in S,
                      \A y \in S : next'[y] # i => next'[y] \in S
               PROVE  R \ {b} \subseteq S
  BY DEF Ahead, Reaches, Start
<1> DEFINE T == (S \ {i}) \cup {b}
<1> HIDE DEF R, a, b
<1>4. \A y \in T : next[y] \in T
  BY <1>1, <1>2, <1>3
<1>5. T \in SUBSET Ring(l) /\ T # {} /\ Closed(T, next)
  BY <1>1, <1>4 DEF R, Closed
<1>6. T = R
  BY <1>5, Cycle DEF R
<1> QED BY <1>6

-----------------------------------------------------------------------------
(* The invariant and the actions *)

SortedPart ==
    \A l \in SortedLists : \A x \in On(l) : ValueOf(x) <= ValueOf(next[x])

\* What an item waits for is on the walk's way to it.
WalkPart ==
    \A i \in Items :
        /\ container[i] = NULL => due[i] = {}
        /\ \A l \in Lists : container[i] = l => due[i] \subseteq Ahead(l, i)

IInv == TypeOK /\ Rings /\ Counted /\ SortedPart /\ WalkPart

LEMMA OnFinite ==
    ASSUME NEW l \in Lists
    PROVE  IsFiniteSet(On(l)) /\ Cardinality(On(l)) \in Nat
BY NodesAssumption, FS_Subset, FS_CardinalityType DEF On

\* What vListInsert and vListInsertEnd have in common.
LEMMA PutIn ==
    ASSUME TypeOK, Rings, Counted, WalkPart,
           NEW l \in Lists, NEW i \in Items, container[i] = NULL,
           NEW a \in Ring(l), Link(i, a, next[a]), Contain(i, l),
           UNCHANGED <<value, index>>
    PROVE  /\ next' \in [Node -> Node] /\ prev' \in [Node -> Node]
           /\ container' \in [Items -> Lists \cup {NULL}]
           /\ num' \in [Lists -> Nat]
           /\ Rings' /\ Counted'
           /\ On(l)' = On(l) \cup {i} /\ i \notin On(l)
           /\ \A m \in Lists : m # l => On(m)' = On(m)
           /\ next'[a] = i /\ next'[i] = next[a]
           /\ \A x \in Node \ {a, i} : next'[x] = next[x]
           /\ \A m \in Lists : \A k \in On(m) : Ahead(m, k) \subseteq Ahead(m, k)'
<1>1. /\ next \in [Node -> Node] /\ prev \in [Node -> Node]
      /\ container \in [Items -> Lists \cup {NULL}] /\ num \in [Lists -> Nat]
      /\ \A m \in Lists : OneRing(m)
  BY DEF TypeOK, Rings
<1>2. /\ container' = [container EXCEPT ![i] = l]
      /\ num' = [num EXCEPT ![l] = @ + 1]
  BY DEF Contain
<1>3. NULL \notin Lists /\ i \notin Lists /\ i \in Node /\ Lists \subseteq Node
  BY NodesAssumption DEF Node
<1>4. /\ On(l)' = On(l) \cup {i}
      /\ \A m \in Lists : i \notin On(m) /\ i \notin Ring(m)
      /\ \A m \in Lists : m # l => On(m)' = On(m)
  BY <1>1, <1>2, <1>3 DEF On, Ring
<1>5. /\ Ring(l)' = Ring(l) \cup {i}
      /\ \A m \in Lists : m # l => Ring(m)' = Ring(m)
  BY <1>4 DEF Ring
<1>6. a \in Node /\ next[a] \in Ring(l) /\ next[a] \in Node
  BY <1>1, RingNodes DEF OneRing, Closed
<1>7. /\ next' \in [Node -> Node] /\ prev' \in [Node -> Node]
      /\ next'[a] = i /\ next'[i] = next[a]
      /\ \A x \in Node \ {a, i} : next'[x] = next[x]
      /\ \A x \in Node \ {next[a], i} : prev'[x] = prev[x]
  <2>1. a # i
    BY <1>4
  <2> QED BY <1>1, <1>3, <1>6, <2>1 DEF Link
<1>8. ASSUME NEW m \in Lists, m # l
      PROVE  /\ \A x \in Ring(m) : next'[x] = next[x] /\ prev'[x] = prev[x]
             /\ index'[m] = index[m] /\ index'[m] \in Ring(m)
  <2>1. Ring(m) \subseteq Node /\ Ring(m) \cap Ring(l) = {} /\ i \notin Ring(m)
    BY <1>4, <1>8, RingNodes
  <2>2. a \notin Ring(m) /\ next[a] \notin Ring(m)
    BY <1>6, <2>1
  <2> QED BY <1>1, <1>7, <2>1, <2>2 DEF OneRing
<1>9. Rings'
  <2>1. OneRing(l)'
    BY <1>1, <1>4, <1>5, LinkRing
  <2>2. \A m \in Lists : m # l => OneRing(m)'
    BY <1>1, <1>5, <1>8, SameRing
  <2> QED BY <2>1, <2>2 DEF Rings
<1>10. num' \in [Lists -> Nat] /\ Counted'
  <2>1. Cardinality(On(l) \cup {i}) = Cardinality(On(l)) + 1
    BY <1>4, OnFinite, FS_AddElement
  <2>2. /\ num' \in [Lists -> Nat] /\ num'[l] = num[l] + 1
        /\ \A m \in Lists : m # l => num'[m] = num[m]
    BY <1>1, <1>2
  <2>3. num'[l] = Cardinality(On(l)')
    BY <1>4, <2>1, <2>2 DEF Counted
  <2>4. \A m \in Lists : m # l => num'[m] = Cardinality(On(m)')
    BY <1>4, <2>2 DEF Counted
  <2> QED BY <2>2, <2>3, <2>4 DEF Counted
<1>11. ASSUME NEW m \in Lists, NEW k \in On(m)
       PROVE  Ahead(m, k) \subseteq Ahead(m, k)'
  <2>1. k \in Ring(m)
    BY DEF Ring
  <2>2. CASE m = l
    BY <1>1, <1>4, <1>5, <2>1, <2>2, AheadLinked
  <2>3. CASE m # l
    BY <1>1, <1>5, <1>8, <2>1, <2>3, AheadSame
  <2> QED BY <2>2, <2>3
<1>12. container' \in [Items -> Lists \cup {NULL}]
  BY <1>1, <1>2
<1> QED BY <1>4, <1>7, <1>9, <1>10, <1>11, <1>12

\* The part of the walk that is the same in both.
LEMMA PutInWalk ==
    ASSUME TypeOK, WalkPart, NEW l \in Lists, NEW i \in Items, container[i] = NULL,
           Contain(i, l),
           NEW d \in SUBSET Items, due' = [due EXCEPT ![i] = d], d \subseteq Ahead(l, i)',
           \A m \in Lists : \A k \in On(m) : Ahead(m, k) \subseteq Ahead(m, k)'
    PROVE  due' \in [Items -> SUBSET Items] /\ WalkPart'
<1>1. /\ due \in [Items -> SUBSET Items]
      /\ container \in [Items -> Lists \cup {NULL}] /\ NULL \notin Lists
  BY NodesAssumption DEF TypeOK, Node
<1>2. container' = [container EXCEPT ![i] = l]
  BY DEF Contain
<1>3. ASSUME NEW k \in Items, k # i
      PROVE  /\ container'[k] = NULL => due'[k] = {}
             /\ \A m \in Lists : container'[k] = m => due'[k] \subseteq Ahead(m, k)'
  BY <1>1, <1>2, <1>3 DEF WalkPart, On
<1>4. container'[i] = l /\ due'[i] = d
  BY <1>1, <1>2
<1>5. ASSUME NEW k \in Items
      PROVE  /\ container'[k] = NULL => due'[k] = {}
             /\ \A m \in Lists : container'[k] = m => due'[k] \subseteq Ahead(m, k)'
  BY <1>1, <1>3, <1>4
<1> QED BY <1>1, <1>5 DEF WalkPart

LEMMA InsertKeeps ==
    ASSUME IInv, NEW l \in Lists, NEW i \in Items, Insert(l, i)
    PROVE  IInv'
<1> DEFINE a == IF value[i] = MaxDelay THEN prev[l] ELSE Iterator(l, value[i])
<1>1. /\ TypeOK /\ Rings /\ Counted /\ WalkPart /\ OneRing(l)
      /\ container[i] = NULL /\ Link(i, a, next[a]) /\ Contain(i, l)
      /\ due' = [due EXCEPT ![i] = {}] /\ UNCHANGED <<value, index>>
  BY DEF IInv, Insert, Rings
<1>2. /\ value[i] \in 0 .. MaxDelay /\ value[i] = ValueOf(i) /\ MaxDelay \in Nat
      /\ ValueOf(l) = MaxDelay /\ i \in Node /\ i \notin Lists
      /\ \A x \in Node : ValueOf(x) \in 0 .. MaxDelay /\ ValueOf(x)' = ValueOf(x)
  BY <1>1, Values0, NodesAssumption DEF Node, ValueOf
<1>3. /\ a \in Ring(l) /\ ValueOf(i) <= ValueOf(next[a])
      /\ a # l => ValueOf(a) <= ValueOf(i)
  <2>1. /\ l \in Ring(l) /\ prev[l] \in Ring(l) /\ next[prev[l]] = l /\ Ring(l) \subseteq Node
        /\ \A x \in Ring(l) : next[x] \in Ring(l)
    BY <1>1, RingNodes DEF OneRing, Closed
  <2>2. CASE value[i] = MaxDelay
    BY <1>2, <2>1, <2>2
  <2>3. CASE value[i] # MaxDelay
    <3>1. /\ a \in Ring(l) /\ ValueOf(next[a]) > value[i]
          /\ a # l => ValueOf(a) <= value[i]
      BY <1>1, <1>2, <2>3, IteratorFound
    <3> QED BY <1>2, <2>1, <3>1
  <2> QED BY <2>2, <2>3
<1> HIDE DEF a
<1>4. /\ next' \in [Node -> Node] /\ prev' \in [Node -> Node]
      /\ container' \in [Items -> Lists \cup {NULL}]
      /\ num' \in [Lists -> Nat]
      /\ Rings' /\ Counted'
      /\ On(l)' = On(l) \cup {i} /\ i \notin On(l)
      /\ \A m \in Lists : m # l => On(m)' = On(m)
      /\ next'[a] = i /\ next'[i] = next[a]
      /\ \A x \in Node \ {a, i} : next'[x] = next[x]
      /\ \A m \in Lists : \A k \in On(m) : Ahead(m, k) \subseteq Ahead(m, k)'
  BY <1>1, <1>3, PutIn
<1>5. due' \in [Items -> SUBSET Items] /\ WalkPart'
  BY <1>1, <1>4, PutInWalk, {} \in SUBSET Items, {} \subseteq Ahead(l, i)'
<1>6. TypeOK'
  BY <1>1, <1>4, <1>5 DEF TypeOK
<1>7. SortedPart'
  <2> SUFFICES ASSUME NEW m \in SortedLists, NEW x \in On(m)'
               PROVE  ValueOf(x)' <= ValueOf(next[x])'
    BY DEF SortedPart
  <2>1. m \in Lists /\ x \in Node /\ Ring(l) \subseteq Node
    BY NodesAssumption, RingNodes DEF On, Node
  <2>2. next'[x] \in Node /\ next[a] \in Node
    BY <1>1, <1>3, <1>4, <2>1 DEF TypeOK
  <2>3. ValueOf(x) <= ValueOf(next'[x])
    <3>1. CASE x = i
      BY <1>3, <1>4, <3>1
    <3>2. CASE x = a /\ x # i
      <4>1. a # l
        BY <2>1, <3>2, NodesAssumption DEF On
      <4> QED BY <1>3, <1>4, <3>2, <4>1
    <3>3. CASE x # a /\ x # i
      <4>1. x \in On(m) /\ next'[x] = next[x]
        BY <1>4, <2>1, <3>3
      <4> QED BY <4>1 DEF IInv, SortedPart
    <3> QED BY <3>1, <3>2, <3>3
  <2>4. ValueOf(x)' = ValueOf(x) /\ ValueOf(next[x])' = ValueOf(next'[x])
    BY <1>1 DEF ValueOf
  <2> QED BY <2>3, <2>4
<1> QED BY <1>4, <1>5, <1>6, <1>7 DEF IInv

LEMMA InsertEndKeeps ==
    ASSUME IInv, NEW l \in Lists, NEW i \in Items, InsertEnd(l, i)
    PROVE  IInv'
<1> DEFINE a == prev[index[l]]
<1>1. /\ TypeOK /\ Rings /\ Counted /\ WalkPart /\ OneRing(l) /\ SortedPart
      /\ container[i] = NULL /\ Link(i, a, index[l]) /\ Contain(i, l)
      /\ due' = [due EXCEPT ![i] = On(l) \ {index[l]}] /\ UNCHANGED <<value, index>>
      /\ l \notin SortedLists
  BY DEF IInv, InsertEnd, LastTurn, Rings
<1>2. a \in Ring(l) /\ next[a] = index[l]
  BY <1>1 DEF OneRing, Closed
<1>3. /\ next' \in [Node -> Node] /\ prev' \in [Node -> Node]
      /\ container' \in [Items -> Lists \cup {NULL}]
      /\ num' \in [Lists -> Nat]
      /\ Rings' /\ Counted'
      /\ On(l)' = On(l) \cup {i} /\ i \notin On(l)
      /\ \A m \in Lists : m # l => On(m)' = On(m)
      /\ \A x \in Node \ {a, i} : next'[x] = next[x]
      /\ \A m \in Lists : \A k \in On(m) : Ahead(m, k) \subseteq Ahead(m, k)'
  BY <1>1, <1>2, PutIn
<1>4. On(l) \ {index[l]} \subseteq Ahead(l, i)'
  <2>1. i \notin Ring(l) /\ Ring(l)' = Ring(l) \cup {i} /\ index'[l] = index[l]
    BY <1>1, <1>3, NodesAssumption DEF Ring
  <2>2. Ring(l) \ {index[l]} \subseteq Ahead(l, i)'
    BY <1>1, <2>1, AheadOfLast DEF TypeOK
  <2> QED BY <2>2 DEF Ring
<1>5. due' \in [Items -> SUBSET Items] /\ WalkPart'
  <2>1. On(l) \ {index[l]} \in SUBSET Items
    BY DEF On
  <2> QED BY <1>1, <1>3, <1>4, <2>1, PutInWalk
<1>6. TypeOK'
  BY <1>1, <1>3, <1>5 DEF TypeOK
<1>7. SortedPart'
  <2> SUFFICES ASSUME NEW m \in SortedLists, NEW x \in On(m)'
               PROVE  ValueOf(x)' <= ValueOf(next[x])'
    BY DEF SortedPart
  <2>1. m \in Lists /\ m # l
    BY <1>1, NodesAssumption
  <2>2. x \in On(m) /\ x \in Node /\ x # i
    BY <1>1, <1>3, <2>1, NodesAssumption DEF On, Node
  <2>3. x # a
    BY <1>2, <2>1, <2>2, RingNodes DEF Ring
  <2>4. next'[x] = next[x]
    BY <1>3, <2>2, <2>3
  <2>5. ValueOf(x)' = ValueOf(x) /\ ValueOf(next[x])' = ValueOf(next'[x])
    BY <1>1 DEF ValueOf
  <2> QED BY <1>1, <2>2, <2>4, <2>5 DEF SortedPart
<1> QED BY <1>3, <1>5, <1>6, <1>7 DEF IInv

LEMMA RemoveKeeps ==
    ASSUME IInv, NEW i \in Items, Remove(i)
    PROVE  IInv'
<1>1. /\ TypeOK /\ Rings /\ Counted /\ WalkPart /\ SortedPart
      /\ container[i] # NULL
      /\ next' = [next EXCEPT ![prev[i]] = next[i]]
      /\ prev' = [prev EXCEPT ![next[i]] = prev[i]]
      /\ container' = [container EXCEPT ![i] = NULL]
      /\ due' = [j \in Items |-> IF j = i THEN {} ELSE due[j] \ {i}]
      /\ value' = value
  BY DEF IInv, Remove
<1>2. PICK l \in Lists : l = container[i]
  BY <1>1 DEF TypeOK
<1>3. /\ index' = [index EXCEPT ![l] = IndexWithout(l, i)]
      /\ num' = [num EXCEPT ![l] = @ - 1]
  BY <1>2 DEF Remove
<1>4. /\ next \in [Node -> Node] /\ prev \in [Node -> Node]
      /\ container \in [Items -> Lists \cup {NULL}] /\ num \in [Lists -> Nat]
      /\ index \in [Lists -> Node] /\ due \in [Items -> SUBSET Items]
      /\ \A m \in Lists : OneRing(m)
      /\ NULL \notin Lists /\ i \notin Lists /\ i \in Node
  BY <1>1, NodesAssumption DEF TypeOK, Rings, Node
<1>5. /\ On(l)' = On(l) \ {i} /\ i \in On(l)
      /\ \A m \in Lists : m # l => On(m)' = On(m) /\ i \notin On(m)
  BY <1>1, <1>2, <1>4 DEF On
<1>6. /\ Ring(l)' = Ring(l) \ {i} /\ i \in Ring(l)
      /\ \A m \in Lists : m # l => Ring(m)' = Ring(m) /\ i \notin Ring(m)
  BY <1>4, <1>5 DEF Ring
<1>7. /\ prev[i] \in Ring(l) \ {i} /\ next[i] \in Ring(l) \ {i}
      /\ Ring(l) \subseteq Node /\ i # l
  BY <1>4, <1>6, NotAlone, RingNodes DEF OneRing, Closed
<1>8. /\ next' \in [Node -> Node] /\ prev' \in [Node -> Node]
      /\ next'[prev[i]] = next[i]
      /\ \A x \in Node \ {prev[i]} : next'[x] = next[x]
      /\ \A x \in Node \ {next[i]} : prev'[x] = prev[x]
  BY <1>1, <1>4, <1>7
<1>9. index'[l] = IndexWithout(l, i) /\ index'[l] \in Ring(l) \ {i}
  BY <1>3, <1>4, <1>7 DEF IndexWithout, OneRing
<1>10. ASSUME NEW m \in Lists, m # l
       PROVE  /\ \A x \in Ring(m) : next'[x] = next[x] /\ prev'[x] = prev[x]
              /\ index'[m] = index[m] /\ index'[m] \in Ring(m)
  <2>1. Ring(m) \subseteq Node /\ Ring(m) \cap Ring(l) = {}
    BY <1>10, RingNodes
  <2> QED BY <1>3, <1>4, <1>7, <1>8, <1>10, <2>1 DEF OneRing
<1>11. Rings'
  <2>1. OneRing(l)'
    BY <1>1, <1>4, <1>6, <1>7, <1>9, UnlinkRing
  <2>2. \A m \in Lists : m # l => OneRing(m)'
    BY <1>4, <1>6, <1>10, SameRing
  <2> QED BY <2>1, <2>2 DEF Rings
<1>12. num' \in [Lists -> Nat] /\ Counted'
  <2>1. /\ Cardinality(On(l) \ {i}) = Cardinality(On(l)) - 1
        /\ Cardinality(On(l)) \in Nat /\ Cardinality(On(l) \ {i}) \in Nat
    <3>1. IsFiniteSet(On(l) \ {i})
      BY OnFinite, FS_RemoveElement
    <3> QED BY <1>5, <3>1, OnFinite, FS_RemoveElement, FS_CardinalityType
  <2>2. \A m \in Lists : num[m] = Cardinality(On(m))
    BY <1>1 DEF Counted
  <2>3. /\ num'[l] = num[l] - 1 /\ num' \in [Lists -> Int]
        /\ \A m \in Lists : m # l => num'[m] = num[m]
    BY <1>3, <1>4
  <2>4. num'[l] = Cardinality(On(l)') /\ num'[l] \in Nat
    BY <1>5, <2>1, <2>2, <2>3
  <2>5. \A m \in Lists : m # l => num'[m] = Cardinality(On(m)') /\ num'[m] \in Nat
    BY <1>4, <1>5, <2>2, <2>3
  <2> QED BY <2>3, <2>4, <2>5 DEF Counted
<1>13. WalkPart'
  <2>1. /\ due'[i] = {} /\ container'[i] = NULL
        /\ \A k \in Items \ {i} : due'[k] = due[k] \ {i} /\ container'[k] = container[k]
    BY <1>1, <1>4
  <2>2. ASSUME NEW k \in Items \ {i}, NEW m \in Lists, container[k] = m
        PROVE  due[k] \ {i} \subseteq Ahead(m, k)'
    <3>1. due[k] \subseteq Ahead(m, k)
      BY <1>1, <2>2 DEF WalkPart
    <3>2. k \in Ring(m) /\ k # i
      BY <2>2 DEF Ring, On
    <3>3. CASE m = l
      <4>1. Ahead(l, k) \ {i} \subseteq Ahead(l, k)'
        BY <1>1, <1>4, <1>6, <1>7, <1>9, <3>2, <3>3, AheadUnlinked
      <4> QED BY <3>1, <3>3, <4>1
    <3>4. CASE m # l
      BY <1>4, <1>6, <1>10, <3>1, <3>2, <3>4, AheadSame
    <3> QED BY <3>3, <3>4
  <2>3. \A k \in Items \ {i} : container[k] = NULL => due[k] = {}
    BY <1>1 DEF WalkPart
  <2> QED BY <1>4, <2>1, <2>2, <2>3 DEF WalkPart
<1>14. TypeOK'
  <2>1. index' \in [Lists -> Node]
    BY <1>3, <1>4, <1>7, <1>9
  <2>2. due' \in [Items -> SUBSET Items]
    BY <1>1, <1>4
  <2>3. container' \in [Items -> Lists \cup {NULL}]
    BY <1>1, <1>4
  <2> QED BY <1>1, <1>8, <1>12, <2>1, <2>2, <2>3 DEF TypeOK
<1>15. SortedPart'
  <2> SUFFICES ASSUME NEW m \in SortedLists, NEW x \in On(m)'
               PROVE  ValueOf(x)' <= ValueOf(next[x])'
    BY DEF SortedPart
  <2>1. m \in Lists /\ x \in On(m) /\ x # i /\ x \in Node /\ x \notin Lists
    BY <1>5, NodesAssumption DEF On, Node
  <2>2. ValueOf(x)' = ValueOf(x) /\ ValueOf(next[x])' = ValueOf(next'[x])
    BY <1>1 DEF ValueOf
  <2>3. CASE x # prev[i]
    BY <1>1, <1>8, <2>1, <2>2, <2>3 DEF SortedPart
  <2>4. CASE x = prev[i]
    <3>1. m = l
      BY <1>7, <2>1, <2>4, RingNodes DEF Ring
    <3>2. next[x] = i /\ next'[x] = next[i] /\ next[i] \in Node
      BY <1>4, <1>6, <1>7, <1>8, <2>4 DEF OneRing
    <3>3. ValueOf(x) <= ValueOf(i) /\ ValueOf(i) <= ValueOf(next[i])
      BY <1>1, <1>5, <2>1, <3>1, <3>2 DEF SortedPart
    <3>4. ValueOf(x) \in Int /\ ValueOf(i) \in Int /\ ValueOf(next[i]) \in Int
      BY <1>1, <1>4, <2>1, <3>2, Values0
    <3> QED BY <2>2, <3>2, <3>3, <3>4
  <2> QED BY <2>3, <2>4
<1> QED BY <1>11, <1>12, <1>13, <1>14, <1>15 DEF IInv

LEMMA GetNextKeeps ==
    ASSUME IInv, NEW l \in Lists, GetNext(l)
    PROVE  IInv' /\ due[Returned(l)] = {}
<1>0. PICK r : r = Returned(l)
  OBVIOUS
<1>1. /\ TypeOK /\ Rings /\ Counted /\ WalkPart /\ SortedPart
      /\ num[l] > 0 /\ index' = [index EXCEPT ![l] = r]
      /\ due' = [j \in Items |-> IF j = r THEN On(l) \ {j} ELSE due[j] \ {r}]
      /\ UNCHANGED <<value, next, prev, container, num>>
  BY <1>0 DEF IInv, GetNext
<1>2. /\ index \in [Lists -> Node] /\ due \in [Items -> SUBSET Items]
      /\ container \in [Items -> Lists \cup {NULL}] /\ NULL \notin Lists
      /\ \A m \in Lists : OneRing(m)
  BY <1>1, NodesAssumption DEF TypeOK, Rings, Node
<1>3. \A m \in Lists : On(m)' = On(m) /\ Ring(m)' = Ring(m)
  BY <1>1 DEF On, Ring
<1>4. On(l) # {}
  BY <1>1, FS_EmptySet DEF Counted
<1>5. index'[l] = r /\ \A m \in Lists : m # l => index'[m] = index[m]
  BY <1>1, <1>2
<1>6. /\ r \in On(l)
      /\ Ring(l) \ {r} \subseteq Ahead(l, r)'
      /\ \A k \in Ring(l) \ {r} : Ahead(l, k) \ {r, l} \subseteq Ahead(l, k)'
  BY <1>0, <1>1, <1>2, <1>3, <1>4, <1>5, AheadReturned
<1>7. r \in Items /\ r \in Ring(l) /\ r \in Node /\ container[r] = l
  BY <1>6 DEF On, Ring, Node
<1>8. Rings'
  <2> SUFFICES ASSUME NEW m \in Lists PROVE OneRing(m)'
    BY DEF Rings
  <2>1. index'[m] \in Ring(m)
    BY <1>2, <1>5, <1>7 DEF OneRing
  <2> QED BY <1>1, <1>2, <1>3, <2>1, SameRing
<1>9. WalkPart'
  <2> SUFFICES ASSUME NEW k \in Items
               PROVE  /\ container[k] = NULL => due'[k] = {}
                      /\ \A m \in Lists : container[k] = m => due'[k] \subseteq Ahead(m, k)'
    BY <1>1 DEF WalkPart
  <2>1. CASE k = r
    <3>1. due'[r] = On(l) \ {r}
      BY <1>1, <1>7
    <3>2. due'[r] \subseteq Ahead(l, r)'
      BY <1>6, <3>1 DEF Ring
    <3> QED BY <1>2, <1>7, <2>1, <3>2
  <2>2. CASE k # r
    <3>1. due'[k] = due[k] \ {r}
      BY <1>1, <2>2
    <3>2. container[k] = NULL => due'[k] = {}
      BY <1>1, <3>1 DEF WalkPart
    <3>3. ASSUME NEW m \in Lists, container[k] = m PROVE due'[k] \subseteq Ahead(m, k)'
      <4>1. due[k] \subseteq Ahead(m, k) /\ k \in Ring(m) /\ l \notin due[k]
        BY <1>1, <1>2, <3>3, RingNodes DEF WalkPart, Ring, On
      <4>2. CASE m = l
        BY <1>6, <2>2, <3>1, <4>1, <4>2
      <4>3. CASE m # l
        <5>1. Ahead(m, k)' = Ahead(m, k)
          BY <1>1, <1>2, <1>3, <1>5, <4>1, <4>3, AheadSame
        <5> QED BY <3>1, <4>1, <5>1
      <4> QED BY <4>2, <4>3
    <3> QED BY <3>2, <3>3
  <2> QED BY <2>1, <2>2
<1>10. TypeOK'
  <2>1. index' \in [Lists -> Node]
    BY <1>1, <1>2, <1>7
  <2>2. due' \in [Items -> SUBSET Items]
    BY <1>1, <1>2, <1>7 DEF On
  <2> QED BY <1>1, <2>1, <2>2 DEF TypeOK
<1>11. Counted' /\ SortedPart'
  <2>1. Counted'
    BY <1>1, <1>3 DEF Counted
  <2>2. \A x : ValueOf(x)' = ValueOf(x)
    BY <1>1 DEF ValueOf
  <2>3. SortedPart'
    BY <1>1, <1>3, <2>2, NodesAssumption DEF SortedPart
  <2> QED BY <2>1, <2>3
<1>12. due[r] = {}
  <2> SUFFICES ASSUME NEW j \in due[r] PROVE FALSE
    OBVIOUS
  <2>1. j \in Ahead(l, r) /\ j \in Items /\ l \notin Items
    BY <1>1, <1>2, <1>7, RingNodes DEF WalkPart
  <2> DEFINE S == IF next[index[l]] = l THEN {l} ELSE {}
  <2>2. Reaches(l, r, S)
    BY <1>0 DEF Reaches, Start, Returned
  <2>3. S \in SUBSET Ring(l)
    BY RingNodes
  <2>4. j \in S
    BY <2>1, <2>2, <2>3 DEF Ahead
  <2> QED BY <2>1, <2>4
<1> QED BY <1>8, <1>9, <1>10, <1>11, <1>12, <1>0 DEF IInv

LEMMA SetValueKeeps ==
    ASSUME IInv, NEW i \in Items, NEW v \in Values, SetValue(i, v)
    PROVE  IInv'
<1>1. /\ TypeOK /\ Rings /\ Counted /\ WalkPart /\ SortedPart
      /\ container[i] = NULL /\ value' = [value EXCEPT ![i] = v]
      /\ UNCHANGED <<next, prev, container, index, num, due>>
  BY DEF IInv, SetValue
<1>2. \A l \in Lists : On(l)' = On(l) /\ Ring(l)' = Ring(l)
  BY <1>1 DEF On, Ring
<1>3. Rings' /\ Counted'
  BY <1>1, <1>2 DEF Rings, OneRing, Closed, Counted
<1>4. WalkPart'
  BY <1>1, <1>2 DEF WalkPart, Ahead, Reaches, Start
<1>5. TypeOK'
  BY <1>1 DEF TypeOK
<1>6. SortedPart'
  <2> SUFFICES ASSUME NEW m \in SortedLists, NEW x \in On(m)
               PROVE  ValueOf(x)' <= ValueOf(next[x])'
    BY <1>1, <1>2, NodesAssumption DEF SortedPart
  <2>1. m \in Lists /\ m # NULL /\ x # i /\ x \in Ring(m)
    BY <1>1, NodesAssumption DEF On, Ring, Node
  <2>2. next[x] \in Ring(m) /\ i \notin Ring(m) /\ Ring(m) \subseteq Node
    BY <1>1, <2>1, NodesAssumption, RingNodes DEF Rings, OneRing, Closed, Ring, On, Node
  <2>3. \A y \in Ring(m) : ValueOf(y)' = ValueOf(y)
    BY <1>1, <2>2 DEF TypeOK, ValueOf, Node
  <2> QED BY <1>1, <2>1, <2>2, <2>3 DEF SortedPart
<1> QED BY <1>3, <1>4, <1>5, <1>6 DEF IInv

-----------------------------------------------------------------------------
(* The theorems *)

LEMMA InitInv == Init => IInv
<1> SUFFICES ASSUME Init PROVE IInv
  OBVIOUS
<1>1. /\ value \in [Items -> Values] /\ next = [x \in Node |-> x]
      /\ prev = [x \in Node |-> x] /\ container = [i \in Items |-> NULL]
      /\ index = [l \in Lists |-> l] /\ num = [l \in Lists |-> 0]
      /\ due = [i \in Items |-> {}]
  BY DEF Init
<1>2. Lists \subseteq Node /\ NULL \notin Lists
  BY NodesAssumption DEF Node
<1>3. \A l \in Lists : On(l) = {} /\ Ring(l) = {l}
  BY <1>1, <1>2 DEF On, Ring
<1>4. TypeOK
  BY <1>1, <1>2 DEF TypeOK
<1>5. Rings
  BY <1>1, <1>2, <1>3 DEF Rings, OneRing, Closed
<1>6. Counted
  BY <1>1, <1>3, FS_EmptySet DEF Counted
<1>7. SortedPart /\ WalkPart
  BY <1>1, <1>3, NodesAssumption DEF SortedPart, WalkPart
<1> QED BY <1>4, <1>5, <1>6, <1>7 DEF IInv

LEMMA NextInv == IInv /\ [Next]_vars => IInv'
<1> SUFFICES ASSUME IInv, [Next]_vars PROVE IInv'
  OBVIOUS
<1>1. CASE UNCHANGED vars
  <2>1. UNCHANGED <<value, next, prev, container, index, num, due>>
    BY <1>1 DEF vars
  <2>2. TypeOK' /\ Rings'
    BY <2>1 DEF IInv, TypeOK, Rings, OneRing, Closed, Ring, On
  <2>3. Counted' /\ SortedPart'
    BY <2>1 DEF IInv, Counted, SortedPart, ValueOf, On
  <2>4. WalkPart'
    BY <2>1 DEF IInv, WalkPart, Ahead, Reaches, Start, Ring, On
  <2> QED BY <2>2, <2>3, <2>4 DEF IInv
<1>2. CASE Next
  BY <1>2, InsertKeeps, InsertEndKeeps, RemoveKeeps, GetNextKeeps, SetValueKeeps DEF Next
<1> QED BY <1>1, <1>2

THEOREM Invariant == Spec => []IInv
BY InitInv, NextInv, PTL DEF Spec

\* Type correctness: no count falls below 0 and no link leaves the nodes.
THEOREM TypeCorrect == Spec => []TypeOK
<1>1. IInv => TypeOK
  BY DEF IInv
<1> QED BY <1>1, Invariant, PTL

\* Insertions, removals and moves between lists keep every list one ring, the
\* index on it.
THEOREM RingsKept == Spec => []Rings
<1>1. IInv => Rings
  BY DEF IInv
<1> QED BY <1>1, Invariant, PTL

\* listCURRENT_LIST_LENGTH is the number of items whose container is the list.
THEOREM CountExact == Spec => []Counted
<1>1. IInv => Counted
  BY DEF IInv
<1> QED BY <1>1, Invariant, PTL

\* vListInsert keeps a list sorted, with the least value at its head.
THEOREM StaysSorted == Spec => []Sorted
<1>1. ASSUME IInv PROVE Sorted
  <2> SUFFICES ASSUME NEW l \in SortedLists
               PROVE  \A x \in On(l) : ValueOf(next[l]) <= ValueOf(x)
    BY <1>1 DEF IInv, SortedPart, Sorted
  <2> DEFINE S == {l} \cup {x \in On(l) : ValueOf(next[l]) <= ValueOf(x)}
  <2>1. /\ l \in Lists /\ OneRing(l) /\ TypeOK /\ Ring(l) \subseteq Node /\ l \in Ring(l)
        /\ \A x \in Ring(l) : next[x] \in Ring(l)
        /\ l \notin On(l)
    BY <1>1, NodesAssumption, RingNodes DEF IInv, Rings, OneRing, Closed
  <2>2. \A x \in Ring(l) : ValueOf(x) \in Int
    BY <2>1, Values0
  <2>3. S \in SUBSET Ring(l) /\ l \in S
    BY <2>1 DEF Ring
  <2>4. next[l] \in S
    BY <2>1, <2>2 DEF Ring
  <2>5. ASSUME NEW x \in S, x # l PROVE next[x] \in S
    <3>1. x \in On(l) /\ ValueOf(next[l]) <= ValueOf(x) /\ ValueOf(x) <= ValueOf(next[x])
      BY <1>1, <2>5 DEF IInv, SortedPart
    <3>2. next[x] \in Ring(l) /\ x \in Ring(l) /\ next[l] \in Ring(l)
      BY <2>1, <2>3, <2>5
    <3>3. ValueOf(next[l]) <= ValueOf(next[x])
      BY <2>2, <3>1, <3>2
    <3> QED BY <3>2, <3>3 DEF Ring
  <2>6. S = Ring(l)
    BY <2>1, <2>3, <2>4, <2>5, Connected
  <2> QED BY <2>1, <2>6 DEF Ring
<1> QED BY <1>1, Invariant, PTL

\* The walk returns nobody twice before it has returned all the others that
\* were there, whatever is inserted and removed meanwhile.
THEOREM WalkIsFair == Spec => NoOvertaking
<1>1. IInv /\ [Next]_vars => [\A l \in Lists : ~Walks(l)]_vars
  BY GetNextKeeps DEF Walks
<1> QED BY <1>1, Invariant, PTL DEF Spec, NoOvertaking

-----------------------------------------------------------------------------
(* A ring as a sequence                                                    *)

\* A set of numbers has a least element.
LEMMA Least ==
    ASSUME NEW S \in SUBSET Nat, S # {}
    PROVE  \E m \in S : \A x \in S : m <= x
<1>1. \E m \in S : \A x \in S : ~ (<<x, m>> \in OpToRel(<, Nat))
  BY NatLessThanWellFounded, WFMin
<1>2. ASSUME NEW m \in S, NEW x \in S, ~ (<<x, m>> \in OpToRel(<, Nat))
      PROVE  m <= x
  BY <1>2 DEF OpToRel
<1> QED BY <1>1, <1>2

\* Sequence t is s with e behind its p-th element.
PutBehind(s, p, e, t) ==
    /\ Len(t) = Len(s) + 1
    /\ \A k \in 1 .. Len(t) : t[k] = IF k <= p THEN s[k] ELSE IF k = p + 1 THEN e ELSE s[k - 1]

LEMMA Inserted ==
    ASSUME NEW S, NEW s \in Seq(S), NEW p \in 0 .. Len(s), NEW e \in S
    PROVE  Sequence!InsertAt(s, p + 1, e) \in Seq(S) /\ PutBehind(s, p, e, Sequence!InsertAt(s, p + 1, e))
<1> DEFINE a == SubSeq(s, 1, p)
           b == SubSeq(s, p + 1, Len(s))
           c == a \o <<e>>
<1>1. Len(s) \in Nat /\ \A j \in 1 .. Len(s) : s[j] \in S
  BY LenProperties, ElementOfSeq
<1>2. a \in Seq(S) /\ Len(a) = p /\ \A j \in 1 .. p : a[j] = s[j]
  BY <1>1, SubSeqProperties
<1>3. /\ b \in Seq(S) /\ Len(b) = Len(s) - p
      /\ \A j \in 1 .. Len(s) - p : b[j] = s[p + j]
  BY <1>1, SubSeqProperties
<1>4. Sequence!InsertAt(s, p + 1, e) = c \o b
  <2>1. (p + 1) - 1 = p
    BY <1>1
  <2> QED BY <2>1 DEF Sequence!InsertAt
<1>5. <<e>> \in Seq(S) /\ Len(<<e>>) = 1 /\ <<e>>[1] = e
  OBVIOUS
<1> HIDE DEF a, b
<1>6. /\ c \in Seq(S) /\ Len(c) = p + 1
      /\ \A j \in 1 .. p + 1 : c[j] = IF j <= p THEN a[j] ELSE <<e>>[j - p]
  BY <1>2, <1>5, ConcatProperties
<1> HIDE DEF c
<1>7. /\ c \o b \in Seq(S) /\ Len(c \o b) = Len(c) + Len(b)
      /\ \A j \in 1 .. Len(c) + Len(b) : (c \o b)[j] = IF j <= Len(c) THEN c[j] ELSE b[j - Len(c)]
  BY <1>3, <1>6, ConcatProperties
<1>8. Len(c \o b) = Len(s) + 1
  BY <1>1, <1>3, <1>6, <1>7
<1>9. ASSUME NEW k \in 1 .. Len(s) + 1
      PROVE  (c \o b)[k] = IF k <= p THEN s[k] ELSE IF k = p + 1 THEN e ELSE s[k - 1]
  <2>1. (c \o b)[k] = IF k <= p + 1 THEN c[k] ELSE b[k - (p + 1)]
    <3>1. k \in 1 .. Len(c) + Len(b)
      BY <1>7, <1>8
    <3> QED BY <1>6, <1>7, <3>1
  <2>2. CASE k <= p
    BY <1>1, <1>2, <1>6, <2>1, <2>2
  <2>3. CASE k = p + 1
    <3>1. c[k] = <<e>>[1]
      BY <1>1, <1>6, <2>3
    <3> QED BY <1>1, <1>5, <2>1, <2>3, <3>1
  <2>4. CASE k > p + 1
    <3>1. k - (p + 1) \in 1 .. Len(s) - p /\ p + (k - (p + 1)) = k - 1
      BY <1>1, <2>4
    <3>2. b[k - (p + 1)] = s[k - 1]
      BY <1>3, <3>1
    <3> QED BY <1>1, <2>1, <2>4, <3>2
  <2>5. k <= p \/ k = p + 1 \/ k > p + 1
    BY <1>1
  <2> QED BY <2>2, <2>3, <2>4, <2>5
<1> QED BY <1>4, <1>7, <1>8, <1>9 DEF PutBehind

\* Sequence t is s without its p-th element.
TakenOut(s, p, t) ==
    /\ Len(t) = Len(s) - 1
    /\ \A k \in 1 .. Len(t) : t[k] = IF k < p THEN s[k] ELSE s[k + 1]

LEMMA Removed ==
    ASSUME NEW S, NEW s \in Seq(S), NEW p \in 1 .. Len(s)
    PROVE  Sequence!RemoveAt(s, p) \in Seq(S) /\ TakenOut(s, p, Sequence!RemoveAt(s, p))
<1> DEFINE a == SubSeq(s, 1, p - 1)
           b == SubSeq(s, p + 1, Len(s))
<1>1. Len(s) \in Nat /\ \A j \in 1 .. Len(s) : s[j] \in S
  BY LenProperties, ElementOfSeq
<1>2. a \in Seq(S) /\ Len(a) = p - 1 /\ \A j \in 1 .. p - 1 : a[j] = s[j]
  BY <1>1, SubSeqProperties
<1>3. /\ b \in Seq(S) /\ Len(b) = Len(s) - p
      /\ \A j \in 1 .. Len(s) - p : b[j] = s[p + j]
  BY <1>1, SubSeqProperties
<1>4. Sequence!RemoveAt(s, p) = a \o b
  BY DEF Sequence!RemoveAt
<1> HIDE DEF a, b
<1>5. /\ a \o b \in Seq(S) /\ Len(a \o b) = Len(a) + Len(b)
      /\ \A j \in 1 .. Len(a) + Len(b) : (a \o b)[j] = IF j <= Len(a) THEN a[j] ELSE b[j - Len(a)]
  BY <1>2, <1>3, ConcatProperties
<1>6. Len(a \o b) = Len(s) - 1
  BY <1>1, <1>2, <1>3, <1>5
<1>7. ASSUME NEW k \in 1 .. Len(s) - 1
      PROVE  (a \o b)[k] = IF k < p THEN s[k] ELSE s[k + 1]
  <2>1. (a \o b)[k] = IF k <= p - 1 THEN a[k] ELSE b[k - (p - 1)]
    BY <1>1, <1>2, <1>3, <1>5
  <2>2. CASE k < p
    BY <1>1, <1>2, <2>1, <2>2
  <2>3. CASE k >= p
    <3>1. k - (p - 1) \in 1 .. Len(s) - p /\ p + (k - (p - 1)) = k + 1
      BY <1>1, <2>3
    <3>2. b[k - (p - 1)] = s[k + 1]
      BY <1>3, <3>1
    <3> QED BY <1>1, <2>1, <2>3, <3>2
  <2>4. k < p \/ k >= p
    BY <1>1
  <2> QED BY <2>2, <2>3, <2>4
<1> QED BY <1>4, <1>5, <1>6, <1>7 DEF TakenOut

\* The node at place k of the list l whose items are s; place 0 is the end marker.
At(l, s, k) == IF k = 0 THEN l ELSE s[k]

\* The links f lead from the end marker of l over the items s, which are those
\* of S, each once, and back to it.
Thread(l, f, S, s) ==
    /\ s \in Seq(Items)
    /\ S = {s[k] : k \in 1 .. Len(s)}
    /\ \A j, k \in 1 .. Len(s) : s[j] = s[k] => j = k
    /\ \A k \in 0 .. Len(s) : f[At(l, s, k)] = IF k = Len(s) THEN l ELSE s[k + 1]

\* Every node of a list is at one place.
LEMMA Places ==
    ASSUME NEW l \in Lists, NEW f, NEW S, NEW s, Thread(l, f, S, s)
    PROVE  /\ Len(s) \in Nat
           /\ \A k \in 1 .. Len(s) : s[k] \in Items /\ s[k] \in S /\ s[k] # l
           /\ \A k \in 0 .. Len(s) : At(l, s, k) \in {l} \cup S
           /\ \A x \in {l} \cup S : \E k \in 0 .. Len(s) : x = At(l, s, k)
           /\ \A j, k \in 0 .. Len(s) : At(l, s, j) = At(l, s, k) => j = k
<1>1. s \in Seq(Items) /\ S = {s[k] : k \in 1 .. Len(s)}
      /\ \A j, k \in 1 .. Len(s) : s[j] = s[k] => j = k
  BY DEF Thread
<1>2. Len(s) \in Nat /\ \A k \in 1 .. Len(s) : s[k] \in Items
  BY <1>1, LenProperties, ElementOfSeq
<1>3. \A k \in 1 .. Len(s) : s[k] \in S /\ s[k] # l
  BY <1>1, <1>2, NodesAssumption
<1>4. \A k \in 0 .. Len(s) : k # 0 => k \in 1 .. Len(s)
  BY <1>2
<1>5. \A x \in {l} \cup S : \E k \in 0 .. Len(s) : x = At(l, s, k)
  <2>1. l = At(l, s, 0) /\ 0 \in 0 .. Len(s)
    BY <1>2 DEF At
  <2>2. \A k \in 1 .. Len(s) : s[k] = At(l, s, k) /\ k \in 0 .. Len(s)
    BY <1>2 DEF At
  <2> QED BY <1>1, <2>1, <2>2
<1>6. \A j, k \in 0 .. Len(s) : At(l, s, j) = At(l, s, k) => j = k
  BY <1>1, <1>3, <1>4 DEF At
<1> QED BY <1>2, <1>3, <1>4, <1>5, <1>6 DEF At

\* The links g lead over t, which is s with item i behind the p-th.
Longer(l, g, S, s, p, i, t) ==
    /\ Thread(l, g, S \cup {i}, t) /\ Len(t) = Len(s) + 1
    /\ \A c \in 0 .. Len(s) : At(l, t, IF c > p THEN c + 1 ELSE c) = At(l, s, c)

LEMMA ThreadInserted ==
    ASSUME NEW l \in Lists, NEW f, NEW S, NEW s, Thread(l, f, S, s),
           NEW p \in 0 .. Len(s), NEW a, a = At(l, s, p), NEW i \in Items, i \notin S,
           NEW g, g[a] = i, g[i] = f[a], \A x \in ({l} \cup S) \ {a} : g[x] = f[x],
           NEW t, t = Sequence!InsertAt(s, p + 1, i)
    PROVE  Longer(l, g, S, s, p, i, t)
<1> DEFINE n == Len(s)
<1>1. /\ n \in Nat
      /\ \A k \in 1 .. n : s[k] \in Items /\ s[k] \in S /\ s[k] # l
      /\ \A k \in 0 .. n : At(l, s, k) \in {l} \cup S
      /\ \A j, k \in 0 .. n : At(l, s, j) = At(l, s, k) => j = k
  BY Places
<1>2. /\ s \in Seq(Items) /\ S = {s[k] : k \in 1 .. n}
      /\ \A j, k \in 1 .. n : s[j] = s[k] => j = k
      /\ \A k \in 0 .. n : f[At(l, s, k)] = IF k = n THEN l ELSE s[k + 1]
  BY DEF Thread
<1>3. t \in Seq(Items) /\ PutBehind(s, p, i, t)
  BY <1>2, Inserted
<1>4. /\ Len(t) = n + 1
      /\ \A k \in 1 .. n + 1 : t[k] = IF k <= p THEN s[k] ELSE IF k = p + 1 THEN i ELSE s[k - 1]
  BY <1>3 DEF PutBehind
<1>5. i # l
  BY NodesAssumption
<1> HIDE DEF n
<1>6. p \in 0 .. n /\ p \in Nat /\ p <= n
  BY <1>1 DEF n
<1>7. /\ \A k \in 1 .. n + 1 : \/ k <= p /\ k \in 1 .. n /\ t[k] = s[k]
                               \/ k = p + 1 /\ t[k] = i
                               \/ k > p + 1 /\ k - 1 \in 1 .. n /\ t[k] = s[k - 1]
      /\ \A k \in 1 .. n : k <= p => t[k] = s[k] /\ k \in 1 .. n + 1
      /\ \A k \in 1 .. n : k > p => t[k + 1] = s[k] /\ k + 1 \in 1 .. n + 1
      /\ t[p + 1] = i /\ p + 1 \in 1 .. n + 1
  BY <1>1, <1>4, <1>6
<1>8. S \cup {i} = {t[k] : k \in 1 .. n + 1}
  BY <1>2, <1>6, <1>7
<1>9. ASSUME NEW j \in 1 .. n + 1, NEW k \in 1 .. n + 1, t[j] = t[k]
      PROVE  j = k
  <2> DEFINE from(m) == IF m <= p THEN m ELSE m - 1
  <2>1. \A m \in 1 .. n + 1 : m # p + 1 => from(m) \in 1 .. n /\ t[m] = s[from(m)] /\ t[m] # i
    BY <1>1, <1>6, <1>7
  <2>2. CASE j = p + 1 \/ k = p + 1
    BY <1>7, <1>9, <2>1, <2>2
  <2>3. CASE j # p + 1 /\ k # p + 1
    <3>1. from(j) = from(k)
      <4> HIDE DEF from
      <4> QED BY <1>2, <1>9, <2>1, <2>3
    <3> QED BY <1>6, <2>3, <3>1
  <2> QED BY <2>2, <2>3
<1>10. \A c \in 0 .. n : At(l, t, IF c > p THEN c + 1 ELSE c) = At(l, s, c)
  BY <1>1, <1>6, <1>7 DEF At
<1>11. ASSUME NEW k \in 0 .. n + 1
       PROVE  g[At(l, t, k)] = IF k = n + 1 THEN l ELSE t[k + 1]
  <2>1. CASE k < p
    <3>1. k \in 0 .. n /\ k # n /\ ~(k > p) /\ k + 1 \in 1 .. n /\ k + 1 <= p
      BY <1>1, <1>6, <2>1
    <3>2. At(l, t, k) = At(l, s, k)
      BY <1>10, <3>1
    <3>3. At(l, s, k) # At(l, s, p)
      BY <1>1, <1>6, <2>1, <3>1
    <3>4. g[At(l, s, k)] = f[At(l, s, k)]
      BY <1>1, <3>1, <3>3
    <3>5. f[At(l, s, k)] = s[k + 1] /\ t[k + 1] = s[k + 1] /\ k # n + 1
      BY <1>2, <1>7, <3>1, <1>1
    <3> QED BY <3>2, <3>4, <3>5
  <2>2. CASE k = p
    <3>1. At(l, t, k) = At(l, s, p) /\ k # n + 1
      BY <1>1, <1>10, <1>6, <2>2
    <3> QED BY <1>7, <2>2, <3>1
  <2>3. CASE k = p + 1
    <3>1. At(l, t, k) = i
      BY <1>6, <1>7, <2>3 DEF At
    <3>2. f[At(l, s, p)] = IF p = n THEN l ELSE s[p + 1]
      BY <1>2, <1>6
    <3>3. p # n => t[k + 1] = s[p + 1]
      BY <1>1, <1>6, <1>7, <2>3
    <3> QED BY <1>1, <1>6, <2>3, <3>1, <3>2, <3>3
  <2>4. CASE k > p + 1
    <3>1. k - 1 \in 0 .. n /\ k - 1 > p /\ (k - 1) + 1 = k
      BY <1>1, <1>6, <2>4
    <3>2. At(l, t, k) = At(l, s, k - 1)
      BY <1>10, <3>1
    <3>3. At(l, s, k - 1) # At(l, s, p)
      BY <1>1, <1>6, <3>1
    <3>4. g[At(l, s, k - 1)] = f[At(l, s, k - 1)]
      BY <1>1, <3>1, <3>3
    <3>5. f[At(l, s, k - 1)] = IF k - 1 = n THEN l ELSE s[k]
      BY <1>2, <3>1
    <3>6. k - 1 # n => t[k + 1] = s[k]
      BY <1>1, <1>6, <1>7, <3>1
    <3> QED BY <1>1, <3>1, <3>2, <3>4, <3>5, <3>6
  <2> QED BY <1>1, <1>6, <2>1, <2>2, <2>3, <2>4
<1>12. Thread(l, g, S \cup {i}, t)
  BY <1>3, <1>4, <1>8, <1>9, <1>11 DEF Thread
<1> QED BY <1>4, <1>10, <1>12 DEF n, Longer

\* The links g lead over t, which is s without its p-th item.
Shorter(l, g, S, s, p, t) ==
    /\ Thread(l, g, S \ {s[p]}, t) /\ Len(t) = Len(s) - 1
    /\ \A c \in 0 .. Len(s) : c # p => At(l, t, IF c > p THEN c - 1 ELSE c) = At(l, s, c)

LEMMA ThreadTakenOut ==
    ASSUME NEW l \in Lists, NEW f, NEW S, NEW s, Thread(l, f, S, s),
           NEW p \in 1 .. Len(s), NEW a, a = At(l, s, p - 1),
           NEW g, g[a] = f[s[p]], \A x \in ({l} \cup S) \ {a} : g[x] = f[x],
           NEW t, t = Sequence!RemoveAt(s, p)
    PROVE  Shorter(l, g, S, s, p, t)
<1> DEFINE n == Len(s)
<1>1. /\ n \in Nat
      /\ \A k \in 1 .. n : s[k] \in Items /\ s[k] \in S /\ s[k] # l
      /\ \A k \in 0 .. n : At(l, s, k) \in {l} \cup S
      /\ \A j, k \in 0 .. n : At(l, s, j) = At(l, s, k) => j = k
  BY Places
<1>2. /\ s \in Seq(Items) /\ S = {s[k] : k \in 1 .. n}
      /\ \A j, k \in 1 .. n : s[j] = s[k] => j = k
      /\ \A k \in 0 .. n : f[At(l, s, k)] = IF k = n THEN l ELSE s[k + 1]
  BY DEF Thread
<1>3. t \in Seq(Items) /\ TakenOut(s, p, t)
  BY <1>2, Removed
<1>4. /\ Len(t) = n - 1
      /\ \A k \in 1 .. n - 1 : t[k] = IF k < p THEN s[k] ELSE s[k + 1]
  BY <1>3 DEF TakenOut
<1> HIDE DEF n
<1>5. p \in 1 .. n /\ p \in Nat /\ p <= n /\ p >= 1 /\ n - 1 \in Nat
  BY <1>1 DEF n
<1>6. /\ \A k \in 1 .. n - 1 : \/ k < p /\ k \in 1 .. n /\ t[k] = s[k]
                               \/ k >= p /\ k + 1 \in 1 .. n /\ t[k] = s[k + 1]
      /\ \A k \in 1 .. n : k < p => t[k] = s[k] /\ k \in 1 .. n - 1
      /\ \A k \in 1 .. n : k > p => t[k - 1] = s[k] /\ k - 1 \in 1 .. n - 1
  BY <1>1, <1>4, <1>5
<1>7. S \ {s[p]} = {t[k] : k \in 1 .. n - 1}
  <2>1. ASSUME NEW k \in 1 .. n, s[k] # s[p]
        PROVE  s[k] \in {t[m] : m \in 1 .. n - 1}
    <3>1. k < p \/ k > p
      BY <1>1, <1>5, <2>1
    <3> QED BY <1>6, <3>1
  <2>2. ASSUME NEW k \in 1 .. n - 1
        PROVE  t[k] \in S \ {s[p]}
    <3>1. \/ k < p /\ k \in 1 .. n /\ t[k] = s[k]
          \/ k >= p /\ k + 1 \in 1 .. n /\ t[k] = s[k + 1]
      BY <1>6
    <3>2. (k # p /\ k < p) \/ (k + 1 # p /\ k >= p)
      BY <1>1, <1>5
    <3> QED BY <1>1, <1>2, <1>5, <3>1, <3>2
  <2> QED BY <1>2, <2>1, <2>2
<1>8. ASSUME NEW j \in 1 .. n - 1, NEW k \in 1 .. n - 1, t[j] = t[k]
      PROVE  j = k
  BY <1>1, <1>2, <1>5, <1>6, <1>8
<1>9. \A c \in 0 .. n : c # p => At(l, t, IF c > p THEN c - 1 ELSE c) = At(l, s, c)
  BY <1>1, <1>5, <1>6 DEF At
<1>10. ASSUME NEW k \in 0 .. n - 1
       PROVE  g[At(l, t, k)] = IF k = n - 1 THEN l ELSE t[k + 1]
  <2>1. CASE k < p - 1
    <3>1. k \in 0 .. n /\ k # n /\ k # p /\ ~(k > p) /\ k + 1 \in 1 .. n /\ k + 1 < p
          /\ p - 1 \in 0 .. n
      BY <1>1, <1>5, <2>1
    <3>2. At(l, t, k) = At(l, s, k)
      BY <1>9, <3>1
    <3>3. At(l, s, k) # At(l, s, p - 1)
      BY <1>1, <1>5, <2>1, <3>1
    <3>4. g[At(l, s, k)] = f[At(l, s, k)]
      BY <1>1, <3>1, <3>3
    <3>5. f[At(l, s, k)] = s[k + 1] /\ t[k + 1] = s[k + 1]
      BY <1>2, <1>6, <3>1
    <3>6. k # n - 1
      BY <1>1, <1>5, <2>1
    <3> QED BY <3>2, <3>4, <3>5, <3>6
  <2>2. CASE k = p - 1
    <3>1. p - 1 \in 0 .. n /\ p - 1 # p /\ ~(p - 1 > p) /\ p \in 0 .. n /\ p # 0
      BY <1>1, <1>5
    <3>2. At(l, t, k) = At(l, s, p - 1)
      BY <1>9, <2>2, <3>1
    <3>3. f[s[p]] = IF p = n THEN l ELSE s[p + 1]
      BY <1>2, <3>1 DEF At
    <3>4. p # n => t[k + 1] = s[p + 1]
      BY <1>1, <1>4, <1>5, <2>2
    <3>5. p = n <=> k = n - 1
      BY <1>1, <1>5, <2>2
    <3> QED BY <3>2, <3>3, <3>4, <3>5
  <2>3. CASE k > p - 1
    <3>1. /\ k + 1 \in 0 .. n /\ k + 1 > p /\ k + 1 # p /\ (k + 1) - 1 = k /\ (k + 1) + 1 = k + 2
          /\ p - 1 \in 0 .. n /\ k + 1 # p - 1
      BY <1>1, <1>5, <2>3
    <3>2. At(l, t, k) = At(l, s, k + 1)
      BY <1>9, <3>1
    <3>3. At(l, s, k + 1) # At(l, s, p - 1)
      BY <1>1, <3>1
    <3>4. g[At(l, s, k + 1)] = f[At(l, s, k + 1)]
      BY <1>1, <3>1, <3>3
    <3>5. f[At(l, s, k + 1)] = IF k + 1 = n THEN l ELSE s[k + 2]
      BY <1>2, <3>1
    <3>6. k + 1 # n => t[k + 1] = s[k + 2]
      BY <1>1, <1>4, <1>5, <3>1
    <3>7. k + 1 = n <=> k = n - 1
      BY <1>1
    <3> QED BY <3>2, <3>4, <3>5, <3>6, <3>7
  <2>4. k < p - 1 \/ k = p - 1 \/ k > p - 1
    BY <1>1, <1>5
  <2> QED BY <2>1, <2>2, <2>3, <2>4
<1>11. Thread(l, g, S \ {s[p]}, t)
  BY <1>3, <1>4, <1>7, <1>8, <1>10 DEF Thread
<1> QED BY <1>4, <1>9, <1>11 DEF n, Shorter

\* A ring that no link of changes.
LEMMA ThreadSame ==
    ASSUME NEW l \in Lists, NEW f, NEW S, NEW s, Thread(l, f, S, s),
           NEW g, \A x \in {l} \cup S : g[x] = f[x]
    PROVE  Thread(l, g, S, s)
<1>1. \A k \in 0 .. Len(s) : At(l, s, k) \in {l} \cup S
  BY Places
<1> QED BY <1>1 DEF Thread

\* Walk and Place for any links, index and number of items.
WalkOf(l, f, n) ==
    LET at[k \in 0 .. n] == IF k = 0 THEN l ELSE f[at[k - 1]]
    IN  [k \in 1 .. n |-> at[k]]
PlaceOf(l, x, s, n) == IF x = l THEN 0 ELSE CHOOSE k \in 1 .. n : s[k] = x

LEMMA WalkFacts ==
    ASSUME NEW l \in Lists, NEW f, NEW S, NEW s, Thread(l, f, S, s)
    PROVE  WalkOf(l, f, Len(s)) = s
<1> DEFINE n == Len(s)
           at[k \in 0 .. n] == IF k = 0 THEN l ELSE f[at[k - 1]]
           found == [k \in 0 .. n |-> At(l, s, k)]
<1>1. n \in Nat /\ s \in [1 .. n -> Items]
  BY LenProperties DEF Thread
<1>2. \A k \in 1 .. n : found[k] = f[found[k - 1]] /\ found[k] = s[k]
  <2> SUFFICES ASSUME NEW k \in 1 .. n
               PROVE  found[k] = f[found[k - 1]] /\ found[k] = s[k]
    OBVIOUS
  <2>1. k - 1 \in 0 .. n /\ k - 1 # n /\ (k - 1) + 1 = k /\ k \in 0 .. n /\ k # 0
    BY <1>1
  <2>2. f[At(l, s, k - 1)] = s[(k - 1) + 1]
    BY <2>1 DEF Thread
  <2> QED BY <2>1, <2>2 DEF At
<1>3. found[0] = l
  BY <1>1 DEF At
<1>4. found = [k \in 0 .. n |-> IF k = 0 THEN l ELSE f[found[k - 1]]]
  <2> HIDE DEF found
  <2>1. \A k \in 0 .. n : found[k] = IF k = 0 THEN l ELSE f[found[k - 1]]
    BY <1>1, <1>2, <1>3
  <2>2. found = [k \in 0 .. n |-> found[k]]
    BY DEF found
  <2> QED BY <2>1, <2>2
<1>5. at = [k \in 0 .. n |-> IF k = 0 THEN l ELSE f[at[k - 1]]]
  BY <1>4
<1>6. WalkOf(l, f, n) = [k \in 1 .. n |-> at[k]]
  BY DEF WalkOf
<1> HIDE DEF at, found
<1>7. \A k \in 0 .. n : at[k] = found[k]
  <2> DEFINE Wrong == {k \in 0 .. n : at[k] # found[k]}
  <2>1. SUFFICES ASSUME Wrong # {} PROVE FALSE
    OBVIOUS
  <2>2. Wrong \in SUBSET Nat
    OBVIOUS
  <2>3. PICK k \in Wrong : \A j \in Wrong : k <= j
    BY <2>1, <2>2, Least
  <2>4. k # 0
    BY <1>1, <1>3, <1>5, <2>3
  <2>5. k \in 1 .. n /\ k - 1 \in 0 .. n /\ k - 1 \notin Wrong
    BY <1>1, <2>3, <2>4
  <2> QED BY <1>2, <1>5, <2>3, <2>4, <2>5
<1>8. \A k \in 1 .. n : at[k] = s[k]
  BY <1>1, <1>2, <1>7
<1>9. s = [k \in 1 .. n |-> s[k]]
  BY <1>1
<1> QED BY <1>6, <1>8, <1>9

LEMMA PlaceFacts ==
    ASSUME NEW l \in Lists, NEW f, NEW S, NEW s, Thread(l, f, S, s), NEW c \in 0 .. Len(s)
    PROVE  PlaceOf(l, At(l, s, c), s, Len(s)) = c
<1>1. \A j, k \in 1 .. Len(s) : s[j] = s[k] => j = k
  BY DEF Thread
<1>2. Len(s) \in Nat /\ \A k \in 1 .. Len(s) : s[k] # l
  BY Places
<1>3. CASE c = 0
  BY <1>3 DEF PlaceOf, At
<1>4. CASE c # 0
  <2>1. c \in 1 .. Len(s) /\ At(l, s, c) = s[c] /\ s[c] # l
    BY <1>2, <1>4 DEF At
  <2>2. \A k \in 1 .. Len(s) : s[k] = s[c] => k = c
    BY <1>1, <2>1
  <2>3. (CHOOSE k \in 1 .. Len(s) : s[k] = s[c]) = c
    BY <2>1, <2>2
  <2> QED BY <2>1, <2>3 DEF PlaceOf
<1> QED BY <1>3, <1>4

-----------------------------------------------------------------------------
(* The refinement                                                          *)

\* With these links, items, number and index, list l holds s and its cursor
\* is at c.
View(l, f, S, n, x, s, c) ==
    /\ Thread(l, f, S, s) /\ n = Len(s)
    /\ c \in 0 .. Len(s) /\ x = At(l, s, c)
Viewed(l, s, c) == View(l, next, On(l), num[l], index[l], s, c)

\* Every list holds a sequence.
Threaded == \A l \in Lists : \E s, c : Viewed(l, s, c)

LEMMA ViewFacts ==
    ASSUME NEW l \in Lists, NEW f, NEW S, NEW n, NEW x, NEW s, NEW c, View(l, f, S, n, x, s, c)
    PROVE  WalkOf(l, f, n) = s /\ PlaceOf(l, x, WalkOf(l, f, n), n) = c
<1>1. Thread(l, f, S, s) /\ n = Len(s) /\ c \in 0 .. Len(s) /\ x = At(l, s, c)
  BY DEF View
<1>2. WalkOf(l, f, Len(s)) = s
  BY <1>1, WalkFacts
<1>3. PlaceOf(l, At(l, s, c), s, Len(s)) = c
  BY <1>1, PlaceFacts
<1> QED BY <1>1, <1>2, <1>3

\* The refinement's ring of a list, now and after a step.
LEMMA Abstracted ==
    ASSUME NEW l \in Lists, NEW s, NEW c
    PROVE  /\ Viewed(l, s, c) => Walk(l) = s /\ Place(l) = c
           /\ Viewed(l, s, c)' => Walk(l)' = s /\ Place(l)' = c
<1>1. /\ Walk(l) = WalkOf(l, next, num[l])
      /\ Walk(l)' = WalkOf(l, next', num'[l])
  BY DEF Walk, WalkOf
<1>2. /\ Place(l) = PlaceOf(l, index[l], WalkOf(l, next, num[l]), num[l])
      /\ Place(l)' = PlaceOf(l, index'[l], WalkOf(l, next', num'[l]), num'[l])
  BY <1>1 DEF Place, PlaceOf
<1>3. ASSUME Viewed(l, s, c)
      PROVE  Walk(l) = s /\ Place(l) = c
  BY <1>1, <1>2, <1>3, ViewFacts DEF Viewed
<1>4. ASSUME Viewed(l, s, c)'
      PROVE  Walk(l)' = s /\ Place(l)' = c
  <2>1. View(l, next', On(l)', num'[l], index'[l], s, c)
    BY <1>4 DEF Viewed
  <2> QED BY <1>1, <1>2, <2>1, ViewFacts
<1> QED BY <1>3, <1>4

AsRing == [l \in Lists |-> [items |-> Walk(l), cursor |-> Place(l)]]

\* A step that leaves list m alone.
LEMMA ViewSame ==
    ASSUME NEW m \in Lists, NEW s, NEW c, Viewed(m, s, c),
           On(m)' = On(m), num'[m] = num[m], index'[m] = index[m],
           \A x \in Ring(m) : next'[x] = next[x]
    PROVE  Viewed(m, s, c)'
<1>1. Thread(m, next, On(m), s) /\ num[m] = Len(s) /\ c \in 0 .. Len(s) /\ index[m] = At(m, s, c)
  BY DEF Viewed, View
<1>2. Thread(m, next', On(m), s)
  BY <1>1, ThreadSame DEF Ring
<1> QED BY <1>1, <1>2 DEF Viewed, View

\* A step that leaves all lists but l alone is one of the ring.
LEMMA RingStep ==
    ASSUME Threaded, NEW l \in Lists, NEW s, NEW c, Viewed(l, s, c),
           NEW t, NEW d, Viewed(l, t, d)',
           \A m \in Lists \ {l} : /\ On(m)' = On(m) /\ num'[m] = num[m] /\ index'[m] = index[m]
                                  /\ \A x \in Ring(m) : next'[x] = next[x]
    PROVE  /\ Threaded'
           /\ AsRing[l] = [items |-> s, cursor |-> c]
           /\ AsRing' = [AsRing EXCEPT ![l] = [items |-> t, cursor |-> d]]
<1>1. Walk(l) = s /\ Place(l) = c /\ Walk(l)' = t /\ Place(l)' = d
  BY Abstracted
<1>2. ASSUME NEW m \in Lists \ {l}
      PROVE  \E u, e : Viewed(m, u, e) /\ Viewed(m, u, e)' /\ Walk(m)' = Walk(m) /\ Place(m)' = Place(m)
  <2>1. PICK u, e : Viewed(m, u, e)
    BY DEF Threaded
  <2>2. Viewed(m, u, e)'
    BY <2>1, ViewSame
  <2>3. Walk(m) = u /\ Place(m) = e /\ Walk(m)' = u /\ Place(m)' = e
    BY <2>1, <2>2, Abstracted
  <2> QED BY <2>1, <2>2, <2>3
<1>3. Threaded'
  <2> SUFFICES ASSUME NEW m \in Lists
               PROVE  \E u, e : Viewed(m, u, e)'
    BY DEF Threaded
  <2> QED BY <1>2
<1>4. AsRing' = [AsRing EXCEPT ![l] = [items |-> t, cursor |-> d]]
  <2>1. AsRing' = [m \in Lists |-> [items |-> Walk(m)', cursor |-> Place(m)']]
    BY DEF AsRing
  <2>2. \A m \in Lists \ {l} : Walk(m)' = Walk(m) /\ Place(m)' = Place(m)
    BY <1>2
  <2> QED BY <1>1, <2>1, <2>2 DEF AsRing
<1> QED BY <1>1, <1>3, <1>4 DEF AsRing

LEMMA NotListed ==
    ASSUME IInv, Threaded, NEW i \in Items, container[i] = NULL
    PROVE  i \notin Sequence!Listed
<1>1. ASSUME NEW l \in Lists
      PROVE  i \notin Sequence!ToSet(Walk(l))
  <2>1. PICK s, c : Viewed(l, s, c)
    BY DEF Threaded
  <2>2. Walk(l) = s /\ Thread(l, next, On(l), s)
    BY <2>1, Abstracted DEF Viewed, View
  <2>3. s \in Seq(Items) /\ On(l) = {s[k] : k \in 1 .. Len(s)}
    BY <2>2 DEF Thread
  <2>4. DOMAIN s = 1 .. Len(s)
    BY <2>3, LenProperties
  <2>5. i \notin On(l)
    BY NodesAssumption DEF On, Node
  <2> QED BY <2>2, <2>3, <2>4, <2>5 DEF Sequence!ToSet
<1> QED BY <1>1 DEF Sequence!Listed

\* What vListInsert and vListInsertEnd have in common.
LEMMA PutInRing ==
    ASSUME IInv, Threaded, NEW l \in Lists, NEW i \in Items, container[i] = NULL,
           NEW s, NEW c, Viewed(l, s, c), NEW p \in 0 .. Len(s),
           Link(i, At(l, s, p), next[At(l, s, p)]), Contain(i, l),
           UNCHANGED <<value, index>>
    PROVE  /\ Threaded' /\ AsRing[l] = [items |-> s, cursor |-> c]
           /\ Sequence!PutAfter(l, p, i)
<1> DEFINE a == At(l, s, p)
           t == Sequence!InsertAt(s, p + 1, i)
           d == IF c > p THEN c + 1 ELSE c
<1>1. /\ Thread(l, next, On(l), s) /\ num[l] = Len(s)
      /\ c \in 0 .. Len(s) /\ index[l] = At(l, s, c)
  BY DEF Viewed, View
<1>2. a \in Ring(l) /\ Len(s) \in Nat
  BY <1>1, Places DEF Ring
<1>3. /\ On(l)' = On(l) \cup {i} /\ i \notin On(l)
      /\ \A m \in Lists : m # l => On(m)' = On(m)
      /\ next'[a] = i /\ next'[i] = next[a]
      /\ \A x \in Node \ {a, i} : next'[x] = next[x]
  BY <1>2, PutIn DEF IInv
<1>4. /\ num'[l] = num[l] + 1 /\ \A m \in Lists \ {l} : num'[m] = num[m]
  BY DEF Contain, IInv, TypeOK
<1>5. \A m \in Lists : Ring(m) \subseteq Node /\ i \notin Ring(m) /\ (m # l => a \notin Ring(m))
  <2>1. \A m \in Lists : i \notin On(m) /\ i # m
    BY NodesAssumption DEF On, Node
  <2> QED BY <1>2, <2>1, RingNodes DEF Ring
<1> HIDE DEF a, t, d
<1>6. /\ Thread(l, next', On(l) \cup {i}, t) /\ Len(t) = Len(s) + 1
      /\ \A e \in 0 .. Len(s) : At(l, t, IF e > p THEN e + 1 ELSE e) = At(l, s, e)
  <2>1. \A x \in ({l} \cup On(l)) \ {a} : next'[x] = next[x]
    BY <1>3, <1>5 DEF Ring
  <2>2. a = At(l, s, p) /\ t = Sequence!InsertAt(s, p + 1, i)
    BY DEF a, t
  <2>3. Longer(l, next', On(l), s, p, i, t)
    BY <1>1, <1>3, <2>1, <2>2, ThreadInserted
  <2> QED BY <2>3 DEF Longer
<1>7. Viewed(l, t, d)'
  <2>1. d \in 0 .. Len(t) /\ At(l, t, d) = index'[l] /\ num'[l] = Len(t)
    BY <1>1, <1>2, <1>4, <1>6 DEF d
  <2> QED BY <1>3, <1>6, <2>1 DEF Viewed, View
<1>8. /\ Threaded' /\ AsRing[l] = [items |-> s, cursor |-> c]
      /\ AsRing' = [AsRing EXCEPT ![l] = [items |-> t, cursor |-> d]]
  <2>1. \A m \in Lists \ {l} : /\ On(m)' = On(m) /\ num'[m] = num[m] /\ index'[m] = index[m]
                               /\ \A x \in Ring(m) : next'[x] = next[x]
    BY <1>3, <1>4, <1>5
  <2> QED BY <1>7, <2>1, RingStep
<1>9. Sequence!PutAfter(l, p, i)
  BY <1>8 DEF Sequence!PutAfter, AsRing, t, d
<1> QED BY <1>8, <1>9

\* The loop of vListInsert stops behind the last item before the first larger.
LEMMA InsertPlace ==
    ASSUME IInv, NEW l \in Lists, NEW s, NEW c, Viewed(l, s, c), NEW i \in Items,
           NEW p \in 0 .. Len(s), \A k \in 1 .. p : value[s[k]] <= value[i],
           p # Len(s) => value[s[p + 1]] > value[i]
    PROVE  (IF value[i] = MaxDelay THEN prev[l] ELSE Iterator(l, value[i])) = At(l, s, p)
<1>1. Thread(l, next, On(l), s)
  BY DEF Viewed, View
<1>2. /\ Len(s) \in Nat
      /\ \A k \in 1 .. Len(s) : s[k] \in Items
      /\ \A k \in 0 .. Len(s) : At(l, s, k) \in Ring(l)
  BY <1>1, Places DEF Ring
<1>3. /\ \A k \in 0 .. Len(s) : next[At(l, s, k)] = IF k = Len(s) THEN l ELSE s[k + 1]
  BY <1>1 DEF Thread
<1>4. /\ TypeOK /\ OneRing(l) /\ \A x \in Ring(l) : prev[next[x]] = x
      /\ MaxDelay \in Nat /\ ValueOf(l) = MaxDelay
      /\ \A k \in Items : ValueOf(k) = value[k] /\ value[k] \in 0 .. MaxDelay
  <2>1. TypeOK /\ OneRing(l)
    BY DEF IInv, Rings
  <2>2. \A k \in Items : k \in Node
    BY DEF Node
  <2> QED BY <2>1, <2>2, Values0 DEF OneRing
<1>5. CASE value[i] = MaxDelay
  <2>1. p = Len(s)
    <3> SUFFICES ASSUME p # Len(s) PROVE FALSE
      OBVIOUS
    <3>1. p + 1 \in 1 .. Len(s) /\ value[s[p + 1]] > MaxDelay
      BY <1>2, <1>5
    <3> QED BY <1>2, <1>4, <3>1
  <2>2. next[At(l, s, p)] = l /\ At(l, s, p) \in Ring(l)
    BY <1>2, <1>3, <2>1
  <2> QED BY <1>4, <1>5, <2>2
<1>6. CASE value[i] # MaxDelay
  <2> DEFINE v == value[i]
             T == {At(l, s, k) : k \in 0 .. p}
  <2>1. v \in 0 .. MaxDelay /\ v # MaxDelay
    BY <1>4, <1>6
  <2>2. Iterator(l, v) \in Passed(l, v) /\ ValueOf(next[Iterator(l, v)]) > v
    BY <1>4, <2>1, IteratorFound
  <2>3. T \in SUBSET Ring(l) /\ l \in T
    BY <1>2 DEF At
  <2>4. ASSUME NEW y \in T, ValueOf(next[y]) <= v
        PROVE  next[y] \in T
    <3>1. PICK k \in 0 .. p : y = At(l, s, k)
      OBVIOUS
    <3>2. k \in 0 .. Len(s) /\ next[y] = IF k = Len(s) THEN l ELSE s[k + 1]
      BY <1>2, <1>3, <3>1
    <3>3. k # p
      <4> SUFFICES ASSUME k = p PROVE FALSE
        OBVIOUS
      <4>1. CASE p = Len(s)
        BY <1>4, <2>1, <2>4, <3>2, <4>1
      <4>2. CASE p # Len(s)
        <5>1. p + 1 \in 1 .. Len(s) /\ s[p + 1] \in Items /\ next[y] = s[p + 1]
          BY <1>2, <3>2, <4>2
        <5> QED BY <1>4, <2>1, <2>4, <4>2, <5>1
      <4> QED BY <4>1, <4>2
    <3>4. k + 1 \in 0 .. p /\ k # Len(s) /\ k + 1 # 0
      BY <1>2, <3>2, <3>3
    <3>5. next[y] = At(l, s, k + 1)
      BY <3>2, <3>4 DEF At
    <3> QED BY <3>4, <3>5
  <2>5. Iterator(l, v) \in T
    <3> HIDE DEF T, v
    <3> QED BY <2>2, <2>3, <2>4 DEF Passed
  <2>6. PICK k \in 0 .. p : Iterator(l, v) = At(l, s, k)
    BY <2>5
  <2>7. k = p
    <3> SUFFICES ASSUME k # p PROVE FALSE
      OBVIOUS
    <3>1. k \in 0 .. Len(s) /\ k # Len(s) /\ k + 1 \in 1 .. p /\ k + 1 \in 1 .. Len(s)
      BY <1>2
    <3>2. next[Iterator(l, v)] = s[k + 1] /\ s[k + 1] \in Items /\ value[s[k + 1]] <= v
      BY <1>2, <1>3, <2>6, <3>1
    <3> QED BY <1>4, <2>1, <2>2, <3>2
  <2> QED BY <1>6, <2>6, <2>7
<1> QED BY <1>5, <1>6

LEMMA InsertRefines ==
    ASSUME IInv, Threaded, NEW l \in Lists, NEW i \in Items, Insert(l, i)
    PROVE  Threaded' /\ Sequence!Insert(l, i)
<1>1. PICK s, c : Viewed(l, s, c)
  BY DEF Threaded
<1>2. Thread(l, next, On(l), s)
  BY <1>1 DEF Viewed, View
<1>3. Len(s) \in Nat /\ \A k \in 1 .. Len(s) : s[k] \in Items
  BY <1>2, Places
<1> DEFINE larger == {k \in 1 .. Len(s) : value[s[k]] > value[i]}
           p == IF larger = {} THEN Len(s)
                ELSE (CHOOSE k \in larger : \A j \in larger : k <= j) - 1
<1>4. \A k \in Items : value[k] \in Int
  <2>1. value \in [Items -> Values]
    BY DEF IInv, TypeOK
  <2>2. Values \subseteq Int
    BY ValuesAssumption
  <2> QED BY <2>1, <2>2
<1>5. /\ p \in 0 .. Len(s) /\ \A k \in 1 .. p : value[s[k]] <= value[i]
      /\ p # Len(s) => value[s[p + 1]] > value[i]
  <2>1. CASE larger = {}
    BY <1>3, <1>4, <2>1
  <2>2. CASE larger # {}
    <3>1. larger \in SUBSET Nat
      OBVIOUS
    <3>2. \E k \in larger : \A j \in larger : k <= j
      BY <2>2, <3>1, Least
    <3>3. PICK m \in larger : m = (CHOOSE k \in larger : \A j \in larger : k <= j) /\ \A j \in larger : m <= j
      BY <3>2
    <3>4. p = m - 1 /\ m \in 1 .. Len(s) /\ value[s[m]] > value[i]
      BY <2>2, <3>3
    <3>5. ASSUME NEW k \in 1 .. m - 1
          PROVE  k \in 1 .. Len(s) /\ k \notin larger
      <4>1. m \in 1 .. Len(s) /\ \A j \in larger : m <= j
        BY <3>3
      <4> HIDE DEF larger
      <4> QED BY <1>3, <4>1
    <3> HIDE DEF p
    <3>6. \A k \in 1 .. m - 1 : value[s[k]] <= value[i]
      BY <1>3, <1>4, <3>5
    <3> QED BY <1>3, <3>4, <3>6
  <2> QED BY <2>1, <2>2
<1>6. /\ container[i] = NULL /\ Contain(i, l) /\ UNCHANGED <<value, index>>
      /\ LET it == IF value[i] = MaxDelay THEN prev[l] ELSE Iterator(l, value[i])
         IN  Link(i, it, next[it])
  BY DEF Insert
<1> HIDE DEF p
<1>7. Link(i, At(l, s, p), next[At(l, s, p)])
  BY <1>1, <1>5, <1>6, InsertPlace
<1>8. /\ Threaded' /\ AsRing[l] = [items |-> s, cursor |-> c]
      /\ Sequence!PutAfter(l, p, i)
  BY <1>1, <1>5, <1>6, <1>7, PutInRing
<1>9. i \notin Sequence!Listed
  BY <1>6, NotListed
<1>10. Walk(l) = s
  BY <1>1, Abstracted
<1>11. Sequence!Insert(l, i)
  BY <1>6, <1>8, <1>9, <1>10 DEF Sequence!Insert, p
<1> QED BY <1>8, <1>11

LEMMA InsertEndRefines ==
    ASSUME IInv, Threaded, NEW l \in Lists, NEW i \in Items, InsertEnd(l, i)
    PROVE  Threaded' /\ Sequence!InsertEnd(l, i)
<1>1. PICK s, c : Viewed(l, s, c)
  BY DEF Threaded
<1>2. Thread(l, next, On(l), s) /\ c \in 0 .. Len(s) /\ index[l] = At(l, s, c)
  BY <1>1 DEF Viewed, View
<1>3. Len(s) \in Nat /\ \A k \in 0 .. Len(s) : At(l, s, k) \in Ring(l)
  BY <1>2, Places DEF Ring
<1> DEFINE p == IF c = 0 THEN Len(s) ELSE c - 1
<1>4. p \in 0 .. Len(s)
  BY <1>2, <1>3
<1>5. next[At(l, s, p)] = index[l]
  <2>1. next[At(l, s, p)] = IF p = Len(s) THEN l ELSE s[p + 1]
    BY <1>2, <1>4 DEF Thread
  <2>2. CASE c = 0
    BY <1>2, <2>1, <2>2 DEF At
  <2>3. CASE c # 0
    <3>1. p # Len(s) /\ p + 1 = c
      BY <1>2, <1>3, <2>3
    <3> QED BY <1>2, <2>1, <2>3, <3>1 DEF At
  <2> QED BY <2>2, <2>3
<1>6. prev[index[l]] = At(l, s, p)
  <2>1. \A x \in Ring(l) : prev[next[x]] = x
    BY DEF IInv, Rings, OneRing
  <2> QED BY <1>3, <1>4, <1>5, <2>1
<1>7. /\ container[i] = NULL /\ Contain(i, l) /\ UNCHANGED <<value, index>>
      /\ Link(i, prev[index[l]], index[l])
  BY DEF InsertEnd, LastTurn
<1> HIDE DEF p
<1>8. /\ Threaded' /\ AsRing[l] = [items |-> s, cursor |-> c]
      /\ Sequence!PutAfter(l, p, i)
  BY <1>1, <1>4, <1>5, <1>6, <1>7, PutInRing
<1>9. i \notin Sequence!Listed
  BY <1>7, NotListed
<1>10. Walk(l) = s /\ Place(l) = c
  BY <1>1, Abstracted
<1>11. Sequence!InsertEnd(l, i)
  BY <1>7, <1>8, <1>9, <1>10 DEF Sequence!InsertEnd, p
<1> QED BY <1>8, <1>11

LEMMA RemoveRefines ==
    ASSUME IInv, Threaded, NEW i \in Items, Remove(i)
    PROVE  Threaded' /\ \E l \in Lists : \E n \in 1 .. Len(AsRing[l].items) : Sequence!Unlink(l, n)
<1>1. /\ TypeOK /\ container[i] # NULL /\ value' = value
      /\ next' = [next EXCEPT ![prev[i]] = next[i]]
      /\ container' = [container EXCEPT ![i] = NULL]
  BY DEF Remove, IInv
<1>2. PICK l \in Lists : l = container[i]
  BY <1>1 DEF TypeOK
<1>3. /\ index' = [index EXCEPT ![l] = IndexWithout(l, i)]
      /\ num' = [num EXCEPT ![l] = @ - 1]
  BY <1>2 DEF Remove
<1>4. PICK s, c : Viewed(l, s, c)
  BY DEF Threaded
<1>5. /\ Thread(l, next, On(l), s) /\ num[l] = Len(s)
      /\ c \in 0 .. Len(s) /\ index[l] = At(l, s, c)
  BY <1>4 DEF Viewed, View
<1>6. /\ On(l)' = On(l) \ {i} /\ i \in On(l)
      /\ \A m \in Lists : m # l => On(m)' = On(m) /\ i \notin On(m)
  BY <1>1, <1>2, NodesAssumption DEF On, TypeOK, Node
<1>7. PICK p \in 1 .. Len(s) : s[p] = i
  BY <1>5, <1>6 DEF Thread
<1>8. /\ Len(s) \in Nat /\ \A k \in 0 .. Len(s) : At(l, s, k) \in Ring(l)
      /\ \A j, k \in 0 .. Len(s) : At(l, s, j) = At(l, s, k) => j = k
  BY <1>5, Places DEF Ring
<1>9. /\ p \in 0 .. Len(s) /\ At(l, s, p) = i
      /\ p - 1 \in 0 .. Len(s) /\ p - 1 # p /\ ~(p - 1 > p) /\ p - 1 # Len(s) /\ (p - 1) + 1 = p
  BY <1>7, <1>8 DEF At
<1>10. prev[i] = At(l, s, p - 1)
  <2>1. \A x \in Ring(l) : prev[next[x]] = x
    BY DEF IInv, Rings, OneRing
  <2>2. next[At(l, s, p - 1)] = s[(p - 1) + 1]
    BY <1>5, <1>9 DEF Thread
  <2> QED BY <1>7, <1>8, <1>9, <2>1, <2>2
<1> DEFINE t == Sequence!RemoveAt(s, p)
           d == IF c >= p THEN c - 1 ELSE c
<1>11. \A m \in Lists : Ring(m) \subseteq Node /\ (m # l => prev[i] \notin Ring(m))
  BY <1>8, <1>9, <1>10, RingNodes
<1>12. /\ next'[prev[i]] = next[i]
       /\ \A x \in Node \ {prev[i]} : next'[x] = next[x]
  BY <1>1, <1>8, <1>9, <1>10, <1>11 DEF TypeOK
<1> HIDE DEF t, d
<1>13. /\ Thread(l, next', On(l) \ {i}, t) /\ Len(t) = Len(s) - 1
       /\ \A e \in 0 .. Len(s) : e # p => At(l, t, IF e > p THEN e - 1 ELSE e) = At(l, s, e)
  <2>1. next'[prev[i]] = next[s[p]]
    BY <1>7, <1>12
  <2>2. \A x \in ({l} \cup On(l)) \ {prev[i]} : next'[x] = next[x]
    BY <1>11, <1>12 DEF Ring
  <2>3. t = Sequence!RemoveAt(s, p)
    BY DEF t
  <2>4. Shorter(l, next', On(l), s, p, t)
    BY <1>2, <1>5, <1>7, <1>10, <2>1, <2>2, <2>3, ThreadTakenOut
  <2> QED BY <1>7, <2>4 DEF Shorter
<1>14. index'[l] = IndexWithout(l, i) /\ num'[l] = num[l] - 1
       /\ \A m \in Lists \ {l} : index'[m] = index[m] /\ num'[m] = num[m]
  BY <1>1, <1>3 DEF TypeOK
<1>15. d \in 0 .. Len(t) /\ At(l, t, d) = index'[l]
  <2>1. CASE c = p
    <3>1. At(l, t, p - 1) = At(l, s, p - 1)
      BY <1>9, <1>13
    <3>2. d = p - 1 /\ index[l] = i
      BY <1>5, <1>9, <2>1 DEF d
    <3> QED BY <1>8, <1>9, <1>10, <1>13, <1>14, <3>1, <3>2 DEF IndexWithout
  <2>2. CASE c # p
    <3>1. index'[l] = At(l, s, c)
      BY <1>5, <1>8, <1>9, <1>14, <2>2 DEF IndexWithout
    <3>2. d = (IF c > p THEN c - 1 ELSE c)
      BY <1>5, <1>8, <1>9, <2>2 DEF d
    <3>3. At(l, t, d) = At(l, s, c)
      BY <1>5, <1>13, <2>2, <3>2
    <3>4. d \in 0 .. Len(t)
      BY <1>5, <1>8, <1>9, <1>13, <2>2, <3>2
    <3> QED BY <3>1, <3>3, <3>4
  <2> QED BY <2>1, <2>2
<1>16. Viewed(l, t, d)'
  BY <1>5, <1>6, <1>13, <1>14, <1>15 DEF Viewed, View
<1>17. /\ Threaded' /\ AsRing[l] = [items |-> s, cursor |-> c]
       /\ AsRing' = [AsRing EXCEPT ![l] = [items |-> t, cursor |-> d]]
  <2>1. \A m \in Lists \ {l} : /\ On(m)' = On(m) /\ num'[m] = num[m] /\ index'[m] = index[m]
                               /\ \A x \in Ring(m) : next'[x] = next[x]
    BY <1>6, <1>11, <1>12, <1>14
  <2> QED BY <1>4, <1>16, <2>1, RingStep
<1>18. Sequence!Unlink(l, p)
  BY <1>1, <1>17 DEF Sequence!Unlink, AsRing, t, d
<1> QED BY <1>7, <1>17, <1>18

LEMMA GetNextRefines ==
    ASSUME IInv, Threaded, NEW l \in Lists, GetNext(l)
    PROVE  Threaded' /\ Sequence!GetNext(l)
<1>1. PICK s, c : Viewed(l, s, c)
  BY DEF Threaded
<1>2. /\ Thread(l, next, On(l), s) /\ num[l] = Len(s)
      /\ c \in 0 .. Len(s) /\ index[l] = At(l, s, c)
  BY <1>1 DEF Viewed, View
<1>3. /\ TypeOK /\ num[l] > 0 /\ index' = [index EXCEPT ![l] = Returned(l)]
      /\ UNCHANGED <<value, next, prev, container, num>>
  BY DEF GetNext, IInv
<1>4. Len(s) \in Nat /\ \A k \in 1 .. Len(s) : s[k] # l
  BY <1>2, Places
<1> DEFINE d == IF c = Len(s) THEN 1 ELSE c + 1
<1>5. d \in 1 .. Len(s) /\ d # 0
  BY <1>2, <1>3, <1>4
<1>6. Returned(l) = At(l, s, d)
  <2>1. next[index[l]] = IF c = Len(s) THEN l ELSE s[c + 1]
    BY <1>2 DEF Thread
  <2>2. CASE c = Len(s)
    <3>1. next[At(l, s, 0)] = IF 0 = Len(s) THEN l ELSE s[0 + 1]
      BY <1>2, <1>4 DEF Thread
    <3>2. At(l, s, 0) = l /\ Len(s) # 0
      BY <1>2, <1>3 DEF At
    <3> QED BY <2>1, <2>2, <3>1, <3>2 DEF Returned, At
  <2>3. CASE c # Len(s)
    <3>1. c + 1 \in 1 .. Len(s) /\ c + 1 # 0 /\ d = c + 1
      BY <1>2, <1>4, <2>3
    <3> QED BY <1>4, <2>1, <2>3, <3>1 DEF Returned, At
  <2> QED BY <2>2, <2>3
<1> HIDE DEF d
<1>7. \A m \in Lists : On(m)' = On(m)
  BY <1>3 DEF On
<1>8. index'[l] = At(l, s, d) /\ \A m \in Lists \ {l} : index'[m] = index[m]
  BY <1>3, <1>6 DEF TypeOK
<1>9. Viewed(l, s, d)'
  <2>1. d \in 0 .. Len(s)
    BY <1>5
  <2> QED BY <1>2, <1>3, <1>7, <1>8, <2>1 DEF Viewed, View
<1>10. /\ Threaded' /\ AsRing[l] = [items |-> s, cursor |-> c]
       /\ AsRing' = [AsRing EXCEPT ![l] = [items |-> s, cursor |-> d]]
  BY <1>1, <1>3, <1>7, <1>8, <1>9, RingStep
<1>11. AsRing' = [AsRing EXCEPT ![l].cursor = IF @ = Len(AsRing[l].items) THEN 1 ELSE @ + 1]
  BY <1>10 DEF d, AsRing
<1>12. s # <<>>
  BY <1>2, <1>3
<1>13. Sequence!GetNext(l)
  BY <1>3, <1>10, <1>11, <1>12 DEF Sequence!GetNext, AsRing
<1> QED BY <1>10, <1>13

\* A step that leaves every list alone.
LEMMA StutterRefines ==
    ASSUME Threaded, UNCHANGED <<next, container, index, num>>
    PROVE  Threaded' /\ UNCHANGED AsRing
<1>1. \A l \in Lists : On(l)' = On(l)
  BY DEF On
<1>2. ASSUME NEW l \in Lists
      PROVE  \E s, c : Viewed(l, s, c)' /\ Walk(l)' = Walk(l) /\ Place(l)' = Place(l)
  <2>1. PICK s, c : Viewed(l, s, c)
    BY DEF Threaded
  <2>2. Viewed(l, s, c)'
    BY <1>1, <2>1, ViewSame
  <2>3. Walk(l) = s /\ Place(l) = c /\ Walk(l)' = s /\ Place(l)' = c
    BY <2>1, <2>2, Abstracted
  <2> QED BY <2>2, <2>3
<1>3. Threaded'
  <2> SUFFICES ASSUME NEW l \in Lists
               PROVE  \E s, c : Viewed(l, s, c)'
    BY DEF Threaded
  <2> QED BY <1>2
<1>4. AsRing' = [l \in Lists |-> [items |-> Walk(l)', cursor |-> Place(l)']]
  BY DEF AsRing
<1> QED BY <1>2, <1>3, <1>4 DEF AsRing

LEMMA InitThreaded ==
    ASSUME Init
    PROVE  /\ Threaded /\ Sequence!Init
<1>1. /\ value \in [Items -> Values] /\ next = [x \in Node |-> x]
      /\ container = [i \in Items |-> NULL]
      /\ index = [l \in Lists |-> l] /\ num = [l \in Lists |-> 0]
  BY DEF Init
<1>2. Lists \subseteq Node /\ NULL \notin Lists
  BY NodesAssumption DEF Node
<1>3. ASSUME NEW l \in Lists
      PROVE  Viewed(l, <<>>, 0)
  <2>1. On(l) = {} /\ next[l] = l /\ index[l] = l /\ num[l] = 0
    BY <1>1, <1>2 DEF On
  <2>2. <<>> \in Seq(Items) /\ Len(<<>>) = 0
    BY EmptySeq
  <2>3. Thread(l, next, On(l), <<>>)
    <3>1. \A k \in 0 .. 0 : k = 0
      OBVIOUS
    <3>2. 1 .. 0 = {}
      OBVIOUS
    <3> QED BY <2>1, <2>2, <3>1, <3>2 DEF Thread, At
  <2> QED BY <2>1, <2>2, <2>3 DEF Viewed, View, At
<1>4. Threaded
  BY <1>3 DEF Threaded
<1>5. \A l \in Lists : Walk(l) = <<>> /\ Place(l) = 0
  BY <1>3, Abstracted
<1>6. Sequence!Init
  BY <1>1, <1>5 DEF Sequence!Init
<1> QED BY <1>4, <1>6

LEMMA NextThreaded == IInv /\ Threaded /\ [Next]_vars => Threaded' /\ [Sequence!Next]_<<AsRing, value>>
<1> SUFFICES ASSUME IInv, Threaded, [Next]_vars
             PROVE  Threaded' /\ [Sequence!Next]_<<AsRing, value>>
  OBVIOUS
<1>1. ASSUME NEW i \in Items, NEW v \in Values, SetValue(i, v)
      PROVE  Threaded' /\ Sequence!Next
  <2>1. /\ container[i] = NULL /\ value' = [value EXCEPT ![i] = v]
        /\ UNCHANGED <<next, container, index, num>>
    BY <1>1 DEF SetValue
  <2>2. Threaded' /\ UNCHANGED AsRing
    BY <2>1, StutterRefines
  <2>3. i \notin Sequence!Listed
    BY <2>1, NotListed
  <2>4. Sequence!SetValue(i, v)
    BY <2>1, <2>2, <2>3 DEF Sequence!SetValue, AsRing
  <2> QED BY <2>2, <2>4 DEF Sequence!Next
<1>2. ASSUME NEW l \in Lists, NEW i \in Items, Insert(l, i)
      PROVE  Threaded' /\ Sequence!Next
  BY <1>2, InsertRefines DEF Sequence!Next
<1>3. ASSUME NEW l \in Lists, NEW i \in Items, InsertEnd(l, i)
      PROVE  Threaded' /\ Sequence!Next
  BY <1>3, InsertEndRefines DEF Sequence!Next
<1>4. ASSUME NEW i \in Items, Remove(i)
      PROVE  Threaded' /\ Sequence!Next
  <2>1. Threaded' /\ \E l \in Lists : \E n \in 1 .. Len(AsRing[l].items) : Sequence!Unlink(l, n)
    BY <1>4, RemoveRefines
  <2> QED BY <2>1 DEF Sequence!Next, AsRing
<1>5. ASSUME NEW l \in Lists, GetNext(l)
      PROVE  Threaded' /\ Sequence!Next
  BY <1>5, GetNextRefines DEF Sequence!Next
<1>6. CASE UNCHANGED vars
  <2>1. UNCHANGED <<next, container, index, num>> /\ UNCHANGED value
    BY <1>6 DEF vars
  <2> QED BY <2>1, StutterRefines
<1>7. CASE Next
  BY <1>1, <1>2, <1>3, <1>4, <1>5, <1>7 DEF Next
<1> QED BY <1>6, <1>7

\* Insertions, removals, moves and the walk act on the links as on sequences
\* with a cursor: vListInsert behind the equal values, vListInsertEnd in front
\* of the index, uxListRemove with the index falling back.
THEOREM RingImplemented == Spec => ImplementsRing
<1>1. Init => Threaded /\ Sequence!Init
  BY InitThreaded
<1>2. IInv /\ Threaded /\ [Next]_vars => Threaded'
  BY NextThreaded
<1>3. IInv /\ Threaded /\ [Next]_vars => [Sequence!Next]_<<AsRing, value>>
  BY NextThreaded
<1> QED BY <1>1, <1>2, <1>3, Invariant, PTL DEF Spec, ImplementsRing, Sequence!Spec, AsRing
=============================================================================
