--------------------------- MODULE LinklistProofs ---------------------------
(***************************************************************************)
(* Proofs about Linklist, for any number of threads, nodes and items, when *)
(* the application adds at the ends of the list only and holds the mutex   *)
(* around the rm methods, which do not take it.                            *)
(***************************************************************************)
EXTENDS Linklist, TLAPS, FiniteSetTheorems, FunctionTheorems, SequenceTheorems,
        WellFoundedInduction

\* What the application has to keep to: add_middle at an index other than 0
\* loses the item, and the rm methods leave the mutex to their caller.
KeptTo == /\ CallerLocks \/ Methods \cap Removals = {}
          /\ "add_middle" \in Methods => AddIndexes \subseteq {0}

\* A set of numbers has a least element.
LEMMA Least ==
    ASSUME NEW S \in SUBSET Nat, S # {}
    PROVE  \E m \in S : \A x \in S : m <= x
<1>1. \E m \in S : \A x \in S : ~ (<<x, m>> \in OpToRel(<, Nat))
    BY NatLessThanWellFounded, WFMin
<1>2. ASSUME NEW m \in S, NEW x \in S, ~ (<<x, m>> \in OpToRel(<, Nat))
      PROVE  m <= x
    BY <1>2 DEF OpToRel
<1> QED
    BY <1>1, <1>2

-----------------------------------------------------------------------------
(* The memory of a list                                                    *)

Words == [ins : Items \cup {Junk}, next : Nodes \cup {NULL}, prev : Nodes \cup {NULL}]

Memory == [first : Nodes \cup {NULL}, tail : Nodes \cup {NULL}, cnt : Nat,
           node : [Nodes -> Words], alive : SUBSET Nodes]

\* The nodes s are linked from first to tail, both ways, and are all there is.
Linked(l, s) ==
    /\ s \in [1 .. l.cnt -> Nodes]
    /\ \A j, k \in 1 .. l.cnt : s[j] = s[k] => j = k
    /\ l.alive = {s[k] : k \in 1 .. l.cnt}
    /\ l.first = IF l.cnt = 0 THEN NULL ELSE s[1]
    /\ l.tail = IF l.cnt = 0 THEN NULL ELSE s[l.cnt]
    /\ \A k \in 1 .. l.cnt :
          /\ l.node[s[k]].prev = IF k = 1 THEN NULL ELSE s[k - 1]
          /\ l.node[s[k]].next = IF k = l.cnt THEN NULL ELSE s[k + 1]

\* A sound list.
Sound(l) == l \in Memory /\ \E s : Linked(l, s)

\* NULL is no node, and a node is a number.
LEMMA NodeFacts ==
    /\ Nodes \subseteq Nat /\ NULL \notin Nodes /\ NULL = 0 /\ IsFiniteSet(Nodes)
    /\ Items \subseteq Nat /\ NULL \notin Items /\ Junk \notin Items
BY ListAssumption DEF NULL

\* The fields of a list.
LEMMA Fields ==
    ASSUME NEW l \in Memory
    PROVE  /\ l.first \in Nodes \cup {NULL} /\ l.tail \in Nodes \cup {NULL} /\ l.cnt \in Nat
           /\ l.node \in [Nodes -> Words] /\ l.alive \subseteq Nodes
           /\ \A n \in Nodes : /\ l.node[n].ins \in Items \cup {Junk}
                               /\ l.node[n].next \in Nodes \cup {NULL}
                               /\ l.node[n].prev \in Nodes \cup {NULL}
BY DEF Memory, Words

\* A node that omalloc gives is not in use.
LEMMA MallocFacts ==
    ASSUME NEW l \in Memory
    PROVE  Malloc(l) = NULL \/ Malloc(l) \in Nodes \ l.alive
<1>1. Nodes \ l.alive \in SUBSET Nat
    BY NodeFacts
<1>2. CASE Nodes \ l.alive # {}
    <2>1. \E n \in Nodes \ l.alive : \A m \in Nodes \ l.alive : n <= m
        BY <1>1, <1>2, Least
    <2> QED
        BY <1>2, <2>1 DEF Malloc
<1> QED
    BY <1>2 DEF Malloc

\* List m is list l but for the words of its nodes.
SameHead(l, m) ==
    /\ m \in Memory
    /\ m.first = l.first /\ m.tail = l.tail /\ m.cnt = l.cnt /\ m.alive = l.alive

\* In list m, p->next is n, and every other word is that of list l.
NextSet(l, p, n, m) ==
    /\ SameHead(l, m)
    /\ \A q \in Nodes : /\ m.node[q].ins = l.node[q].ins
                        /\ m.node[q].prev = l.node[q].prev
                        /\ m.node[q].next = IF q = p THEN n ELSE l.node[q].next

\* p->next = n changes that word and no other.
LEMMA SetNextFacts ==
    ASSUME NEW l \in Memory, NEW p \in Nodes \cup {NULL}, NEW n \in Nodes \cup {NULL}
    PROVE  NextSet(l, p, n, SetNext(l, p, n))
<1>1. CASE p = NULL
    BY <1>1, NodeFacts DEF SetNext, NextSet, SameHead
<1>2. CASE p # NULL
    <2> DEFINE w == [l.node[p] EXCEPT !.next = n]
               d == [l.node EXCEPT ![p] = w]
               m == [l EXCEPT !.node = d]
    <2>1. l.node \in [Nodes -> Words] /\ p \in Nodes
        BY <1>2, Fields
    <2>2. w \in Words /\ w.ins = l.node[p].ins /\ w.prev = l.node[p].prev /\ w.next = n
        BY <2>1 DEF Words
    <2>3. d \in [Nodes -> Words] /\ d[p] = w /\ \A q \in Nodes \ {p} : d[q] = l.node[q]
        BY <2>1, <2>2
    <2>4. m \in Memory /\ m.node = d /\ m.first = l.first /\ m.tail = l.tail
          /\ m.cnt = l.cnt /\ m.alive = l.alive
        <3> HIDE DEF d
        <3> QED
            BY <2>3 DEF Memory
    <2>5. SetNext(l, p, n) = m
        BY <1>2 DEF SetNext
    <2> HIDE DEF w, d, m
    <2> QED
        BY <2>1, <2>2, <2>3, <2>4, <2>5 DEF NextSet, SameHead
<1> QED
    BY <1>1, <1>2

\* In list m, p->prev is n, and every other word is that of list l.
PrevSet(l, p, n, m) ==
    /\ SameHead(l, m)
    /\ \A q \in Nodes : /\ m.node[q].ins = l.node[q].ins
                        /\ m.node[q].next = l.node[q].next
                        /\ m.node[q].prev = IF q = p THEN n ELSE l.node[q].prev

\* p->prev = n changes that word and no other.
LEMMA SetPrevFacts ==
    ASSUME NEW l \in Memory, NEW p \in Nodes \cup {NULL}, NEW n \in Nodes \cup {NULL}
    PROVE  PrevSet(l, p, n, SetPrev(l, p, n))
<1>1. CASE p = NULL
    BY <1>1, NodeFacts DEF SetPrev, PrevSet, SameHead
<1>2. CASE p # NULL
    <2> DEFINE w == [l.node[p] EXCEPT !.prev = n]
               d == [l.node EXCEPT ![p] = w]
               m == [l EXCEPT !.node = d]
    <2>1. l.node \in [Nodes -> Words] /\ p \in Nodes
        BY <1>2, Fields
    <2>2. w \in Words /\ w.ins = l.node[p].ins /\ w.next = l.node[p].next /\ w.prev = n
        BY <2>1 DEF Words
    <2>3. d \in [Nodes -> Words] /\ d[p] = w /\ \A q \in Nodes \ {p} : d[q] = l.node[q]
        BY <2>1, <2>2
    <2>4. m \in Memory /\ m.node = d /\ m.first = l.first /\ m.tail = l.tail
          /\ m.cnt = l.cnt /\ m.alive = l.alive
        <3> HIDE DEF d
        <3> QED
            BY <2>3 DEF Memory
    <2>5. SetPrev(l, p, n) = m
        BY <1>2 DEF SetPrev
    <2> HIDE DEF w, d, m
    <2> QED
        BY <2>1, <2>2, <2>3, <2>4, <2>5 DEF PrevSet, SameHead
<1> QED
    BY <1>1, <1>2

\* List r is list l with these words in its header.
Headed(l, f, t, c, r) ==
    /\ r \in Memory /\ r.first = f /\ r.tail = t /\ r.cnt = c
    /\ r.alive = l.alive /\ r.node = l.node

\* The words of the header are written.
LEMMA HeadFacts ==
    ASSUME NEW l \in Memory, NEW f \in Nodes \cup {NULL}, NEW t \in Nodes \cup {NULL},
           NEW c, c \in Nat
    PROVE  Headed(l, f, t, c, [l EXCEPT !.first = f, !.tail = t, !.cnt = c])
BY DEF Memory, Headed

\* List m is list l with node n in use, with these words.
Placed(l, n, x, next, prev, m) ==
    /\ m \in Memory
    /\ m.first = l.first /\ m.tail = l.tail /\ m.cnt = l.cnt
    /\ m.alive = l.alive \cup {n}
    /\ m.node[n].ins = x /\ m.node[n].next = next /\ m.node[n].prev = prev
    /\ \A q \in Nodes \ {n} : m.node[q] = l.node[q]

\* A node is put in use.
LEMMA PutFacts ==
    ASSUME NEW l \in Memory, NEW n \in Nodes, NEW x \in Items,
           NEW next \in Nodes \cup {NULL}, NEW prev \in Nodes \cup {NULL}
    PROVE  Placed(l, n, x, next, prev, Put(l, n, x, next, prev))
<1> DEFINE w == [ins |-> x, next |-> next, prev |-> prev]
           d == [l.node EXCEPT ![n] = w]
           m == Put(l, n, x, next, prev)
<1>1. l.node \in [Nodes -> Words] /\ l.alive \subseteq Nodes
    BY Fields
<1>2. w \in Words
    BY DEF Words
<1>3. d \in [Nodes -> Words] /\ d[n] = w /\ \A q \in Nodes \ {n} : d[q] = l.node[q]
    BY <1>1, <1>2
<1>4. m = [l EXCEPT !.alive = l.alive \cup {n}, !.node = d]
    BY DEF Put
<1> HIDE DEF d, m
<1>5. /\ m \in Memory /\ m.node = d /\ m.alive = l.alive \cup {n}
      /\ m.first = l.first /\ m.tail = l.tail /\ m.cnt = l.cnt
    BY <1>1, <1>3, <1>4 DEF Memory
<1> QED
    BY <1>3, <1>5 DEF m, Placed

\* List m is list l with node n given back.
Dropped(l, n, m) ==
    /\ m \in Memory
    /\ m.first = l.first /\ m.tail = l.tail /\ m.cnt = l.cnt
    /\ m.alive = l.alive \ {n}
    /\ \A q \in Nodes \ {n} : m.node[q] = l.node[q]

\* A node is given back.
LEMMA DropFacts ==
    ASSUME NEW l \in Memory, NEW n \in Nodes
    PROVE  Dropped(l, n, Drop(l, n))
<1> DEFINE d == [l.node EXCEPT ![n] = Blank]
           m == Drop(l, n)
<1>1. l.node \in [Nodes -> Words] /\ l.alive \subseteq Nodes
    BY Fields
<1>2. Blank \in Words
    BY DEF Words, Blank
<1>3. d \in [Nodes -> Words] /\ \A q \in Nodes \ {n} : d[q] = l.node[q]
    BY <1>1, <1>2
<1>4. m = [l EXCEPT !.alive = l.alive \ {n}, !.node = d]
    BY DEF Drop
<1> HIDE DEF d, m
<1>5. /\ m \in Memory /\ m.node = d /\ m.alive = l.alive \ {n}
      /\ m.first = l.first /\ m.tail = l.tail /\ m.cnt = l.cnt
    BY <1>1, <1>3, <1>4 DEF Memory
<1> QED
    BY <1>3, <1>5 DEF m, Dropped

\* Counting along next from first is counting along the nodes linked.
LEMMA NthFacts ==
    ASSUME NEW l \in Memory, NEW s, Linked(l, s), NEW k \in Nat
    PROVE  Nth(l, k) = IF k < l.cnt THEN s[k + 1] ELSE NULL
<1> DEFINE at[i \in 0 .. k] ==
               IF i = 0 THEN l.first
               ELSE IF at[i - 1] = NULL THEN NULL ELSE l.node[at[i - 1]].next
           found == [i \in 0 .. k |-> IF i < l.cnt THEN s[i + 1] ELSE NULL]
<1>1. l.cnt \in Nat
    BY Fields
<1>2. found[0] = l.first
    BY <1>1 DEF Linked
<1>3. \A i \in 1 .. k : found[i] = IF found[i - 1] = NULL THEN NULL
                                   ELSE l.node[found[i - 1]].next
    <2> SUFFICES ASSUME NEW i \in 1 .. k
                 PROVE  found[i] = IF found[i - 1] = NULL THEN NULL
                                   ELSE l.node[found[i - 1]].next
        OBVIOUS
    <2>1. CASE i - 1 < l.cnt
        <3>0. i - 1 \in 0 .. k /\ (i - 1) + 1 = i /\ i \in 1 .. l.cnt
            BY <1>1, <2>1
        <3>1. found[i - 1] = s[i] /\ s[i] \in Nodes /\ s[i] # NULL
            <4>1. s[i] \in Nodes
                BY <3>0 DEF Linked
            <4> QED
                BY <2>1, <3>0, <4>1, NodeFacts
        <3>2. l.node[s[i]].next = IF i = l.cnt THEN NULL ELSE s[i + 1]
            BY <1>1, <2>1 DEF Linked
        <3> QED
            BY <1>1, <2>1, <3>1, <3>2
    <2>2. CASE ~(i - 1 < l.cnt)
        BY <1>1, <2>2
    <2> QED
        BY <2>1, <2>2
<1>4. found = [i \in 0 .. k |->
                  IF i = 0 THEN l.first
                  ELSE IF found[i - 1] = NULL THEN NULL ELSE l.node[found[i - 1]].next]
    <2> HIDE DEF found
    <2>1. \A i \in 0 .. k :
             found[i] = IF i = 0 THEN l.first
                        ELSE IF found[i - 1] = NULL THEN NULL ELSE l.node[found[i - 1]].next
        BY <1>2, <1>3
    <2>2. found = [i \in 0 .. k |-> found[i]]
        BY DEF found
    <2> QED
        BY <2>1, <2>2
<1>5. at = [i \in 0 .. k |->
               IF i = 0 THEN l.first
               ELSE IF at[i - 1] = NULL THEN NULL ELSE l.node[at[i - 1]].next]
    BY <1>4
<1>6. Nth(l, k) = at[k]
    BY DEF Nth
<1>7. found[k] = IF k < l.cnt THEN s[k + 1] ELSE NULL
    OBVIOUS
<1> HIDE DEF at, found
<1>8. at[k] = found[k]
    <2> DEFINE Wrong == {i \in 0 .. k : at[i] # found[i]}
    <2>1. SUFFICES ASSUME Wrong # {}
                   PROVE  FALSE
        OBVIOUS
    <2>2. Wrong \in SUBSET Nat
        OBVIOUS
    <2>3. PICK i \in Wrong : \A j \in Wrong : i <= j
        BY <2>1, <2>2, Least
    <2>4. i # 0
        BY <1>2, <1>5, <2>3
    <2>5. i - 1 \in 0 .. k /\ i - 1 \notin Wrong
        BY <2>3, <2>4
    <2> QED
        BY <1>3, <1>5, <2>3, <2>4, <2>5
<1> QED
    BY <1>6, <1>7, <1>8

\* The items of a list, one for each of its nodes.
LEMMA ContentFacts ==
    ASSUME NEW l \in Memory, NEW s, Linked(l, s)
    PROVE  /\ Content(l) \in Seq(Items \cup {Junk}) /\ Len(Content(l)) = l.cnt
           /\ \A k \in 1 .. l.cnt : Content(l)[k] = l.node[s[k]].ins
<1>1. l.cnt \in Nat
    BY Fields
<1>2. ASSUME NEW k \in 1 .. l.cnt
      PROVE  Nth(l, k - 1) = s[k] /\ s[k] \in Nodes
    <2>1. k - 1 \in Nat /\ k - 1 < l.cnt /\ (k - 1) + 1 = k
        BY <1>1
    <2>2. Nth(l, k - 1) = s[(k - 1) + 1]
        BY <2>1, NthFacts
    <2> QED
        BY <2>1, <2>2 DEF Linked
<1>3. Content(l) \in [1 .. l.cnt -> Items \cup {Junk}]
    BY <1>2, Fields DEF Content
<1>4. \A k \in 1 .. l.cnt : Content(l)[k] = l.node[s[k]].ins
    BY <1>2 DEF Content
<1> HIDE DEF Content
<1>5. Content(l) \in Seq(Items \cup {Junk}) /\ Len(Content(l)) = l.cnt
    BY <1>1, <1>3, SeqDef, LenProperties
<1> QED
    BY <1>4, <1>5

-----------------------------------------------------------------------------
(* Adding at the ends                                                      *)

\* A node in use with item x, behind the tail.
Appended(l, n, x, r) ==
    /\ r \in Memory /\ n \in Nodes \ l.alive
    /\ r.cnt = l.cnt + 1 /\ r.alive = l.alive \cup {n}
    /\ r.first = (IF l.first = NULL THEN n ELSE l.first) /\ r.tail = n
    /\ r.node[n].ins = x /\ r.node[n].next = NULL /\ r.node[n].prev = l.tail
    /\ \A q \in Nodes \ {n} :
          /\ r.node[q].ins = l.node[q].ins /\ r.node[q].prev = l.node[q].prev
          /\ r.node[q].next = IF q = l.tail THEN n ELSE l.node[q].next

\* A node behind the tail makes the list one longer.
LEMMA AppendedSound ==
    ASSUME NEW l \in Memory, NEW s, Linked(l, s), NEW n, NEW x \in Items, NEW r,
           Appended(l, n, x, r)
    PROVE  Sound(r) /\ Content(r) = Append(Content(l), x)
<1> DEFINE c == l.cnt
           t == [k \in 1 .. c + 1 |-> IF k <= c THEN s[k] ELSE n]
<1>1. c \in Nat /\ r \in Memory /\ r.cnt = c + 1 /\ n \in Nodes /\ n \notin l.alive
    BY Fields DEF Appended
<1>2. /\ \A k \in 1 .. c : s[k] \in Nodes /\ s[k] \in l.alive /\ s[k] # n /\ s[k] # NULL
      /\ \A j, k \in 1 .. c : s[j] = s[k] => j = k
    BY <1>1, NodeFacts DEF Linked
<1>3. t \in [1 .. c + 1 -> Nodes] /\ t[c + 1] = n /\ \A k \in 1 .. c : t[k] = s[k]
    BY <1>1, <1>2
<1> HIDE DEF t
<1>4. \A j, k \in 1 .. c + 1 : t[j] = t[k] => j = k
    <2>1. \A k \in 1 .. c + 1 : k \in 1 .. c \/ k = c + 1
        BY <1>1
    <2> QED
        BY <1>2, <1>3, <2>1
<1>5. r.alive = {t[k] : k \in 1 .. c + 1}
    <2>1. \A k \in 1 .. c + 1 : k \in 1 .. c \/ k = c + 1
        BY <1>1
    <2>2. \A k \in 1 .. c : k \in 1 .. c + 1
        BY <1>1
    <2>3. c + 1 \in 1 .. c + 1
        BY <1>1
    <2>4. l.alive = {s[k] : k \in 1 .. c} /\ r.alive = l.alive \cup {n}
        BY DEF Linked, Appended
    <2> QED
        BY <1>3, <2>1, <2>2, <2>3, <2>4
<1>6. r.first = t[1] /\ r.tail = t[c + 1]
    BY <1>1, <1>2, <1>3 DEF Linked, Appended
<1>7. ASSUME NEW k \in 1 .. c + 1
      PROVE  /\ r.node[t[k]].prev = IF k = 1 THEN NULL ELSE t[k - 1]
             /\ r.node[t[k]].next = IF k = c + 1 THEN NULL ELSE t[k + 1]
    <2>1. CASE k = c + 1
        <3>1. l.tail = IF k = 1 THEN NULL ELSE t[k - 1]
            BY <1>1, <1>3, <2>1 DEF Linked
        <3>2. r.node[n].next = NULL /\ r.node[n].prev = l.tail
            BY DEF Appended
        <3> QED
            BY <1>3, <2>1, <3>1, <3>2
    <2>2. CASE k \in 1 .. c
        <3>1. s[k] \in Nodes \ {n} /\ t[k] = s[k]
            BY <1>2, <1>3, <2>2
        <3>2. /\ r.node[s[k]].prev = l.node[s[k]].prev
              /\ r.node[s[k]].next = IF s[k] = l.tail THEN n ELSE l.node[s[k]].next
            BY <3>1 DEF Appended
        <3>3. /\ l.node[s[k]].prev = IF k = 1 THEN NULL ELSE s[k - 1]
              /\ l.node[s[k]].next = IF k = c THEN NULL ELSE s[k + 1]
            BY <2>2 DEF Linked
        <3>4. l.tail = s[c] /\ (s[k] = s[c] <=> k = c)
            <4>1. c # 0 /\ c \in 1 .. c
                BY <1>1, <2>2
            <4>2. l.tail = s[c]
                BY <4>1 DEF Linked
            <4> QED
                BY <1>2, <2>2, <4>1, <4>2
        <3>5. (k # 1 => t[k - 1] = s[k - 1]) /\ (k # c => t[k + 1] = s[k + 1])
            BY <1>1, <1>3, <2>2
        <3> QED
            BY <1>1, <1>3, <2>2, <3>1, <3>2, <3>3, <3>4, <3>5
    <2> QED
        BY <1>1, <2>1, <2>2
<1>8. Linked(r, t)
    BY <1>1, <1>3, <1>4, <1>5, <1>6, <1>7 DEF Linked
<1>9. Sound(r)
    BY <1>1, <1>8 DEF Sound
<1>10. Content(r) = Append(Content(l), x)
    <2>1. /\ Content(l) \in Seq(Items \cup {Junk}) /\ Len(Content(l)) = c
          /\ \A k \in 1 .. c : Content(l)[k] = l.node[s[k]].ins
        BY ContentFacts
    <2>2. /\ Content(r) \in Seq(Items \cup {Junk}) /\ Len(Content(r)) = c + 1
          /\ \A k \in 1 .. c + 1 : Content(r)[k] = r.node[t[k]].ins
        BY <1>1, <1>8, ContentFacts
    <2>3. ASSUME NEW k \in 1 .. c
          PROVE  Content(r)[k] = Content(l)[k]
        <3>1. k \in 1 .. c + 1 /\ t[k] = s[k] /\ s[k] \in Nodes \ {n}
            BY <1>1, <1>2, <1>3
        <3>2. r.node[s[k]].ins = l.node[s[k]].ins
            BY <3>1 DEF Appended
        <3> QED
            BY <2>1, <2>2, <3>1, <3>2
    <2>4. Content(r)[c + 1] = x
        BY <1>1, <1>3, <2>2 DEF Appended
    <2>5. /\ Append(Content(l), x) \in Seq(Items \cup {Junk})
          /\ Len(Append(Content(l), x)) = c + 1
          /\ \A k \in 1 .. c : Append(Content(l), x)[k] = Content(l)[k]
          /\ Append(Content(l), x)[c + 1] = x
        BY <2>1, AppendProperties
    <2> HIDE DEF c
    <2>6. \A k \in 1 .. Len(Content(r)) : Content(r)[k] = Append(Content(l), x)[k]
        BY <1>1, <2>2, <2>3, <2>4, <2>5
    <2> QED
        BY <2>2, <2>5, <2>6, SeqEqual
<1> QED
    BY <1>9, <1>10

\* A node in use with item x, before the first.
Prepended(l, n, x, r) ==
    /\ r \in Memory /\ n \in Nodes \ l.alive
    /\ r.cnt = l.cnt + 1 /\ r.alive = l.alive \cup {n}
    /\ r.first = n /\ r.tail = (IF l.first = NULL THEN n ELSE l.tail)
    /\ r.node[n].ins = x /\ r.node[n].next = l.first /\ r.node[n].prev = NULL
    /\ \A q \in Nodes \ {n} :
          /\ r.node[q].ins = l.node[q].ins /\ r.node[q].next = l.node[q].next
          /\ r.node[q].prev = IF q = l.first THEN n ELSE l.node[q].prev

\* A node before the first makes the list one longer.
LEMMA PrependedSound ==
    ASSUME NEW l \in Memory, NEW s, Linked(l, s), NEW n, NEW x \in Items, NEW r,
           Prepended(l, n, x, r)
    PROVE  Sound(r) /\ Content(r) = <<x>> \o Content(l)
<1> DEFINE c == l.cnt
           t == [k \in 1 .. c + 1 |-> IF k = 1 THEN n ELSE s[k - 1]]
<1>1. c \in Nat /\ r \in Memory /\ r.cnt = c + 1 /\ n \in Nodes /\ n \notin l.alive
    BY Fields DEF Prepended
<1>2. /\ \A k \in 1 .. c : s[k] \in Nodes /\ s[k] \in l.alive /\ s[k] # n /\ s[k] # NULL
      /\ \A j, k \in 1 .. c : s[j] = s[k] => j = k
    BY <1>1, NodeFacts DEF Linked
<1>3. \A k \in 1 .. c + 1 : k = 1 \/ k - 1 \in 1 .. c
    BY <1>1
<1>4. t \in [1 .. c + 1 -> Nodes] /\ t[1] = n /\ \A k \in 1 .. c : t[k + 1] = s[k]
    <2>1. \A k \in 1 .. c : k + 1 \in 1 .. c + 1 /\ k + 1 # 1 /\ (k + 1) - 1 = k
        BY <1>1
    <2>2. 1 \in 1 .. c + 1
        BY <1>1
    <2> QED
        BY <1>1, <1>2, <1>3, <2>1, <2>2
<1>5. \A k \in 1 .. c + 1 : k # 1 => t[k] = s[k - 1]
    OBVIOUS
<1> HIDE DEF t
<1>6. \A j, k \in 1 .. c + 1 : t[j] = t[k] => j = k
    BY <1>1, <1>2, <1>3, <1>4, <1>5
<1>7. r.alive = {t[k] : k \in 1 .. c + 1}
    <2>1. \A k \in 1 .. c : k + 1 \in 1 .. c + 1
        BY <1>1
    <2>2. 1 \in 1 .. c + 1
        BY <1>1
    <2>3. l.alive = {s[k] : k \in 1 .. c} /\ r.alive = l.alive \cup {n}
        BY DEF Linked, Prepended
    <2> QED
        BY <1>3, <1>4, <1>5, <2>1, <2>2, <2>3
<1>8. r.first = t[1] /\ r.tail = t[c + 1]
    BY <1>1, <1>2, <1>4 DEF Linked, Prepended
<1>9. ASSUME NEW k \in 1 .. c + 1
      PROVE  /\ r.node[t[k]].prev = IF k = 1 THEN NULL ELSE t[k - 1]
             /\ r.node[t[k]].next = IF k = c + 1 THEN NULL ELSE t[k + 1]
    <2>1. CASE k = 1
        <3>1. l.first = IF k = c + 1 THEN NULL ELSE t[k + 1]
            BY <1>1, <1>4, <2>1 DEF Linked
        <3>2. r.node[n].next = l.first /\ r.node[n].prev = NULL
            BY DEF Prepended
        <3> QED
            BY <1>4, <2>1, <3>1, <3>2
    <2>2. CASE k # 1
        <3> DEFINE j == k - 1
        <3>0. j \in 1 .. c /\ k = j + 1 /\ t[k] = s[j]
            BY <1>3, <1>5, <2>2
        <3>1. s[j] \in Nodes \ {n}
            BY <1>2, <3>0
        <3>2. /\ r.node[s[j]].next = l.node[s[j]].next
              /\ r.node[s[j]].prev = IF s[j] = l.first THEN n ELSE l.node[s[j]].prev
            BY <3>1 DEF Prepended
        <3>3. /\ l.node[s[j]].prev = IF j = 1 THEN NULL ELSE s[j - 1]
              /\ l.node[s[j]].next = IF j = c THEN NULL ELSE s[j + 1]
            BY <3>0 DEF Linked
        <3>4. l.first = s[1] /\ (s[j] = s[1] <=> j = 1)
            <4>1. c # 0 /\ 1 \in 1 .. c
                BY <1>1, <3>0
            <4>2. l.first = s[1]
                BY <4>1 DEF Linked
            <4> QED
                BY <1>2, <3>0, <4>1, <4>2
        <3>5. (j # 1 => t[j] = s[j - 1]) /\ (j # c => t[k + 1] = s[j + 1])
            BY <1>1, <1>4, <1>5, <3>0
        <3> HIDE DEF j
        <3> QED
            BY <1>1, <1>4, <3>0, <3>2, <3>3, <3>4, <3>5
    <2> QED
        BY <2>1, <2>2
<1>10. Linked(r, t)
    BY <1>1, <1>4, <1>6, <1>7, <1>8, <1>9 DEF Linked
<1>11. Sound(r)
    BY <1>1, <1>10 DEF Sound
<1>12. Content(r) = <<x>> \o Content(l)
    <2>1. /\ Content(l) \in Seq(Items \cup {Junk}) /\ Len(Content(l)) = c
          /\ \A k \in 1 .. c : Content(l)[k] = l.node[s[k]].ins
        BY ContentFacts
    <2>2. /\ Content(r) \in Seq(Items \cup {Junk}) /\ Len(Content(r)) = c + 1
          /\ \A k \in 1 .. c + 1 : Content(r)[k] = r.node[t[k]].ins
        BY <1>1, <1>10, ContentFacts
    <2>3. ASSUME NEW k \in 1 .. c + 1, k # 1
          PROVE  Content(r)[k] = Content(l)[k - 1]
        <3>1. k - 1 \in 1 .. c /\ t[k] = s[k - 1] /\ s[k - 1] \in Nodes \ {n}
            BY <1>2, <1>3, <1>5, <2>3
        <3>2. r.node[s[k - 1]].ins = l.node[s[k - 1]].ins
            BY <3>1 DEF Prepended
        <3> QED
            BY <2>1, <2>2, <3>1, <3>2
    <2>4. Content(r)[1] = x
        BY <1>1, <1>4, <2>2 DEF Prepended
    <2>5. /\ <<x>> \in Seq(Items \cup {Junk}) /\ Len(<<x>>) = 1 /\ <<x>>[1] = x
        OBVIOUS
    <2>6. /\ <<x>> \o Content(l) \in Seq(Items \cup {Junk})
          /\ Len(<<x>> \o Content(l)) = c + 1
          /\ \A k \in 1 .. c + 1 : (<<x>> \o Content(l))[k] =
                                      IF k <= 1 THEN <<x>>[k] ELSE Content(l)[k - 1]
        BY <1>1, <2>1, <2>5, ConcatProperties
    <2> HIDE DEF c
    <2>7. \A k \in 1 .. Len(Content(r)) : Content(r)[k] = (<<x>> \o Content(l))[k]
        BY <1>1, <2>2, <2>3, <2>4, <2>5, <2>6
    <2> QED
        BY <2>2, <2>6, <2>7, SeqEqual
<1> QED
    BY <1>11, <1>12

-----------------------------------------------------------------------------
(* Removing                                                                *)

\* Node n taken off the list and given back.
Unlinked(l, n, r) ==
    /\ r \in Memory
    /\ r.cnt = l.cnt - 1 /\ r.alive = l.alive \ {n}
    /\ r.first = (IF l.first = n THEN l.node[n].next ELSE l.first)
    /\ r.tail = (IF l.tail = n THEN l.node[n].prev ELSE l.tail)
    /\ \A q \in Nodes \ {n} :
          /\ r.node[q].ins = l.node[q].ins
          /\ r.node[q].next = (IF q = l.node[n].prev THEN l.node[n].next ELSE l.node[q].next)
          /\ r.node[q].prev = (IF q = l.node[n].next THEN l.node[n].prev ELSE l.node[q].prev)

\* The sequence without its i-th element.
Without(q, i) == SubSeq(q, 1, i - 1) \o SubSeq(q, i + 1, Len(q))

LEMMA WithoutFacts ==
    ASSUME NEW S, NEW q \in Seq(S), NEW i \in 1 .. Len(q)
    PROVE  /\ Without(q, i) \in Seq(S) /\ Len(Without(q, i)) = Len(q) - 1
           /\ \A k \in 1 .. Len(q) - 1 :
                 Without(q, i)[k] = IF k < i THEN q[k] ELSE q[k + 1]
<1> DEFINE a == SubSeq(q, 1, i - 1)
           b == SubSeq(q, i + 1, Len(q))
<1>1. Len(q) \in Nat /\ i \in Int /\ \A k \in 1 .. Len(q) : q[k] \in S
    BY LenProperties, ElementOfSeq
<1>2. /\ a \in Seq(S) /\ Len(a) = i - 1
      /\ \A k \in 1 .. i - 1 : a[k] = q[k]
    <2>1. \A k \in 1 .. i - 1 : q[k] \in S
        BY <1>1
    <2>2. /\ a \in Seq(S) /\ Len(a) = (IF 1 <= i - 1 THEN (i - 1) - 1 + 1 ELSE 0)
          /\ \A k \in 1 .. (i - 1) - 1 + 1 : a[k] = q[1 + k - 1]
        BY <1>1, <2>1, SubSeqProperties
    <2> HIDE DEF a
    <2> QED
        BY <1>1, <2>2
<1>3. /\ b \in Seq(S) /\ Len(b) = Len(q) - i
      /\ \A k \in 1 .. Len(q) - i : b[k] = q[i + k]
    <2>1. \A k \in i + 1 .. Len(q) : q[k] \in S
        BY <1>1
    <2>2. /\ b \in Seq(S) /\ Len(b) = (IF i + 1 <= Len(q) THEN Len(q) - (i + 1) + 1 ELSE 0)
          /\ \A k \in 1 .. Len(q) - (i + 1) + 1 : b[k] = q[(i + 1) + k - 1]
        BY <1>1, <2>1, SubSeqProperties
    <2> HIDE DEF b
    <2> QED
        BY <1>1, <2>2
<1> HIDE DEF a, b
<1>4. /\ a \o b \in Seq(S) /\ Len(a \o b) = Len(a) + Len(b)
      /\ \A k \in 1 .. Len(a) + Len(b) :
            (a \o b)[k] = IF k <= Len(a) THEN a[k] ELSE b[k - Len(a)]
    BY <1>2, <1>3, ConcatProperties
<1>5. ASSUME NEW k \in 1 .. Len(q) - 1
      PROVE  (a \o b)[k] = IF k < i THEN q[k] ELSE q[k + 1]
    <2>1. k \in 1 .. Len(a) + Len(b)
        BY <1>1, <1>2, <1>3
    <2>2. CASE k < i
        BY <1>1, <1>2, <1>4, <2>1, <2>2
    <2>3. CASE ~(k < i)
        <3>1. k - Len(a) \in 1 .. Len(q) - i /\ i + (k - Len(a)) = k + 1
            BY <1>1, <1>2, <2>3
        <3> QED
            BY <1>1, <1>2, <1>3, <1>4, <2>1, <2>3, <3>1
    <2> QED
        BY <2>2, <2>3
<1>6. Without(q, i) = a \o b
    BY DEF Without, a, b
<1>7. Len(a \o b) = Len(q) - 1
    BY <1>1, <1>2, <1>3, <1>4
<1> QED
    BY <1>4, <1>5, <1>6, <1>7, Zenon

\* Taking the i-th node off makes the list one shorter.
LEMMA UnlinkedSound ==
    ASSUME NEW l \in Memory, NEW s, Linked(l, s), NEW i \in 1 .. l.cnt, NEW r,
           Unlinked(l, s[i], r)
    PROVE  Sound(r) /\ Content(r) = Without(Content(l), i)
<1> DEFINE c == l.cnt
           n == s[i]
           t == [k \in 1 .. c - 1 |-> IF k < i THEN s[k] ELSE s[k + 1]]
<1>1. c \in Nat /\ c > 0 /\ c - 1 \in Nat /\ i \in Nat /\ r \in Memory /\ r.cnt = c - 1
    BY Fields DEF Unlinked
<1>2. /\ \A k \in 1 .. c : s[k] \in Nodes /\ s[k] \in l.alive /\ s[k] # NULL
      /\ \A j, k \in 1 .. c : s[j] = s[k] => j = k
    BY <1>1, NodeFacts DEF Linked
<1>3. /\ l.node[n].prev = IF i = 1 THEN NULL ELSE s[i - 1]
      /\ l.node[n].next = IF i = c THEN NULL ELSE s[i + 1]
      /\ l.first = s[1] /\ l.tail = s[c]
    BY <1>1 DEF Linked
\* The place in the old list of the k-th node that is left.
<1> DEFINE at(k) == IF k < i THEN k ELSE k + 1
<1>4. \A k \in 1 .. c - 1 : at(k) \in 1 .. c /\ at(k) # i /\ t[k] = s[at(k)]
    BY <1>1
<1>5. \A j, k \in 1 .. c - 1 : at(j) = at(k) => j = k
    BY <1>1
<1>6. \A j \in 1 .. c : j # i => \E k \in 1 .. c - 1 : at(k) = j
    <2> SUFFICES ASSUME NEW j \in 1 .. c, j # i
                 PROVE  \E k \in 1 .. c - 1 : at(k) = j
        OBVIOUS
    <2>1. CASE j < i
        BY <1>1, <2>1
    <2>2. CASE j > i
        <3>1. j - 1 \in 1 .. c - 1 /\ at(j - 1) = j
            BY <1>1, <2>2
        <3> QED
            BY <3>1
    <2> QED
        BY <1>1, <2>1, <2>2
<1>7. t \in [1 .. c - 1 -> Nodes]
    BY <1>2, <1>4
<1> HIDE DEF t
<1>8. \A k \in 1 .. c - 1 : t[k] \in Nodes \ {n}
    BY <1>2, <1>4
<1>9. \A j, k \in 1 .. c - 1 : t[j] = t[k] => j = k
    BY <1>2, <1>4, <1>5
<1>10. r.alive = {t[k] : k \in 1 .. c - 1}
    <2>1. l.alive = {s[k] : k \in 1 .. c} /\ r.alive = l.alive \ {n}
        BY DEF Linked, Unlinked
    <2>2. \A j \in 1 .. c : j # i => s[j] \in {t[k] : k \in 1 .. c - 1}
        BY <1>4, <1>6
    <2>3. \A k \in 1 .. c - 1 : t[k] \in l.alive /\ t[k] # n
        BY <1>2, <1>4
    <2> HIDE DEF at
    <2> QED
        BY <2>1, <2>2, <2>3
<1>11. r.first = IF c - 1 = 0 THEN NULL ELSE t[1]
    <2>1. l.first = n <=> i = 1
        BY <1>1, <1>2, <1>3
    <2>2. r.first = IF l.first = n THEN l.node[n].next ELSE l.first
        BY DEF Unlinked
    <2>3. CASE i = 1
        <3>1. c - 1 # 0 => t[1] = s[2]
            BY <1>1, <1>4, <2>3
        <3> QED
            BY <1>1, <1>3, <2>1, <2>2, <2>3, <3>1
    <2>4. CASE i # 1
        <3>1. c - 1 # 0 /\ t[1] = s[1]
            BY <1>1, <1>4, <2>4
        <3> QED
            BY <1>3, <2>1, <2>2, <2>4, <3>1
    <2> QED
        BY <2>3, <2>4
<1>12. r.tail = IF c - 1 = 0 THEN NULL ELSE t[c - 1]
    <2>1. l.tail = n <=> i = c
        BY <1>1, <1>2, <1>3
    <2>2. r.tail = IF l.tail = n THEN l.node[n].prev ELSE l.tail
        BY DEF Unlinked
    <2>3. CASE i = c
        <3>1. c - 1 # 0 => t[c - 1] = s[c - 1]
            BY <1>1, <1>4, <2>3
        <3> QED
            BY <1>1, <1>3, <2>1, <2>2, <2>3, <3>1
    <2>4. CASE i # c
        <3>1. c - 1 # 0 /\ t[c - 1] = s[c]
            BY <1>1, <1>4, <2>4
        <3> QED
            BY <1>3, <2>1, <2>2, <2>4, <3>1
    <2> QED
        BY <2>3, <2>4
<1>13. ASSUME NEW k \in 1 .. c - 1
       PROVE  /\ r.node[t[k]].prev = IF k = 1 THEN NULL ELSE t[k - 1]
              /\ r.node[t[k]].next = IF k = c - 1 THEN NULL ELSE t[k + 1]
    <2> DEFINE j == at(k)
               q == s[j]
    <2>1. j \in 1 .. c /\ j # i /\ t[k] = q /\ q \in Nodes \ {n}
        BY <1>4, <1>8
    <2>2. /\ r.node[q].next = IF q = l.node[n].prev THEN l.node[n].next ELSE l.node[q].next
          /\ r.node[q].prev = IF q = l.node[n].next THEN l.node[n].prev ELSE l.node[q].prev
        BY <2>1 DEF Unlinked
    <2>3. /\ l.node[q].prev = IF j = 1 THEN NULL ELSE s[j - 1]
          /\ l.node[q].next = IF j = c THEN NULL ELSE s[j + 1]
        BY <2>1 DEF Linked
    <2>4. q = l.node[n].prev <=> j = i - 1
        <3>1. i # 1 => i - 1 \in 1 .. c
            BY <1>1
        <3> HIDE DEF j
        <3> QED
            BY <1>1, <1>2, <1>3, <2>1, <3>1
    <2>5. q = l.node[n].next <=> j = i + 1
        <3>1. i # c => i + 1 \in 1 .. c
            BY <1>1
        <3> HIDE DEF j
        <3> QED
            BY <1>1, <1>2, <1>3, <2>1, <3>1
    <2>6. k # c - 1 => t[k + 1] = (IF j = i - 1 THEN s[i + 1] ELSE s[j + 1])
        <3>1. k # c - 1 => k + 1 \in 1 .. c - 1
            BY <1>1
        <3> QED
            BY <1>1, <1>4, <3>1
    <2>7. k # 1 => t[k - 1] = (IF j = i + 1 THEN s[i - 1] ELSE s[j - 1])
        <3>1. k # 1 => k - 1 \in 1 .. c - 1
            BY <1>1
        <3> QED
            BY <1>1, <1>4, <3>1
    <2>8. k = c - 1 <=> (IF j = i - 1 THEN i = c ELSE j = c)
        BY <1>1
    <2>9. k = 1 <=> (IF j = i + 1 THEN i = 1 ELSE j = 1)
        BY <1>1
    <2> HIDE DEF j, q
    <2>10. r.node[q].next = IF k = c - 1 THEN NULL ELSE t[k + 1]
        BY <1>3, <2>2, <2>3, <2>4, <2>6, <2>8
    <2>11. r.node[q].prev = IF k = 1 THEN NULL ELSE t[k - 1]
        BY <1>3, <2>2, <2>3, <2>5, <2>7, <2>9
    <2> QED
        BY <2>1, <2>10, <2>11
<1>14. Linked(r, t)
    BY <1>1, <1>7, <1>9, <1>10, <1>11, <1>12, <1>13 DEF Linked
<1>15. Sound(r)
    BY <1>1, <1>14 DEF Sound
<1>16. Content(r) = Without(Content(l), i)
    <2>1. /\ Content(l) \in Seq(Items \cup {Junk}) /\ Len(Content(l)) = c
          /\ \A k \in 1 .. c : Content(l)[k] = l.node[s[k]].ins
        BY ContentFacts
    <2>2. /\ Content(r) \in Seq(Items \cup {Junk}) /\ Len(Content(r)) = c - 1
          /\ \A k \in 1 .. c - 1 : Content(r)[k] = r.node[t[k]].ins
        BY <1>1, <1>14, ContentFacts
    <2>3. ASSUME NEW k \in 1 .. c - 1
          PROVE  Content(r)[k] = IF k < i THEN Content(l)[k] ELSE Content(l)[k + 1]
        <3>1. at(k) \in 1 .. c /\ t[k] = s[at(k)] /\ t[k] \in Nodes \ {n}
            BY <1>4, <1>8
        <3>2. r.node[t[k]].ins = l.node[t[k]].ins
            BY <3>1 DEF Unlinked
        <3>3. Content(r)[k] = Content(l)[at(k)]
            BY <2>1, <2>2, <3>1, <3>2
        <3> QED
            BY <3>3
    <2>4. /\ Without(Content(l), i) \in Seq(Items \cup {Junk})
          /\ Len(Without(Content(l), i)) = c - 1
          /\ \A k \in 1 .. c - 1 : Without(Content(l), i)[k] =
                                      IF k < i THEN Content(l)[k] ELSE Content(l)[k + 1]
        <3> DEFINE C == Content(l)
        <3>1. C \in Seq(Items \cup {Junk}) /\ Len(C) = c /\ i \in 1 .. Len(C)
            BY <2>1
        <3> HIDE DEF C, c
        <3>2. /\ Without(C, i) \in Seq(Items \cup {Junk}) /\ Len(Without(C, i)) = Len(C) - 1
              /\ \A k \in 1 .. Len(C) - 1 :
                    Without(C, i)[k] = IF k < i THEN C[k] ELSE C[k + 1]
            BY <3>1, WithoutFacts
        <3> QED
            BY <3>1, <3>2 DEF C
    <2>5. \A k \in 1 .. Len(Content(r)) : Content(r)[k] = Without(Content(l), i)[k]
        BY <2>2, <2>3, <2>4
    <2> QED
        BY <2>2, <2>4, <2>5, SeqEqual
<1> QED
    BY <1>15, <1>16

-----------------------------------------------------------------------------
(* The list functions                                                      *)

\* A list is empty when first is NULL, when tail is, and when cnt is 0.
LEMMA EmptyFacts ==
    ASSUME NEW l \in Memory, NEW s, Linked(l, s)
    PROVE  /\ l.first = NULL <=> l.cnt = 0
           /\ l.tail = NULL <=> l.cnt = 0
<1>1. l.cnt \in Nat
    BY Fields
<1>2. l.cnt # 0 => s[1] \in Nodes /\ s[l.cnt] \in Nodes
    BY <1>1 DEF Linked
<1> QED
    BY <1>2, NodeFacts DEF Linked

\* How many nodes there is memory for.
Room == Cardinality(Nodes)

\* A list has no more nodes than there is memory for, and omalloc fails when it
\* has that many.
LEMMA CntBounded ==
    ASSUME NEW l, Sound(l)
    PROVE  /\ l.cnt \in 0 .. Room /\ Room \in Nat
           /\ Malloc(l) = NULL <=> l.cnt = Room
<1>1. PICK s : Linked(l, s)
    BY DEF Sound
<1>2. l \in Memory /\ l.cnt \in Nat /\ l.alive \in SUBSET Nodes
    BY Fields DEF Sound
<1>3. s \in Bijection(1 .. l.cnt, l.alive)
    BY <1>1 DEF Linked, Bijection, Injection, IsInjective, Surjection
<1>4. IsFiniteSet(1 .. l.cnt) /\ Cardinality(1 .. l.cnt) = l.cnt
    <2>1. 1 \in Int /\ l.cnt \in Int
        BY <1>2
    <2>2. /\ IsFiniteSet(1 .. l.cnt)
          /\ Cardinality(1 .. l.cnt) = IF 1 > l.cnt THEN 0 ELSE l.cnt - 1 + 1
        BY <2>1, FS_Interval
    <2> QED
        BY <1>2, <2>2
<1>5. Cardinality(l.alive) = l.cnt
    <2>1. ExistsBijection(1 .. l.cnt, l.alive)
        BY <1>3 DEF ExistsBijection
    <2> QED
        BY <1>4, <2>1, FS_Bijection
<1>6. Room \in Nat /\ l.cnt <= Room /\ (l.cnt = Room => l.alive = Nodes)
    <2>1. Room \in Nat
        BY NodeFacts, FS_CardinalityType DEF Room
    <2>2. Cardinality(l.alive) <= Room /\ (Room = Cardinality(l.alive) => Nodes = l.alive)
        BY <1>2, NodeFacts, FS_Subset DEF Room
    <2> QED
        BY <1>5, <2>1, <2>2
<1>7. Malloc(l) = NULL <=> l.alive = Nodes
    <2>1. CASE Nodes \ l.alive = {}
        BY <1>2, <2>1 DEF Malloc
    <2>2. CASE Nodes \ l.alive # {}
        <3>1. Nodes \ l.alive \in SUBSET Nat
            BY NodeFacts
        <3>2. \E n \in Nodes \ l.alive : \A m \in Nodes \ l.alive : n <= m
            BY <2>2, <3>1, Least
        <3>3. Malloc(l) \in Nodes
            BY <2>2, <3>2 DEF Malloc
        <3> QED
            BY <2>2, <3>3, NodeFacts
    <2> QED
        BY <2>1, <2>2
<1>8. l.alive = Nodes => l.cnt = Room
    BY <1>5 DEF Room
<1> QED
    BY <1>2, <1>6, <1>7, <1>8

\* What a function made of list l, said of the sequence of its items: the item
\* put first; the item put last, or refused; the i-th, counted from 0, taken
\* off, or nothing; an answer and nothing else.
Prepends(l, b, x) ==
    /\ Len(Content(l)) < Room
    /\ Content(b.list) = <<x>> \o Content(l) /\ b.ret = 0
Appends(l, b, x) ==
    \/ /\ Len(Content(l)) < Room
       /\ Content(b.list) = Append(Content(l), x) /\ b.ret = Len(Content(l))
    \/ Len(Content(l)) = Room /\ b.list = l /\ b.ret = -1
Removes(l, b, i) ==
    \/ /\ i \in 0 .. Len(Content(l)) - 1
       /\ Content(b.list) = Without(Content(l), i + 1) /\ b.ret = 0
    \/ /\ i \notin 0 .. Len(Content(l)) - 1
       /\ b.list = l /\ b.ret = IF i > 0 THEN -1 ELSE 0
Gives(l, b, r) == b.list = l /\ b.ret = r

\* The item at index i, and the index that call c is about.
ItemAt(l, i) == IF i \in 0 .. Len(Content(l)) - 1 THEN Content(l)[i + 1] ELSE NULL
Spot(c, l) == IF c.method \in {"get_first", "rm_first"} THEN 0
              ELSE IF c.method \in {"get_end", "rm_end"} THEN Len(Content(l)) - 1
              ELSE c.idx

\* What call c made of list l is what the deque's operation would.
Acts(c, l, b) ==
    \/ c.method \in {"add_first", "add_middle"} /\ Prepends(l, b, c.item)
    \/ c.method = "add_end" /\ Appends(l, b, c.item)
    \/ c.method \in {"get_first", "get_end", "get_middle"} /\ Gives(l, b, ItemAt(l, Spot(c, l)))
    \/ c.method \in {"rm_first", "rm_end", "rm_middle"} /\ Removes(l, b, Spot(c, l))
    \/ c.method = "len" /\ Gives(l, b, Len(Content(l)))
    \/ c.method = "destroy" /\ Len(Content(l)) # 0 /\ Gives(l, b, -1)

\* A call keeps a list sound and acts on it as a deque.
Keeps(c, l, b) == Sound(b.list) /\ Acts(c, l, b)

\* list_insert_tail: refused, or the item at the end.
LEMMA InsertTailOK ==
    ASSUME NEW l, Sound(l), NEW x \in Items
    PROVE  Sound(InsertTail(l, x).list) /\ Appends(l, InsertTail(l, x), x)
<1>1. l \in Memory
    BY DEF Sound
<1>2. PICK s : Linked(l, s)
    BY DEF Sound
<1> DEFINE n == Malloc(l)
           p == IF l.first = NULL THEN NULL ELSE l.tail
           u == Put(l, n, x, NULL, p)
           m == SetNext(u, p, n)
           f == IF m.first = NULL THEN n ELSE m.first
           r == [m EXCEPT !.first = f, !.tail = n, !.cnt = m.cnt + 1]
<1>3. InsertTail(l, x) = IF n = NULL THEN Done(l, -1) ELSE Done(r, l.cnt)
    BY DEF InsertTail
<1>4. CASE n = NULL
    <2>1. InsertTail(l, x).list = l /\ InsertTail(l, x).ret = -1
        BY <1>3, <1>4 DEF Done
    <2>2. Len(Content(l)) = Room
        BY <1>1, <1>2, <1>4, ContentFacts, CntBounded
    <2> QED
        BY <2>1, <2>2 DEF Appends
<1>5. CASE n # NULL
    <2>1. n \in Nodes \ l.alive
        BY <1>1, <1>5, MallocFacts
    <2>2. p = l.tail /\ p \in Nodes \cup {NULL}
        BY <1>1, <1>2, EmptyFacts, Fields
    <2>3. p # n
        BY <1>1, <1>2, <2>1, <2>2, Fields, NodeFacts DEF Linked
    <2> HIDE DEF n, p
    <2>4. /\ u \in Memory /\ u.first = l.first /\ u.tail = l.tail /\ u.cnt = l.cnt
          /\ u.alive = l.alive \cup {n}
          /\ u.node[n].ins = x /\ u.node[n].next = NULL /\ u.node[n].prev = p
          /\ \A q \in Nodes \ {n} : u.node[q] = l.node[q]
        <3>1. n \in Nodes /\ NULL \in Nodes \cup {NULL}
            BY <2>1
        <3>2. Placed(l, n, x, NULL, p, u)
            BY <1>1, <2>2, <3>1, PutFacts
        <3> QED
            BY <3>2 DEF Placed
    <2> HIDE DEF u
    <2>5. /\ SameHead(u, m)
          /\ \A q \in Nodes : /\ m.node[q].ins = u.node[q].ins
                              /\ m.node[q].prev = u.node[q].prev
                              /\ m.node[q].next = IF q = p THEN n ELSE u.node[q].next
        <3>1. n \in Nodes \cup {NULL}
            BY <2>1
        <3>2. NextSet(u, p, n, m)
            BY <2>2, <2>4, <3>1, SetNextFacts
        <3> QED
            BY <3>2 DEF NextSet
    <2> HIDE DEF m
    <2>6. /\ m \in Memory /\ m.first = l.first /\ m.tail = l.tail /\ m.cnt = l.cnt
          /\ m.alive = l.alive \cup {n} /\ m.cnt \in Nat
        BY <2>4, <2>5, Fields DEF SameHead
    <2>7. f = (IF l.first = NULL THEN n ELSE l.first) /\ f \in Nodes \cup {NULL}
        BY <1>1, <2>1, <2>6, Fields
    <2> HIDE DEF f
    <2>8. /\ r \in Memory /\ r.first = f /\ r.tail = n /\ r.cnt = l.cnt + 1
          /\ r.alive = l.alive \cup {n} /\ r.node = m.node
        <3>1. n \in Nodes \cup {NULL} /\ m.cnt + 1 \in Nat
            BY <2>1, <2>6
        <3>2. r = [m EXCEPT !.first = f, !.tail = n, !.cnt = m.cnt + 1]
            OBVIOUS
        <3>3. Headed(m, f, n, m.cnt + 1, r)
            BY <2>6, <2>7, <3>1, <3>2, HeadFacts
        <3> HIDE DEF r
        <3> QED
            BY <2>6, <3>3 DEF Headed
    <2> HIDE DEF r
    <2>9. Appended(l, n, x, r)
        BY <2>1, <2>2, <2>3, <2>4, <2>5, <2>7, <2>8 DEF Appended
    <2>10. Sound(r) /\ Content(r) = Append(Content(l), x)
        BY <1>1, <1>2, <2>9, AppendedSound
    <2>11. Len(Content(l)) = l.cnt /\ Len(Content(l)) < Room
        <3>1. l.cnt # Room
            BY <1>5, CntBounded DEF n
        <3> QED
            BY <1>1, <1>2, <3>1, ContentFacts, CntBounded
    <2>12. InsertTail(l, x).list = r /\ InsertTail(l, x).ret = l.cnt
        BY <1>3, <1>5 DEF Done, n
    <2> QED
        BY <2>10, <2>11, <2>12 DEF Appends
<1> QED
    BY <1>4, <1>5

\* list_insert_first, which uses what omalloc gives without a test: NULL
\* dereferenced, or the item before all others.
LEMMA InsertFirstOK ==
    ASSUME NEW l, Sound(l), NEW x \in Items
    PROVE  \/ InsertFirst(l, x).crash
           \/ Sound(InsertFirst(l, x).list) /\ Prepends(l, InsertFirst(l, x), x)
<1>1. l \in Memory
    BY DEF Sound
<1>2. PICK s : Linked(l, s)
    BY DEF Sound
<1> DEFINE n == Malloc(l)
           p == l.first
           u == Put(l, n, x, p, NULL)
           m == SetPrev(u, p, n)
           f == IF l.first = NULL THEN n ELSE m.tail
           r == [m EXCEPT !.tail = f, !.first = n, !.cnt = m.cnt + 1]
<1>3. InsertFirst(l, x) = IF n = NULL THEN Crash(l) ELSE Done(r, 0)
    BY DEF InsertFirst
<1>4. CASE n = NULL
    BY <1>3, <1>4 DEF Crash
<1>5. CASE n # NULL
    <2>1. n \in Nodes \ l.alive
        BY <1>1, <1>5, MallocFacts
    <2>2. p = l.first /\ p \in Nodes \cup {NULL}
        BY <1>1, Fields
    <2>3. p # n
        BY <1>1, <1>2, <2>1, <2>2, Fields, NodeFacts DEF Linked
    <2> HIDE DEF n, p
    <2>4. /\ u \in Memory /\ u.first = l.first /\ u.tail = l.tail /\ u.cnt = l.cnt
          /\ u.alive = l.alive \cup {n}
          /\ u.node[n].ins = x /\ u.node[n].next = p /\ u.node[n].prev = NULL
          /\ \A q \in Nodes \ {n} : u.node[q] = l.node[q]
        <3>1. n \in Nodes /\ NULL \in Nodes \cup {NULL}
            BY <2>1
        <3>2. Placed(l, n, x, p, NULL, u)
            BY <1>1, <2>2, <3>1, PutFacts
        <3> QED
            BY <3>2 DEF Placed
    <2> HIDE DEF u
    <2>5. /\ SameHead(u, m)
          /\ \A q \in Nodes : /\ m.node[q].ins = u.node[q].ins
                              /\ m.node[q].next = u.node[q].next
                              /\ m.node[q].prev = IF q = p THEN n ELSE u.node[q].prev
        <3>1. n \in Nodes \cup {NULL}
            BY <2>1
        <3>2. PrevSet(u, p, n, m)
            BY <2>2, <2>4, <3>1, SetPrevFacts
        <3> QED
            BY <3>2 DEF PrevSet
    <2> HIDE DEF m
    <2>6. /\ m \in Memory /\ m.first = l.first /\ m.tail = l.tail /\ m.cnt = l.cnt
          /\ m.alive = l.alive \cup {n} /\ m.cnt \in Nat
        BY <2>4, <2>5, Fields DEF SameHead
    <2>7. f = (IF l.first = NULL THEN n ELSE l.tail) /\ f \in Nodes \cup {NULL}
        BY <1>1, <2>1, <2>6, Fields
    <2> HIDE DEF f
    <2>8. /\ r \in Memory /\ r.first = n /\ r.tail = f /\ r.cnt = l.cnt + 1
          /\ r.alive = l.alive \cup {n} /\ r.node = m.node
        <3>1. n \in Nodes \cup {NULL} /\ m.cnt + 1 \in Nat
            BY <2>1, <2>6
        <3>2. r = [m EXCEPT !.first = n, !.tail = f, !.cnt = m.cnt + 1]
            BY <2>6 DEF Memory
        <3>3. Headed(m, n, f, m.cnt + 1, [m EXCEPT !.first = n, !.tail = f, !.cnt = m.cnt + 1])
            BY <2>6, <2>7, <3>1, HeadFacts
        <3> HIDE DEF r
        <3> QED
            BY <2>6, <3>2, <3>3 DEF Headed
    <2> HIDE DEF r
    <2>9. Prepended(l, n, x, r)
        BY <2>1, <2>2, <2>3, <2>4, <2>5, <2>7, <2>8 DEF Prepended
    <2>10. Sound(r) /\ Content(r) = <<x>> \o Content(l)
        BY <1>1, <1>2, <2>9, PrependedSound
    <2>11. InsertFirst(l, x).list = r /\ InsertFirst(l, x).ret = 0
        BY <1>3, <1>5 DEF Done, n
    <2>12. Len(Content(l)) < Room
        <3>1. l.cnt # Room
            BY <1>5, CntBounded DEF n
        <3> QED
            BY <1>1, <1>2, <3>1, ContentFacts, CntBounded
    <2> QED
        BY <2>10, <2>11, <2>12 DEF Prepends
<1> QED
    BY <1>4, <1>5

\* What a removal of the i-th node leaves is what the deque's would.
LEMMA UnlinkActs ==
    ASSUME NEW l \in Memory, NEW s, Linked(l, s), NEW i \in 1 .. l.cnt,
           NEW b, Unlinked(l, s[i], b.list), b.ret = 0
    PROVE  Sound(b.list) /\ Removes(l, b, i - 1)
<1>1. Sound(b.list) /\ Content(b.list) = Without(Content(l), i)
    BY UnlinkedSound
<1>2. Len(Content(l)) = l.cnt /\ l.cnt \in Nat
    BY ContentFacts, Fields
<1>3. i - 1 \in 0 .. Len(Content(l)) - 1 /\ (i - 1) + 1 = i
    BY <1>2
<1>4. Content(b.list) = Without(Content(l), (i - 1) + 1)
    BY <1>1, <1>3
<1> HIDE DEF Sound
<1> DEFINE j == i - 1
<1>5. j \in 0 .. Len(Content(l)) - 1 /\ Content(b.list) = Without(Content(l), j + 1)
    BY <1>3, <1>4
<1> HIDE DEF j
<1>6. Removes(l, b, j)
    BY <1>5 DEF Removes
<1> QED
    BY <1>1, <1>6 DEF j

\* Where the nodes of a list are, and what is at its ends.
LEMMA EndFacts ==
    ASSUME NEW l \in Memory, NEW s, Linked(l, s), l.cnt # 0
    PROVE  /\ 1 \in 1 .. l.cnt /\ l.cnt \in 1 .. l.cnt /\ l.cnt - 1 \in Nat
           /\ l.first = s[1] /\ l.tail = s[l.cnt]
           /\ l.first \in Nodes /\ l.tail \in Nodes
           /\ l.node[l.first].prev = NULL /\ l.node[l.tail].next = NULL
           /\ l.node[l.first].next \in Nodes \cup {NULL}
           /\ l.node[l.tail].prev \in Nodes \cup {NULL}
<1>1. l.cnt \in Nat
    BY Fields
<1>2. 1 \in 1 .. l.cnt /\ l.cnt \in 1 .. l.cnt /\ l.cnt - 1 \in Nat
    BY <1>1
<1>3. l.first = s[1] /\ l.tail = s[l.cnt] /\ s[1] \in Nodes /\ s[l.cnt] \in Nodes
    BY <1>2 DEF Linked
<1>4. l.node[s[1]].prev = NULL /\ l.node[s[l.cnt]].next = NULL
    BY <1>2 DEF Linked
<1> QED
    BY <1>2, <1>3, <1>4, Fields

\* list_remove_tail: nothing of an empty list, the last node of another.
LEMMA RemoveTailOK ==
    ASSUME NEW l, Sound(l)
    PROVE  Sound(RemoveTail(l).list) /\ Removes(l, RemoveTail(l), Len(Content(l)) - 1)
<1>1. l \in Memory
    BY DEF Sound
<1>2. PICK s : Linked(l, s)
    BY DEF Sound
<1> DEFINE n == l.tail
           p == l.node[n].prev
           x == l.node[n].next
           m == SetNext(l, p, x)
           f == IF m.first = n THEN x ELSE m.first
           h == [m EXCEPT !.tail = p, !.first = f, !.cnt = m.cnt - 1]
           r == Drop(h, n)
<1>3. RemoveTail(l) = IF l.tail = NULL THEN Done(l, 0) ELSE Done(r, 0)
    BY DEF RemoveTail
<1>4. CASE l.cnt = 0
    <2>1. RemoveTail(l).list = l /\ RemoveTail(l).ret = 0
        BY <1>1, <1>2, <1>3, <1>4, EmptyFacts DEF Done
    <2>2. Len(Content(l)) = 0
        BY <1>1, <1>2, <1>4, ContentFacts
    <2> QED
        BY <2>1, <2>2 DEF Removes
<1>5. CASE l.cnt # 0
    <2>1. RemoveTail(l).list = r /\ RemoveTail(l).ret = 0
        BY <1>1, <1>2, <1>3, <1>5, EmptyFacts DEF Done
    <2>2. /\ l.cnt \in 1 .. l.cnt /\ l.cnt - 1 \in Nat
          /\ n = s[l.cnt] /\ n \in Nodes /\ n # NULL
          /\ x = NULL /\ p \in Nodes \cup {NULL} /\ NULL \in Nodes \cup {NULL}
        BY <1>1, <1>2, <1>5, EndFacts, NodeFacts
    <2>3. l.first = n => l.node[n].next = NULL
        BY <2>2
    <2>4. n = l.tail /\ p = l.node[n].prev /\ x = l.node[n].next
        OBVIOUS
    <2> HIDE DEF n, p, x
    <2>5. /\ SameHead(l, m)
          /\ \A q \in Nodes : /\ m.node[q].ins = l.node[q].ins
                              /\ m.node[q].prev = l.node[q].prev
                              /\ m.node[q].next = IF q = p THEN x ELSE l.node[q].next
        <3>1. p \in Nodes \cup {NULL} /\ x \in Nodes \cup {NULL}
            BY <2>2
        <3>2. NextSet(l, p, x, m)
            BY <1>1, <3>1, SetNextFacts
        <3> QED
            BY <3>2 DEF NextSet
    <2> HIDE DEF m
    <2>6. f = (IF l.first = n THEN x ELSE l.first) /\ f \in Nodes \cup {NULL}
        BY <1>1, <2>2, <2>5, Fields DEF SameHead
    <2> HIDE DEF f
    <2>7. m \in Memory /\ m.cnt - 1 = l.cnt - 1 /\ m.cnt - 1 \in Nat /\ m.alive = l.alive
        BY <2>2, <2>5 DEF SameHead
    <2>8. Headed(m, f, p, m.cnt - 1, h)
        <3>1. Headed(m, f, p, m.cnt - 1, [m EXCEPT !.first = f, !.tail = p, !.cnt = m.cnt - 1])
            BY <2>2, <2>6, <2>7, HeadFacts
        <3>2. h = [m EXCEPT !.first = f, !.tail = p, !.cnt = m.cnt - 1]
            BY <2>7 DEF Memory
        <3> HIDE DEF h
        <3> QED
            BY <3>1, <3>2
    <2> HIDE DEF h
    <2>9. Dropped(h, n, r)
        BY <2>2, <2>8, DropFacts DEF Headed
    <2> HIDE DEF r
    <2>10. /\ r \in Memory /\ r.cnt = l.cnt - 1 /\ r.alive = l.alive \ {n}
           /\ r.first = f /\ r.tail = p
           /\ \A q \in Nodes \ {n} : r.node[q] = m.node[q]
        BY <2>7, <2>8, <2>9 DEF Headed, Dropped
    <2>11. Unlinked(l, n, r)
        BY <2>2, <2>4, <2>5, <2>6, <2>10, NodeFacts DEF Unlinked
    <2>12. Sound(RemoveTail(l).list) /\ Removes(l, RemoveTail(l), l.cnt - 1)
        BY <1>1, <1>2, <2>1, <2>2, <2>11, UnlinkActs
    <2>13. Len(Content(l)) = l.cnt
        BY <1>1, <1>2, ContentFacts
    <2> QED
        BY <2>12, <2>13
<1> QED
    BY <1>4, <1>5

\* list_remove_first: nothing of an empty list, the first node of another.
LEMMA RemoveFirstOK ==
    ASSUME NEW l, Sound(l)
    PROVE  Sound(RemoveFirst(l).list) /\ Removes(l, RemoveFirst(l), 0)
<1>1. l \in Memory
    BY DEF Sound
<1>2. PICK s : Linked(l, s)
    BY DEF Sound
<1> DEFINE n == l.first
           p == l.node[n].prev
           x == l.node[n].next
           m == SetPrev(l, x, p)
           t == IF m.tail = n THEN p ELSE m.tail
           h == [m EXCEPT !.first = x, !.tail = t, !.cnt = m.cnt - 1]
           r == Drop(h, n)
<1>3. RemoveFirst(l) = IF l.first = NULL THEN Done(l, 0) ELSE Done(r, 0)
    BY DEF RemoveFirst
<1>4. CASE l.cnt = 0
    <2>1. RemoveFirst(l).list = l /\ RemoveFirst(l).ret = 0
        BY <1>1, <1>2, <1>3, <1>4, EmptyFacts DEF Done
    <2>2. Len(Content(l)) = 0
        BY <1>1, <1>2, <1>4, ContentFacts
    <2> QED
        BY <2>1, <2>2 DEF Removes
<1>5. CASE l.cnt # 0
    <2>1. RemoveFirst(l).list = r /\ RemoveFirst(l).ret = 0
        BY <1>1, <1>2, <1>3, <1>5, EmptyFacts DEF Done
    <2>2. /\ 1 \in 1 .. l.cnt /\ l.cnt - 1 \in Nat
          /\ n = s[1] /\ n \in Nodes /\ n # NULL
          /\ p = NULL /\ x \in Nodes \cup {NULL} /\ NULL \in Nodes \cup {NULL}
        BY <1>1, <1>2, <1>5, EndFacts, NodeFacts
    <2>4. n = l.first /\ p = l.node[n].prev /\ x = l.node[n].next
        OBVIOUS
    <2> HIDE DEF n, p, x
    <2>5. /\ SameHead(l, m)
          /\ \A q \in Nodes : /\ m.node[q].ins = l.node[q].ins
                              /\ m.node[q].next = l.node[q].next
                              /\ m.node[q].prev = IF q = x THEN p ELSE l.node[q].prev
        <3>1. p \in Nodes \cup {NULL} /\ x \in Nodes \cup {NULL}
            BY <2>2
        <3>2. PrevSet(l, x, p, m)
            BY <1>1, <3>1, SetPrevFacts
        <3> QED
            BY <3>2 DEF PrevSet
    <2> HIDE DEF m
    <2>6. t = (IF l.tail = n THEN p ELSE l.tail) /\ t \in Nodes \cup {NULL}
        BY <1>1, <2>2, <2>5, Fields DEF SameHead
    <2> HIDE DEF t
    <2>7. m \in Memory /\ m.cnt - 1 = l.cnt - 1 /\ m.cnt - 1 \in Nat /\ m.alive = l.alive
        BY <2>2, <2>5 DEF SameHead
    <2>8. Headed(m, x, t, m.cnt - 1, h)
        BY <2>2, <2>6, <2>7, HeadFacts
    <2> HIDE DEF h
    <2>9. Dropped(h, n, r)
        BY <2>2, <2>8, DropFacts DEF Headed
    <2> HIDE DEF r
    <2>10. /\ r \in Memory /\ r.cnt = l.cnt - 1 /\ r.alive = l.alive \ {n}
           /\ r.first = x /\ r.tail = t
           /\ \A q \in Nodes \ {n} : r.node[q] = m.node[q]
        BY <2>7, <2>8, <2>9 DEF Headed, Dropped
    <2>11. Unlinked(l, n, r)
        BY <2>2, <2>4, <2>5, <2>6, <2>10, NodeFacts DEF Unlinked
    <2>12. Sound(RemoveFirst(l).list) /\ Removes(l, RemoveFirst(l), 1 - 1)
        BY <1>1, <1>2, <2>1, <2>2, <2>11, UnlinkActs
    <2>13. 1 - 1 = 0
        OBVIOUS
    <2> QED
        BY <2>12, <2>13
<1> QED
    BY <1>4, <1>5

\* list_remove_middle, of a node that is neither the first nor the last.
LEMMA RemoveMiddleOK ==
    ASSUME NEW l \in Memory, NEW s, Linked(l, s), NEW i \in 1 .. l.cnt, i # 1, i # l.cnt
    PROVE  /\ Sound(RemoveMiddle(l, s[i]).list)
           /\ Removes(l, RemoveMiddle(l, s[i]), i - 1)
<1> DEFINE n == s[i]
           p == l.node[n].prev
           x == l.node[n].next
           u == SetNext(l, p, x)
           m == SetPrev(u, x, p)
           h == [m EXCEPT !.cnt = m.cnt - 1]
           r == Drop(h, n)
<1>1. /\ n \in Nodes /\ p \in Nodes \cup {NULL} /\ x \in Nodes \cup {NULL}
      /\ l.cnt \in Nat /\ l.cnt - 1 \in Nat
    BY Fields DEF Linked
<1>2. l.first # n /\ l.tail # n
    <2>1. l.cnt # 0 /\ 1 \in 1 .. l.cnt /\ l.cnt \in 1 .. l.cnt
        BY <1>1
    <2>2. l.first = s[1] /\ l.tail = s[l.cnt]
        BY <2>1 DEF Linked
    <2> QED
        BY <2>1, <2>2 DEF Linked
<1>3. RemoveMiddle(l, n).list = r /\ RemoveMiddle(l, n).ret = 0
    BY DEF RemoveMiddle, Done
<1>4. p = l.node[n].prev /\ x = l.node[n].next
    OBVIOUS
<1> HIDE DEF n, p, x
<1>5. /\ SameHead(l, u)
      /\ \A q \in Nodes : /\ u.node[q].ins = l.node[q].ins
                          /\ u.node[q].prev = l.node[q].prev
                          /\ u.node[q].next = IF q = p THEN x ELSE l.node[q].next
    <2>1. p \in Nodes \cup {NULL} /\ x \in Nodes \cup {NULL}
        BY <1>1
    <2>2. NextSet(l, p, x, u)
        BY <2>1, SetNextFacts
    <2> QED
        BY <2>2 DEF NextSet
<1> HIDE DEF u
<1>6. /\ SameHead(u, m)
      /\ \A q \in Nodes : /\ m.node[q].ins = u.node[q].ins
                          /\ m.node[q].next = u.node[q].next
                          /\ m.node[q].prev = IF q = x THEN p ELSE u.node[q].prev
    <2>1. u \in Memory
        BY <1>5 DEF SameHead
    <2>2. PrevSet(u, x, p, m)
        BY <1>1, <2>1, SetPrevFacts
    <2> QED
        BY <2>2 DEF PrevSet
<1> HIDE DEF m
<1>7. /\ m \in Memory /\ m.cnt = l.cnt /\ m.alive = l.alive
      /\ m.first = l.first /\ m.tail = l.tail
    BY <1>5, <1>6 DEF SameHead
<1>8. Headed(m, m.first, m.tail, m.cnt - 1, h)
    <2>1. h = [m EXCEPT !.first = m.first, !.tail = m.tail, !.cnt = m.cnt - 1]
        BY <1>7 DEF Memory
    <2>2. m.first \in Nodes \cup {NULL} /\ m.tail \in Nodes \cup {NULL} /\ m.cnt - 1 \in Nat
        BY <1>1, <1>7, Fields
    <2>3. Headed(m, m.first, m.tail, m.cnt - 1,
                 [m EXCEPT !.first = m.first, !.tail = m.tail, !.cnt = m.cnt - 1])
        BY <1>7, <2>2, HeadFacts
    <2> HIDE DEF h
    <2> QED
        BY <2>1, <2>3
<1> HIDE DEF h
<1>9. Dropped(h, n, r)
    BY <1>1, <1>8, DropFacts DEF Headed
<1> HIDE DEF r
<1>10. /\ r \in Memory /\ r.cnt = l.cnt - 1 /\ r.alive = l.alive \ {n}
       /\ r.first = l.first /\ r.tail = l.tail
       /\ \A q \in Nodes \ {n} : r.node[q] = m.node[q]
    BY <1>7, <1>8, <1>9 DEF Headed, Dropped
<1>11. \A q \in Nodes : /\ m.node[q].ins = l.node[q].ins
                        /\ m.node[q].next = IF q = p THEN x ELSE l.node[q].next
                        /\ m.node[q].prev = IF q = x THEN p ELSE l.node[q].prev
    BY <1>5, <1>6
<1>12. Unlinked(l, n, r)
    BY <1>2, <1>4, <1>10, <1>11 DEF Unlinked
<1> QED
    BY <1>3, <1>12, UnlinkActs DEF n

\* list_remove_index: no such node, or the node at that index.
LEMMA RemoveIndexOK ==
    ASSUME NEW l, Sound(l), NEW idx \in Nat
    PROVE  Sound(RemoveIndex(l, idx).list) /\ Removes(l, RemoveIndex(l, idx), idx)
<1>1. l \in Memory
    BY DEF Sound
<1>2. PICK s : Linked(l, s)
    BY DEF Sound
<1> DEFINE n == Nth(l, idx)
           b == RemoveIndex(l, idx)
<1>3. idx \in Nat /\ l.cnt \in Nat /\ Len(Content(l)) = l.cnt
    BY <1>1, <1>2, Fields, ContentFacts
<1>4. n = IF idx < l.cnt THEN s[idx + 1] ELSE NULL
    BY <1>1, <1>2, <1>3, NthFacts
<1>5. b = CASE idx > l.cnt -> Done(l, -1)
            [] idx = 0 -> RemoveFirst(l)
            [] idx \in 1 .. l.cnt /\ n = NULL -> Done(l, -1)
            [] idx \in 1 .. l.cnt /\ n # NULL /\ n = l.tail -> RemoveTail(l)
            [] OTHER -> RemoveMiddle(l, n)
    BY DEF RemoveIndex
<1> HIDE DEF n, b
<1>6. ASSUME b = Done(l, -1), idx > 0, idx >= l.cnt
      PROVE  Sound(b.list) /\ Removes(l, b, idx)
    <2>1. b.list = l /\ b.ret = -1
        BY <1>6 DEF Done
    <2>2. idx \notin 0 .. Len(Content(l)) - 1
        BY <1>3, <1>6
    <2> QED
        BY <1>6, <2>1, <2>2 DEF Removes
<1>7. CASE idx > l.cnt
    <2>1. b = Done(l, -1)
        BY <1>3, <1>5, <1>7
    <2> QED
        BY <1>3, <1>6, <1>7, <2>1 DEF b
<1>8. CASE idx = 0
    <2>1. b = RemoveFirst(l)
        BY <1>3, <1>5, <1>8
    <2> QED
        BY <1>8, <2>1, RemoveFirstOK DEF b
<1>9. CASE idx = l.cnt /\ idx # 0
    <2>1. b = Done(l, -1)
        BY <1>3, <1>4, <1>5, <1>9
    <2> QED
        BY <1>3, <1>6, <1>9, <2>1 DEF b
<1>10. CASE idx # 0 /\ idx < l.cnt
    <2>1. idx + 1 \in 1 .. l.cnt /\ idx \in 1 .. l.cnt /\ ~(idx > l.cnt)
        BY <1>3, <1>10
    <2>2. n = s[idx + 1] /\ n \in Nodes /\ n # NULL
        BY <1>2, <1>4, <1>10, <2>1, NodeFacts DEF Linked
    <2>3. CASE n = l.tail
        <3>1. b = RemoveTail(l)
            BY <1>5, <1>10, <2>1, <2>2, <2>3
        <3>2. l.tail = s[l.cnt] /\ l.cnt \in 1 .. l.cnt
            BY <1>2, <1>3, <1>10 DEF Linked
        <3>3. idx + 1 = l.cnt
            BY <1>2, <2>1, <2>2, <2>3, <3>2 DEF Linked
        <3>4. Len(Content(l)) - 1 = idx
            BY <1>3, <3>3
        <3> QED
            BY <3>1, <3>4, RemoveTailOK DEF b
    <2>4. CASE n # l.tail
        <3>1. b = RemoveMiddle(l, s[idx + 1])
            BY <1>5, <1>10, <2>1, <2>2, <2>4
        <3>2. l.tail = s[l.cnt]
            BY <1>2, <1>3, <1>10 DEF Linked
        <3> DEFINE i == idx + 1
        <3>3. i \in 1 .. l.cnt /\ i # 1 /\ i # l.cnt /\ i - 1 = idx
            BY <1>3, <1>10, <2>1, <2>2, <2>4, <3>2
        <3> HIDE DEF i
        <3>4. /\ Sound(RemoveMiddle(l, s[i]).list)
              /\ Removes(l, RemoveMiddle(l, s[i]), i - 1)
            BY <1>1, <1>2, <3>3, RemoveMiddleOK
        <3> QED
            BY <3>1, <3>3, <3>4 DEF b, i
    <2> QED
        BY <2>3, <2>4
<1> QED
    BY <1>3, <1>7, <1>8, <1>9, <1>10 DEF b

\* The methods that only read answer with the item asked for.
LEMMA GetOK ==
    ASSUME NEW l, Sound(l)
    PROVE  /\ GetFirst(l) = ItemAt(l, 0)
           /\ GetTail(l) = ItemAt(l, Len(Content(l)) - 1)
           /\ \A i \in Nat : GetIndex(l, i) = ItemAt(l, i)
           /\ l.cnt = Len(Content(l))
<1>1. l \in Memory
    BY DEF Sound
<1>2. PICK s : Linked(l, s)
    BY DEF Sound
<1> DEFINE C == Content(l)
           Item(i) == IF i >= 0 /\ i < Len(C) THEN C[i + 1] ELSE NULL
<1>3. /\ Len(C) = l.cnt /\ l.cnt \in Nat
      /\ \A k \in 1 .. l.cnt : C[k] = l.node[s[k]].ins
    BY <1>1, <1>2, ContentFacts, Fields
<1> HIDE DEF C
<1>4. GetFirst(l) = Item(0)
    <2>1. CASE l.cnt = 0
        BY <1>3, <2>1 DEF GetFirst
    <2>2. CASE l.cnt # 0
        <3>1. l.first = s[1] /\ 1 \in 1 .. l.cnt
            BY <1>1, <1>2, <2>2, EndFacts
        <3> QED
            BY <1>3, <2>2, <3>1 DEF GetFirst
    <2> QED
        BY <2>1, <2>2
<1>5. GetTail(l) = Item(l.cnt - 1)
    <2>1. CASE l.cnt = 0
        BY <1>3, <2>1 DEF GetTail
    <2>2. CASE l.cnt # 0
        <3>1. l.tail = s[l.cnt] /\ l.cnt \in 1 .. l.cnt
            BY <1>1, <1>2, <2>2, EndFacts
        <3>2. GetTail(l) = C[l.cnt]
            BY <1>3, <2>2, <3>1 DEF GetTail
        <3> QED
            BY <1>3, <2>2, <3>2
    <2> QED
        BY <2>1, <2>2
<1>6. ASSUME NEW i \in Nat
      PROVE  GetIndex(l, i) = Item(i)
    <2>1. i \in Nat
        OBVIOUS
    <2>2. Nth(l, i) = IF i < l.cnt THEN s[i + 1] ELSE NULL
        BY <1>1, <1>2, <2>1, NthFacts
    <2>3. CASE i < l.cnt
        <3>1. i + 1 \in 1 .. l.cnt /\ s[i + 1] \in Nodes
            <4>1. i + 1 \in 1 .. l.cnt
                BY <1>3, <2>1, <2>3
            <4> QED
                BY <1>2, <4>1 DEF Linked
        <3>2. Nth(l, i) = s[i + 1] /\ Nth(l, i) # NULL
            BY <2>2, <2>3, <3>1, NodeFacts
        <3>3. C[i + 1] = l.node[s[i + 1]].ins
            BY <1>3, <3>1
        <3>4. CASE i = 0
            BY <1>3, <1>4, <2>1, <2>3, <3>4 DEF GetIndex
        <3>5. CASE i # 0
            BY <1>3, <2>1, <2>3, <3>2, <3>3, <3>5 DEF GetIndex
        <3> QED
            BY <3>4, <3>5
    <2>4. CASE ~(i < l.cnt)
        <3>1. Item(i) = NULL
            BY <1>3, <2>4
        <3>2. GetIndex(l, i) = NULL
            BY <1>3, <1>4, <2>1, <2>2, <2>4 DEF GetIndex
        <3> QED
            BY <3>1, <3>2
    <2> QED
        BY <2>3, <2>4
<1>7. \A i \in Int : Item(i) = ItemAt(l, i)
    BY <1>3 DEF ItemAt, C
<1>8. l.cnt - 1 \in Int /\ 0 \in Int
    BY <1>3
<1> HIDE DEF Item
<1> QED
    BY <1>3, <1>4, <1>5, <1>6, <1>7, <1>8 DEF C

-----------------------------------------------------------------------------
(* The methods                                                             *)

\* What the application passes, if it keeps to its side.
LEMMA CallFacts ==
    ASSUME KeptTo, NEW c \in Calls
    PROVE  /\ c.method \in Methods
           /\ c.method \in Plain \cup {"add_first", "add_end", "add_middle",
                                        "get_middle", "rm_middle"}
           /\ c.method \in {"add_first", "add_end", "add_middle"} => c.item \in Items
           /\ c.method = "add_middle" => c.idx = 0
           /\ c.method \in {"get_middle", "rm_middle"} => c.idx \in Indexes
BY DEF Calls, Arg, Plain, KeptTo

\* Every method dereferences NULL, or keeps a list sound and acts on it as the
\* deque does by that method and its arguments.
LEMMA BodyOK ==
    ASSUME KeptTo, NEW c \in Calls, NEW l, Sound(l), NEW junk
    PROVE  Body(c, l, junk).crash \/ Keeps(c, l, Body(c, l, junk))
<1> DEFINE b == Body(c, l, junk)
<1>1. CASE c.method \in {"add_first", "add_middle"}
    <2>1. b = InsertFirst(l, c.item)
        BY <1>1, CallFacts DEF Body, InsertIndex
    <2>2. b.crash \/ (Sound(b.list) /\ Prepends(l, b, c.item))
        BY <1>1, <2>1, CallFacts, InsertFirstOK
    <2> QED
        BY <1>1, <2>2 DEF Keeps, Acts
<1>2. CASE c.method = "add_end"
    <2>1. b = InsertTail(l, c.item)
        BY <1>2 DEF Body
    <2>2. Sound(b.list) /\ Appends(l, b, c.item)
        BY <1>2, <2>1, CallFacts, InsertTailOK
    <2> QED
        BY <1>2, <2>2 DEF Keeps, Acts
<1>3. CASE c.method \in {"rm_first", "rm_end", "rm_middle"}
    <2>1. Sound(b.list) /\ Removes(l, b, Spot(c, l))
        <3> HIDE DEF b
        <3>1. CASE c.method = "rm_first"
            <4>1. b = RemoveFirst(l) /\ Spot(c, l) = 0
                BY <3>1 DEF Body, Spot, b
            <4> QED
                BY <4>1, RemoveFirstOK
        <3>2. CASE c.method = "rm_end"
            <4>1. b = RemoveTail(l) /\ Spot(c, l) = Len(Content(l)) - 1
                BY <3>2 DEF Body, Spot, b
            <4> QED
                BY <4>1, RemoveTailOK
        <3>3. CASE c.method = "rm_middle"
            <4>1. b = RemoveIndex(l, c.idx) /\ Spot(c, l) = c.idx /\ c.idx \in Nat
                BY <3>3, CallFacts, ListAssumption DEF Body, Spot, b
            <4> QED
                BY <4>1, RemoveIndexOK
        <3> QED
            BY <1>3, <3>1, <3>2, <3>3
    <2> QED
        BY <1>3, <2>1 DEF Keeps, Acts
<1>4. CASE c.method \in {"get_first", "get_end", "get_middle"}
    <2>1. b.list = l /\ b.ret = ItemAt(l, Spot(c, l))
        <3>1. CASE c.method = "get_first"
            <4>1. b = Done(l, GetFirst(l)) /\ Spot(c, l) = 0
                BY <3>1 DEF Body, Spot
            <4> QED
                BY <4>1, GetOK DEF Done
        <3>2. CASE c.method = "get_end"
            <4>1. b = Done(l, GetTail(l)) /\ Spot(c, l) = Len(Content(l)) - 1
                BY <3>2 DEF Body, Spot
            <4> QED
                BY <4>1, GetOK DEF Done
        <3>3. CASE c.method = "get_middle"
            <4>1. b = Done(l, GetIndex(l, c.idx)) /\ Spot(c, l) = c.idx /\ c.idx \in Nat
                BY <3>3, CallFacts, ListAssumption DEF Body, Spot
            <4> QED
                BY <4>1, GetOK DEF Done
        <3> QED
            BY <1>4, <3>1, <3>2, <3>3
    <2> QED
        BY <1>4, <2>1 DEF Keeps, Acts, Gives
<1>5. CASE c.method = "len"
    <2>1. b = Done(l, l.cnt)
        BY <1>5 DEF Body
    <2>2. b.list = l /\ b.ret = Len(Content(l))
        BY <2>1, GetOK DEF Done
    <2> QED
        BY <1>5, <2>2 DEF Keeps, Acts, Gives
<1>6. CASE c.method = "destroy"
    <2>1. b = IF l.cnt # 0 THEN Done(l, -1) ELSE Crash(l)
        BY <1>6 DEF Body
    <2>2. CASE l.cnt # 0
        <3>1. b.list = l /\ b.ret = -1 /\ Len(Content(l)) # 0
            BY <2>1, <2>2, GetOK DEF Done
        <3> QED
            BY <1>6, <3>1 DEF Keeps, Acts, Gives
    <2>3. CASE l.cnt = 0
        BY <2>1, <2>3 DEF Crash
    <2> QED
        BY <2>2, <2>3
<1> QED
    BY <1>1, <1>2, <1>3, <1>4, <1>5, <1>6, CallFacts DEF Plain

\* A thread that writes all that it has changed, with nobody else about, leaves
\* the list as it has made it.
LEMMA WrittenFacts ==
    ASSUME NEW old \in Memory, NEW new \in Memory
    PROVE  Written(old, old, new) = new
<1> DEFINE words == {"ins", "next", "prev"}
           d == [n \in Nodes |-> [w \in words |-> IF new.node[n][w] # old.node[n][w]
                                                  THEN new.node[n][w] ELSE old.node[n][w]]]
           live == (old.alive \ (old.alive \ new.alive)) \cup (new.alive \ old.alive)
           f == IF new.first # old.first THEN new.first ELSE old.first
           t == IF new.tail # old.tail THEN new.tail ELSE old.tail
           c == IF new.cnt # old.cnt THEN new.cnt ELSE old.cnt
<1>1. Written(old, old, new) = [first |-> f, tail |-> t, cnt |-> c, node |-> d, alive |-> live]
    BY DEF Written
<1>2. f = new.first /\ t = new.tail /\ c = new.cnt
    OBVIOUS
<1>3. live = new.alive
    OBVIOUS
<1>4. d = new.node
    <2>1. new.node \in [Nodes -> Words]
        BY Fields
    <2>2. ASSUME NEW n \in Nodes
          PROVE  [w \in words |-> new.node[n][w]] = new.node[n]
        BY <2>1 DEF Words
    <2>3. d = [n \in Nodes |-> [w \in words |-> new.node[n][w]]]
        OBVIOUS
    <2> HIDE DEF d, words
    <2> QED
        BY <2>1, <2>2, <2>3
<1> HIDE DEF f, t, c, d, live
<1>5. new = [first |-> new.first, tail |-> new.tail, cnt |-> new.cnt,
             node |-> new.node, alive |-> new.alive]
    BY DEF Memory
<1> QED
    BY <1>1, <1>2, <1>3, <1>4, <1>5

\* What a method can answer.
Answers == (-1 .. Room) \cup Items \cup {Junk}

LEMMA AnswerFacts ==
    ASSUME NEW l, Sound(l), NEW c, NEW b, Acts(c, l, b)
    PROVE  b.ret \in Answers
<1>1. PICK s : Linked(l, s)
    BY DEF Sound
<1>2. /\ Content(l) \in Seq(Items \cup {Junk}) /\ Len(Content(l)) = l.cnt
      /\ l.cnt \in 0 .. Room /\ Room \in Nat
    BY <1>1, ContentFacts, CntBounded DEF Sound
<1>3. 0 \in Answers /\ -1 \in Answers /\ Len(Content(l)) \in Answers /\ NULL \in Answers
    BY <1>2 DEF Answers, NULL
<1>4. ASSUME NEW i
      PROVE  ItemAt(l, i) \in Answers
    <2>1. CASE i \in 0 .. Len(Content(l)) - 1
        <3>1. i + 1 \in 1 .. Len(Content(l))
            BY <1>2, <2>1
        <3>2. Content(l)[i + 1] \in Items \cup {Junk}
            BY <1>2, <3>1, ElementOfSeq
        <3> QED
            BY <2>1, <3>2 DEF Answers, ItemAt
    <2>2. CASE i \notin 0 .. Len(Content(l)) - 1
        BY <1>3, <2>2 DEF ItemAt
    <2> QED
        BY <2>1, <2>2
<1>5. b.ret \in {0, -1, Len(Content(l))} \/ \E i : b.ret = ItemAt(l, i)
    BY DEF Acts, Prepends, Appends, Removes, Gives
<1> QED
    BY <1>3, <1>4, <1>5

-----------------------------------------------------------------------------
(* The inductive invariant                                                 *)

Places == {"idle", "lock", "read", "write", "return"}

\* What thread t has made of the list it has read, and is about to write.
Made(t) == \E junk \in Items \cup {Junk} :
               LET b == Body(call[t], list, junk)
               IN  /\ ~b.crash
                   /\ local[t] = [old |-> list, new |-> b.list, ret |-> b.ret]

TypeInv ==
    /\ Sound(list)
    /\ owner \in Threads \cup {Nobody}
    /\ pc \in [Threads -> Places]
    /\ DOMAIN call = Threads /\ DOMAIN local = Threads
    /\ last.value \in Answers
    /\ last = NoAnswer \/ last.thread \in Threads

\* A thread in the middle of a method has the mutex, so that nobody else is, and
\* what it has read is still so.  Its call waits until the write; the answer is
\* there between write and return.
InMethod(t) ==
    /\ call[t] = NoCall \/ pc[t] \in {"lock", "read", "write"}
    /\ pc[t] \in {"lock", "read", "write"} => call[t] \in Calls
    /\ last.thread = t <=> pc[t] = "return"
    /\ pc[t] \in {"read", "write", "return"} => owner = t
    /\ pc[t] = "write" => Made(t)

IInv == TypeInv /\ \A t \in Threads : InMethod(t)

\* An empty list is sound.
LEMMA EmptySound == Sound(EmptyList)
<1> DEFINE s == [k \in 1 .. 0 |-> NULL]
<1>1. /\ EmptyList.first = NULL /\ EmptyList.tail = NULL /\ EmptyList.cnt = 0
      /\ EmptyList.alive = {} /\ EmptyList.node = [n \in Nodes |-> Blank]
    BY DEF EmptyList
<1>2. EmptyList \in Memory
    BY DEF EmptyList, Memory, Words, Blank
<1>3. Linked(EmptyList, s)
    BY <1>1 DEF Linked
<1> QED
    BY <1>2, <1>3 DEF Sound

LEMMA InitIInv == Init => IInv
<1> SUFFICES ASSUME Init
             PROVE  IInv
    OBVIOUS
<1>1. last = NoAnswer
    BY DEF Init
<1>2. last.value \in Answers
    <2>1. Room \in Nat
        BY EmptySound, CntBounded
    <2> QED
        BY <1>1, <2>1 DEF NoAnswer, Answers
<1>3. TypeInv
    BY <1>1, <1>2, EmptySound DEF Init, TypeInv, Places
<1>4. ASSUME NEW t \in Threads
      PROVE  InMethod(t)
    <2>1. last.thread # t
        BY <1>1, ListAssumption DEF NoAnswer, Nobody
    <2>2. pc[t] = "idle" /\ call[t] = NoCall
        BY DEF Init
    <2> QED
        BY <2>1, <2>2 DEF InMethod
<1> QED
    BY <1>3, <1>4 DEF IInv

\* What the step of thread t leaves alone of the others.
Apart(t) ==
    \A q \in Threads \ {t} : /\ pc'[q] = pc[q] /\ call'[q] = call[q] /\ local'[q] = local[q]
                             /\ owner = q => owner' = q

\* A thread in a method sees what it saw before.
LEMMA OthersKept ==
    ASSUME IInv, NEW t \in Threads, Apart(t), list' = list,
           last' = last \/ (pc[t] = "return" /\ last' = NoAnswer)
    PROVE  \A q \in Threads \ {t} : InMethod(q)'
<1> SUFFICES ASSUME NEW q \in Threads \ {t}
             PROVE  InMethod(q)'
    OBVIOUS
<1>1. InMethod(q) /\ InMethod(t)
    BY DEF IInv
<1>2. /\ pc'[q] = pc[q] /\ call'[q] = call[q] /\ local'[q] = local[q]
      /\ owner = q => owner' = q
    BY DEF Apart
<1>3. pc[q] = "write" => Made(q)'
    BY <1>1, <1>2 DEF InMethod, Made
<1>4. last'.thread = q <=> pc'[q] = "return"
    <2>1. CASE last' = last
        BY <1>1, <1>2, <2>1 DEF InMethod
    <2>2. CASE pc[t] = "return" /\ last' = NoAnswer
        <3>1. last'.thread = 0 /\ q # 0
            BY <2>2, ListAssumption DEF NoAnswer, Nobody
        <3>2. pc[q] # "return"
            BY <1>1, <2>2 DEF InMethod
        <3> QED
            BY <1>2, <3>1, <3>2
    <2> QED
        BY <2>1, <2>2
<1>5. call'[q] = NoCall \/ pc'[q] \in {"lock", "read", "write"}
    BY <1>1, <1>2 DEF InMethod
<1>6. pc'[q] \in {"lock", "read", "write"} => call'[q] \in Calls
    BY <1>1, <1>2 DEF InMethod
<1>7. pc'[q] \in {"read", "write", "return"} => owner' = q
    BY <1>1, <1>2 DEF InMethod
<1> QED
    BY <1>2, <1>3, <1>4, <1>5, <1>6, <1>7 DEF InMethod

\* Calling: every method waits for the mutex, its own or its caller's.
LEMMA CallKeeps ==
    ASSUME KeptTo, IInv, NEW t \in Threads, Call(t)
    PROVE  IInv'
<1>1. PICK c \in Calls : /\ call' = [call EXCEPT ![t] = c]
                         /\ Goto(t, IF TakesMutex(c.method)
                                       \/ (CallerLocks /\ c.method \in Removals)
                                    THEN "lock" ELSE "read")
    BY DEF Call
<1>2. pc[t] = "idle" /\ pc' = [pc EXCEPT ![t] = "lock"]
    <2>1. c.method \in Removals => CallerLocks
        BY <1>1, CallFacts DEF KeptTo
    <2> QED
        BY <1>1, <2>1 DEF Goto, TakesMutex, Call, At
<1>3. UNCHANGED <<list, owner, local, last, crashed>>
    BY DEF Call
<1>4. TypeInv'
    BY <1>1, <1>2, <1>3 DEF IInv, TypeInv, Places
<1>5. pc'[t] = "lock" /\ call'[t] = c
    BY <1>1, <1>2 DEF IInv, TypeInv
<1>6. Apart(t)
    BY <1>1, <1>2, <1>3 DEF Apart, IInv, TypeInv
<1>7. InMethod(t)'
    <2>1. last'.thread # t
        BY <1>2, <1>3 DEF IInv, InMethod
    <2> QED
        BY <1>5, <2>1 DEF InMethod
<1> QED
    BY <1>3, <1>4, <1>6, <1>7, OthersKept DEF IInv

LEMMA LockKeeps ==
    ASSUME IInv, NEW t \in Threads, Lock(t)
    PROVE  IInv'
<1>1. pc[t] = "lock" /\ owner = Nobody /\ owner' = t /\ pc' = [pc EXCEPT ![t] = "read"]
    BY DEF Lock, At, Goto
<1>2. UNCHANGED <<list, call, local, last, crashed>>
    BY DEF Lock
<1>3. TypeInv'
    BY <1>1, <1>2 DEF IInv, TypeInv, Places
<1>4. Apart(t)
    BY <1>1, <1>2, ListAssumption DEF Apart, IInv, TypeInv
<1>5. InMethod(t)'
    BY <1>1, <1>2 DEF InMethod, IInv, TypeInv
<1> QED
    BY <1>2, <1>3, <1>4, <1>5, OthersKept DEF IInv

LEMMA ReadKeeps ==
    ASSUME IInv, NEW t \in Threads, Read(t)
    PROVE  IInv'
<1>1. PICK junk \in Items \cup {Junk} :
          LET b == Body(call[t], list, junk)
          IN  IF b.crash
              THEN crashed' = call[t].method /\ UNCHANGED <<pc, local>>
              ELSE /\ local' = [local EXCEPT ![t] =
                                  [old |-> list, new |-> b.list, ret |-> b.ret]]
                   /\ Goto(t, "write")
                   /\ UNCHANGED crashed
    BY DEF Read
<1> DEFINE b == Body(call[t], list, junk)
           o == [old |-> list, new |-> b.list, ret |-> b.ret]
<1>2. pc[t] = "read" /\ UNCHANGED <<list, owner, call, last>>
    BY DEF Read, At
<1>3. CASE b.crash
    <2>1. UNCHANGED <<pc, local>>
        BY <1>1, <1>3
    <2> QED
        BY <1>2, <2>1 DEF IInv, TypeInv, InMethod, Made
<1>4. CASE ~b.crash
    <2>1. local' = [local EXCEPT ![t] = o] /\ pc' = [pc EXCEPT ![t] = "write"]
        BY <1>1, <1>4 DEF Goto
    <2> HIDE DEF o
    <2>2. TypeInv'
        BY <1>2, <2>1 DEF IInv, TypeInv, Places
    <2>3. Apart(t)
        BY <1>2, <2>1 DEF Apart, IInv, TypeInv
    <2>4. local'[t] = o /\ pc'[t] = "write"
        BY <2>1 DEF IInv, TypeInv
    <2>5. Made(t)'
        BY <1>2, <1>4, <2>4 DEF Made, o
    <2>6. InMethod(t)'
        BY <1>2, <2>4, <2>5 DEF InMethod, IInv
    <2> QED
        BY <1>2, <2>2, <2>3, <2>6, OthersKept DEF IInv
<1> QED
    BY <1>3, <1>4

\* The thread that writes has the mutex: no answer is on its way to another.
\* The list it leaves is what its call made of the one before.
LEMMA WriteFacts ==
    ASSUME KeptTo, IInv, NEW t \in Threads, Write(t)
    PROVE  /\ last = NoAnswer /\ call[t] \in Calls
           /\ \E b : /\ Keeps(call[t], list, b) /\ list' = b.list
                     /\ last' = [thread |-> t, value |-> b.ret]
<1>1. /\ pc[t] = "write" /\ list' = Written(list, local[t].old, local[t].new)
      /\ last' = [thread |-> t, value |-> local[t].ret]
    BY DEF Write, At
<1>2. call[t] \in Calls /\ Made(t) /\ Sound(list) /\ owner = t
    BY <1>1 DEF IInv, InMethod, TypeInv
<1>3. PICK junk \in Items \cup {Junk} :
          LET b == Body(call[t], list, junk)
          IN  ~b.crash /\ local[t] = [old |-> list, new |-> b.list, ret |-> b.ret]
    BY <1>2 DEF Made
<1> DEFINE b == Body(call[t], list, junk)
<1>4. Keeps(call[t], list, b)
    BY <1>2, <1>3, BodyOK
<1>5. local[t].old = list /\ local[t].new = b.list /\ local[t].ret = b.ret
    BY <1>3
<1> HIDE DEF b
<1>6. Written(list, list, b.list) = b.list
    BY <1>2, <1>4, WrittenFacts DEF Keeps, Sound
<1>7. last = NoAnswer
    <2> SUFFICES ASSUME last.thread \in Threads
                 PROVE  FALSE
        BY DEF IInv, TypeInv
    <2>1. InMethod(last.thread)
        BY DEF IInv
    <2> QED
        BY <1>1, <1>2, <2>1 DEF InMethod
<1> QED
    BY <1>1, <1>2, <1>4, <1>5, <1>6, <1>7

LEMMA WriteKeeps ==
    ASSUME KeptTo, IInv, NEW t \in Threads, Write(t)
    PROVE  IInv'
<1>1. /\ pc[t] = "write" /\ pc' = [pc EXCEPT ![t] = "return"]
      /\ local' = [local EXCEPT ![t] = Idle] /\ call' = [call EXCEPT ![t] = NoCall]
      /\ owner' = owner
    BY DEF Write, At, Goto
<1>2. PICK b : /\ Keeps(call[t], list, b) /\ list' = b.list
               /\ last' = [thread |-> t, value |-> b.ret]
    BY WriteFacts
<1>3. Sound(list)
    BY DEF IInv, TypeInv
<1>4. last'.value \in Answers /\ last'.thread = t
    BY <1>2, <1>3, AnswerFacts DEF Keeps
<1>5. Sound(list')
    BY <1>2 DEF Keeps
<1>6. TypeInv'
    BY <1>1, <1>4, <1>5 DEF IInv, TypeInv, Places
<1>7. InMethod(t)'
    BY <1>1, <1>4 DEF IInv, TypeInv, InMethod
<1>8. ASSUME NEW q \in Threads \ {t}
      PROVE  InMethod(q)'
    <2>1. pc[q] \notin {"read", "write", "return"}
        BY <1>1 DEF IInv, InMethod
    <2>2. pc'[q] = pc[q] /\ call'[q] = call[q] /\ last'.thread # q
        BY <1>1, <1>4 DEF IInv, TypeInv
    <2> QED
        BY <2>1, <2>2 DEF IInv, InMethod
<1> QED
    BY <1>6, <1>7, <1>8 DEF IInv

LEMMA ReturnKeeps ==
    ASSUME IInv, NEW t \in Threads, Return(t)
    PROVE  IInv'
<1>1. /\ pc[t] = "return" /\ pc' = [pc EXCEPT ![t] = "idle"]
      /\ owner' = (IF owner = t THEN Nobody ELSE owner) /\ last' = NoAnswer
      /\ UNCHANGED <<list, call, local>>
    BY DEF Return, At, Goto
<1>2. last'.value \in Answers
    <2>1. Room \in Nat
        BY EmptySound, CntBounded
    <2> QED
        BY <1>1, <2>1 DEF NoAnswer, Answers
<1>3. TypeInv'
    BY <1>1, <1>2 DEF IInv, TypeInv, Places
<1>4. Apart(t)
    BY <1>1 DEF Apart, IInv, TypeInv
<1>5. InMethod(t)'
    <2>1. last'.thread # t
        BY <1>1, ListAssumption DEF NoAnswer, Nobody
    <2> QED
        BY <1>1, <2>1 DEF IInv, TypeInv, InMethod
<1> QED
    BY <1>1, <1>3, <1>4, <1>5, OthersKept DEF IInv

LEMMA NextIInv == KeptTo /\ IInv /\ [Next]_vars => IInv'
<1> SUFFICES ASSUME KeptTo, IInv, [Next]_vars
             PROVE  IInv'
    OBVIOUS
<1>1. ASSUME NEW t \in Threads, Call(t) \/ Step(t)
      PROVE  IInv'
    BY <1>1, CallKeeps, LockKeeps, ReadKeeps, WriteKeeps, ReturnKeeps DEF Step
<1>2. CASE UNCHANGED vars
    BY <1>2 DEF vars, IInv, TypeInv, InMethod, Made
<1> QED
    BY <1>1, <1>2 DEF Next

-----------------------------------------------------------------------------
(* The theorems                                                            *)

\* What a thread in a method has read is still so, and the nodes are linked
\* both ways from first to tail: in every state of every behaviour.
THEOREM Inductive ==
    ASSUME KeptTo
    PROVE  Spec => []IInv
<1>1. IInv /\ [Next]_vars => IInv'
    BY NextIInv
<1> QED
    BY <1>1, InitIInv, PTL DEF Spec

\* linklist.c keeps first, tail, node_cnt and the nodes' words of their types,
\* and its methods answer with an index, an item or -1, if the application keeps
\* to KeptTo.
THEOREM TypeCorrect ==
    ASSUME KeptTo
    PROVE  Spec => []TypeOK
<1>1. IInv => TypeOK
    <2> SUFFICES ASSUME IInv
                 PROVE  TypeOK
        OBVIOUS
    <2>1. list \in Memory /\ list.cnt \in 0 .. Cardinality(Nodes)
        BY CntBounded DEF IInv, TypeInv, Sound, Room
    <2> QED
        BY <2>1, Fields DEF IInv, TypeInv, TypeOK, Places, Answers, Room
<1> QED
    BY <1>1, Inductive, PTL

\* The walk of a sound list.
LEMMA WalkFacts ==
    ASSUME NEW s, list \in Memory, Linked(list, s)
    PROVE  /\ list.cnt \in Nat /\ \A k \in 1 .. list.cnt : Walk[k] = s[k]
           /\ Nth(list, list.cnt) = NULL
<1>1. list.cnt \in Nat
    BY Fields
<1>2. ASSUME NEW k \in 1 .. list.cnt
      PROVE  Walk[k] = s[k]
    <2>1. k - 1 \in Nat /\ k - 1 < list.cnt /\ (k - 1) + 1 = k
        BY <1>1
    <2>2. Nth(list, k - 1) = s[(k - 1) + 1]
        BY <2>1, NthFacts
    <2> QED
        BY <2>1, <2>2 DEF Walk
<1>3. Nth(list, list.cnt) = NULL
    BY <1>1, NthFacts
<1> QED
    BY <1>1, <1>2, <1>3

\* After every method, of whatever thread, first, tail, next, prev and
\* node_cnt agree, if the application keeps to KeptTo.
THEOREM ShapeKept ==
    ASSUME KeptTo
    PROVE  Spec => []ListShape
<1>1. IInv => ListShape
    <2> SUFFICES ASSUME IInv
                 PROVE  ListShape
        OBVIOUS
    <2>1. PICK s : list \in Memory /\ Linked(list, s)
        BY DEF IInv, TypeInv, Sound
    <2>2. /\ list.cnt \in Nat /\ \A k \in 1 .. list.cnt : Walk[k] = s[k]
          /\ Nth(list, list.cnt) = NULL
        BY <2>1, WalkFacts
    <2>3. \A k \in 1 .. list.cnt : Walk[k] \in list.alive
        BY <2>1, <2>2 DEF Linked
    <2>4. \A j, k \in 1 .. list.cnt : j # k => Walk[j] # Walk[k]
        BY <2>1, <2>2 DEF Linked
    <2>5. ASSUME NEW k \in 1 .. list.cnt
          PROVE  list.node[Walk[k]].prev = IF k = 1 THEN NULL ELSE Walk[k - 1]
        <3>1. k # 1 => k - 1 \in 1 .. list.cnt
            BY <2>2
        <3>2. list.node[s[k]].prev = IF k = 1 THEN NULL ELSE s[k - 1]
            BY <2>1 DEF Linked
        <3> QED
            BY <2>2, <3>1, <3>2
    <2>6. list.tail = IF list.cnt = 0 THEN NULL ELSE Walk[list.cnt]
        <3>1. list.cnt # 0 => list.cnt \in 1 .. list.cnt
            BY <2>2
        <3> QED
            BY <2>1, <2>2, <3>1 DEF Linked
    <2> QED
        BY <2>2, <2>3, <2>4, <2>5, <2>6 DEF ListShape
<1> QED
    BY <1>1, Inductive, PTL

\* The write of a method is the operation of the deque that its call asks for.
LEMMA WriteActs ==
    ASSUME KeptTo, IInv, NEW t \in Threads, Write(t)
    PROVE  Deque!Next
<1>1. PICK b : /\ Acts(call[t], list, b) /\ list' = b.list
               /\ last' = [thread |-> t, value |-> b.ret]
    BY WriteFacts DEF Keeps
<1> DEFINE C == Content(list)
           D == Content(list')
           c == call[t]
           m == call[t].method
<1>2. Content(b.list) = D /\ (b.list = list => D = C)
    BY <1>1
<1>3. Deque!Answer(t, b.ret)
    <2>1. last = NoAnswer /\ call' = [call EXCEPT ![t] = NoCall]
        BY WriteFacts DEF Write
    <2>2. NoAnswer = Deque!NoAnswer /\ NoCall = Deque!NoCall
        BY DEF NoAnswer, Deque!NoAnswer, NoCall, Deque!NoCall, Arg, NULL, Deque!NULL, Nobody
    <2> QED
        BY <1>1, <2>1, <2>2 DEF Deque!Answer
<1>4. \A S : Deque!Asks(t, S) <=> m \in S
    BY DEF Deque!Asks
<1>5. \/ m \in {"add_first", "add_middle"} /\ Prepends(list, b, c.item)
      \/ m = "add_end" /\ Appends(list, b, c.item)
      \/ m \in {"get_first", "get_end", "get_middle"} /\ Gives(list, b, ItemAt(list, Spot(c, list)))
      \/ m \in {"rm_first", "rm_end", "rm_middle"} /\ Removes(list, b, Spot(c, list))
      \/ m = "len" /\ Gives(list, b, Len(C))
      \/ m = "destroy" /\ Len(C) # 0 /\ Gives(list, b, -1)
    BY <1>1 DEF Acts
<1>6. ASSUME m \in {"get_first", "get_end", "get_middle", "rm_first", "rm_end", "rm_middle"}
      PROVE  Deque!Position(t) = Spot(c, list)
    BY <1>4, <1>6 DEF Deque!Position, Spot
<1>7. \A i : Deque!IsItem(i) <=> i \in 0 .. Len(C) - 1
    BY DEF Deque!IsItem
<1> DEFINE i == Spot(c, list)
<1> HIDE DEF C, D, m, i
<1>8. CASE m \in {"add_first", "add_middle"} /\ Prepends(list, b, c.item)
    <2>1. Len(C) < Cardinality(Nodes) /\ D = <<c.item>> \o C /\ b.ret = 0
        BY <1>2, <1>8 DEF Prepends, Room, C
    <2>2. Deque!AddFirst(t)
        BY <1>3, <1>4, <1>8, <2>1 DEF Deque!AddFirst, C, D
    <2> QED
        BY <2>2 DEF Deque!Next
<1>9. CASE m = "add_end" /\ Appends(list, b, c.item)
    <2>1. \/ Len(C) < Cardinality(Nodes) /\ D = Append(C, c.item) /\ b.ret = Len(C)
          \/ Len(C) = Cardinality(Nodes) /\ D = C /\ b.ret = -1
        BY <1>2, <1>9 DEF Appends, Room, C
    <2>2. m \in {"add_end"}
        BY <1>9
    <2>3. Deque!AddEnd(t) \/ Deque!AddRefused(t)
        BY <1>3, <1>4, <2>1, <2>2 DEF Deque!AddEnd, Deque!AddRefused, C, D
    <2> QED
        BY <2>3 DEF Deque!Next
<1>10. CASE m \in {"get_first", "get_end", "get_middle"} /\ Gives(list, b, ItemAt(list, i))
    <2>1. D = C /\ b.ret = IF i \in 0 .. Len(C) - 1 THEN C[i + 1] ELSE NULL
        BY <1>2, <1>10 DEF Gives, ItemAt, C
    <2>2. Deque!Position(t) = i
        BY <1>6, <1>10 DEF i
    <2>3. Deque!Answer(t, IF Deque!IsItem(i) THEN C[i + 1] ELSE Deque!NULL)
        BY <1>3, <1>7, <2>1 DEF NULL, Deque!NULL
    <2>4. Deque!Get(t)
        BY <1>4, <1>10, <2>1, <2>2, <2>3 DEF Deque!Get, C, D
    <2> QED
        BY <2>4 DEF Deque!Next
<1>11. CASE m \in {"rm_first", "rm_end", "rm_middle"} /\ Removes(list, b, i)
    <2>1. \/ i \in 0 .. Len(C) - 1 /\ D = Without(C, i + 1) /\ b.ret = 0
          \/ i \notin 0 .. Len(C) - 1 /\ D = C /\ b.ret = IF i > 0 THEN -1 ELSE 0
        BY <1>2, <1>11 DEF Removes, C
    <2>2. Deque!Position(t) = i
        BY <1>6, <1>11 DEF i
    <2>3. CASE i \in 0 .. Len(C) - 1 /\ D = Without(C, i + 1) /\ b.ret = 0
        <3>1. Deque!Unlink(t)
            BY <1>3, <1>4, <1>7, <1>11, <2>2, <2>3 DEF Deque!Unlink, Deque!RemoveAt, Without, C, D
        <3> QED
            BY <3>1 DEF Deque!Next
    <2>4. CASE i \notin 0 .. Len(C) - 1 /\ D = C /\ b.ret = IF i > 0 THEN -1 ELSE 0
        <3>1. Deque!Answer(t, IF Deque!Position(t) > 0 THEN -1 ELSE 0)
            BY <1>3, <2>2, <2>4
        <3>2. ~Deque!IsItem(Deque!Position(t))
            BY <1>7, <2>2, <2>4
        <3>3. Deque!NothingThere(t)
            BY <1>4, <1>11, <2>4, <3>1, <3>2 DEF Deque!NothingThere, C, D
        <3> QED
            BY <3>3 DEF Deque!Next
    <2> QED
        BY <2>1, <2>3, <2>4
<1>12. CASE m = "len" /\ Gives(list, b, Len(C))
    <2>1. D = C /\ b.ret = Len(C) /\ m \in {"len"}
        BY <1>2, <1>12 DEF Gives
    <2>2. Deque!Length(t)
        BY <1>3, <1>4, <2>1 DEF Deque!Length, C, D
    <2> QED
        BY <2>2 DEF Deque!Next
<1>13. CASE m = "destroy" /\ Len(C) # 0 /\ Gives(list, b, -1)
    <2>1. D = C /\ b.ret = -1 /\ m \in {"destroy"} /\ C # <<>>
        BY <1>2, <1>13 DEF Gives
    <2>2. Deque!DestroyRefused(t)
        BY <1>3, <1>4, <2>1 DEF Deque!DestroyRefused, C, D
    <2> QED
        BY <2>2 DEF Deque!Next
<1> QED
    BY <1>5, <1>8, <1>9, <1>10, <1>11, <1>12, <1>13 DEF i

\* The list that threads share is a deque, as long as they add at its ends and
\* hold the mutex around the rm methods, which do not take it: every call of
\* every thread takes effect by its method and its arguments at one instant, its
\* write, and returns the answer that goes with it.
THEOREM DequeImplemented ==
    ASSUME KeptTo
    PROVE  Spec => ImplementsDeque
<1>1. Init => Deque!Init
    <2> SUFFICES ASSUME Init
                 PROVE  Deque!Init
        OBVIOUS
    <2>1. list.cnt = 0 /\ last = [thread |-> 0, value |-> 0]
        BY DEF Init, EmptyList, NoAnswer, Nobody
    <2>2. Content(list) = <<>>
        BY <2>1 DEF Content
    <2>3. call = [q \in Threads |-> Deque!NoCall]
        BY DEF Init, NoCall, Deque!NoCall, Arg, NULL, Deque!NULL
    <2> QED
        BY <2>1, <2>2, <2>3 DEF Deque!Init, Deque!NoAnswer
<1>2. IInv /\ [Next]_vars => [Deque!Next]_(Deque!vars)
    <2> SUFFICES ASSUME IInv, [Next]_vars
                 PROVE  [Deque!Next]_(Deque!vars)
        OBVIOUS
    <2>1. ASSUME NEW t \in Threads, Write(t)
          PROVE  Deque!Next
        BY <2>1, WriteActs
    <2>2. ASSUME NEW t \in Threads, Return(t)
          PROVE  Deque!Next
        <3>1. list' = list /\ call' = call /\ last' = NoAnswer /\ pc[t] = "return"
            BY <2>2 DEF Return, At
        <3>2. Content(list)' = Content(list) /\ last.thread = t
            BY <3>1 DEF IInv, InMethod
        <3>3. Deque!Return(t)
            BY <3>1, <3>2 DEF Deque!Return, Deque!NoAnswer, NoAnswer, Nobody
        <3> QED
            BY <3>3 DEF Deque!Next
    <2>3. ASSUME NEW t \in Threads, Call(t)
          PROVE  Deque!Next
        <3>1. /\ list' = list /\ last' = last /\ pc[t] = "idle"
              /\ \E c \in Calls : call' = [call EXCEPT ![t] = c]
            BY <2>3 DEF Call, At
        <3>2. call[t] = NoCall /\ last.thread # t
            BY <3>1 DEF IInv, InMethod
        <3>3. Content(list)' = Content(list)
            BY <3>1
        <3>4. Deque!Invoke(t)
            BY <3>1, <3>2, <3>3 DEF Deque!Invoke, Deque!NoCall, NoCall, Arg, NULL, Deque!NULL
        <3> QED
            BY <3>4 DEF Deque!Next
    <2>4. ASSUME NEW t \in Threads, Lock(t) \/ Read(t)
          PROVE  UNCHANGED Deque!vars
        <3>1. list' = list /\ last' = last /\ call' = call
            BY <2>4 DEF Lock, Read
        <3> QED
            BY <3>1 DEF Deque!vars
    <2>5. CASE UNCHANGED vars
        <3>1. list' = list /\ last' = last /\ call' = call
            BY <2>5 DEF vars
        <3> QED
            BY <3>1 DEF Deque!vars
    <2> QED
        BY <2>1, <2>2, <2>3, <2>4, <2>5 DEF Next, Step
<1> QED
    BY <1>1, <1>2, Inductive, PTL DEF Spec, ImplementsDeque, Deque!Spec
=============================================================================
