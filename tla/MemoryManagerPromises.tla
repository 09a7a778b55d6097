----------------------- MODULE MemoryManagerPromises -----------------------
(***************************************************************************)
(* What the inductive invariant of MemoryManagerProofs gives the caller of *)
(* memory_manager.c: allocate refuses nothing that fits, and the manager   *)
(* implements AbstractHeap; and what it gives the loops over the free      *)
(* list: the list they follow is the set of free blocks in address order.  *)
(***************************************************************************)
EXTENDS MemoryManagerProofs

\* The heap in the invariant, once it is initialised.
LEMMA ReadyFacts ==
    ASSUME IInv, Ready
    PROVE  /\ free \cap owned = {} /\ size \in [Node -> Nat]
           /\ Tiles(Blocks, size) /\ NoPair(free, size)
           /\ byteLeft = Cardinality(Cover(free, size)) /\ byteLeft \in Nat
BY CurrentFields DEF IInv, TypeInv, HeapInv, Accounted, HeapOK, Blocks

-----------------------------------------------------------------------------
(* No false failure *)

\* w unallocated bytes at a lie within one free block: the block that holds a
\* is free, and behind it comes the end marker or an allocated block.
LEMMA OneFreeBlock ==
    ASSUME IInv, Ready, NEW w \in Nat, w > 0, NEW a \in Node \ {StartBlock},
           a + w <= EndAddr,
           \A b \in owned : EndOf(b) <= a \/ a + w <= b
    PROVE  \E b \in free : size[b] >= w
<1>1. /\ Blocks \subseteq Nat /\ a \in Nat /\ HeapStart \in Blocks /\ HeapStart <= a
      /\ EndAddr \in Nat
    BY ReadyFacts, Layout, InnerFacts DEF Tiles, Node
<1>2. PICK b \in Blocks : b <= a /\ \A c \in Blocks : c <= a => c <= b
    <2>1. Blocks \in SUBSET Nat /\ a + 1 \in Nat /\ HeapStart < a + 1
        BY <1>1, Layout
    <2>2. PICK b \in Blocks : b < a + 1 /\ \A c \in Blocks : c < a + 1 => c <= b
        BY <1>1, <2>1, LargestBelow
    <2> QED
        BY <1>1, <2>2
<1>3. ASSUME NEW c \in Blocks
      PROVE  /\ c \in Nat /\ EndOf(c) \in Nat /\ size[c] \in Nat /\ EndOf(c) = c + size[c]
             /\ EndOf(c) > c /\ EndOf(c) \in Blocks \cup {EndAddr}
    BY ReadyFacts, EndsInHeap DEF EndOf, Tiles
<1>4. EndOf(b) > a
    BY <1>1, <1>2, <1>3
<1>5. b \in free
    BY <1>1, <1>2, <1>3, <1>4 DEF Blocks
<1>6. a + w <= EndOf(b)
    <2>1. CASE EndOf(b) = EndAddr
        BY <2>1
    <2>2. CASE EndOf(b) \in Blocks
        <3>1. EndOf(b) \in owned
            BY <1>5, <2>2, ReadyFacts DEF Blocks, NoPair, EndOf
        <3>2. EndOf(EndOf(b)) > a
            BY <1>1, <1>3, <1>4, <2>2
        <3> QED
            BY <1>1, <1>3, <2>2, <3>1, <3>2
    <2> QED
        BY <1>3, <2>1, <2>2
<1>7. size[b] >= w
    BY <1>1, <1>2, <1>3, <1>6
<1> QED
    BY <1>5, <1>7

\* A free block is no larger than byte_left.
LEMMA BlockWithinLeft ==
    ASSUME IInv, Ready, NEW b \in free
    PROVE  size[b] <= byteLeft
<1> DEFINE F == free \ {b}
<1>1. F \subseteq Blocks /\ b \in Blocks /\ b \notin F /\ F \cup {b} = free
    BY DEF Blocks
<1>2. Cardinality(Cover(F \cup {b}, size)) = Cardinality(Cover(F, size)) + size[b]
    BY <1>1, ReadyFacts, CoverAdd
<1>3. Cardinality(Cover(F, size)) \in Nat
    BY <1>1, ReadyFacts, CoverFinite
<1>4. size[b] \in Nat
    BY <1>1, ReadyFacts, EndsInHeap
<1> QED
    BY <1>1, <1>2, <1>3, <1>4, ReadyFacts

\* allocate fails only when no run of unallocated bytes could hold the
\* request: its two tests and its first fit over merged blocks lose nothing.
THEOREM NoFalseFailureHolds == Spec => []NoFalseFailure
<1>1. ASSUME IInv, Ready, NEW n \in Requests \ {0}, NEW a \in Node \ {StartBlock},
             TopBitClear(n), a + Want(n) <= EndAddr,
             \A b \in owned : EndOf(b) <= a \/ a + Want(n) <= b
      PROVE  CanAllocate(n)
    <2>1. n \in Nat /\ 0 < n /\ n < AllocBit
        BY <1>1, RequestsAssumption DEF TopBitClear
    <2>2. Want(n) \in Nat /\ Want(n) > 0
        BY <2>1, WantFacts, Layout
    <2>3. PICK b \in free : size[b] >= Want(n)
        BY <1>1, <2>2, OneFreeBlock
    <2>4. size[b] <= byteLeft /\ size[b] \in Nat /\ byteLeft \in Nat
        BY <1>1, BlockWithinLeft, ReadyFacts, EndsInHeap DEF Blocks
    <2>5. Want(n) <= HeapLeft
        BY <1>1, <2>2, <2>3, <2>4 DEF HeapLeft
    <2>6. b \in Fits(Heap, Want(n))
        BY <1>1, <2>3 DEF Fits, Heap, Current
    <2> QED
        BY <1>1, <2>2, <2>5, <2>6 DEF CanAllocate
<1>2. IInv => NoFalseFailure
    BY <1>1 DEF NoFalseFailure
<1> QED
    BY <1>2, Inductive, PTL

-----------------------------------------------------------------------------
(* The refinement of AbstractHeap *)

\* Block b of a tiling, allocated for n bytes.
Holds(B, sz, b, n) ==
    /\ sz \in [Node -> Nat] /\ Tiles(B, sz) /\ b \in B
    /\ n \in Nat /\ 0 < n /\ n < AllocBit /\ Want(n) <= sz[b]

\* The payload of a block is where the abstract heap wants it, and within it.
LEMMA PayloadFits ==
    ASSUME NEW B, NEW sz, NEW b, NEW n, Holds(B, sz, b, n)
    PROVE  /\ Payload(b) \in Nat /\ b \in Nat /\ sz[b] \in Nat /\ n \in Nat
           /\ Payload(b) % 8 = 0
           /\ Buff <= Payload(b) /\ Payload(b) + n <= Buff + BuffSize
           /\ b <= Payload(b) /\ Payload(b) + n <= b + sz[b]
<1>1. /\ b \in Nat /\ b % 8 = 0 /\ HeapStart <= b /\ sz[b] \in Nat /\ b + sz[b] <= EndAddr
    BY EndsInHeap, InnerFacts DEF Holds
<1>2. n + StructSize <= sz[b]
    <2>1. Want(n) \in Nat /\ Want(n) >= n + StructSize /\ Want(n) <= sz[b] /\ n \in Nat
        BY WantFacts DEF Holds
    <2> QED
        BY <2>1, <1>1, Layout
<1>3. Payload(b) % 8 = 0
    BY <1>1, Layout DEF Payload
<1>4. n \in Nat
    BY DEF Holds
<1> QED
    BY <1>1, <1>2, <1>3, <1>4, Layout, SizesAssumption DEF Payload

\* Nobody's bytes are anybody else's.
LEMMA PayloadsDisjoint ==
    ASSUME NEW B, NEW sz, NEW b, NEW m, NEW c, NEW n,
           Holds(B, sz, b, m), Holds(B, sz, c, n), b # c
    PROVE  Abstract!Bytes(Payload(b), m) \cap Abstract!Bytes(Payload(c), n) = {}
<1>1. /\ Payload(b) \in Nat /\ b \in Nat /\ sz[b] \in Nat /\ m \in Nat
      /\ b <= Payload(b) /\ Payload(b) + m <= b + sz[b]
      /\ Payload(c) \in Nat /\ c \in Nat /\ sz[c] \in Nat /\ n \in Nat
      /\ c <= Payload(c) /\ Payload(c) + n <= c + sz[c]
    BY PayloadFits
<1>2. b + sz[b] <= c \/ c + sz[c] <= b
    BY <1>1 DEF Holds, Tiles
<1> QED
    BY <1>1, <1>2 DEF Abstract!Bytes

\* A successful allocate hands out unused, aligned bytes of the buffer.
LEMMA AllocateImplements ==
    ASSUME IInv, NEW n \in Requests, AllocateOk(n)
    PROVE  Abstract!Alloc(n)
<1> DEFINE b == FirstFit(Heap, Want(n))
           p == Payload(b)
<1>1. CanAllocate(n)
    BY DEF AllocateOk
<1>2. n \in Nat /\ 0 < n /\ b \in Inner /\ b \notin owned
    BY <1>1, AllocateFacts DEF Taken
<1>3. /\ owned' = owned \cup {b} /\ endOfList' = EndAddr
      /\ live' = [q \in DOMAIN live \cup {p} |-> IF q = p THEN n ELSE live[q]]
    BY DEF AllocateOk
<1> HIDE DEF b
<1>4. IInv' /\ Ready'
    BY <1>3, AllocateOkIInv, Layout DEF Ready
<1>5. live'[p] = n /\ \A q \in DOMAIN live : q # p => live'[q] = live[q]
    BY <1>3
<1>6. ASSUME NEW c \in owned'
      PROVE  Holds(free' \cup owned', size', c, live'[Payload(c)])
    <2>1. size' \in [Node -> Nat] /\ Tiles(free' \cup owned', size')
        BY <1>4 DEF IInv, HeapInv, Accounted, HeapOK, HeapRecord, Current
    <2> QED
        BY <2>1, <1>4 DEF IInv, Held, Holds
<1>7. ASSUME NEW q \in DOMAIN live
      PROVE  Abstract!Bytes(p, n) \cap Abstract!Bytes(q, live[q]) = {}
    <2>1. PICK c \in owned : q = Payload(c)
        BY DEF IInv, TypeInv
    <2>2. c # b /\ c \in Inner /\ c \in owned' /\ b \in owned'
        BY <1>2, <1>3 DEF IInv, TypeInv
    <2>3. q # p
        BY <1>2, <2>1, <2>2, PayloadInjective
    <2>4. live'[Payload(c)] = live[q] /\ live'[Payload(b)] = n
        BY <1>5, <2>1, <2>3
    <2>5. /\ Holds(free' \cup owned', size', c, live[q])
          /\ Holds(free' \cup owned', size', b, n)
        BY <1>6, <2>2, <2>4
    <2> QED
        BY <2>1, <2>2, <2>5, PayloadsDisjoint
<1>8. p \in Nat /\ p % 8 = 0 /\ Buff <= p /\ p + n <= Buff + BuffSize
    <2>1. Holds(free' \cup owned', size', b, n)
        BY <1>3, <1>5, <1>6
    <2> QED
        BY <2>1, PayloadFits
<1>9. p \in Buff .. Buff + BuffSize - 1
    BY <1>2, <1>8, SizesAssumption
<1> QED
    BY <1>2, <1>3, <1>7, <1>8, <1>9 DEF Abstract!Alloc

\* A free gives back the bytes of one pointer the caller holds.
LEMMA FreeImplements ==
    ASSUME IInv, NEW p \in Pointers, FreeOk(p)
    PROVE  p \in DOMAIN live /\ Abstract!Free(p)
<1>1. p - StructSize \in owned /\ p # Null
    BY DEF FreeOk, Allocated
<1>2. PICK b \in free \cup owned : p = Payload(b)
    BY <1>1 DEF Pointers
<1>3. b \in Inner
    BY <1>2, CurrentFields DEF IInv, TypeInv
<1>4. p - StructSize = b
    BY <1>2, <1>3, InnerFacts, Layout DEF Payload
<1>5. p \in DOMAIN live
    BY <1>1, <1>2, <1>4 DEF IInv, TypeInv
<1> QED
    BY <1>5 DEF FreeOk, Abstract!Free

\* Each step of the manager is a step of the abstract heap, or none.
LEMMA StepImplements == IInv /\ [Next]_vars => [Abstract!Next]_live
<1> SUFFICES ASSUME IInv, [Next]_vars
             PROVE  [Abstract!Next]_live
    OBVIOUS
<1>1. CASE StaticInit
    BY <1>1 DEF StaticInit, NoLive, Abstract!Next, Abstract!Reset
<1>2. ASSUME NEW n \in Requests, AllocateOk(n)
      PROVE  Abstract!Next
    BY <1>2, AllocateImplements DEF Abstract!Next
<1>3. ASSUME NEW n \in Requests, AllocateFail(n)
      PROVE  live' = live
    BY <1>3 DEF AllocateFail
<1>4. ASSUME NEW p \in Pointers, FreeOk(p)
      PROVE  Abstract!Next
    BY <1>4, FreeImplements DEF Abstract!Next
<1>5. ASSUME NEW p \in Pointers, FreeIgnored(p)
      PROVE  live' = live
    BY <1>5 DEF FreeIgnored, vars
<1>6. ASSUME NEW p \in DOMAIN live, AppFill(p)
      PROVE  live' = live
    BY <1>6 DEF AppFill
<1>7. CASE UNCHANGED vars
    BY <1>7 DEF vars
<1> QED
    BY <1>1, <1>2, <1>3, <1>4, <1>5, <1>6, <1>7 DEF Next

\* The manager implements the abstract heap: what allocate returns are bytes
\* of the buffer, aligned and used by nobody else until their owner's free.
THEOREM HeapImplemented == Spec => ImplementsAbstractHeap
<1>1. Init => Abstract!Init
    BY DEF Init, NoLive, Abstract!Init
<1> QED
    BY <1>1, StepImplements, Inductive, PTL DEF Spec, ImplementsAbstractHeap, Abstract!Spec

-----------------------------------------------------------------------------
(* The free list *)

\* The last element of the list, the end marker, is as prv_heap_init left it.
Marked(h) == h.next[EndAddr] = Null /\ h.size[EndAddr] = 0
Marker == Ready => Marked(Current)

\* Freeing a block does not touch the end marker.
LEMMA InsertKeepsMarker ==
    ASSUME NEW h, NEW O, HeapOK(h, O), NEW b \in O, Marked(h)
    PROVE  Marked(InsertBlock(h, b))
<1> DEFINE it     == Iterator(h, b)
           nx     == h.next[it]
           joins  == JoinsPrevious(h, it, b)
           b1     == IF joins THEN it ELSE b
           size1  == IF joins THEN [h.size EXCEPT ![it] = @ + h.size[b]] ELSE h.size
           absorb == Absorbs(b1 + size1[b1], nx)
           next1  == [h.next EXCEPT ![b1] = IF absorb THEN h.next[nx] ELSE nx]
           size2  == IF absorb THEN [size1 EXCEPT ![b1] = @ + size1[nx]] ELSE size1
           next2  == IF it # b1 THEN [next1 EXCEPT ![it] = b1] ELSE next1
<1>1. Shape(h, O, b)
    BY HeapFacts
<1>2. it # EndAddr /\ b # EndAddr
    <2>1. it \in h.free \cup {StartBlock}
        BY IteratorFacts
    <2> QED
        BY <2>1, <1>1, Layout DEF Shape
<1>3. InsertBlock(h, b).next = next2 /\ InsertBlock(h, b).size = size2
    BY DEF InsertBlock
<1> HIDE DEF it, nx, joins, absorb
<1>4. b1 # EndAddr
    BY <1>2
<1>5. EndAddr \in Node /\ h.next \in [Node -> Node \cup {Null}] /\ h.size \in [Node -> Nat]
    BY <1>1, Layout DEF Shape
<1>6. next2[EndAddr] = h.next[EndAddr]
    BY <1>2, <1>4, <1>5
<1>7. size2[EndAddr] = h.size[EndAddr]
    BY <1>2, <1>4, <1>5
<1> QED
    BY <1>3, <1>6, <1>7 DEF Marked

\* Nor does taking a block off the list.
LEMMA TakeKeepsMarker ==
    ASSUME NEW h, NEW O, HeapOK(h, O), NEW b \in h.free, Marked(h),
           NEW w \in Nat, w % 8 = 0, w >= StructSize, w <= h.size[b]
    PROVE  Marked(Split(Unlink(h, b), b, w))
<1> DEFINE u == Unlink(h, b)
           P == O \cup {b}
           x == b + w
           g == [u EXCEPT !.size = [@ EXCEPT ![x] = u.size[b] - w, ![b] = w]]
           prev == CHOOSE p \in h.free \cup {StartBlock} : h.next[p] = b
<1>1. HeapOK(u, P) /\ u.free = h.free \ {b} /\ u.size = h.size
    BY UnlinkOK
<1>2. /\ h.free \subseteq Inner /\ h.size \in [Node -> Nat] /\ h.next \in [Node -> Node \cup {Null}]
      /\ Chain(h.free, h.next) /\ Tiles(h.free \cup O, h.size)
    BY DEF HeapOK, HeapRecord
<1>3. b \in Nat /\ b # EndAddr /\ EndAddr \in Node /\ h.size[b] \in Nat /\ b + h.size[b] <= EndAddr
    BY <1>2, InnerFacts, Layout, EndsInHeap
<1>4. prev # EndAddr
    <2>1. \E p \in h.free \cup {StartBlock} : p < b /\ h.next[p] >= b
        BY <1>2, Predecessor
    <2>2. PICK p \in h.free \cup {StartBlock} : p < b /\ h.next[p] >= b
        BY <2>1
    <2>3. h.next[p] \in h.free \cup {EndAddr} /\ ~(p < b /\ b < h.next[p])
        BY <1>2 DEF Chain
    <2>4. h.next[p] \in Nat
        BY <2>3, <1>2, InnerFacts, Layout
    <2>5. h.next[p] = b
        BY <2>2, <2>3, <2>4, <1>3
    <2>6. prev \in h.free \cup {StartBlock}
        BY <2>5
    <2> HIDE DEF prev
    <2>7. prev \in Inner \cup {StartBlock}
        BY <2>6, <1>2
    <2> QED
        BY <2>7, InnerFacts, Layout
<1>5. Marked(u)
    <2>1. u.next = [h.next EXCEPT ![prev] = h.next[b]]
        BY DEF Unlink
    <2> HIDE DEF u, prev
    <2> QED
        BY <2>1, <1>1, <1>2, <1>3, <1>4 DEF Marked
<1> HIDE DEF u, prev
<1>6. CASE ~(u.size[b] - w > MiniBlockSize)
    <2>1. Split(u, b, w) = u
        BY <1>6 DEF Split
    <2> QED
        BY <1>5, <2>1 DEF u
<1>7. CASE u.size[b] - w > MiniBlockSize
    <2>1. w + StructSize <= u.size[b]
        BY <1>1, <1>3, <1>7, Layout
    <2>2. b \in P
        OBVIOUS
    <2>3. Carved(u, P, b, w, g)
        <3> HIDE DEF P
        <3> QED
            BY <1>1, <2>1, <2>2, CarveOK
    <2>4. HeapOK(g, P \cup {x})
        BY <2>3 DEF Carved
    <2>5. x # EndAddr
        BY <1>1, <1>3, <2>1, Layout
    <2>6. Marked(g)
        <3>1. u.size \in [Node -> Nat]
            BY <1>1, <1>2
        <3>2. g.next = u.next /\ g.size = [[u.size EXCEPT ![x] = u.size[b] - w] EXCEPT ![b] = w]
            BY <1>1 DEF HeapOK, HeapRecord
        <3> HIDE DEF x, g
        <3> QED
            BY <1>3, <1>5, <2>5, <3>1, <3>2 DEF Marked
    <2>7. Split(u, b, w) = InsertBlock(g, x)
        BY <1>7 DEF Split
    <2>8. x \in P \cup {x}
        OBVIOUS
    <2> HIDE DEF g, x, P
    <2>9. Marked(InsertBlock(g, x))
        BY <2>4, <2>6, <2>8, InsertKeepsMarker
    <2> QED
        BY <2>7, <2>9 DEF u
<1> QED
    BY <1>6, <1>7 DEF u

\* No step changes the end marker of an initialised heap.
LEMMA StepKeepsMarker == IInv /\ Marker /\ [Next]_vars => Marker'
<1> SUFFICES ASSUME IInv, Marker, [Next]_vars
             PROVE  Marker'
    OBVIOUS
<1>0. Marked(Heap)
    <2>1. CASE Ready
        BY <2>1 DEF Marker, Heap
    <2>2. CASE ~Ready
        BY <2>2, HeapInitOK DEF IInv, TypeInv, Heap, Marked
    <2> QED
        BY <2>1, <2>2
<1>1. CASE StaticInit
    BY <1>1 DEF StaticInit, Marker, Ready
<1>2. ASSUME NEW n \in Requests, AllocateOk(n)
      PROVE  Marker'
    <2> DEFINE w == Want(n)
               b == FirstFit(Heap, w)
               h == Split(Unlink(Heap, b), b, w)
    <2>1. size' = h.size /\ next' = [h.next EXCEPT ![b] = Null]
        BY <1>2 DEF AllocateOk
    <2>2. HeapOK(Heap, owned)
        BY HeapNow DEF Accounted
    <2>3. /\ w \in Nat /\ w % 8 = 0 /\ w >= StructSize
          /\ b \in Heap.free /\ w <= Heap.size[b] /\ Taken(Heap, owned, b, w, h)
        BY <1>2, AllocateFacts DEF AllocateOk
    <2> HIDE DEF w, b
    <2>4. Marked(h)
        BY <1>0, <2>2, <2>3, TakeKeepsMarker
    <2>5. b # EndAddr /\ h.next \in [Node -> Node \cup {Null}] /\ EndAddr \in Node
        BY <2>3, InnerFacts, Layout DEF Taken, HeapOK, HeapRecord
    <2> HIDE DEF h
    <2> QED
        BY <2>1, <2>4, <2>5 DEF Marker, Marked, Current
<1>3. ASSUME NEW n \in Requests, AllocateFail(n)
      PROVE  Marker'
    BY <1>0, <1>3 DEF AllocateFail, Install, Marker, Marked, Current
<1>4. ASSUME NEW p \in Pointers, FreeOk(p)
      PROVE  Marker'
    <2> DEFINE b == p - StructSize
    <2>1. b \in owned /\ Install(InsertBlock(Current, b))
        BY <1>4 DEF FreeOk, Allocated
    <2>2. Ready /\ HeapOK(Current, owned)
        BY <2>1 DEF IInv, HeapInv, Accounted
    <2> HIDE DEF b
    <2>3. Marked(InsertBlock(Current, b))
        BY <2>1, <2>2, InsertKeepsMarker DEF Marker
    <2> QED
        BY <2>1, <2>3 DEF Install, Marker, Marked, Current
<1>5. ASSUME UNCHANGED vars
      PROVE  Marker'
    BY <1>5 DEF vars, Marker, Marked, Current, Ready
<1>6. ASSUME NEW p \in Pointers, FreeIgnored(p)
      PROVE  Marker'
    BY <1>5, <1>6 DEF FreeIgnored
<1>7. ASSUME NEW p \in DOMAIN live, AppFill(p)
      PROVE  Marker'
    <2>1. PICK b \in owned : p = Payload(b)
        BY DEF IInv, TypeInv
    <2>2. Ready /\ Tiles(free \cup owned, size) /\ size \in [Node -> Nat]
        BY ReadyFacts, <2>1 DEF IInv, HeapInv, Blocks
    <2>3. p \in Nat /\ live[p] \in Nat /\ p + live[p] <= EndAddr
        <3>1. b \in Nat /\ size[b] \in Nat /\ b + size[b] <= EndAddr
            BY <2>2, EndsInHeap
        <3>2. /\ live[p] \in Nat /\ 0 < live[p] /\ live[p] < AllocBit
              /\ Want(live[p]) <= size[b]
            BY <2>1 DEF IInv, Held
        <3>3. Want(live[p]) \in Nat /\ Want(live[p]) >= live[p] + StructSize
            BY <3>2, WantFacts
        <3> QED
            BY <2>1, <3>1, <3>2, <3>3, Layout DEF Payload
    <2>4. EndAddr \in Node /\ EndAddr \notin Overwritten(p)
        BY <2>3, Layout DEF Overwritten
    <2>5. size'[EndAddr] = size[EndAddr] /\ next'[EndAddr] = next[EndAddr]
        BY <1>7, <2>4 DEF AppFill
    <2> QED
        BY <1>7, <2>5 DEF AppFill, Marker, Marked, Current, Ready
<1> QED
    BY <1>1, <1>2, <1>3, <1>4, <1>5, <1>6, <1>7 DEF Next

\* The free blocks up to address p, counted.
Rank(p) == Cardinality({f \in free : f <= p})

\* Every element of the list but the last has one block more behind it on the
\* list than the one before it.
LEMMA Ranks ==
    ASSUME IInv, Ready
    PROVE  /\ IsFiniteSet(free) /\ Cardinality(free) \in Nat
           /\ Rank(StartBlock) = 0
           /\ \A p \in free \cup {StartBlock} :
                 /\ p \in Nat /\ p # Null
                 /\ Rank(p) \in 0 .. Cardinality(free)
                 /\ p < next[p]
                 /\ \/ next[p] \in free /\ Rank(next[p]) = Rank(p) + 1
                    \/ next[p] = EndAddr /\ Rank(p) = Cardinality(free)
<1>1. free \subseteq Inner /\ Chain(free, next)
    BY CurrentFields DEF IInv, HeapInv, Accounted, HeapOK, HeapRecord
<1>2. free \subseteq 0 .. EndAddr /\ free \cup {StartBlock} \subseteq Nat
    BY <1>1, InnerFacts, Layout
<1>3. IsFiniteSet(0 .. EndAddr)
    <2>1. 0 \in Int /\ EndAddr \in Int
        BY Layout
    <2> QED
        BY <2>1, FS_Interval
<1>4. IsFiniteSet(free) /\ Cardinality(free) \in Nat
    BY <1>2, <1>3, FS_Subset, FS_CardinalityType
<1>5. Rank(StartBlock) = 0
    <2>1. {f \in free : f <= StartBlock} = {}
        BY <1>1, InnerFacts, Layout
    <2> QED
        BY <2>1, FS_EmptySet DEF Rank
<1>6. ASSUME NEW p \in free \cup {StartBlock}
      PROVE  /\ p \in Nat /\ p # Null
             /\ Rank(p) \in 0 .. Cardinality(free)
             /\ p < next[p]
             /\ \/ next[p] \in free /\ Rank(next[p]) = Rank(p) + 1
                \/ next[p] = EndAddr /\ Rank(p) = Cardinality(free)
    <2> DEFINE U(q) == {f \in free : f <= q}
    <2>1. p \in Nat /\ p # Null /\ p < next[p] /\ next[p] \in free \cup {EndAddr}
        BY <1>1, <1>2, InnerFacts, Layout DEF Chain
    <2>2. \A f \in free : ~(p < f /\ f < next[p])
        BY <1>1 DEF Chain
    <2>3. U(p) \subseteq free
        OBVIOUS
    <2>4. IsFiniteSet(U(p)) /\ Rank(p) \in Nat /\ Rank(p) <= Cardinality(free)
        BY <1>4, <2>3, FS_Subset, FS_CardinalityType DEF Rank
    <2>5. CASE next[p] = EndAddr
        <3>1. U(p) = free
            BY <1>1, <1>2, <2>1, <2>2, <2>5, InnerFacts
        <3> QED
            BY <1>4, <2>1, <2>4, <2>5, <3>1 DEF Rank
    <2>6. CASE next[p] \in free
        <3>1. U(next[p]) = U(p) \cup {next[p]} /\ next[p] \notin U(p)
            BY <1>2, <2>1, <2>2, <2>6
        <3> HIDE DEF U
        <3>2. Cardinality(U(p) \cup {next[p]}) = Cardinality(U(p)) + 1
            BY <2>4, <3>1, FS_AddElement
        <3> QED
            BY <1>4, <2>1, <2>4, <2>6, <3>1, <3>2 DEF Rank, U
    <2> QED
        BY <2>1, <2>5, <2>6
<1> QED
    BY <1>4, <1>5, <1>6

\* Two elements of the list do not have the same rank.
LEMMA RankInjective ==
    ASSUME IInv, Ready, NEW p \in free \cup {StartBlock}, NEW q \in free \cup {StartBlock},
           Rank(p) = Rank(q)
    PROVE  p = q
<1>1. ASSUME NEW a \in free \cup {StartBlock}, NEW b \in free \cup {StartBlock}, a < b
      PROVE  Rank(a) # Rank(b)
    <2> DEFINE A == {f \in free : f <= a}
               B == {f \in free : f <= b}
    <2>1. a \in Nat /\ b \in Nat /\ free \subseteq Nat /\ IsFiniteSet(free)
        BY Ranks
    <2>2. b \in free
        BY <1>1, <2>1, CurrentFields, InnerFacts, Layout
           DEF IInv, HeapInv, Accounted, HeapOK, HeapRecord
    <2>3. A \subseteq B /\ b \in B /\ b \notin A /\ B \subseteq free
        <3>1. \A f \in free : f \in Nat /\ (f <= a => f <= b)
            BY <1>1, <2>1
        <3>2. b <= b /\ ~(b <= a)
            BY <1>1, <2>1
        <3> QED
            BY <2>2, <3>1, <3>2
    <2>4. IsFiniteSet(B)
        BY <2>1, <2>3, FS_Subset
    <2> HIDE DEF A, B
    <2>5. Cardinality(A) # Cardinality(B)
        BY <2>3, <2>4, FS_Subset
    <2> QED
        BY <2>5 DEF A, B, Rank
<1>2. p \in Nat /\ q \in Nat
    BY Ranks
<1> QED
    BY <1>1, <1>2

\* There is an element of every rank.
LEMMA EveryRank ==
    ASSUME IInv, Ready, NEW k \in 0 .. Cardinality(free)
    PROVE  \E p \in free \cup {StartBlock} : Rank(p) = k
<1> DEFINE Missing == {j \in 0 .. Cardinality(free) :
                          \A p \in free \cup {StartBlock} : Rank(p) # j}
<1>1. Cardinality(free) \in Nat
    BY Ranks
<1>2. SUFFICES ASSUME Missing # {}
               PROVE  FALSE
    OBVIOUS
<1>3. Missing \in SUBSET Nat
    OBVIOUS
<1>4. PICK m \in Missing : \A j \in Missing : m <= j
    BY <1>2, <1>3, Least
<1>5. m # 0
    BY Ranks
<1>6. m - 1 \in 0 .. Cardinality(free) /\ m - 1 \notin Missing
    BY <1>1, <1>4, <1>5
<1>7. PICK p \in free \cup {StartBlock} : Rank(p) = m - 1
    BY <1>6
<1>8. next[p] \in free /\ Rank(next[p]) = Rank(p) + 1
    BY <1>1, <1>4, <1>7, Ranks
<1> QED
    BY <1>4, <1>7, <1>8

\* Following pxNextFreeBlock from start_block visits the free blocks, every one
\* and nothing else, in increasing address, and stops at the end marker.
THEOREM FreeListExactHolds == Spec => []FreeListExact
<1>1. IInv /\ Marker => FreeListExact
    <2> SUFFICES ASSUME IInv, Marker, Ready
                 PROVE  FreeListExact
        BY DEF FreeListExact
    <2> DEFINE len == Cardinality(free)
               at[k \in 0 .. len + 1] ==
                  IF k = 0 THEN StartBlock
                  ELSE IF at[k - 1] = Null THEN Null ELSE next[at[k - 1]]
               \* The element of rank k.
               ranked(k) == CHOOSE p \in free \cup {StartBlock} : Rank(p) = k
               found == [k \in 0 .. len + 1 |-> IF k <= len THEN ranked(k) ELSE EndAddr]
    <2>1. len \in Nat
        BY Ranks
    <2>2. \A k \in 0 .. len : ranked(k) \in free \cup {StartBlock} /\ Rank(ranked(k)) = k
        BY EveryRank
    <2>3. \A k \in 0 .. len : found[k] = ranked(k)
        BY <2>1
    <2>4. found[len + 1] = EndAddr
        BY <2>1
    <2> HIDE DEF ranked, found, len
    <2>5. found[0] = StartBlock
        BY <2>1, <2>2, <2>3, Ranks, RankInjective
    <2>6. \A k \in 1 .. len + 1 : /\ found[k - 1] # Null
                                  /\ found[k] = next[found[k - 1]]
                                  /\ found[k - 1] < found[k]
        <3> SUFFICES ASSUME NEW k \in 1 .. len + 1
                     PROVE  /\ found[k - 1] # Null
                            /\ found[k] = next[found[k - 1]]
                            /\ found[k - 1] < found[k]
            OBVIOUS
        <3> DEFINE p == found[k - 1]
        <3>1. k - 1 \in 0 .. len /\ p \in free \cup {StartBlock} /\ Rank(p) = k - 1
            BY <2>1, <2>2, <2>3
        <3>2. p # Null /\ p < next[p]
            BY <3>1, Ranks
        <3> HIDE DEF p
        <3>3. CASE k <= len
            <4>1. next[p] \in free /\ Rank(next[p]) = k
                BY <2>1, <3>1, <3>3, Ranks DEF len
            <4>2. k \in 0 .. len
                BY <2>1, <3>3
            <4>3. found[k] = next[p]
                BY <2>2, <2>3, <4>1, <4>2, RankInjective
            <4> QED
                BY <3>2, <4>3 DEF p
        <3>4. CASE k = len + 1
            <4>1. next[p] = EndAddr
                BY <2>1, <3>1, <3>4, Ranks DEF len
            <4> QED
                BY <2>4, <3>2, <3>4, <4>1 DEF p
        <3> QED
            BY <2>1, <3>3, <3>4
    <2>7. found = [k \in 0 .. len + 1 |->
                      IF k = 0 THEN StartBlock
                      ELSE IF found[k - 1] = Null THEN Null ELSE next[found[k - 1]]]
        <3>1. \A k \in 0 .. len + 1 :
                 found[k] = IF k = 0 THEN StartBlock
                            ELSE IF found[k - 1] = Null THEN Null ELSE next[found[k - 1]]
            BY <2>1, <2>5, <2>6
        <3>2. found = [k \in 0 .. len + 1 |-> found[k]]
            BY DEF found
        <3> QED
            BY <3>1, <3>2
    <2>8. at = [k \in 0 .. len + 1 |->
                   IF k = 0 THEN StartBlock
                   ELSE IF at[k - 1] = Null THEN Null ELSE next[at[k - 1]]]
        BY <2>7
    <2> HIDE DEF at
    <2>9. \A k \in 0 .. len + 1 : at[k] = found[k]
        <3> DEFINE Wrong == {k \in 0 .. len + 1 : at[k] # found[k]}
        <3>1. SUFFICES ASSUME Wrong # {}
                       PROVE  FALSE
            OBVIOUS
        <3>2. Wrong \in SUBSET Nat
            OBVIOUS
        <3>3. PICK k \in Wrong : \A j \in Wrong : k <= j
            BY <3>1, <3>2, Least
        <3>4. k # 0
            BY <2>1, <2>5, <2>8
        <3>5. k - 1 \in 0 .. len + 1 /\ k - 1 \notin Wrong
            BY <2>1, <3>3, <3>4
        <3> QED
            BY <2>1, <2>6, <2>8, <3>3, <3>4, <3>5
    <2>10. {at[k] : k \in 1 .. len} = free
        <3>1. \A k \in 1 .. len : at[k] \in free
            BY <2>1, <2>2, <2>3, <2>9, Ranks
        <3>2. ASSUME NEW f \in free
              PROVE  Rank(f) \in 1 .. len /\ at[Rank(f)] = f
            <4>1. Rank(f) \in 0 .. len
                BY Ranks DEF len
            <4>2. Rank(f) # 0
                BY RankInjective, Ranks, CurrentFields, InnerFacts
                   DEF IInv, HeapInv, Accounted, HeapOK, HeapRecord
            <4>3. found[Rank(f)] = f
                BY <2>2, <2>3, <4>1, RankInjective
            <4> QED
                BY <2>1, <2>9, <4>1, <4>2, <4>3
        <3> QED
            BY <3>1, <3>2
    <2>11. \A k \in 1 .. len : at[k - 1] < at[k]
        BY <2>1, <2>6, <2>9
    <2>12. at[len + 1] = EndAddr
        BY <2>1, <2>4, <2>9
    <2>13. next[EndAddr] = Null /\ size[EndAddr] = 0
        BY DEF Marker, Marked, Current
    <2> QED
        BY <2>10, <2>11, <2>12, <2>13 DEF FreeListExact, at, len
<1>2. Init => Marker
    BY DEF Init, Marker, Ready
<1>3. Spec => []Marker
    BY <1>2, InitIInv, NextIInv, StepKeepsMarker, PTL DEF Spec
<1> QED
    BY <1>1, <1>3, Inductive, PTL
=============================================================================
