------------------------ MODULE MemoryManagerProofs ------------------------
(***************************************************************************)
(* Proofs about MemoryManager, for every buffer, header size, word width   *)
(* and set of requests.                                                    *)
(***************************************************************************)
EXTENDS MemoryManager, TLAPS, FiniteSetTheorems, WellFoundedInduction

(* The constants *)

\* Rounding an address down to a multiple of align_byte.
LEMMA AlignDownFacts ==
    ASSUME NEW x \in Nat
    PROVE  /\ AlignDown(x) \in Nat
           /\ AlignDown(x) % 8 = 0
           /\ AlignDown(x) <= x
           /\ x < AlignDown(x) + 8
BY DEF AlignDown, Align

\* Rounding up: the least multiple of align_byte that is not below.
LEMMA AlignUpFacts ==
    ASSUME NEW x \in Nat
    PROVE  /\ AlignUp(x) \in Nat
           /\ AlignUp(x) % 8 = 0
           /\ x <= AlignUp(x)
           /\ AlignUp(x) < x + 8
BY DEF AlignUp, AlignDown, Align

\* What is below the modulus is its own remainder.
LEMMA SmallModulo ==
    ASSUME NEW x \in Nat, NEW m \in Nat, x < m
    PROVE  x % m = x
OBVIOUS

\* Where prv_heap_init puts things: the heap has room for one header, its
\* ends are aligned, and start_block is outside it.
LEMMA Layout ==
    /\ StructSize \in Nat /\ StructSize % 8 = 0 /\ StructSize >= 8
    /\ MiniBlockSize = 2 * StructSize
    /\ HeapStart \in Nat /\ HeapStart % 8 = 0 /\ HeapStart >= Buff /\ HeapStart > StartBlock
    /\ EndAddr \in Nat /\ EndAddr % 8 = 0
    /\ HeapStart + StructSize <= EndAddr
    /\ EndAddr + StructSize <= Buff + BuffSize
    /\ StartBlock = 1 /\ Null = 0 /\ StartBlock \in Nat
    /\ StartBlock \in Node /\ HeapStart \in Node /\ EndAddr \in Node
    /\ Node \subseteq Nat
<1>1. StructSize \in Nat /\ StructSize % 8 = 0 /\ StructSize >= LinkSize
    BY AlignUpFacts, SizesAssumption DEF StructSize
<1>2. StructSize >= 8
    BY <1>1, SizesAssumption
<1>3. HeapStart \in Nat /\ HeapStart % 8 = 0 /\ HeapStart >= Buff
    BY AlignUpFacts, SizesAssumption DEF HeapStart
<1>4. Buff + BuffSize - StructSize \in Nat
    BY <1>1, SizesAssumption
<1>5. EndAddr \in Nat /\ EndAddr % 8 = 0 /\ EndAddr <= Buff + BuffSize - StructSize
    BY <1>4, AlignDownFacts DEF EndAddr
<1>6. HeapStart > StartBlock
    BY <1>3, SizesAssumption DEF StartBlock
<1>7. StartBlock \in Node /\ HeapStart \in Node /\ EndAddr \in Node /\ Node \subseteq Nat
    BY <1>1, <1>3, <1>5, SizesAssumption DEF Node, StartBlock, Align
<1> QED
    BY <1>1, <1>2, <1>3, <1>5, <1>6, <1>7, SizesAssumption DEF StartBlock, Null, MiniBlockSize

\* A request with a clear top bit becomes a size that is aligned, holds the
\* request and a header, and does not wrap.
LEMMA WantFacts ==
    ASSUME NEW n \in Nat, 0 < n, n < AllocBit
    PROVE  /\ Want(n) \in Nat
           /\ Want(n) % 8 = 0
           /\ Want(n) >= n + StructSize
           /\ Want(n) < n + StructSize + 8
<1>1. AlignUp(n + StructSize) \in Nat /\ AlignUp(n + StructSize) < Word
    BY AlignUpFacts, Layout, SizesAssumption DEF Word, Align
<1>2. Want(n) = AlignUp(n + StructSize)
    BY <1>1, SmallModulo, SizesAssumption DEF Want, Word
<1> QED
    BY <1>2, AlignUpFacts, Layout

-----------------------------------------------------------------------------
(* Sets of natural numbers *)

\* A set of numbers has a least element.
LEMMA Least ==
    ASSUME NEW S \in SUBSET Nat, S # {}
    PROVE  \E m \in S : \A x \in S : m <= x
<1>1. \E m \in S : \A x \in S : ~ (<<x, m>> \in OpToRel(<, Nat))
    BY NatLessThanWellFounded, WFMin
<1>2. ASSUME NEW m \in S, NEW x \in S, ~ (<<x, m>> \in OpToRel(<, Nat))
      PROVE  m <= x
    BY <1>2 DEF OpToRel
<1> QED
    BY <1>1, <1>2

\* A bounded set of numbers has a greatest element.
LEMMA LargestBelow ==
    ASSUME NEW S \in SUBSET Nat, NEW x \in Nat, \E p \in S : p < x
    PROVE  \E p \in S : p < x /\ \A q \in S : q < x => q <= p
<1> DEFINE T == {x - p : p \in {q \in S : q < x}}
<1>1. T \in SUBSET Nat /\ T # {}
    OBVIOUS
<1>2. PICK m \in T : \A t \in T : m <= t
    BY <1>1, Least
<1>3. PICK p \in S : p < x /\ m = x - p
    BY <1>2
<1>4. ASSUME NEW q \in S, q < x
      PROVE  q <= p
    <2>1. x - q \in T
        BY <1>4
    <2>2. m <= x - q
        BY <2>1, <1>2
    <2> QED
        BY <2>2, <1>3, <1>4
<1> QED
    BY <1>3, <1>4

-----------------------------------------------------------------------------
(* The shape of the heap, as predicates of the header words.               *)

\* The addresses a block can have.
Inner == Node \ {StartBlock, EndAddr}

HeapRecord == [free : SUBSET Inner,
               size : [Node -> Nat],
               next : [Node -> Node \cup {Null}]]

\* Blocks B with sizes sz cover the heap up to the end marker, no two overlap.
Tiles(B, sz) ==
    /\ B \subseteq Inner
    /\ HeapStart \in B
    /\ \A b \in B : sz[b] >= StructSize /\ b + sz[b] \in B \cup {EndAddr}
    /\ \A b, c \in B : b < c => b + sz[b] <= c

\* nx links the blocks F from start_block to the end marker in address order.
Chain(F, nx) ==
    \A p \in F \cup {StartBlock} :
        /\ nx[p] \in F \cup {EndAddr}
        /\ p < nx[p]
        /\ \A f \in F : ~(p < f /\ f < nx[p])

\* No two blocks of F are neighbours.
NoPair(F, sz) == \A b, c \in F : b + sz[b] # c

\* A heap h whose allocated blocks are O.
HeapOK(h, O) ==
    /\ h \in HeapRecord
    /\ O \subseteq Inner
    /\ h.free \cap O = {}
    /\ h.size[StartBlock] = 0
    /\ Tiles(h.free \cup O, h.size)
    /\ Chain(h.free, h.next)
    /\ NoPair(h.free, h.size)

\* The bytes of blocks F.
Cover(F, sz) == UNION {b .. b + sz[b] - 1 : b \in F}

\* The address of a block is an aligned one between the ends of the heap.
LEMMA InnerFacts ==
    ASSUME NEW x \in Inner
    PROVE  /\ x \in Nat /\ x \in Node /\ x % 8 = 0
           /\ HeapStart <= x /\ x < EndAddr /\ StartBlock < x
           /\ x # StartBlock /\ x # EndAddr /\ x # Null
BY Layout DEF Inner, Node, Align

\* In sz2 the block x of B has taken over its right neighbour y.
Merges(B, sz, sz2, x, y) ==
    /\ x \in B /\ y \in B /\ x # y
    /\ x + sz[x] = y
    /\ sz2[x] = sz[x] + sz[y]
    /\ \A c \in B \ {x, y} : sz2[c] = sz[c]

\* Merging a block with its right neighbour keeps the tiling.
LEMMA TilesMerge ==
    ASSUME NEW B, NEW sz \in [Node -> Nat], NEW sz2 \in [Node -> Nat], Tiles(B, sz),
           NEW x, NEW y, Merges(B, sz, sz2, x, y)
    PROVE  Tiles(B \ {y}, sz2)
<1>0. /\ x \in B /\ y \in B /\ x + sz[x] = y /\ sz2[x] = sz[x] + sz[y]
      /\ \A c \in B \ {x, y} : sz2[c] = sz[c]
    BY DEF Merges
<1>1. B \subseteq Inner /\ B \subseteq Nat /\ B \subseteq Node
    BY InnerFacts DEF Tiles
<1>2. x < y
    BY <1>0, <1>1, Layout DEF Tiles
<1>3. HeapStart \in B \ {y}
    BY <1>0, <1>1, <1>2, InnerFacts DEF Tiles
<1>4. ASSUME NEW b \in B \ {y}
      PROVE  sz2[b] >= StructSize /\ b + sz2[b] \in (B \ {y}) \cup {EndAddr}
    <2>1. CASE b = x
        BY <2>1, <1>0, <1>1, <1>2, Layout DEF Tiles
    <2>2. CASE b # x
        <3>1. sz2[b] = sz[b]
            BY <2>2, <1>0, <1>4
        <3>2. b + sz[b] # y
            BY <2>2, <1>0, <1>1, <1>2, <1>4, Layout DEF Tiles
        <3> QED
            BY <3>1, <3>2 DEF Tiles
    <2> QED
        BY <2>1, <2>2
<1>5. ASSUME NEW b \in B \ {y}, NEW c \in B \ {y}, b < c
      PROVE  b + sz2[b] <= c
    <2>1. CASE b = x
        BY <2>1, <1>0, <1>1, <1>2, <1>5, Layout DEF Tiles
    <2>2. CASE b # x
        BY <2>2, <1>0, <1>5 DEF Tiles
    <2> QED
        BY <2>1, <2>2
<1> QED
    BY <1>1, <1>3, <1>4, <1>5 DEF Tiles

\* Merging two neighbours changes which bytes are covered in nothing.
LEMMA CoverMerge ==
    ASSUME NEW F, F \subseteq Inner,
           NEW sz \in [Node -> Nat], NEW sz2 \in [Node -> Nat],
           NEW x, NEW y, Merges(F, sz, sz2, x, y)
    PROVE  Cover(F \ {y}, sz2) = Cover(F, sz)
<1>0. /\ x \in F /\ y \in F /\ x # y /\ x + sz[x] = y /\ sz2[x] = sz[x] + sz[y]
      /\ \A c \in F \ {x, y} : sz2[c] = sz[c]
    BY DEF Merges
<1>1. F \subseteq Nat /\ F \subseteq Node
    BY InnerFacts
<1>2. ASSUME NEW a \in Cover(F \ {y}, sz2)
      PROVE  a \in Cover(F, sz)
    <2>1. PICK b \in F \ {y} : a \in b .. b + sz2[b] - 1
        BY DEF Cover
    <2>2. CASE b = x
        <3>1. a \in x .. x + sz[x] - 1 \/ a \in y .. y + sz[y] - 1
            BY <2>1, <2>2, <1>0, <1>1
        <3> QED
            BY <3>1, <1>0 DEF Cover
    <2>3. CASE b # x
        BY <2>1, <2>3, <1>0 DEF Cover
    <2> QED
        BY <2>2, <2>3
<1>3. ASSUME NEW a \in Cover(F, sz)
      PROVE  a \in Cover(F \ {y}, sz2)
    <2>1. PICK b \in F : a \in b .. b + sz[b] - 1
        BY DEF Cover
    <2>2. CASE b \in {x, y}
        <3>1. a \in x .. x + sz2[x] - 1
            BY <2>1, <2>2, <1>0, <1>1
        <3> QED
            BY <3>1, <1>0 DEF Cover
    <2>3. CASE b \notin {x, y}
        BY <2>1, <2>3, <1>0 DEF Cover
    <2> QED
        BY <2>2, <2>3
<1> QED
    BY <1>2, <1>3

\* Linking a block in behind p.
LEMMA ChainInsert ==
    ASSUME NEW F, F \subseteq Inner, NEW nx, NEW nx2, Chain(F, nx),
           NEW p \in F \cup {StartBlock}, NEW b \in Inner, b \notin F,
           p < b, nx[p] >= b,
           nx2[b] = nx[p], nx2[p] = b,
           \A q \in (F \cup {StartBlock}) \ {p} : nx2[q] = nx[q]
    PROVE  Chain(F \cup {b}, nx2)
<1>1. F \cup {StartBlock, EndAddr, b} \subseteq Nat
    BY InnerFacts, Layout
<1>2. nx[p] > b
    BY <1>1, InnerFacts DEF Chain
<1>3. ASSUME NEW q \in (F \cup {StartBlock}) \ {p}
      PROVE  ~(q < b /\ b < nx[q])
    BY <1>1, <1>3, <1>2, InnerFacts, Layout DEF Chain
<1> QED
    BY <1>1, <1>2, <1>3, InnerFacts DEF Chain

\* Unlinking the block y that follows x.
LEMMA ChainRemove ==
    ASSUME NEW F, F \subseteq Inner, NEW nx, NEW nx2, Chain(F, nx),
           NEW x \in F \cup {StartBlock}, NEW y \in F, nx[x] = y,
           nx2[x] = nx[y],
           \A q \in (F \cup {StartBlock}) \ {x, y} : nx2[q] = nx[q]
    PROVE  Chain(F \ {y}, nx2)
<1>1. F \cup {StartBlock, EndAddr} \subseteq Nat
    BY InnerFacts, Layout
<1>2. x < y /\ y < nx[y]
    BY DEF Chain
<1>3. ASSUME NEW q \in (F \cup {StartBlock}) \ {x, y}
      PROVE  nx[q] # y
    BY <1>1, <1>2, <1>3, InnerFacts, Layout DEF Chain
<1>4. nx2[x] \in (F \ {y}) \cup {EndAddr} /\ x < nx2[x]
    BY <1>1, <1>2 DEF Chain
<1>5. ASSUME NEW f \in F \ {y}
      PROVE  ~(x < f /\ f < nx2[x])
    BY <1>1, <1>2, <1>5 DEF Chain
<1>6. ASSUME NEW q \in ((F \ {y}) \cup {StartBlock}) \ {x}
      PROVE  /\ nx2[q] = nx[q] /\ nx[q] # y
             /\ nx[q] \in F \cup {EndAddr} /\ q < nx[q]
             /\ \A f \in F : ~(q < f /\ f < nx[q])
    <2>1. q \in (F \cup {StartBlock}) \ {x, y}
        BY <1>6, InnerFacts
    <2> QED
        BY <2>1, <1>3 DEF Chain
<1> QED
    BY <1>4, <1>5, <1>6 DEF Chain

\* Where b belongs on the list, it has a predecessor.
LEMMA Predecessor ==
    ASSUME NEW F, F \subseteq Inner, NEW nx, Chain(F, nx), NEW b \in Inner
    PROVE  \E p \in F \cup {StartBlock} : p < b /\ nx[p] >= b
<1>1. F \cup {StartBlock} \subseteq Nat /\ b \in Nat /\ EndAddr \in Nat /\ StartBlock < b
    BY InnerFacts, Layout
<1>2. PICK p \in F \cup {StartBlock} :
          p < b /\ \A q \in F \cup {StartBlock} : q < b => q <= p
    BY <1>1, LargestBelow
<1>3. nx[p] \in F \cup {EndAddr} /\ p < nx[p]
    BY DEF Chain
<1> QED
    BY <1>1, <1>2, <1>3, InnerFacts

\* Only one block of the list precedes a given block.
LEMMA PredecessorUnique ==
    ASSUME NEW F, F \subseteq Inner, NEW nx, Chain(F, nx), NEW y \in F,
           NEW p \in F \cup {StartBlock}, NEW q \in F \cup {StartBlock},
           nx[p] = y, nx[q] = y
    PROVE  p = q
<1>1. F \cup {StartBlock} \subseteq Nat
    BY InnerFacts, Layout
<1>2. p < y /\ q < y
    BY DEF Chain
<1>3. (p \in F => ~(q < p)) /\ (q \in F => ~(p < q))
    BY <1>2 DEF Chain
<1> QED
    BY <1>1, <1>3, InnerFacts

\* In a chain, one block needs to be compared with its two neighbours only.
LEMMA NoPairNeighbours ==
    ASSUME NEW B, NEW sz \in [Node -> Nat], Tiles(B, sz),
           NEW G, G \subseteq B, NEW nx, Chain(G, nx),
           NEW x \in G, x + sz[x] # nx[x] \/ nx[x] = EndAddr,
           \A p \in G : nx[p] = x => p + sz[p] # x,
           NoPair(G \ {x}, sz)
    PROVE  NoPair(G, sz)
<1>1. B \subseteq Nat /\ B \subseteq Inner /\ EndAddr \in Nat /\ B \subseteq Node
    BY InnerFacts, Layout DEF Tiles
<1>2. \A b \in B : sz[b] \in Nat /\ sz[b] > 0 /\ b < EndAddr
    BY <1>1, InnerFacts, Layout DEF Tiles
<1>3. ASSUME NEW g \in G
      PROVE  /\ g \in Nat /\ nx[g] \in Nat /\ g < nx[g]
             /\ nx[g] \in G \cup {EndAddr}
             /\ \A f \in G : g < f => nx[g] <= f
    <2>1. g < nx[g] /\ nx[g] \in G \cup {EndAddr} /\ \A f \in G : ~(g < f /\ f < nx[g])
        BY DEF Chain
    <2>2. nx[g] \in Nat /\ g \in Nat /\ G \subseteq Nat
        BY <2>1, <1>1
    <2> QED
        BY <2>1, <2>2
<1>4. ASSUME NEW g \in G, NEW f \in G, g < f
      PROVE  nx[g] \in G /\ g + sz[g] <= nx[g] /\ nx[g] <= f
    <2>1. nx[g] <= f /\ f < EndAddr /\ f \in Nat
        BY <1>1, <1>2, <1>3, <1>4
    <2>2. nx[g] \in G
        BY <2>1, <1>1, <1>3
    <2>3. g + sz[g] <= nx[g]
        BY <2>2, <1>3 DEF Tiles
    <2> QED
        BY <2>1, <2>2, <2>3
<1>5. ASSUME NEW c \in G, x + sz[x] = c
      PROVE  FALSE
    <2>1. x < c
        BY <1>1, <1>2, <1>5
    <2>2. nx[x] = c
        BY <2>1, <1>1, <1>3, <1>4, <1>5
    <2> QED
        BY <2>2, <1>1, <1>2, <1>5
<1>6. ASSUME NEW c \in G, c + sz[c] = x
      PROVE  FALSE
    <2>1. c < x
        BY <1>1, <1>2, <1>6
    <2>2. nx[c] = x
        BY <2>1, <1>1, <1>3, <1>4, <1>6
    <2> QED
        BY <2>2, <1>6
<1> QED
    BY <1>5, <1>6 DEF NoPair

-----------------------------------------------------------------------------
(* prv_insert_block_into_free_list                                         *)

\* A sound heap h with an allocated block b, taken apart.
Shape(h, O, b) ==
    /\ h \in HeapRecord
    /\ h.free \subseteq Inner /\ O \subseteq Inner /\ h.free \cap O = {}
    /\ h.size \in [Node -> Nat] /\ h.next \in [Node -> Node \cup {Null}]
    /\ h.size[StartBlock] = 0
    /\ Tiles(h.free \cup O, h.size)
    /\ Chain(h.free, h.next)
    /\ NoPair(h.free, h.size)
    /\ b \in Inner /\ b \in Node /\ b \in Nat /\ b \notin h.free /\ b # StartBlock /\ b # EndAddr
    /\ h.free \cup {StartBlock, EndAddr} \subseteq Node
    /\ EndAddr \notin h.free /\ StartBlock \notin h.free

\* What a sound heap says of a block that is being freed.
LEMMA HeapFacts ==
    ASSUME NEW h, NEW O, HeapOK(h, O), NEW b \in O
    PROVE  Shape(h, O, b)
BY InnerFacts, Layout DEF HeapOK, HeapRecord, Shape, Inner

\* Where the search of lines 16-20 stops.
LEMMA IteratorFacts ==
    ASSUME NEW h, NEW O, HeapOK(h, O), NEW b \in O,
           NEW it, it = Iterator(h, b), NEW y, y = h.next[it]
    PROVE  /\ it \in h.free \cup {StartBlock} /\ it \in Node /\ it \in Nat
           /\ it < b
           /\ y > b
           /\ y \in h.free \cup {EndAddr} /\ y \in Node /\ y \in Nat
           /\ JoinsPrevious(h, it, b) => it \in h.free
<1>0. Shape(h, O, b)
    BY HeapFacts
<1>1. \E p \in h.free \cup {StartBlock} : p < b /\ h.next[p] >= b
    BY <1>0, Predecessor DEF Shape
<1>2. it \in h.free \cup {StartBlock} /\ it < b /\ y >= b
    BY <1>1 DEF Iterator
<1>3. y \in h.free \cup {EndAddr}
    BY <1>2, <1>0 DEF Chain, Shape
<1>4. it \in Node /\ it \in Nat /\ y \in Node /\ y \in Nat
    BY <1>2, <1>3, <1>0, InnerFacts, Layout DEF Shape
<1>5. y # b
    BY <1>3, <1>0, InnerFacts DEF Shape
<1>6. JoinsPrevious(h, it, b) => it # StartBlock
    <2>1. StartBlock + 0 # b
        BY <1>0, InnerFacts, Layout DEF Shape
    <2> QED
        BY <2>1, <1>0 DEF JoinsPrevious, Shape
<1> QED
    BY <1>2, <1>3, <1>4, <1>5, <1>6, <1>0 DEF Shape

\* Only the iterator comes before a block that is linked in behind it.
LEMMA InsertedBehind ==
    ASSUME NEW h, NEW O, HeapOK(h, O), NEW b \in O,
           NEW it, it = Iterator(h, b), NEW nx2, nx2[b] # b,
           \A q \in Node \ {it, b} : nx2[q] = h.next[q],
           NEW p \in h.free \cup {b}, nx2[p] = b
    PROVE  p = it
<1>0. Shape(h, O, b)
    BY HeapFacts
<1>1. ASSUME p \in h.free, p # it
      PROVE  FALSE
    <2>1. h.next[p] \in h.free \cup {EndAddr}
        BY <1>1, <1>0 DEF Chain, Shape
    <2>2. h.next[p] # b /\ p \in Node /\ p # b
        BY <2>1, <1>1, <1>0, InnerFacts DEF Shape
    <2> QED
        BY <2>2, <1>1
<1> QED
    BY <1>1

\* What every case of the insertion establishes.
Inserted(h, O, b, r) ==
    /\ HeapOK(r, O \ {b})
    /\ Cover(r.free, r.size) = Cover(h.free \cup {b}, h.size)
    /\ \A c \in O \ {b} : r.size[c] = h.size[c]

\* The list with b linked in behind the iterator.
LEMMA LinkedIn ==
    ASSUME NEW h, NEW O, HeapOK(h, O), NEW b \in O,
           NEW it, it = Iterator(h, b),
           NEW nx2, nx2[b] = h.next[it], nx2[it] = b,
           \A q \in Node \ {it, b} : nx2[q] = h.next[q]
    PROVE  Chain(h.free \cup {b}, nx2)
<1>0. Shape(h, O, b)
    BY HeapFacts
<1>1. it \in h.free \cup {StartBlock} /\ it < b /\ h.next[it] > b /\ h.next[it] \in Nat
    BY IteratorFacts
<1>2. \A q \in (h.free \cup {StartBlock}) \ {it} : nx2[q] = h.next[q]
    BY <1>0 DEF Shape
<1>3. h.next[it] >= b
    BY <1>0, <1>1 DEF Shape
<1> QED
    BY <1>0, <1>1, <1>2, <1>3, ChainInsert DEF Shape

\* Neither neighbour is free: the block is linked in.
LEMMA InsertAlone ==
    ASSUME NEW h, NEW O, HeapOK(h, O), NEW b \in O,
           ~JoinsPrevious(h, Iterator(h, b), b),
           ~Absorbs(b + h.size[b], h.next[Iterator(h, b)])
    PROVE  Inserted(h, O, b, InsertBlock(h, b))
<1> DEFINE it  == Iterator(h, b)
           y   == h.next[it]
           nx2 == [[h.next EXCEPT ![b] = y] EXCEPT ![it] = b]
           r   == [free |-> h.free \cup {b}, size |-> h.size, next |-> nx2]
<1>0. Shape(h, O, b)
    BY HeapFacts
<1>1. /\ it \in h.free \cup {StartBlock} /\ it \in Node /\ it \in Nat /\ it < b
      /\ y \in h.free \cup {EndAddr} /\ y \in Node /\ y \in Nat /\ y > b
    BY IteratorFacts
<1>2. it # b /\ y # b /\ y >= b
    BY <1>1, <1>0 DEF Shape
<1>3. InsertBlock(h, b) = r
    BY <1>2 DEF InsertBlock
<1>4. nx2 \in [Node -> Node \cup {Null}]
    BY <1>1, <1>0 DEF Shape
<1>5. nx2[b] = y /\ nx2[it] = b /\ \A q \in Node \ {it, b} : nx2[q] = h.next[q]
    BY <1>1, <1>2, <1>0 DEF Shape
<1> HIDE DEF nx2, it
<1>6. Chain(h.free \cup {b}, nx2)
    BY <1>5, LinkedIn DEF it
<1>7. NoPair(h.free \cup {b}, h.size)
    <2>1. b + h.size[b] # nx2[b] \/ nx2[b] = EndAddr
        BY <1>5 DEF Absorbs, it
    <2>2. \A p \in h.free \cup {b} : nx2[p] = b => p + h.size[p] # b
        BY <1>2, <1>5, InsertedBehind DEF JoinsPrevious, it
    <2>3. NoPair((h.free \cup {b}) \ {b}, h.size)
        BY <1>0 DEF NoPair, Shape
    <2> QED
        BY <2>1, <2>2, <2>3, <1>6, <1>0, NoPairNeighbours DEF Shape
<1>8. (h.free \cup {b}) \cup (O \ {b}) = h.free \cup O
    OBVIOUS
<1>9. r \in HeapRecord
    BY <1>4, <1>0 DEF HeapRecord, Shape
<1>10. HeapOK(r, O \ {b})
    BY <1>6, <1>7, <1>8, <1>9, <1>0 DEF HeapOK, Shape
<1> QED
    BY <1>3, <1>10 DEF Inserted

\* The next block is free: it is merged into the inserted one.
LEMMA InsertAbsorbing ==
    ASSUME NEW h, NEW O, HeapOK(h, O), NEW b \in O,
           ~JoinsPrevious(h, Iterator(h, b), b),
           Absorbs(b + h.size[b], h.next[Iterator(h, b)])
    PROVE  Inserted(h, O, b, InsertBlock(h, b))
<1> DEFINE it  == Iterator(h, b)
           y   == h.next[it]
           nx1 == [[h.next EXCEPT ![b] = y] EXCEPT ![it] = b]
           nx2 == [[h.next EXCEPT ![b] = h.next[y]] EXCEPT ![it] = b]
           sz2 == [h.size EXCEPT ![b] = @ + h.size[y]]
           G   == (h.free \ {y}) \cup {b}
           r   == [free |-> G, size |-> sz2, next |-> nx2]
<1>0. Shape(h, O, b)
    BY HeapFacts
<1>1. /\ it \in h.free \cup {StartBlock} /\ it \in Node /\ it \in Nat /\ it < b
      /\ y \in h.free \cup {EndAddr} /\ y \in Node /\ y \in Nat /\ y > b
    BY IteratorFacts
<1>2. y \in h.free /\ b + h.size[b] = y
    BY <1>1 DEF Absorbs
<1>3. it # b /\ y # b /\ y # it
    BY <1>0, <1>1 DEF Shape
<1>4. h.next[y] \in h.free \cup {EndAddr} /\ h.next[y] \in Node
    BY <1>0, <1>2 DEF Shape, Chain
<1>5. InsertBlock(h, b) = r
    BY <1>3 DEF InsertBlock
<1>6. nx2 \in [Node -> Node \cup {Null}] /\ sz2 \in [Node -> Nat]
    BY <1>0, <1>1, <1>4 DEF Shape
<1>7. /\ nx1[b] = y /\ nx1[it] = b /\ \A q \in Node \ {it, b} : nx1[q] = h.next[q]
      /\ nx2[b] = h.next[y] /\ nx2[it] = b /\ \A q \in Node \ {it, b} : nx2[q] = h.next[q]
      /\ sz2[b] = h.size[b] + h.size[y] /\ \A q \in Node \ {b} : sz2[q] = h.size[q]
    BY <1>0, <1>1, <1>3 DEF Shape
<1> HIDE DEF nx1, nx2, sz2, it
<1>8. Chain(G, nx2)
    <2>1. Chain(h.free \cup {b}, nx1)
        BY <1>7, LinkedIn DEF it
    <2>2. nx2[b] = nx1[y]
        BY <1>1, <1>3, <1>7
    <2>3. \A q \in ((h.free \cup {b}) \cup {StartBlock}) \ {b, y} : nx2[q] = nx1[q]
        BY <1>0, <1>3, <1>7 DEF Shape
    <2> DEFINE H == h.free \cup {b}
    <2>4. H \subseteq Inner /\ b \in H \cup {StartBlock} /\ y \in H /\ H \ {y} = G
        BY <1>0, <1>2, <1>3 DEF Shape
    <2>5. Chain(H, nx1) /\ \A q \in (H \cup {StartBlock}) \ {b, y} : nx2[q] = nx1[q]
        BY <2>1, <2>3
    <2> HIDE DEF H, y, G
    <2>6. Chain(H \ {y}, nx2)
        <3>1. nx1[b] = y
            BY <1>7
        <3> QED
            BY <3>1, <2>2, <2>4, <2>5, ChainRemove
    <2> QED
        BY <2>4, <2>6
<1>9. G \cup (O \ {b}) = (h.free \cup O) \ {y}
    BY <1>0, <1>2, <1>3 DEF Shape
<1>10. Tiles(G \cup (O \ {b}), sz2)
    <2>1. \A c \in (h.free \cup O) \ {b, y} : sz2[c] = h.size[c]
        BY <1>0, <1>7, InnerFacts DEF Shape
    <2> DEFINE B == h.free \cup O
    <2>2. b \in B /\ y \in B /\ b # y /\ Tiles(B, h.size)
        BY <1>0, <1>2, <1>3 DEF Shape
    <2>3. h.size \in [Node -> Nat] /\ sz2 \in [Node -> Nat]
        BY <1>0, <1>6 DEF Shape
    <2>4. Merges(B, h.size, sz2, b, y)
        BY <2>1, <2>2, <1>2, <1>3, <1>7 DEF Merges
    <2> HIDE DEF B, y, G
    <2>5. Tiles(B \ {y}, sz2)
        BY <2>2, <2>3, <2>4, TilesMerge
    <2> QED
        BY <2>5, <1>9 DEF B
<1>11. NoPair(G, sz2)
    <2>1. b + sz2[b] = y + h.size[y]
        BY <1>0, <1>1, <1>2, <1>7 DEF Shape
    <2>2. b + sz2[b] # nx2[b] \/ nx2[b] = EndAddr
        BY <2>1, <1>0, <1>2, <1>4, <1>7 DEF Shape, NoPair
    <2>3. \A p \in G : nx2[p] = b => p + sz2[p] # b
        <3>1. nx2[b] # b
            BY <1>0, <1>4, <1>7 DEF Shape
        <3>2. \A p \in h.free \cup {b} : nx2[p] = b => p = it
            BY <3>1, <1>7, InsertedBehind DEF it
        <3>3. it + sz2[it] # b
            BY <1>1, <1>3, <1>7 DEF JoinsPrevious, it
        <3> QED
            BY <3>2, <3>3
    <2>4. NoPair(G \ {b}, sz2)
        <3>1. \A p \in G \ {b} : p \in h.free /\ sz2[p] = h.size[p]
            BY <1>0, <1>7 DEF Shape
        <3> QED
            BY <3>1, <1>0 DEF Shape, NoPair
    <2> QED
        BY <2>2, <2>3, <2>4, <1>6, <1>8, <1>10, NoPairNeighbours
<1>12. r \in HeapRecord
    BY <1>0, <1>6 DEF Shape, HeapRecord
<1>13. HeapOK(r, O \ {b})
    <2>1. sz2[StartBlock] = 0
        BY <1>0, <1>7 DEF Shape
    <2>2. O \ {b} \subseteq Inner /\ G \cap (O \ {b}) = {}
        BY <1>0 DEF Shape
    <2> QED
        BY <2>1, <2>2, <1>8, <1>10, <1>11, <1>12 DEF HeapOK
<1>14. Cover(G, sz2) = Cover(h.free \cup {b}, h.size)
    <2> DEFINE H == h.free \cup {b}
    <2>1. \A c \in H \ {b, y} : sz2[c] = h.size[c]
        BY <1>0, <1>7 DEF Shape
    <2>2. H \subseteq Inner /\ b \in H /\ y \in H /\ H \ {y} = G
        BY <1>0, <1>2, <1>3 DEF Shape
    <2>3. b # y /\ b + h.size[b] = y /\ sz2[b] = h.size[b] + h.size[y]
        BY <1>2, <1>3, <1>7
    <2>4. h.size \in [Node -> Nat] /\ sz2 \in [Node -> Nat]
        BY <1>0, <1>6 DEF Shape
    <2> HIDE DEF H, y, G
    <2>5. Merges(H, h.size, sz2, b, y)
        BY <2>1, <2>2, <2>3 DEF Merges
    <2>6. Cover(H \ {y}, sz2) = Cover(H, h.size)
        BY <2>2, <2>4, <2>5, CoverMerge
    <2> QED
        BY <2>2, <2>6 DEF H
<1>15. \A c \in O \ {b} : sz2[c] = h.size[c]
    BY <1>0, <1>7, InnerFacts DEF Shape
<1> QED
    BY <1>5, <1>13, <1>14, <1>15 DEF Inserted

\* The sizes after the inserted block has been merged into the one before it.
Joined(h, O, b, it, sz1) ==
    /\ sz1 \in [Node -> Nat]
    /\ sz1[it] = h.size[it] + h.size[b]
    /\ \A q \in Node \ {it} : sz1[q] = h.size[q]
    /\ it + sz1[it] = b + h.size[b]
    /\ Tiles(h.free \cup (O \ {b}), sz1)
    /\ Cover(h.free, sz1) = Cover(h.free \cup {b}, h.size)
    /\ NoPair(h.free \ {it}, sz1)
    /\ \A p \in h.free \ {it} : p + sz1[p] # it

\* After the merge with the previous block the tiling and the bytes covered
\* are as if the block had been there all along.
LEMMA JoinedFacts ==
    ASSUME NEW h, NEW O, HeapOK(h, O), NEW b \in O,
           NEW it, it = Iterator(h, b), JoinsPrevious(h, it, b),
           NEW sz1 \in [Node -> Nat], sz1[it] = h.size[it] + h.size[b],
           \A q \in Node \ {it} : sz1[q] = h.size[q]
    PROVE  Joined(h, O, b, it, sz1)
<1>0. Shape(h, O, b)
    BY HeapFacts
<1>1. it \in h.free /\ it \in Node /\ it \in Nat /\ it < b
    BY IteratorFacts
<1>2. it + h.size[it] = b /\ it # b
    BY <1>0, <1>1 DEF Shape, JoinsPrevious
<1>4. it + sz1[it] = b + h.size[b]
    BY <1>0, <1>1, <1>2 DEF Shape
<1>5. Tiles((h.free \cup O) \ {b}, sz1)
    <2> DEFINE B == h.free \cup O
    <2>1. \A c \in B \ {it, b} : sz1[c] = h.size[c]
        BY <1>0, InnerFacts DEF Shape
    <2>2. it \in B /\ b \in B /\ Tiles(B, h.size) /\ h.size \in [Node -> Nat]
        BY <1>0, <1>1 DEF Shape
    <2> HIDE DEF B
    <2>3. Merges(B, h.size, sz1, it, b)
        BY <2>1, <2>2, <1>2 DEF Merges
    <2>4. Tiles(B \ {b}, sz1)
        BY <2>2, <2>3, TilesMerge
    <2> QED
        BY <2>4 DEF B
<1>6. (h.free \cup O) \ {b} = h.free \cup (O \ {b})
    BY <1>0 DEF Shape
<1>7. Cover((h.free \cup {b}) \ {b}, sz1) = Cover(h.free \cup {b}, h.size)
    <2>1. \A c \in (h.free \cup {b}) \ {it, b} : sz1[c] = h.size[c]
        BY <1>0 DEF Shape
    <2>2. h.free \cup {b} \subseteq Inner /\ h.size \in [Node -> Nat]
        BY <1>0 DEF Shape
    <2>3. Merges(h.free \cup {b}, h.size, sz1, it, b)
        BY <2>1, <1>1, <1>2 DEF Merges
    <2> QED
        BY <2>2, <2>3, CoverMerge
<1>8. (h.free \cup {b}) \ {b} = h.free
    BY <1>0 DEF Shape
<1>9. \A p \in h.free \ {it} : sz1[p] = h.size[p]
    BY <1>0 DEF Shape
<1>10. NoPair(h.free \ {it}, sz1) /\ \A p \in h.free \ {it} : p + sz1[p] # it
    BY <1>0, <1>1, <1>9 DEF Shape, NoPair
<1> QED
    BY <1>4, <1>5, <1>6, <1>7, <1>8, <1>10 DEF Joined

\* The previous block is free: the inserted one is merged into it.
LEMMA InsertJoining ==
    ASSUME NEW h, NEW O, HeapOK(h, O), NEW b \in O,
           JoinsPrevious(h, Iterator(h, b), b),
           ~Absorbs(b + h.size[b], h.next[Iterator(h, b)])
    PROVE  Inserted(h, O, b, InsertBlock(h, b))
<1> DEFINE it  == Iterator(h, b)
           y   == h.next[it]
           sz1 == [h.size EXCEPT ![it] = @ + h.size[b]]
           r   == [free |-> h.free, size |-> sz1, next |-> h.next]
<1>0. Shape(h, O, b)
    BY HeapFacts
<1>1. /\ it \in h.free /\ it \in Node /\ it \in Nat /\ it < b
      /\ y \in h.free \cup {EndAddr} /\ y \in Nat /\ y > b
    BY IteratorFacts
<1>2. Joined(h, O, b, it, sz1)
    <2>1. /\ sz1 \in [Node -> Nat] /\ sz1[it] = h.size[it] + h.size[b]
          /\ \A q \in Node \ {it} : sz1[q] = h.size[q]
        BY <1>0, <1>1 DEF Shape
    <2> HIDE DEF sz1
    <2> QED
        BY <2>1, JoinedFacts
<1>3. InsertBlock(h, b) = r
    <2>1. [h.next EXCEPT ![it] = y] = h.next
        BY <1>0, <1>1 DEF Shape
    <2>2. h.free \cup {it} = h.free
        BY <1>1
    <2>3. ~Absorbs(it + sz1[it], y)
        BY <1>2 DEF Joined
    <2> HIDE DEF sz1
    <2>4. InsertBlock(h, b) =
              [free |-> h.free \cup {it}, size |-> sz1,
               next |-> [h.next EXCEPT ![it] = y]]
        BY <2>3 DEF InsertBlock, sz1
    <2> QED
        BY <2>1, <2>2, <2>4
<1> HIDE DEF sz1, it
<1>4. NoPair(h.free, sz1)
    <2>1. it + sz1[it] # h.next[it] \/ h.next[it] = EndAddr
        BY <1>2 DEF Joined, Absorbs, it
    <2>2. \A p \in h.free : h.next[p] = it => p + sz1[p] # it
        <3>1. h.next[it] # it
            BY <1>0, <1>1 DEF Shape
        <3> QED
            BY <3>1, <1>2 DEF Joined
    <2>3. h.free \subseteq h.free \cup (O \ {b})
        OBVIOUS
    <2> QED
        BY <2>1, <2>2, <2>3, <1>0, <1>1, <1>2, NoPairNeighbours DEF Shape, Joined
<1>5. r \in HeapRecord
    BY <1>0, <1>2 DEF Shape, HeapRecord, Joined
<1>6. sz1[StartBlock] = 0
    BY <1>0, <1>1, <1>2 DEF Shape, Joined
<1>7. HeapOK(r, O \ {b})
    BY <1>0, <1>2, <1>4, <1>5, <1>6 DEF HeapOK, Shape, Joined
<1>8. \A c \in O \ {b} : sz1[c] = h.size[c]
    BY <1>0, <1>1, <1>2, InnerFacts DEF Shape, Joined
<1> QED
    BY <1>2, <1>3, <1>7, <1>8 DEF Inserted, Joined

\* Both neighbours are free: the three become one block.
LEMMA InsertBetween ==
    ASSUME NEW h, NEW O, HeapOK(h, O), NEW b \in O,
           JoinsPrevious(h, Iterator(h, b), b),
           Absorbs(b + h.size[b], h.next[Iterator(h, b)])
    PROVE  Inserted(h, O, b, InsertBlock(h, b))
<1> DEFINE it  == Iterator(h, b)
           y   == h.next[it]
           sz1 == [h.size EXCEPT ![it] = @ + h.size[b]]
           sz2 == [sz1 EXCEPT ![it] = @ + sz1[y]]
           nx2 == [h.next EXCEPT ![it] = h.next[y]]
           F2  == h.free \ {y}
           r   == [free |-> F2, size |-> sz2, next |-> nx2]
<1>0. Shape(h, O, b)
    BY HeapFacts
<1>1. /\ it \in h.free /\ it \in Node /\ it \in Nat /\ it < b
      /\ y \in h.free \cup {EndAddr} /\ y \in Node /\ y \in Nat /\ y > b
    BY IteratorFacts
<1>2. Joined(h, O, b, it, sz1)
    <2>1. /\ sz1 \in [Node -> Nat] /\ sz1[it] = h.size[it] + h.size[b]
          /\ \A q \in Node \ {it} : sz1[q] = h.size[q]
        BY <1>0, <1>1 DEF Shape
    <2> HIDE DEF sz1
    <2> QED
        BY <2>1, JoinedFacts
<1>3. y \in h.free /\ y # it /\ it + sz1[it] = y
    BY <1>0, <1>1, <1>2 DEF Absorbs, Shape, Joined
<1>4. h.next[y] \in h.free \cup {EndAddr} /\ h.next[y] \in Node /\ y < h.next[y]
    BY <1>0, <1>3 DEF Shape, Chain
<1>5. InsertBlock(h, b) = r
    <2>1. (h.free \ {y}) \cup {it} = F2
        BY <1>1, <1>3
    <2>2. Absorbs(it + sz1[it], y)
        BY <1>2 DEF Joined
    <2> HIDE DEF sz1
    <2>3. InsertBlock(h, b) =
              [free |-> (h.free \ {y}) \cup {it}, size |-> sz2, next |-> nx2]
        BY <2>2 DEF InsertBlock, sz1
    <2> QED
        BY <2>1, <2>3
<1> HIDE DEF sz1, it
<1>6. /\ nx2 \in [Node -> Node \cup {Null}]
      /\ nx2[it] = h.next[y] /\ \A q \in Node \ {it} : nx2[q] = h.next[q]
    BY <1>0, <1>1, <1>4 DEF Shape
<1>7. /\ sz2 \in [Node -> Nat]
      /\ sz2[it] = sz1[it] + h.size[y] /\ sz2[it] = sz1[it] + sz1[y]
      /\ \A q \in Node \ {it} : sz2[q] = h.size[q] /\ sz2[q] = sz1[q]
    BY <1>0, <1>1, <1>2, <1>3 DEF Shape, Joined
<1> HIDE DEF sz2, nx2
<1>8. Chain(F2, nx2)
    <2>1. \A q \in (h.free \cup {StartBlock}) \ {it, y} : nx2[q] = h.next[q]
        BY <1>0, <1>6 DEF Shape
    <2>2. nx2[it] = h.next[y] /\ h.next[it] = y
        BY <1>6
    <2> HIDE DEF y
    <2> QED
        BY <2>1, <2>2, <1>0, <1>1, <1>3, ChainRemove DEF Shape
<1>9. Tiles(F2 \cup (O \ {b}), sz2)
    <2> DEFINE B == h.free \cup (O \ {b})
    <2>1. \A c \in B \ {it, y} : sz2[c] = sz1[c]
        BY <1>0, <1>7, InnerFacts DEF Shape
    <2>2. it \in B /\ y \in B /\ Tiles(B, sz1) /\ sz1 \in [Node -> Nat]
        BY <1>1, <1>2, <1>3 DEF Joined
    <2>3. B \ {y} = F2 \cup (O \ {b})
        BY <1>0, <1>3 DEF Shape
    <2>4. Merges(B, sz1, sz2, it, y)
        BY <2>1, <2>2, <1>3, <1>7 DEF Merges
    <2> HIDE DEF B, y
    <2>5. Tiles(B \ {y}, sz2)
        BY <2>2, <2>4, <1>7, TilesMerge
    <2> QED
        BY <2>3, <2>5
<1>10. Cover(F2, sz2) = Cover(h.free \cup {b}, h.size)
    <2>1. \A c \in h.free \ {it, y} : sz2[c] = sz1[c]
        BY <1>0, <1>7 DEF Shape
    <2>2. h.free \subseteq Inner /\ sz1 \in [Node -> Nat]
        BY <1>0, <1>2 DEF Shape, Joined
    <2>3. Cover(h.free \ {y}, sz2) = Cover(h.free, sz1)
        <3> HIDE DEF y
        <3>1. Merges(h.free, sz1, sz2, it, y)
            BY <2>1, <1>1, <1>3, <1>7 DEF Merges
        <3> QED
            BY <2>2, <3>1, <1>7, CoverMerge
    <2> QED
        BY <2>3, <1>2 DEF Joined
<1>11. NoPair(F2, sz2)
    <2>1. it + sz2[it] = y + h.size[y]
        BY <1>0, <1>1, <1>2, <1>3, <1>7 DEF Shape, Joined
    <2>2. it + sz2[it] # nx2[it] \/ nx2[it] = EndAddr
        BY <2>1, <1>0, <1>3, <1>4, <1>6 DEF Shape, NoPair
    <2>3. \A p \in F2 : nx2[p] = it => p + sz2[p] # it
        <3>1. nx2[it] # it
            BY <1>0, <1>1, <1>4, <1>6, InnerFacts, Layout DEF Shape
        <3>2. \A p \in F2 \ {it} : sz2[p] = sz1[p]
            BY <1>0, <1>7 DEF Shape
        <3> QED
            BY <3>1, <3>2, <1>2 DEF Joined
    <2>4. NoPair(F2 \ {it}, sz2)
        <3>1. \A p \in F2 \ {it} : p \in h.free \ {it} /\ sz2[p] = sz1[p]
            BY <1>0, <1>7 DEF Shape
        <3> QED
            BY <3>1, <1>2 DEF Joined, NoPair
    <2>5. F2 \subseteq F2 \cup (O \ {b}) /\ it \in F2
        BY <1>1, <1>3
    <2> HIDE DEF F2
    <2> QED
        BY <2>2, <2>3, <2>4, <2>5, <1>7, <1>8, <1>9, NoPairNeighbours
<1>12. r \in HeapRecord
    BY <1>0, <1>6, <1>7 DEF Shape, HeapRecord
<1>13. HeapOK(r, O \ {b})
    <2>1. sz2[StartBlock] = 0
        BY <1>0, <1>1, <1>7 DEF Shape
    <2>2. O \ {b} \subseteq Inner /\ F2 \cap (O \ {b}) = {}
        BY <1>0 DEF Shape
    <2> QED
        BY <2>1, <2>2, <1>8, <1>9, <1>11, <1>12 DEF HeapOK
<1>14. \A c \in O \ {b} : sz2[c] = h.size[c]
    BY <1>0, <1>1, <1>7, InnerFacts DEF Shape
<1> QED
    BY <1>5, <1>10, <1>13, <1>14 DEF Inserted

\* prv_insert_block_into_free_list keeps the heap sound: the block it is given
\* becomes free, no byte is gained or lost, no other allocated block changes.
LEMMA InsertOK ==
    ASSUME NEW h, NEW O, HeapOK(h, O), NEW b \in O
    PROVE  Inserted(h, O, b, InsertBlock(h, b))
BY InsertAlone, InsertAbsorbing, InsertJoining, InsertBetween

-----------------------------------------------------------------------------
(* Counting bytes *)

\* A block ends within the heap.
LEMMA EndsInHeap ==
    ASSUME NEW B, NEW sz \in [Node -> Nat], Tiles(B, sz), NEW b \in B
    PROVE  /\ b \in Nat /\ b \in Node /\ b \in Inner /\ sz[b] \in Nat
           /\ sz[b] >= StructSize /\ sz[b] > 0 /\ b + sz[b] <= EndAddr
<1>1. b \in Nat /\ b \in Node /\ b \in Inner /\ sz[b] \in Nat /\ sz[b] >= StructSize
    BY InnerFacts DEF Tiles
<1>2. b + sz[b] \in B \cup {EndAddr} /\ B \subseteq Inner
    BY DEF Tiles
<1> QED
    BY <1>1, <1>2, InnerFacts, Layout

\* The bytes of the free blocks can be counted.
LEMMA CoverFinite ==
    ASSUME NEW B, NEW sz \in [Node -> Nat], Tiles(B, sz), NEW F, F \subseteq B
    PROVE  /\ IsFiniteSet(Cover(F, sz))
           /\ Cardinality(Cover(F, sz)) \in Nat
<1>1. IsFiniteSet(0 .. EndAddr)
    <2>1. 0 \in Int /\ EndAddr \in Int
        BY Layout
    <2> QED
        BY <2>1, FS_Interval
<1>2. ASSUME NEW a \in Cover(F, sz)
      PROVE  a \in 0 .. EndAddr
    <2>1. PICK b \in F : a \in b .. b + sz[b] - 1
        BY DEF Cover
    <2>2. b \in Nat /\ sz[b] \in Nat /\ b + sz[b] <= EndAddr
        BY EndsInHeap
    <2> QED
        BY <2>1, <2>2, Layout
<1>3. Cover(F, sz) \in SUBSET (0 .. EndAddr)
    BY <1>2
<1>4. IsFiniteSet(Cover(F, sz))
    BY <1>1, <1>3, FS_Subset
<1> QED
    BY <1>4, FS_CardinalityType

\* A block adds its size to the bytes covered.
LEMMA CoverAdd ==
    ASSUME NEW B, NEW sz \in [Node -> Nat], Tiles(B, sz),
           NEW F, F \subseteq B, NEW x \in B, x \notin F
    PROVE  Cardinality(Cover(F \cup {x}, sz)) = Cardinality(Cover(F, sz)) + sz[x]
<1> DEFINE I == x .. x + sz[x] - 1
<1>1. x \in Nat /\ sz[x] \in Nat /\ sz[x] > 0
    BY EndsInHeap
<1>2. IsFiniteSet(I) /\ Cardinality(I) = sz[x]
    <2>1. x + sz[x] - 1 \in Int /\ x \in Int /\ ~(x > x + sz[x] - 1)
        BY <1>1
    <2>2. IsFiniteSet(I) /\ Cardinality(I) = (x + sz[x] - 1) - x + 1
        BY <2>1, FS_Interval
    <2> QED
        BY <2>2, <1>1
<1>3. Cover(F \cup {x}, sz) = Cover(F, sz) \cup I
    BY DEF Cover
<1>4. Cover(F, sz) \cap I = {}
    <2>1. ASSUME NEW a \in Cover(F, sz), a \in I
          PROVE  FALSE
        <3>1. PICK b \in F : a \in b .. b + sz[b] - 1
            BY DEF Cover
        <3>2. b \in Nat /\ sz[b] \in Nat
            BY EndsInHeap
        <3>3. b < x => b + sz[b] <= x
            BY DEF Tiles
        <3>4. x < b => x + sz[x] <= b
            BY DEF Tiles
        <3>5. b # x
            OBVIOUS
        <3> QED
            BY <2>1, <3>1, <3>2, <3>3, <3>4, <3>5, <1>1
    <2> QED
        BY <2>1
<1>5. IsFiniteSet(Cover(F, sz)) /\ Cardinality(Cover(F, sz)) \in Nat
    BY CoverFinite
<1> HIDE DEF I
<1>6. Cardinality(Cover(F, sz) \cup I)
        = Cardinality(Cover(F, sz)) + Cardinality(I) - Cardinality(Cover(F, sz) \cap I)
    BY <1>2, <1>5, FS_Union
<1>7. Cardinality(Cover(F, sz) \cap I) = 0
    BY <1>4, FS_EmptySet
<1>8. Cardinality(Cover(F, sz) \cup I) = Cardinality(Cover(F, sz)) + sz[x]
    BY <1>1, <1>2, <1>5, <1>6, <1>7
<1> QED
    BY <1>3, <1>8

-----------------------------------------------------------------------------
(* memory_manager_allocate *)

\* Taking a block off the list makes it an allocated one, of the same size.
LEMMA UnlinkOK ==
    ASSUME NEW h, NEW O, HeapOK(h, O), NEW b \in h.free
    PROVE  /\ HeapOK(Unlink(h, b), O \cup {b})
           /\ Unlink(h, b).free = h.free \ {b}
           /\ Unlink(h, b).size = h.size
<1> DEFINE prev == CHOOSE p \in h.free \cup {StartBlock} : h.next[p] = b
           nx2  == [h.next EXCEPT ![prev] = h.next[b]]
           r    == [free |-> h.free \ {b}, size |-> h.size, next |-> nx2]
<1>1. /\ h \in HeapRecord /\ h.free \subseteq Inner /\ O \subseteq Inner
      /\ h.free \cap O = {} /\ h.size[StartBlock] = 0
      /\ h.size \in [Node -> Nat] /\ h.next \in [Node -> Node \cup {Null}]
      /\ Tiles(h.free \cup O, h.size) /\ Chain(h.free, h.next) /\ NoPair(h.free, h.size)
    BY DEF HeapOK, HeapRecord
<1>2. b \in Inner /\ b \in Nat /\ h.free \cup {StartBlock, EndAddr} \subseteq Node
    BY <1>1, InnerFacts, Layout
<1>3. \E p \in h.free \cup {StartBlock} : h.next[p] = b
    <2>1. PICK p \in h.free \cup {StartBlock} : p < b /\ h.next[p] >= b
        BY <1>1, <1>2, Predecessor
    <2>2. h.next[p] \in h.free \cup {EndAddr} /\ ~(p < b /\ b < h.next[p])
        BY <1>1 DEF Chain
    <2>3. h.next[p] \in Nat
        BY <2>2, <1>1, InnerFacts, Layout
    <2> QED
        BY <2>1, <2>2, <2>3, <1>2
<1>4. prev \in h.free \cup {StartBlock} /\ h.next[prev] = b
    BY <1>3
<1> HIDE DEF prev
<1>5. Unlink(h, b) = r
    BY DEF Unlink, prev
<1>6. h.next[b] \in Node
    BY <1>1, <1>2 DEF Chain
<1>7. /\ nx2 \in [Node -> Node \cup {Null}] /\ nx2[prev] = h.next[b]
      /\ \A q \in Node \ {prev} : nx2[q] = h.next[q]
    BY <1>1, <1>2, <1>4, <1>6
<1> HIDE DEF nx2
<1>8. Chain(h.free \ {b}, nx2)
    <2>1. \A q \in (h.free \cup {StartBlock}) \ {prev, b} : nx2[q] = h.next[q]
        BY <1>2, <1>7
    <2>2. nx2[prev] = h.next[b] /\ h.free \subseteq Inner /\ Chain(h.free, h.next)
        BY <1>1, <1>7
    <2> QED
        BY <2>1, <2>2, <1>4, ChainRemove
<1>9. (h.free \ {b}) \cup (O \cup {b}) = h.free \cup O
    OBVIOUS
<1>10. NoPair(h.free \ {b}, h.size)
    BY <1>1 DEF NoPair
<1>11. r \in HeapRecord
    BY <1>1, <1>7 DEF HeapRecord
<1>12. HeapOK(r, O \cup {b})
    BY <1>1, <1>2, <1>8, <1>9, <1>10, <1>11 DEF HeapOK
<1> QED
    BY <1>5, <1>12

\* Heap g is h with allocated block b cut after w bytes: both parts allocated.
Carved(h, O, b, w, g) ==
    /\ HeapOK(g, O \cup {b + w})
    /\ b + w \notin O /\ b + w \notin h.free
    /\ g.free = h.free
    /\ g.size[b] = w /\ g.size[b + w] = h.size[b] - w
    /\ \A c \in (h.free \cup O) \ {b} : g.size[c] = h.size[c]

\* The header written for what is split off cuts the block.
LEMMA CarveOK ==
    ASSUME NEW h, NEW O, HeapOK(h, O), NEW b \in O,
           NEW w \in Nat, w % 8 = 0, w >= StructSize, w + StructSize <= h.size[b],
           NEW g, g = [h EXCEPT !.size = [@ EXCEPT ![b + w] = h.size[b] - w, ![b] = w]]
    PROVE  Carved(h, O, b, w, g)
<1> DEFINE x   == b + w
           sz2 == [[h.size EXCEPT ![x] = h.size[b] - w] EXCEPT ![b] = w]
           B   == h.free \cup O
<1>0. Shape(h, O, b)
    BY HeapFacts
<1>1. /\ b \in B /\ b \in Nat /\ b \in Inner /\ h.size[b] \in Nat
      /\ b + h.size[b] <= EndAddr /\ b + h.size[b] \in B \cup {EndAddr}
    BY <1>0, EndsInHeap DEF Shape, Tiles
<1>2. x \in Nat /\ b < x /\ x + StructSize <= b + h.size[b] /\ x < b + h.size[b]
    BY <1>1, Layout
<1>3. x \in Inner /\ x \in Node
    <2>1. x % 8 = 0 /\ HeapStart <= x /\ x < EndAddr /\ x # StartBlock /\ x # EndAddr
        BY <1>1, <1>2, InnerFacts, Layout
    <2>2. x \in HeapStart .. EndAddr
        BY <2>1, <1>2, Layout
    <2> QED
        BY <2>1, <2>2 DEF Inner, Node, Align
<1>4. x \notin B
    BY <1>0, <1>1, <1>2 DEF Shape, Tiles
<1>5. g = [free |-> h.free, size |-> sz2, next |-> h.next]
    <2>1. h = [free |-> h.free, size |-> h.size, next |-> h.next]
        BY <1>0 DEF Shape, HeapRecord
    <2> QED
        BY <2>1
<1>6. /\ sz2 \in [Node -> Nat] /\ sz2[x] = h.size[b] - w /\ sz2[b] = w
      /\ \A c \in Node \ {b, x} : sz2[c] = h.size[c]
    BY <1>0, <1>1, <1>2, <1>3 DEF Shape
<1> HIDE DEF x, sz2
<1>7. \A c \in B \ {b} : c \in Nat /\ c \in Inner /\ sz2[c] = h.size[c]
    BY <1>0, <1>4, <1>6, InnerFacts DEF Shape
<1>8. B \cup {x} \subseteq Inner /\ HeapStart \in B \cup {x}
    BY <1>0, <1>3 DEF Shape, Tiles
<1>9. /\ sz2[x] >= StructSize /\ sz2[b] >= StructSize
      /\ x + sz2[x] = b + h.size[b] /\ b + sz2[b] = x
    BY <1>1, <1>2, <1>6, Layout DEF x
<1>10. \A c \in B \cup {x} : sz2[c] >= StructSize /\ c + sz2[c] \in (B \cup {x}) \cup {EndAddr}
    BY <1>0, <1>1, <1>7, <1>9 DEF Shape, Tiles
<1>11. ASSUME NEW c \in B \cup {x}, NEW d \in B \cup {x}, c < d
       PROVE  c + sz2[c] <= d
    <2>1. CASE c = x
        <3>1. d \in B /\ d \in Nat /\ b < d
            BY <2>1, <1>1, <1>2, <1>7, <1>11
        <3> QED
            BY <2>1, <3>1, <1>0, <1>1, <1>9 DEF Shape, Tiles
    <2>2. CASE c = b
        <3>1. d = x \/ (d \in B /\ d \in Nat /\ b + h.size[b] <= d)
            BY <2>2, <1>0, <1>1, <1>7, <1>11 DEF Shape, Tiles
        <3> QED
            BY <2>2, <3>1, <1>1, <1>2, <1>9
    <2>3. CASE c \in B \ {b} /\ d = x
        <3>1. c < b
            <4>1. c # b /\ c \in Nat
                BY <2>3, <1>7
            <4>2. ~(b < c)
                BY <2>3, <1>0, <1>1, <1>2, <1>7, <1>11 DEF Shape, Tiles
            <4> QED
                BY <4>1, <4>2, <1>1
        <3>2. c + h.size[c] <= b
            BY <2>3, <3>1, <1>0, <1>1 DEF Shape, Tiles
        <3>3. h.size[c] \in Nat /\ sz2[c] = h.size[c] /\ c \in Nat
            BY <2>3, <1>0, <1>7, InnerFacts DEF Shape
        <3> QED
            BY <2>3, <3>2, <3>3, <1>1, <1>2
    <2>4. CASE c \in B \ {b} /\ d \in B
        BY <2>4, <1>0, <1>7, <1>11 DEF Shape, Tiles
    <2> QED
        BY <2>1, <2>2, <2>3, <2>4
<1>12. Tiles(B \cup {x}, sz2)
    <2> HIDE DEF B
    <2> QED
        BY <1>8, <1>10, <1>11 DEF Tiles
<1>13. g \in HeapRecord /\ sz2[StartBlock] = 0
    BY <1>0, <1>3, <1>5, <1>6, InnerFacts, Layout DEF Shape, HeapRecord
<1>14. NoPair(h.free, sz2)
    <2>1. \A c \in h.free : sz2[c] = h.size[c]
        BY <1>0, <1>7 DEF Shape
    <2> QED
        BY <2>1, <1>0 DEF Shape, NoPair
<1>15. HeapOK(g, O \cup {x})
    <2>1. h.free \cup (O \cup {x}) = B \cup {x}
        OBVIOUS
    <2>2. O \cup {x} \subseteq Inner /\ h.free \cap (O \cup {x}) = {}
        BY <1>0, <1>3, <1>4 DEF Shape
    <2>3. g.free = h.free /\ g.size = sz2 /\ g.next = h.next
        BY <1>5
    <2>4. Tiles(g.free \cup (O \cup {x}), g.size)
        BY <2>1, <2>3, <1>12
    <2>5. Chain(g.free, g.next) /\ NoPair(g.free, g.size) /\ g.size[StartBlock] = 0
        BY <2>3, <1>0, <1>13, <1>14 DEF Shape
    <2> QED
        BY <2>2, <2>3, <2>4, <2>5, <1>13 DEF HeapOK
<1>16. g.free = h.free /\ g.size = sz2
    BY <1>5
<1>17. x \notin O /\ x \notin h.free
    BY <1>4
<1> QED
    BY <1>6, <1>7, <1>15, <1>16, <1>17 DEF x, Carved

\* Heap r is h with allocated block b cut down to what w bytes need.
Trimmed(h, O, b, w, r) ==
    /\ HeapOK(r, O)
    /\ r.size[b] \in Nat /\ w <= r.size[b] /\ r.size[b] <= w + MiniBlockSize
    /\ \A c \in O \ {b} : r.size[c] = h.size[c]
    /\ Cardinality(Cover(r.free, r.size)) + r.size[b]
         = Cardinality(Cover(h.free, h.size)) + h.size[b]

\* Splitting keeps the heap sound: of block b's bytes, those beyond w become
\* free unless they are too few, and no other allocated block changes.
LEMMA SplitOK ==
    ASSUME NEW h, NEW O, HeapOK(h, O), NEW b \in O,
           NEW w \in Nat, w % 8 = 0, w >= StructSize, w <= h.size[b],
           NEW r, r = Split(h, b, w)
    PROVE  Trimmed(h, O, b, w, r)
<1>0. Shape(h, O, b) /\ h.size[b] \in Nat
    <2>1. Shape(h, O, b)
        BY HeapFacts
    <2> QED
        BY <2>1 DEF Shape
<1>1. CASE ~(h.size[b] - w > MiniBlockSize)
    <2>1. r = h
        BY <1>1 DEF Split
    <2> QED
        BY <2>1, <1>0, <1>1, Layout DEF Trimmed
<1>2. CASE h.size[b] - w > MiniBlockSize
    <2> DEFINE x == b + w
               g == [h EXCEPT !.size = [@ EXCEPT ![x] = h.size[b] - w, ![b] = w]]
    <2>1. r = InsertBlock(g, x)
        BY <1>2 DEF Split
    <2>2. w + StructSize <= h.size[b]
        BY <1>0, <1>2, Layout
    <2>3. /\ HeapOK(g, O \cup {x})
          /\ x \notin O /\ x \notin h.free
          /\ g.free = h.free
          /\ g.size[b] = w /\ g.size[x] = h.size[b] - w
          /\ \A c \in (h.free \cup O) \ {b} : g.size[c] = h.size[c]
        <3>1. g = [h EXCEPT !.size = [@ EXCEPT ![b + w] = h.size[b] - w, ![b] = w]]
            OBVIOUS
        <3> HIDE DEF g
        <3>2. Carved(h, O, b, w, g)
            BY <3>1, <2>2, CarveOK
        <3> QED
            BY <3>2 DEF Carved
    <2> HIDE DEF g, x
    <2>4. Inserted(g, O \cup {x}, x, r)
        BY <2>1, <2>3, InsertOK
    <2>5. (O \cup {x}) \ {x} = O
        BY <2>3
    <2>6. HeapOK(r, O) /\ \A c \in O : r.size[c] = g.size[c]
        BY <2>4, <2>5 DEF Inserted
    <2>7. Cover(h.free, g.size) = Cover(h.free, h.size)
        <3>1. \A c \in h.free : g.size[c] = h.size[c]
            BY <2>3, <1>0 DEF Shape
        <3> QED
            BY <3>1 DEF Cover
    <2>8. Cardinality(Cover(r.free, r.size)) = Cardinality(Cover(h.free, h.size)) + g.size[x]
        <3>1. /\ Tiles(h.free \cup (O \cup {x}), g.size)
              /\ g.size \in [Node -> Nat]
            BY <2>3 DEF HeapOK, HeapRecord
        <3>2. Cardinality(Cover(h.free \cup {x}, g.size))
                = Cardinality(Cover(h.free, g.size)) + g.size[x]
            BY <3>1, <2>3, CoverAdd
        <3> QED
            BY <3>2, <2>3, <2>4, <2>7 DEF Inserted
    <2>9. Cardinality(Cover(h.free, h.size)) \in Nat
        <3>1. h.free \subseteq h.free \cup O
            OBVIOUS
        <3> QED
            BY <3>1, <1>0, CoverFinite DEF Shape
    <2>10. r.size[b] = w
        BY <2>3, <2>6
    <2>11. \A c \in O \ {b} : r.size[c] = h.size[c]
        BY <2>3, <2>6
    <2> QED
        BY <2>3, <2>6, <2>8, <2>9, <2>10, <2>11, <1>0, Layout DEF Trimmed
<1> QED
    BY <1>1, <1>2

\* prv_heap_init makes a sound heap out of any buffer.
LEMMA HeapInitOK ==
    ASSUME NEW h \in HeapRecord
    PROVE  /\ HeapOK(HeapInit(h), {})
           /\ Cardinality(Cover(HeapInit(h).free, HeapInit(h).size)) = EndAddr - HeapStart
           /\ HeapInit(h).size[EndAddr] = 0 /\ HeapInit(h).next[EndAddr] = Null
<1> DEFINE r == HeapInit(h)
<1>1. HeapStart \in Inner /\ HeapStart \in Nat /\ EndAddr \in Nat /\ HeapStart < EndAddr
      /\ HeapStart \in Node /\ EndAddr \in Node /\ StartBlock \in Node /\ Null \notin Node
      /\ StartBlock < HeapStart /\ EndAddr - HeapStart \in Nat
      /\ EndAddr - HeapStart >= StructSize
    BY Layout DEF Inner, Node
<1>2. h.size \in [Node -> Nat] /\ h.next \in [Node -> Node \cup {Null}]
    BY DEF HeapRecord
<1>3. r \in HeapRecord
    BY <1>1, <1>2 DEF HeapInit, HeapRecord
<1>4. /\ r.free = {HeapStart}
      /\ r.size[HeapStart] = EndAddr - HeapStart
      /\ r.size[StartBlock] = 0 /\ r.size[EndAddr] = 0
      /\ r.next[StartBlock] = HeapStart /\ r.next[HeapStart] = EndAddr
      /\ r.next[EndAddr] = Null
    BY <1>1, <1>2 DEF HeapInit
<1> HIDE DEF r
<1>5. Tiles(r.free \cup {}, r.size)
    BY <1>1, <1>4 DEF Tiles
<1>6. Chain(r.free, r.next)
    BY <1>1, <1>4 DEF Chain
<1>7. NoPair(r.free, r.size)
    BY <1>1, <1>4 DEF NoPair
<1>8. HeapOK(r, {})
    BY <1>3, <1>4, <1>5, <1>6, <1>7 DEF HeapOK
<1>9. Cardinality(Cover(r.free, r.size)) = EndAddr - HeapStart
    <2>1. Cover(r.free, r.size) = HeapStart .. EndAddr - 1
        <3>1. Cover(r.free, r.size) = HeapStart .. HeapStart + r.size[HeapStart] - 1
            BY <1>4, Zenon DEF Cover
        <3>2. HeapStart + r.size[HeapStart] - 1 = EndAddr - 1
            BY <1>1, <1>4
        <3> QED
            BY <3>1, <3>2
    <2>2. HeapStart \in Int /\ EndAddr - 1 \in Int /\ ~(HeapStart > EndAddr - 1)
        BY <1>1
    <2>3. Cardinality(HeapStart .. EndAddr - 1) = (EndAddr - 1) - HeapStart + 1
        BY <2>2, FS_Interval
    <2> QED
        BY <2>1, <2>3, <1>1
<1> QED
    BY <1>4, <1>8, <1>9 DEF r

-----------------------------------------------------------------------------
(* The inductive invariant *)

\* Each pointer handed out belongs to an allocated block just large enough.
Held ==
    \A b \in owned :
        /\ live[Payload(b)] \in Nat
        /\ 0 < live[Payload(b)] /\ live[Payload(b)] < AllocBit
        /\ Want(live[Payload(b)]) <= size[b]
        /\ size[b] <= Want(live[Payload(b)]) + MiniBlockSize

TypeInv ==
    /\ endOfList \in {Null, EndAddr}
    /\ Current \in HeapRecord
    /\ owned \subseteq Inner
    /\ byteLeft \in Nat /\ miniByteLeft \in Nat
    /\ DOMAIN live = {Payload(b) : b \in owned}
    /\ live \in [DOMAIN live -> Nat]

\* A heap, its allocated blocks, and the two counters kept about it.
Accounted(h, O, left, mini) ==
    /\ HeapOK(h, O)
    /\ left = Cardinality(Cover(h.free, h.size))
    /\ left \in Nat /\ mini \in Nat /\ mini <= left

HeapInv == IF Ready THEN Accounted(Current, owned, byteLeft, miniByteLeft)
           ELSE free = {} /\ owned = {}

IInv == TypeInv /\ Held /\ HeapInv

\* The heap as the three variables hold it.
LEMMA CurrentFields ==
    /\ Current.free = free /\ Current.size = size /\ Current.next = next
    /\ Current \in HeapRecord <=> /\ free \subseteq Inner
                                  /\ size \in [Node -> Nat]
                                  /\ next \in [Node -> Node \cup {Null}]
BY DEF Current, HeapRecord

\* The manager starts in the invariant.
LEMMA InitIInv == Init => IInv
<1> SUFFICES ASSUME Init
             PROVE  IInv
    OBVIOUS
<1>1. /\ endOfList = Null /\ free = {} /\ owned = {} /\ live = NoLive
      /\ size \in [Node -> Nat] /\ next \in [Node -> Node \cup {Null}]
      /\ byteLeft = 0 /\ miniByteLeft = 0
    BY DEF Init, BlankHeap
<1>2. DOMAIN live = {} /\ live \in [DOMAIN live -> Nat]
    BY <1>1 DEF NoLive
<1>3. TypeInv
    BY <1>1, <1>2, CurrentFields DEF TypeInv
<1> QED
    BY <1>1, <1>3 DEF IInv, Held, HeapInv, Ready

\* The heap that allocate works on is sound, whether it is the present one or
\* the one that its first call sets up.
LEMMA HeapNow ==
    ASSUME IInv
    PROVE  /\ Accounted(Heap, owned, HeapLeft, HeapMini)
           /\ \A b \in owned : Heap.size[b] = size[b]
<1>1. CASE Ready
    BY <1>1, CurrentFields DEF IInv, HeapInv, Heap, HeapLeft, HeapMini
<1>2. CASE ~Ready
    <2>1. Current \in HeapRecord /\ owned = {} /\ EndAddr - HeapStart \in Nat
        BY <1>2, Layout DEF IInv, TypeInv, HeapInv
    <2>2. /\ HeapOK(HeapInit(Current), {})
          /\ Cardinality(Cover(HeapInit(Current).free, HeapInit(Current).size))
               = EndAddr - HeapStart
        BY <2>1, HeapInitOK
    <2> QED
        BY <1>2, <2>1, <2>2 DEF Accounted, Heap, HeapLeft, HeapMini
<1> QED
    BY <1>1, <1>2

\* memory_manager_static_init re-establishes the invariant.
LEMMA StaticInitIInv ==
    ASSUME StaticInit
    PROVE  IInv'
<1>1. /\ endOfList' = Null /\ free' = {} /\ owned' = {} /\ live' = NoLive
      /\ size' \in [Node -> Nat] /\ next' \in [Node -> Node \cup {Null}]
      /\ byteLeft' = 0 /\ miniByteLeft' = 0
    BY DEF StaticInit, Install, BlankHeap
<1>2. DOMAIN live' = {} /\ live' \in [DOMAIN live' -> Nat]
    BY <1>1 DEF NoLive
<1>3. TypeInv'
    BY <1>1, <1>2 DEF TypeInv, Current, HeapRecord
<1> QED
    BY <1>1, <1>3 DEF IInv, Held, HeapInv, Ready

\* An allocate that fails keeps it.
LEMMA AllocateFailIInv ==
    ASSUME IInv, NEW n \in Requests, AllocateFail(n)
    PROVE  IInv'
<1>1. /\ endOfList' = EndAddr /\ owned' = owned /\ live' = live
      /\ byteLeft' = HeapLeft /\ miniByteLeft' = HeapMini
      /\ free' = Heap.free /\ size' = Heap.size /\ next' = Heap.next
    BY DEF AllocateFail, Install
<1>2. Accounted(Heap, owned, HeapLeft, HeapMini) /\ \A b \in owned : Heap.size[b] = size[b]
    BY HeapNow
<1>3. Heap \in HeapRecord
    BY <1>2 DEF Accounted, HeapOK
<1>4. Heap = Current'
    BY <1>1, <1>3 DEF HeapRecord, Current
<1>5. TypeInv'
    BY <1>1, <1>2, <1>3, <1>4 DEF IInv, TypeInv, Accounted
<1>6. Held'
    BY <1>1, <1>2 DEF IInv, Held
<1>7. HeapInv'
    BY <1>1, <1>2, <1>4, Layout DEF HeapInv, Ready
<1> QED
    BY <1>5, <1>6, <1>7 DEF IInv

\* What is stored outside the headers in use does not matter.
LEMMA DeadWords ==
    ASSUME NEW h, NEW O, HeapOK(h, O), NEW g \in HeapRecord, g.free = h.free,
           \A c \in h.free \cup O \cup {StartBlock} : g.size[c] = h.size[c],
           \A c \in h.free \cup {StartBlock} : g.next[c] = h.next[c]
    PROVE  /\ HeapOK(g, O)
           /\ Cover(g.free, g.size) = Cover(h.free, h.size)
<1>1. Tiles(g.free \cup O, g.size)
    BY DEF HeapOK, Tiles
<1>2. Chain(g.free, g.next)
    BY DEF HeapOK, Chain
<1>3. NoPair(g.free, g.size)
    BY DEF HeapOK, NoPair
<1>4. Cover(g.free, g.size) = Cover(h.free, h.size)
    BY DEF Cover
<1>5. g.size[StartBlock] = 0
    BY DEF HeapOK
<1> QED
    BY <1>1, <1>2, <1>3, <1>4, <1>5 DEF HeapOK

\* The search for a block finds one.
LEMMA FirstFitFits ==
    ASSUME NEW h, h.free \subseteq Nat, NEW w, Fits(h, w) # {}
    PROVE  FirstFit(h, w) \in h.free /\ h.size[FirstFit(h, w)] >= w
<1>1. Fits(h, w) \in SUBSET Nat
    BY DEF Fits
<1>2. \E m \in Fits(h, w) : \A x \in Fits(h, w) : m <= x
    BY <1>1, Least
<1>3. FirstFit(h, w) \in Fits(h, w)
    BY <1>2 DEF FirstFit
<1> QED
    BY <1>3 DEF Fits

\* Two blocks never hand out the same pointer.
LEMMA PayloadInjective ==
    ASSUME NEW b \in Inner, NEW c \in Inner, Payload(b) = Payload(c)
    PROVE  b = c
BY InnerFacts, Layout DEF Payload

\* Heap h is g with free block b allocated for w bytes.
Taken(g, O, b, w, h) ==
    /\ b \in Inner /\ b \notin O
    /\ HeapOK(h, O \cup {b})
    /\ h.size[b] \in Nat /\ w <= h.size[b] /\ h.size[b] <= w + MiniBlockSize
    /\ \A c \in O : h.size[c] = g.size[c]
    /\ Cardinality(Cover(h.free, h.size)) \in Nat
    /\ Cardinality(Cover(h.free, h.size)) = Cardinality(Cover(g.free, g.size)) - h.size[b]

\* Taking a block off the list and splitting it.
LEMMA TakeOK ==
    ASSUME NEW g, NEW O, HeapOK(g, O), NEW b \in g.free,
           NEW w \in Nat, w % 8 = 0, w >= StructSize, w <= g.size[b]
    PROVE  Taken(g, O, b, w, Split(Unlink(g, b), b, w))
<1> DEFINE u == Unlink(g, b)
           h == Split(u, b, w)
           P == O \cup {b}
<1>1. /\ g.free \subseteq Inner /\ g.free \cap O = {}
      /\ g.size \in [Node -> Nat] /\ Tiles(g.free \cup O, g.size)
    BY DEF HeapOK, HeapRecord
<1>2. b \in Inner /\ b \notin O /\ g.size[b] \in Nat
    BY <1>1, InnerFacts
<1>3. HeapOK(u, P) /\ u.free = g.free \ {b} /\ u.size = g.size
    BY UnlinkOK
<1>4. b \in P /\ P \ {b} = O /\ w <= u.size[b]
    BY <1>2, <1>3
<1>5. h = Split(u, b, w)
    OBVIOUS
<1> HIDE DEF u, h, P
<1>6. Trimmed(u, P, b, w, h)
    BY <1>3, <1>4, <1>5, SplitOK
<1>7. Cardinality(Cover(g.free, g.size)) = Cardinality(Cover(u.free, u.size)) + g.size[b]
    <2>1. u.free \subseteq g.free \cup O /\ b \in g.free \cup O /\ b \notin u.free
        BY <1>3
    <2>2. u.free \cup {b} = g.free
        BY <1>3
    <2>3. Cardinality(Cover(u.free \cup {b}, g.size))
            = Cardinality(Cover(u.free, g.size)) + g.size[b]
        BY <2>1, <1>1, CoverAdd
    <2> QED
        BY <2>2, <2>3, <1>3
<1>8. Cardinality(Cover(h.free, h.size)) \in Nat
    <2>1. Tiles(h.free \cup P, h.size) /\ h.size \in [Node -> Nat] /\ h.free \subseteq h.free \cup P
        BY <1>6 DEF Trimmed, HeapOK, HeapRecord
    <2> QED
        BY <2>1, CoverFinite
<1>9. Cardinality(Cover(u.free, u.size)) \in Nat
    <2>1. Tiles(u.free \cup P, u.size) /\ u.size \in [Node -> Nat] /\ u.free \subseteq u.free \cup P
        BY <1>3 DEF HeapOK, HeapRecord
    <2> QED
        BY <2>1, CoverFinite
<1>10. Cardinality(Cover(h.free, h.size)) = Cardinality(Cover(g.free, g.size)) - h.size[b]
    BY <1>2, <1>3, <1>6, <1>7, <1>8, <1>9 DEF Trimmed
<1>11. \A c \in O : h.size[c] = g.size[c]
    BY <1>3, <1>4, <1>6 DEF Trimmed
<1>12. HeapOK(h, O \cup {b})
    BY <1>6 DEF Trimmed, P
<1>13. h.size[b] \in Nat /\ w <= h.size[b] /\ h.size[b] <= w + MiniBlockSize
    BY <1>6 DEF Trimmed
<1>14. Taken(g, O, b, w, h)
    BY <1>2, <1>8, <1>10, <1>11, <1>12, <1>13 DEF Taken
<1> QED
    BY <1>14 DEF h, u

\* What allocate takes its block from, and for how much.
LEMMA AllocateFacts ==
    ASSUME IInv, NEW n \in Requests, CanAllocate(n)
    PROVE  /\ n \in Nat /\ 0 < n /\ n < AllocBit
           /\ Want(n) \in Nat /\ Want(n) % 8 = 0 /\ Want(n) >= StructSize
           /\ FirstFit(Heap, Want(n)) \in Heap.free
           /\ Want(n) <= Heap.size[FirstFit(Heap, Want(n))]
           /\ Taken(Heap, owned, FirstFit(Heap, Want(n)), Want(n),
                    Split(Unlink(Heap, FirstFit(Heap, Want(n))),
                          FirstFit(Heap, Want(n)), Want(n)))
<1> DEFINE w == Want(n)
           b == FirstFit(Heap, w)
<1>1. HeapOK(Heap, owned)
    BY HeapNow DEF Accounted
<1>2. n \in Nat /\ 0 < n /\ n < AllocBit
    <2>1. n \in Nat
        BY RequestsAssumption
    <2>2. n < AllocBit /\ Want(n) > 0
        BY DEF CanAllocate, TopBitClear
    <2>3. n # 0
        BY <2>2 DEF Want
    <2> QED
        BY <2>1, <2>2, <2>3
<1>3. w \in Nat /\ w % 8 = 0 /\ w >= StructSize
    BY <1>2, WantFacts, Layout
<1>4. Heap.free \subseteq Inner /\ Heap.free \subseteq Nat /\ Heap.size \in [Node -> Nat]
    BY <1>1, InnerFacts DEF HeapOK, HeapRecord
<1>5. b \in Heap.free /\ Heap.size[b] >= w
    BY <1>4, FirstFitFits DEF CanAllocate
<1> HIDE DEF w, b
<1>6. w <= Heap.size[b]
    BY <1>3, <1>4, <1>5, InnerFacts
<1>7. Taken(Heap, owned, b, w, Split(Unlink(Heap, b), b, w))
    BY <1>1, <1>3, <1>5, <1>6, TakeOK
<1> QED
    BY <1>2, <1>3, <1>5, <1>6, <1>7 DEF w, b

\* An allocate that succeeds keeps it.
LEMMA AllocateOkIInv ==
    ASSUME IInv, NEW n \in Requests, AllocateOk(n)
    PROVE  IInv'
<1> DEFINE w == Want(n)
           b == FirstFit(Heap, w)
           h == Split(Unlink(Heap, b), b, w)
<1>0. CanAllocate(n)
    BY DEF AllocateOk
<1>1. /\ free' = h.free /\ size' = h.size /\ next' = [h.next EXCEPT ![b] = Null]
      /\ owned' = owned \cup {b}
      /\ byteLeft' = HeapLeft - h.size[b]
      /\ miniByteLeft' = IF byteLeft' < HeapMini THEN byteLeft' ELSE HeapMini
      /\ live' = [p \in DOMAIN live \cup {Payload(b)} |->
                      IF p = Payload(b) THEN n ELSE live[p]]
      /\ endOfList' = EndAddr
    BY DEF AllocateOk
<1>2. /\ n \in Nat /\ 0 < n /\ n < AllocBit
      /\ Taken(Heap, owned, b, w, h)
    BY <1>0, AllocateFacts
<1>3. /\ HeapLeft = Cardinality(Cover(Heap.free, Heap.size))
      /\ HeapLeft \in Nat /\ HeapMini \in Nat /\ HeapMini <= HeapLeft
      /\ \A c \in owned : Heap.size[c] = size[c]
    BY HeapNow DEF Accounted
<1> HIDE DEF h, b
<1>4. /\ b \in Inner /\ b \in Node /\ b # StartBlock /\ b \notin owned
      /\ h \in HeapRecord /\ h.next \in [Node -> Node \cup {Null}] /\ b \notin h.free
      /\ HeapOK(h, owned \cup {b})
    BY <1>2, InnerFacts DEF Taken, HeapOK, HeapRecord
<1>5. /\ Current' \in HeapRecord
      /\ Current'.free = h.free /\ Current'.size = h.size
      /\ \A c \in h.free \cup {StartBlock} : Current'.next[c] = h.next[c]
    <2>1. next' \in [Node -> Node \cup {Null}]
        BY <1>1, <1>4
    <2>2. \A c \in h.free \cup {StartBlock} : next'[c] = h.next[c]
        BY <1>1, <1>4
    <2> QED
        BY <2>1, <2>2, <1>1, <1>4 DEF Current, HeapRecord
<1>6. HeapOK(Current', owned') /\ Cover(free', size') = Cover(h.free, h.size)
    <2>1. \A c \in h.free \cup (owned \cup {b}) \cup {StartBlock} : Current'.size[c] = h.size[c]
        BY <1>5
    <2>2. HeapOK(Current', owned \cup {b})
        BY <2>1, <1>4, <1>5, DeadWords
    <2> QED
        BY <2>2, <1>1
<1>7. /\ byteLeft' = Cardinality(Cover(free', size')) /\ byteLeft' \in Nat
      /\ miniByteLeft' \in Nat /\ miniByteLeft' <= byteLeft'
    <2>1. byteLeft' = Cardinality(Cover(free', size')) /\ byteLeft' \in Nat
        BY <1>1, <1>2, <1>3, <1>6 DEF Taken
    <2> QED
        BY <2>1, <1>1, <1>3
<1>8. HeapInv'
    BY <1>1, <1>6, <1>7, Layout DEF HeapInv, Ready, Accounted, Current
<1>9. DOMAIN live' = {Payload(c) : c \in owned'} /\ live' \in [DOMAIN live' -> Nat]
    BY <1>1, <1>2 DEF IInv, TypeInv
<1>10. TypeInv'
    BY <1>1, <1>4, <1>5, <1>7, <1>9 DEF IInv, TypeInv
<1>11. ASSUME NEW c \in owned'
       PROVE  /\ live'[Payload(c)] \in Nat
              /\ 0 < live'[Payload(c)] /\ live'[Payload(c)] < AllocBit
              /\ Want(live'[Payload(c)]) <= size'[c]
              /\ size'[c] <= Want(live'[Payload(c)]) + MiniBlockSize
    <2>1. CASE c = b
        <3>1. live'[Payload(c)] = n
            BY <2>1, <1>1
        <3> QED
            BY <2>1, <3>1, <1>1, <1>2 DEF Taken
    <2>2. CASE c # b
        <3>1. c \in owned /\ c \in Inner
            BY <2>2, <1>1, <1>11 DEF IInv, TypeInv
        <3>2. Payload(c) # Payload(b) /\ Payload(c) \in DOMAIN live
            BY <2>2, <3>1, <1>4, PayloadInjective DEF IInv, TypeInv
        <3>3. live'[Payload(c)] = live[Payload(c)]
            BY <3>2, <1>1
        <3>4. size'[c] = size[c]
            BY <3>1, <1>1, <1>2, <1>3 DEF Taken
        <3> QED
            BY <3>1, <3>3, <3>4 DEF IInv, Held
    <2> QED
        BY <2>1, <2>2
<1>12. Held'
    BY <1>11 DEF Held, Payload
<1> QED
    BY <1>8, <1>10, <1>12 DEF IInv

\* memory_manager_free keeps it.
LEMMA FreeOkIInv ==
    ASSUME IInv, NEW p \in Pointers, FreeOk(p)
    PROVE  IInv'
<1> DEFINE b == p - StructSize
           r == InsertBlock(Current, b)
<1>1. /\ b \in owned
      /\ owned' = owned \ {b}
      /\ byteLeft' = byteLeft + size[b]
      /\ free' = r.free /\ size' = r.size /\ next' = r.next
      /\ live' = [q \in DOMAIN live \ {p} |-> live[q]]
      /\ endOfList' = endOfList /\ miniByteLeft' = miniByteLeft
    BY DEF FreeOk, Allocated, Install
<1>2. Ready /\ Accounted(Current, owned, byteLeft, miniByteLeft)
    BY <1>1 DEF IInv, HeapInv
<1>3. Inserted(Current, owned, b, r)
    <2> HIDE DEF b
    <2> QED
        BY <1>1, <1>2, InsertOK DEF Accounted
<1>4. p = Payload(b)
    <2>1. PICK c \in owned \cup free : p = Null \/ p = Payload(c)
        BY <1>1 DEF Pointers
    <2>2. p \in Int
        BY <2>1, InnerFacts, Layout DEF Payload, IInv, TypeInv, Current, HeapRecord
    <2> QED
        BY <2>2, Layout DEF Payload
<1> HIDE DEF r, b
<1>5. r \in HeapRecord /\ HeapOK(r, owned \ {b})
    BY <1>3 DEF Inserted, HeapOK
<1>6. Current' = r
    BY <1>1, <1>5 DEF Current, HeapRecord
<1>7. /\ byteLeft' = Cardinality(Cover(free', size')) /\ byteLeft' \in Nat
      /\ miniByteLeft' \in Nat /\ miniByteLeft' <= byteLeft'
    <2>1. Cardinality(Cover(free', size')) = Cardinality(Cover(free \cup {b}, size))
        BY <1>1, <1>3, CurrentFields DEF Inserted
    <2>2. /\ size \in [Node -> Nat] /\ Tiles(free \cup owned, size)
          /\ free \subseteq free \cup owned /\ b \in free \cup owned /\ b \notin free
          /\ byteLeft = Cardinality(Cover(free, size))
          /\ byteLeft \in Nat /\ miniByteLeft \in Nat /\ miniByteLeft <= byteLeft
        BY <1>1, <1>2, CurrentFields DEF Accounted, HeapOK
    <2>3. Cardinality(Cover(free \cup {b}, size)) = Cardinality(Cover(free, size)) + size[b]
        BY <2>2, CoverAdd
    <2>4. size[b] \in Nat
        BY <2>2, EndsInHeap
    <2> QED
        BY <2>1, <2>2, <2>3, <2>4, <1>1
<1>8. HeapInv'
    BY <1>1, <1>2, <1>5, <1>6, <1>7 DEF HeapInv, Ready, Accounted, Current
<1>9. \A c \in owned \ {b} : c \in Inner /\ Payload(c) # p /\ Payload(c) \in DOMAIN live
    BY <1>1, <1>4, PayloadInjective DEF IInv, TypeInv
<1>10. DOMAIN live' = {Payload(c) : c \in owned'} /\ live' \in [DOMAIN live' -> Nat]
    <2>1. DOMAIN live' = DOMAIN live \ {p} /\ DOMAIN live = {Payload(c) : c \in owned}
        BY <1>1 DEF IInv, TypeInv
    <2>2. DOMAIN live' = {Payload(c) : c \in owned'}
        BY <2>1, <1>1, <1>4, <1>9
    <2> QED
        BY <2>2, <1>1 DEF IInv, TypeInv
<1>11. TypeInv'
    BY <1>1, <1>5, <1>6, <1>7, <1>10 DEF IInv, TypeInv
<1>12. \A c \in owned' : live'[Payload(c)] = live[Payload(c)] /\ size'[c] = size[c]
    BY <1>1, <1>3, <1>9, CurrentFields DEF Inserted
<1>13. Held'
    BY <1>1, <1>12 DEF IInv, Held, Payload
<1> QED
    BY <1>8, <1>11, <1>13 DEF IInv

\* The bytes an application writes are its own: no header in use is among them.
LEMMA AppFillIInv ==
    ASSUME IInv, NEW p \in DOMAIN live, AppFill(p)
    PROVE  IInv'
<1>1. PICK b \in owned : p = Payload(b)
    BY DEF IInv, TypeInv
<1>2. /\ Ready /\ Accounted(Current, owned, byteLeft, miniByteLeft)
      /\ Current \in HeapRecord
    BY DEF IInv, TypeInv, HeapInv
<1>3. /\ free \subseteq Inner /\ owned \subseteq Inner
      /\ size \in [Node -> Nat] /\ next \in [Node -> Node \cup {Null}]
      /\ Tiles(free \cup owned, size)
    BY <1>2, CurrentFields DEF Accounted, HeapOK
<1>4. /\ b \in Nat /\ size[b] \in Nat /\ b + size[b] <= EndAddr /\ p = b + StructSize
      /\ live[p] \in Nat /\ p + live[p] <= b + size[b]
    <2>1. b \in free \cup owned
        OBVIOUS
    <2>2. b \in Nat /\ size[b] \in Nat /\ b + size[b] <= EndAddr
        BY <2>1, <1>3, EndsInHeap
    <2>3. /\ live[p] \in Nat /\ 0 < live[p] /\ live[p] < AllocBit
          /\ Want(live[p]) <= size[b]
        BY <1>1 DEF IInv, Held
    <2>4. Want(live[p]) \in Nat /\ Want(live[p]) >= live[p] + StructSize
        BY <2>3, WantFacts
    <2> QED
        BY <2>2, <2>3, <2>4, <1>1, Layout DEF Payload
<1>5. ASSUME NEW c \in free \cup owned \cup {StartBlock}
      PROVE  c \in Node /\ c \notin Overwritten(p)
    <2>1. c \in Node /\ c \in Nat
        BY <1>3, InnerFacts, Layout
    <2>2. ASSUME c \in Overwritten(p)
          PROVE  FALSE
        <3>1. b < c /\ c < b + size[b]
            BY <2>1, <2>2, <1>4, Layout DEF Overwritten
        <3>2. c # StartBlock
            BY <3>1, <1>3, InnerFacts, Layout
        <3> QED
            BY <3>1, <3>2, <2>1, <1>3, <1>4 DEF Tiles
    <2> QED
        BY <2>1, <2>2
<1>6. /\ size' \in [Node -> Nat] /\ next' \in [Node -> Node \cup {Null}]
      /\ \A c \in Node \ Overwritten(p) : size'[c] = size[c] /\ next'[c] = next[c]
      /\ free' = free /\ owned' = owned /\ live' = live /\ endOfList' = endOfList
      /\ byteLeft' = byteLeft /\ miniByteLeft' = miniByteLeft
    BY <1>3, SizesAssumption, Layout DEF AppFill
<1>7. Current' \in HeapRecord
    BY <1>3, <1>6 DEF Current, HeapRecord
<1>8. HeapOK(Current', owned) /\ Cover(free', size') = Cover(free, size)
    <2>1. /\ Current'.free = Current.free
          /\ \A c \in Current.free \cup owned \cup {StartBlock} :
                 Current'.size[c] = Current.size[c]
          /\ \A c \in Current.free \cup {StartBlock} : Current'.next[c] = Current.next[c]
        BY <1>5, <1>6 DEF Current
    <2>2. Current'.size = size' /\ Current'.free = free'
        BY DEF Current
    <2>3. HeapOK(Current, owned)
        BY <1>2 DEF Accounted
    <2>4. /\ HeapOK(Current', owned)
          /\ Cover(Current'.free, Current'.size) = Cover(Current.free, Current.size)
        BY <2>1, <2>3, <1>7, DeadWords
    <2> QED
        BY <2>2, <2>4, CurrentFields
<1>9. HeapInv'
    BY <1>2, <1>6, <1>8, CurrentFields DEF HeapInv, Ready, Accounted, Current
<1>10. TypeInv'
    BY <1>6, <1>7 DEF IInv, TypeInv
<1>11. Held'
    BY <1>5, <1>6 DEF IInv, Held, Payload
<1> QED
    BY <1>9, <1>10, <1>11 DEF IInv

\* Every step of the manager and of its application keeps the invariant.
LEMMA NextIInv == IInv /\ [Next]_vars => IInv'
<1> SUFFICES ASSUME IInv, [Next]_vars
             PROVE  IInv'
    OBVIOUS
<1>1. CASE StaticInit
    BY <1>1, StaticInitIInv
<1>2. ASSUME NEW n \in Requests, AllocateOk(n)
      PROVE  IInv'
    BY <1>2, AllocateOkIInv
<1>3. ASSUME NEW n \in Requests, AllocateFail(n)
      PROVE  IInv'
    BY <1>3, AllocateFailIInv
<1>4. ASSUME NEW p \in Pointers, FreeOk(p)
      PROVE  IInv'
    BY <1>4, FreeOkIInv
<1>5. ASSUME UNCHANGED vars
      PROVE  IInv'
    BY <1>5 DEF vars, IInv, TypeInv, Held, HeapInv, Ready, Accounted, Current, Payload
<1>6. ASSUME NEW p \in Pointers, FreeIgnored(p)
      PROVE  IInv'
    BY <1>5, <1>6 DEF FreeIgnored
<1>7. ASSUME NEW p \in DOMAIN live, AppFill(p)
      PROVE  IInv'
    BY <1>7, AppFillIInv
<1> QED
    BY <1>1, <1>2, <1>3, <1>4, <1>5, <1>6, <1>7 DEF Next

\* The inductive invariant holds in every reachable state.
THEOREM Inductive == Spec => []IInv
BY InitIInv, NextIInv, PTL DEF Spec

-----------------------------------------------------------------------------
(* What follows from the invariant *)

\* Every variable keeps its type; in particular memory_left never goes below
\* zero and the pointers held are exactly those of the allocated blocks.
THEOREM TypeCorrect == Spec => []TypeOK
<1>1. IInv => TypeOK
    BY CurrentFields DEF IInv, TypeInv, TypeOK, Inner
<1> QED
    BY <1>1, Inductive, PTL

\* The blocks cover the heap with neither gap nor overlap, for every buffer
\* and every sequence of allocations and frees.
THEOREM TilingHolds == Spec => []Tiling
<1>1. ASSUME IInv
      PROVE  Tiling
    <2>1. Ready => free \cap owned = {} /\ Tiles(free \cup owned, size)
        BY <1>1, CurrentFields DEF IInv, HeapInv, Accounted, HeapOK
    <2> QED
        BY <2>1 DEF Tiling, Tiles, Blocks, EndOf
<1> QED
    BY <1>1, Inductive, PTL

\* No two neighbouring blocks are free.
THEOREM CoalescedHolds == Spec => []Coalesced
<1>1. ASSUME IInv
      PROVE  Coalesced
    <2>1. NoPair(free, size)
        BY <1>1, CurrentFields DEF IInv, HeapInv, Accounted, HeapOK, NoPair
    <2> QED
        BY <2>1 DEF Coalesced, NoPair, EndOf
<1> QED
    BY <1>1, Inductive, PTL

\* memory_left is the number of bytes in free blocks.
THEOREM ByteLeftExactHolds == Spec => []ByteLeftExact
<1>1. ASSUME IInv, Ready
      PROVE  byteLeft = Cardinality(Cover(free, size)) /\ miniByteLeft <= byteLeft
    BY <1>1, CurrentFields DEF IInv, HeapInv, Accounted
<1>2. ASSUME IInv
      PROVE  UNION {b .. EndOf(b) - 1 : b \in free} = Cover(free, size)
    <2>1. ASSUME NEW b \in free
          PROVE  EndOf(b) - 1 = b + size[b] - 1
        <3>1. b \in Nat /\ size[b] \in Nat
            BY <1>2, CurrentFields, InnerFacts DEF IInv, TypeInv
        <3> QED
            BY <3>1 DEF EndOf
    <2> QED
        BY <2>1 DEF Cover
<1>3. IInv => ByteLeftExact
    BY <1>1, <1>2, Zenon DEF ByteLeftExact
<1> QED
    BY <1>3, Inductive, PTL

\* A block exceeds its request by a bounded amount.
THEOREM BoundedWasteHolds == Spec => []BoundedWaste
<1>1. ASSUME IInv, NEW p \in DOMAIN live
      PROVE  /\ Want(live[p]) <= size[p - StructSize]
             /\ size[p - StructSize] <= Want(live[p]) + MiniBlockSize
    <2>1. PICK b \in owned : p = Payload(b)
        BY <1>1 DEF IInv, TypeInv
    <2>2. p - StructSize = b
        BY <2>1, <1>1, InnerFacts, Layout DEF Payload, IInv, TypeInv
    <2> QED
        BY <2>1, <2>2, <1>1 DEF IInv, Held
<1>2. IInv => BoundedWaste
    BY <1>1 DEF BoundedWaste
<1> QED
    BY <1>2, Inductive, PTL

\* Once everything is freed, the heap is one block again.
THEOREM FullRecoveryHolds == Spec => []FullRecovery
<1>1. ASSUME IInv, Ready, owned = {}
      PROVE  /\ free = {HeapStart}
             /\ size[HeapStart] = EndAddr - HeapStart
             /\ byteLeft = EndAddr - HeapStart
    <2>1. /\ Tiles(free, size) /\ NoPair(free, size) /\ size \in [Node -> Nat]
          /\ byteLeft = Cardinality(Cover(free, size))
        <3>1. free \cup owned = free
            BY <1>1
        <3> QED
            BY <3>1, <1>1, CurrentFields DEF IInv, HeapInv, Accounted, HeapOK, TypeInv
    <2>2. HeapStart \in free /\ HeapStart + size[HeapStart] = EndAddr
        BY <2>1 DEF Tiles, NoPair
    <2>3. size[HeapStart] = EndAddr - HeapStart /\ size[HeapStart] \in Nat
        BY <2>1, <2>2, Layout
    <2>4. free = {HeapStart}
        <3>1. ASSUME NEW c \in free, c # HeapStart
              PROVE  FALSE
            <4>1. c \in Inner
                BY <2>1 DEF Tiles
            <4>2. HeapStart < c /\ c < EndAddr /\ c \in Nat
                BY <4>1, <3>1, InnerFacts, Layout
            <4>3. EndAddr <= c
                BY <4>2, <2>1, <2>2 DEF Tiles
            <4> QED
                BY <4>2, <4>3, Layout
        <3> QED
            BY <2>2, <3>1
    <2>5. Cardinality(Cover({} \cup {HeapStart}, size))
            = Cardinality(Cover({}, size)) + size[HeapStart]
        BY <2>1, <2>2, CoverAdd
    <2>6. Cover({}, size) = {}
        BY DEF Cover
    <2>7. Cardinality(Cover(free, size)) = size[HeapStart]
        <3>1. {} \cup {HeapStart} = free
            BY <2>4
        <3>2. Cardinality(Cover({}, size)) = 0
            BY <2>6, FS_EmptySet
        <3>3. Cardinality(Cover(free, size)) = 0 + size[HeapStart]
            BY <3>1, <3>2, <2>5
        <3> QED
            BY <3>3, <2>3
    <2> QED
        BY <2>1, <2>3, <2>4, <2>7
<1>2. IInv => FullRecovery
    BY <1>1 DEF FullRecovery
<1> QED
    BY <1>2, Inductive, PTL

=============================================================================
