--------------------------- MODULE MemoryManager ---------------------------
(***************************************************************************)
(* The heap of rtos/src/memory_manager.c: a first-fit allocator over one   *)
(* caller-supplied buffer, with a singly linked list of free blocks kept   *)
(* in address order and neighbouring free blocks merged.                   *)
(*                                                                         *)
(* A block is named by the address of its BlockLink_t header.  size and    *)
(* next are the two header words, for every aligned address of the heap,   *)
(* so that a word the code no longer uses keeps its stale value; the       *)
(* allocated bit of xBlockSize is the set owned.  free is the set of       *)
(* blocks on the list: the code's two loops over the list are written as   *)
(* choices from it, which FreeListExact justifies.  live is the            *)
(* application's side: the pointers it holds and the bytes it asked for.   *)
(***************************************************************************)
EXTENDS Naturals, FiniteSets

CONSTANTS Buff,      \* mmr->buff, as an address
          BuffSize,  \* mmr->buff_size
          LinkSize,  \* sizeof(BlockLink_t)
          AllocBit,  \* the top bit of a size_t, 2^(w-1)
          Requests   \* the sizes the application asks for

Align == 8                       \* mmr->align_byte
AlignDown(x) == x - (x % Align)  \* x & ~align_mask
AlignUp(x) == AlignDown(x + (Align - 1))
Word == 2 * AllocBit             \* size_t is arithmetic modulo Word

StructSize == AlignUp(LinkSize)
MiniBlockSize == 2 * StructSize
HeapStart == AlignUp(Buff)
EndAddr == AlignDown(Buff + BuffSize - StructSize)

Null == 0
StartBlock == 1                  \* &mmr->start_block, outside the buffer

Node == {StartBlock} \cup {a \in HeapStart .. EndAddr : a % Align = 0}

\* The buffer has room for the end marker and one header, and its size is
\* an ordinary size_t: prv_heap_init checks neither.
ASSUME SizesAssumption ==
    /\ Buff \in Nat /\ BuffSize \in Nat /\ LinkSize \in Nat /\ AllocBit \in Nat
    /\ Buff > StartBlock
    /\ LinkSize > 0
    /\ HeapStart + StructSize <= EndAddr
    /\ StructSize <= BuffSize
    /\ BuffSize < AllocBit
    /\ StructSize + Align <= AllocBit

ASSUME RequestsAssumption == Requests \subseteq 0 .. Word - 1

VARIABLES endOfList,     \* mmr->end_of_list, Null before the first allocate
          free,          \* blocks on the free list
          owned,         \* blocks whose allocated bit is set
          size,          \* xBlockSize without that bit
          next,          \* pxNextFreeBlock
          byteLeft,      \* mmr->byte_left
          miniByteLeft,  \* mmr->mini_byte_left
          live           \* [pointers the application holds -> bytes asked]

vars == <<endOfList, free, owned, size, next, byteLeft, miniByteLeft, live>>

NoLive == [p \in {} |-> 0]

-----------------------------------------------------------------------------
(* The free list as a record [free, size, next].                           *)

\* memset(buff, 0, buff_size), and start_block
BlankHeap == [free |-> {}, size |-> [a \in Node |-> 0], next |-> [a \in Node |-> Null]]

\* prv_heap_init: one free block over the whole heap, and the end marker.
HeapInit(h) ==
    [free |-> {HeapStart},
     size |-> [h.size EXCEPT ![StartBlock] = 0,
                             ![EndAddr] = 0,
                             ![HeapStart] = EndAddr - HeapStart],
     next |-> [h.next EXCEPT ![StartBlock] = HeapStart,
                             ![EndAddr] = Null,
                             ![HeapStart] = EndAddr]]

\* The list element after which a block at address b belongs.
Iterator(h, b) ==
    CHOOSE p \in h.free \cup {StartBlock} : p < b /\ h.next[p] >= b

\* Mutant of JoinsPrevious: the new block is never merged backwards.
NeverJoins(h, it, b) == FALSE

JoinsPrevious(h, it, b) == it + h.size[it] = b

\* Mutant of Absorbs: the end marker is merged like any free block.
AbsorbsEndMarker(end, nx) == end = nx

\* The following free block starts where the inserted one ends.
Absorbs(end, nx) == end = nx /\ nx # EndAddr

\* prv_insert_block_into_free_list: link b in address order, merged with the
\* free block before it, the one after it, or both.
InsertBlock(h, b) ==
    LET it     == Iterator(h, b)
        nx     == h.next[it]
        joins  == JoinsPrevious(h, it, b)
        b1     == IF joins THEN it ELSE b
        size1  == IF joins THEN [h.size EXCEPT ![it] = @ + h.size[b]] ELSE h.size
        absorb == Absorbs(b1 + size1[b1], nx)
        next1  == [h.next EXCEPT ![b1] = IF absorb THEN h.next[nx] ELSE nx]
    IN  [free |-> (h.free \ (IF absorb THEN {nx} ELSE {})) \cup {b1},
         size |-> IF absorb THEN [size1 EXCEPT ![b1] = @ + size1[nx]] ELSE size1,
         next |-> IF it # b1 THEN [next1 EXCEPT ![it] = b1] ELSE next1]

-----------------------------------------------------------------------------
(* memory_manager_allocate                                                 *)

\* A request plus its header, rounded up to the alignment.
Want(n) == IF n > 0 THEN AlignUp(n + StructSize) % Word ELSE 0

\* Mutant of TopBitClear: every size is accepted.
TopBitIgnored(n) == TRUE

\* The request's top bit is clear: no overflow in Want, no clash with AllocBit.
TopBitClear(n) == n < AllocBit

\* The heap allocate works on: initialised by the first call.
Ready == endOfList # Null
Current == [free |-> free, size |-> size, next |-> next]
Heap == IF Ready THEN Current ELSE HeapInit(Current)
HeapLeft == IF Ready THEN byteLeft ELSE EndAddr - HeapStart
HeapMini == IF Ready THEN miniByteLeft ELSE EndAddr - HeapStart

\* Mutant of Fits: a block of exactly the wanted size is passed over.
FitsStrictly(h, w) == {b \in h.free : h.size[b] > w}

\* The free blocks large enough, and the first of them on the list.
Fits(h, w) == {b \in h.free : h.size[b] >= w}
FirstFit(h, w) == CHOOSE b \in Fits(h, w) : \A c \in Fits(h, w) : b <= c

\* The tests of lines 146 and 172, and the outcome of the search.
CanAllocate(n) ==
    /\ TopBitClear(n)
    /\ Want(n) > 0
    /\ Want(n) <= HeapLeft
    /\ Fits(Heap, Want(n)) # {}

\* pxPreviousBlock->pxNextFreeBlock = pxBlock->pxNextFreeBlock
Unlink(h, b) ==
    LET prev == CHOOSE p \in h.free \cup {StartBlock} : h.next[p] = b
    IN  [free |-> h.free \ {b},
         size |-> h.size,
         next |-> [h.next EXCEPT ![prev] = h.next[b]]]

\* Mutants of Split: no block is ever split; the header keeps its old size.
NeverSplit(h, b, w) == h
SplitKeepsSize(h, b, w) ==
    LET rest == h.size[b] - w
    IN  IF rest > MiniBlockSize
        THEN InsertBlock([h EXCEPT !.size[b + w] = rest], b + w)
        ELSE h

\* Split off and free what block b has beyond w bytes, if that is worth it.
Split(h, b, w) ==
    LET rest == h.size[b] - w
    IN  IF rest > MiniBlockSize
        THEN InsertBlock([h EXCEPT !.size = [@ EXCEPT ![b + w] = rest, ![b] = w]], b + w)
        ELSE h

Install(h) == free' = h.free /\ size' = h.size /\ next' = h.next

Payload(b) == b + StructSize

AllocateOk(n) ==
    /\ CanAllocate(n)
    /\ LET b == FirstFit(Heap, Want(n))
           h == Split(Unlink(Heap, b), b, Want(n))
       IN  /\ free' = h.free
           /\ size' = h.size
           /\ next' = [h.next EXCEPT ![b] = Null]
           /\ owned' = owned \cup {b}
           /\ byteLeft' = HeapLeft - h.size[b]
           /\ miniByteLeft' = IF byteLeft' < HeapMini THEN byteLeft' ELSE HeapMini
           /\ live' = [p \in DOMAIN live \cup {Payload(b)} |->
                          IF p = Payload(b) THEN n ELSE live[p]]
    /\ endOfList' = EndAddr

\* A NULL return: only the initialisation of the heap remains.
AllocateFail(n) ==
    /\ ~CanAllocate(n)
    /\ Install(Heap)
    /\ byteLeft' = HeapLeft
    /\ miniByteLeft' = HeapMini
    /\ endOfList' = EndAddr
    /\ UNCHANGED <<owned, live>>

-----------------------------------------------------------------------------
(* memory_manager_free                                                     *)

\* Mutant of Allocated: free trusts its caller.
AssumedAllocated(b) == TRUE

\* The header has its allocated bit set and no next block.
Allocated(b) == b \in owned /\ next[b] = Null

FreeOk(p) ==
    LET b == p - StructSize
    IN  /\ p # Null
        /\ Allocated(b)
        /\ owned' = owned \ {b}
        /\ byteLeft' = byteLeft + size[b]
        /\ Install(InsertBlock(Current, b))
        /\ live' = [q \in DOMAIN live \ {p} |-> live[q]]
        /\ UNCHANGED <<endOfList, miniByteLeft>>

\* free(NULL), and a second free of a block that is still on the list.
FreeIgnored(p) ==
    /\ p = Null \/ ~Allocated(p - StructSize)
    /\ UNCHANGED vars

-----------------------------------------------------------------------------
\* Mutant of StaticInit: the buffer is not cleared.
StaticInitKeepsBuffer ==
    /\ endOfList' = Null
    /\ byteLeft' = 0
    /\ miniByteLeft' = 0
    /\ live' = NoLive
    /\ UNCHANGED <<free, owned, size, next>>

\* memory_manager_static_init: every earlier pointer is void.
StaticInit ==
    /\ endOfList' = Null
    /\ Install(BlankHeap)
    /\ owned' = {}
    /\ byteLeft' = 0
    /\ miniByteLeft' = 0
    /\ live' = NoLive

\* The application writes all of the n bytes it asked for: the header words
\* that overlap them hold its data, whatever it is.
Overwritten(p) == {a \in Node : a < p + live[p] /\ p < a + StructSize}

AppFill(p) ==
    /\ size' = [a \in Node |-> IF a \in Overwritten(p) THEN BuffSize ELSE size[a]]
    /\ next' = [a \in Node |-> IF a \in Overwritten(p) THEN HeapStart ELSE next[a]]
    /\ UNCHANGED <<endOfList, free, owned, byteLeft, miniByteLeft, live>>

Init ==
    /\ endOfList = Null
    /\ free = BlankHeap.free /\ size = BlankHeap.size /\ next = BlankHeap.next
    /\ owned = {}
    /\ byteLeft = 0
    /\ miniByteLeft = 0
    /\ live = NoLive

\* What the application may pass to free: NULL, a pointer it holds, or one
\* it has freed and whose block is still on the list.
Pointers == {Null} \cup {Payload(b) : b \in free \cup owned}

Next ==
    \/ StaticInit
    \/ \E n \in Requests : AllocateOk(n)
    \/ \E n \in Requests : AllocateFail(n)
    \/ \E p \in Pointers : FreeOk(p)
    \/ \E p \in Pointers : FreeIgnored(p)
    \/ \E p \in DOMAIN live : AppFill(p)

Spec == Init /\ [][Next]_vars

-----------------------------------------------------------------------------
(* Properties                                                              *)

Blocks == free \cup owned
EndOf(b) == b + size[b]

TypeOK ==
    /\ endOfList \in {Null, EndAddr}
    /\ free \subseteq Node \ {StartBlock, EndAddr}
    /\ owned \subseteq Node \ {StartBlock, EndAddr}
    /\ size \in [Node -> Nat]
    /\ next \in [Node -> Node \cup {Null}]
    /\ byteLeft \in Nat
    /\ miniByteLeft \in Nat
    /\ DOMAIN live = {Payload(b) : b \in owned}
    /\ live \in [DOMAIN live -> Nat]

\* The blocks, free and allocated, cover the heap from its aligned start to
\* the end marker with neither gap nor overlap, whatever the order of
\* allocations, splits, frees and merges: no byte is lost or handed out twice.
Tiling ==
    Ready =>
        /\ free \cap owned = {}
        /\ HeapStart \in Blocks
        /\ \A b \in Blocks : size[b] >= StructSize /\ EndOf(b) \in Blocks \cup {EndAddr}
        /\ \A b, c \in Blocks : b < c => EndOf(b) <= c

\* Two neighbouring free blocks are always merged: the job of
\* prv_insert_block_into_free_list on both sides of the block.
Coalesced == \A b, c \in free : EndOf(b) # c

\* Following pxNextFreeBlock from start_block visits the free blocks, every
\* one and nothing else, in increasing address, and stops at the end marker:
\* the loops of lines 18 and 178 terminate and see the list they expect.
FreeListExact ==
    LET len == Cardinality(free)
        at[k \in 0 .. len + 1] ==
            IF k = 0 THEN StartBlock
            ELSE IF at[k - 1] = Null THEN Null ELSE next[at[k - 1]]
    IN  Ready => /\ {at[k] : k \in 1 .. len} = free
                 /\ \A k \in 1 .. len : at[k - 1] < at[k]
                 /\ at[len + 1] = EndAddr
                 /\ next[EndAddr] = Null /\ size[EndAddr] = 0

\* memory_left() is exactly what the list holds, and the low-water mark is
\* never above it.
ByteLeftExact ==
    Ready => LET covered == UNION {b .. EndOf(b) - 1 : b \in free}
             IN  byteLeft = Cardinality(covered) /\ miniByteLeft <= byteLeft

\* When the application has freed all it got, the heap is again the single
\* block of prv_heap_init: no leak and no fragmentation survives.
FullRecovery ==
    Ready /\ owned = {} =>
        /\ free = {HeapStart}
        /\ size[HeapStart] = EndAddr - HeapStart
        /\ byteLeft = EndAddr - HeapStart

\* allocate() fails only when no run of unallocated bytes could hold the
\* request: neither the byte_left test nor an unmerged pair of free blocks
\* refuses a request that fits.
NoFalseFailure ==
    Ready => \A n \in Requests \ {0}, a \in Node \ {StartBlock} :
        (/\ TopBitClear(n)
         /\ a + Want(n) <= EndAddr
         /\ \A b \in owned : EndOf(b) <= a \/ a + Want(n) <= b)
        => CanAllocate(n)

\* A block is larger than its request needs by at most what was too small to
\* split off (prv_mini_block_size).
BoundedWaste ==
    \A p \in DOMAIN live :
        LET b == p - StructSize
        IN  Want(live[p]) <= size[b] /\ size[b] <= Want(live[p]) + MiniBlockSize

\* The manager implements the abstract heap: its refinement mapping is the
\* application's view live.
Abstract == INSTANCE AbstractHeap
ImplementsAbstractHeap == Abstract!Spec
=============================================================================
